--------------------------- MODULE EdxAuthProofs ---------------------------
(***************************************************************************)
(* The invariants of EdxAuth, for any number of workers, requests, faults  *)
(* and expiries.  The argument is the row lock: whoever is at an edX call  *)
(* or about to commit holds it, so the row cannot change under it, and a   *)
(* token is issued only against a credit that an expiry, a deletion or a   *)
(* fault has paid for.                                                     *)
(***************************************************************************)
EXTENDS EdxAuth, TLAPS

\* Shape of the state, without the bounds of TypeOK.
AnyAuth == [exists: BOOLEAN, token: Nat, fresh: BOOLEAN]
AnyHandler == [pc: {"idle", "delete", "ensure", "authorize", "check", "lock",
                    "refresh", "commit"},
               client: BOOLEAN, inst: AnyAuth]
AnyCount == [requests: Nat, expiries: Nat, revoked: Nat, faults: Nat,
             issued: Nat, deleted: Nat]
Shape ==
    /\ auth \in AnyAuth
    /\ synced \in BOOLEAN
    /\ lock \in Workers \cup {NoWorker}
    /\ proc \in [Workers -> AnyHandler]
    /\ count \in AnyCount

\* Who works on the row holds the lock, and holds it no longer than that.
LockHeld ==
    \A w \in Workers :
        proc[w].pc \in {"authorize", "refresh", "commit"} <=> lock = w

\* What a holder has in hand: the stored row, or newly issued tokens.
InHand ==
    \A w \in Workers :
        /\ proc[w].pc = "refresh" => auth.exists /\ proc[w].inst.token = auth.token
        /\ proc[w].pc \in {"authorize", "refresh", "commit"} => ~auth.fresh
        /\ proc[w].pc = "commit" =>
              /\ proc[w].inst.exists /\ proc[w].inst.fresh
              /\ proc[w].inst.token # 0

\* A row that does not exist is not fresh.
Absent == ~auth.exists => ~auth.fresh

Committing == \E w \in Workers : proc[w].pc = "commit"

\* The stored token is live, or its successor is about to be stored.
Rotation ==
    count.faults = 0 /\ count.revoked = 0 =>
        /\ auth.exists => auth.token \in live \/ Committing
        /\ \A w \in Workers : proc[w].pc = "commit" => proc[w].inst.token \in live

\* A token that may still be issued has been paid for.
Credit == IF auth.fresh \/ Committing THEN 0 ELSE 1
Paid == count.issued + Credit
          <= 1 + count.expiries + count.deleted + count.faults

IInv ==
    /\ Shape
    /\ LockHeld
    /\ InHand
    /\ Absent
    /\ StoredTokensComplete
    /\ Rotation
    /\ Paid

-----------------------------------------------------------------------------
LEMMA InitInvariant == Init => IInv
<1>0. SUFFICES ASSUME Init PROVE IInv
  OBVIOUS
<1> USE EdxAuthAssumption
<1>1. Shape
  BY <1>0 DEF Init, Shape, AnyAuth, AnyHandler, AnyCount, NoAuth, Idle
<1>2. LockHeld /\ InHand /\ Absent /\ StoredTokensComplete /\ Rotation
  BY <1>0 DEF Init, LockHeld, InHand, Absent, StoredTokensComplete, Rotation,
         Committing, NoAuth, Idle
<1>3. Paid
  BY <1>0 DEF Init, Paid, Credit, Committing, NoAuth, Idle
<1> QED
  BY <1>1, <1>2, <1>3 DEF IInv

(* Every action preserves the invariant *)

LEMMA ProcShape ==
    ASSUME Shape, NEW w \in Workers, NEW h \in AnyHandler,
           proc' = [proc EXCEPT ![w] = h]
    PROVE  proc' \in [Workers -> AnyHandler]
  BY DEF Shape

LEMMA RequestInvariant ==
    ASSUME NEW w \in Workers, NEW client \in BOOLEAN, IInv, Request(w, client) PROVE IInv'
<1> USE EdxAuthAssumption DEF Request, Counts, Becomes, Idle, NoAuth
<1>1. Shape'
  <2>1. auth' \in AnyAuth /\ synced' \in BOOLEAN /\ lock' \in Workers \cup {NoWorker}
    BY DEF IInv, Shape, AnyAuth, AnyHandler
  <2>2. proc' \in [Workers -> AnyHandler]
    BY DEF IInv, Shape, AnyAuth, AnyHandler
  <2>3. count' \in AnyCount
    BY DEF IInv, Shape, AnyCount
  <2> QED
    BY <2>1, <2>2, <2>3 DEF Shape
<1>2. LockHeld'
  BY DEF IInv, Shape, AnyHandler, LockHeld
<1>3. InHand' /\ Absent' /\ StoredTokensComplete'
  BY DEF IInv, Shape, AnyAuth, AnyHandler, AnyCount, LockHeld, InHand, Absent,
         StoredTokensComplete
<1>4. Rotation'
  BY DEF IInv, Shape, AnyAuth, AnyHandler, AnyCount, LockHeld, InHand,
         Rotation, Committing
<1>5. Paid'
  BY DEF IInv, Shape, AnyAuth, AnyHandler, AnyCount, LockHeld, InHand, Absent,
         Paid, Credit, Committing
<1> QED
  BY <1>1, <1>2, <1>3, <1>4, <1>5 DEF IInv

LEMMA RegenerateInvariant ==
    ASSUME NEW w \in Workers, IInv, Regenerate(w) PROVE IInv'
<1> USE EdxAuthAssumption DEF Regenerate, Counts, Becomes, Idle, NoAuth
<1>1. Shape'
  <2>1. auth' \in AnyAuth /\ synced' \in BOOLEAN /\ lock' \in Workers \cup {NoWorker}
    BY DEF IInv, Shape, AnyAuth, AnyHandler
  <2>2. proc' \in [Workers -> AnyHandler]
    BY DEF IInv, Shape, AnyAuth, AnyHandler
  <2>3. count' \in AnyCount
    BY DEF IInv, Shape, AnyCount
  <2> QED
    BY <2>1, <2>2, <2>3 DEF Shape
<1>2. LockHeld'
  BY DEF IInv, Shape, AnyHandler, LockHeld
<1>3. InHand' /\ Absent' /\ StoredTokensComplete'
  BY DEF IInv, Shape, AnyAuth, AnyHandler, AnyCount, LockHeld, InHand, Absent,
         StoredTokensComplete
<1>4. Rotation'
  BY DEF IInv, Shape, AnyAuth, AnyHandler, AnyCount, LockHeld, InHand,
         Rotation, Committing
<1>5. Paid'
  BY DEF IInv, Shape, AnyAuth, AnyHandler, AnyCount, LockHeld, InHand, Absent,
         Paid, Credit, Committing
<1> QED
  BY <1>1, <1>2, <1>3, <1>4, <1>5 DEF IInv

LEMMA DeleteAuthInvariant ==
    ASSUME NEW w \in Workers, IInv, DeleteAuth(w) PROVE IInv'
<1> USE EdxAuthAssumption DEF DeleteAuth, Lockable, Goto, Becomes, NoAuth
<1>1. Shape'
  <2>1. auth' \in AnyAuth /\ synced' \in BOOLEAN /\ lock' \in Workers \cup {NoWorker}
    BY DEF IInv, Shape, AnyAuth, AnyHandler
  <2>2. proc' \in [Workers -> AnyHandler]
    BY DEF IInv, Shape, AnyAuth, AnyHandler
  <2>3. count' \in AnyCount
    BY DEF IInv, Shape, AnyCount
  <2> QED
    BY <2>1, <2>2, <2>3 DEF Shape
<1>2. LockHeld'
  BY DEF IInv, Shape, AnyHandler, LockHeld
<1>3. InHand' /\ Absent' /\ StoredTokensComplete'
  BY DEF IInv, Shape, AnyAuth, AnyHandler, AnyCount, LockHeld, InHand, Absent,
         StoredTokensComplete
<1>4. Rotation'
  BY DEF IInv, Shape, AnyAuth, AnyHandler, AnyCount, LockHeld, InHand,
         Rotation, Committing
<1>5. Paid'
  BY DEF IInv, Shape, AnyAuth, AnyHandler, AnyCount, LockHeld, InHand, Absent,
         Paid, Credit, Committing
<1> QED
  BY <1>1, <1>2, <1>3, <1>4, <1>5 DEF IInv

LEMMA EnsureAuthInvariant ==
    ASSUME NEW w \in Workers, IInv, EnsureAuth(w) PROVE IInv'
<1> USE EdxAuthAssumption DEF EnsureAuth, Lockable, Goto, Ensured, Becomes, Idle, NoAuth
<1>1. Shape'
  <2>1. auth' \in AnyAuth /\ synced' \in BOOLEAN /\ lock' \in Workers \cup {NoWorker}
    BY DEF IInv, Shape, AnyAuth, AnyHandler
  <2>2. proc' \in [Workers -> AnyHandler]
    <3>1. Idle \in AnyHandler
      BY DEF IInv, Shape, AnyAuth, AnyHandler, AnyCount
    <3>2. [proc[w] EXCEPT !.pc = "check"] \in AnyHandler
      BY DEF IInv, Shape, AnyAuth, AnyHandler, AnyCount
    <3>3. [proc[w] EXCEPT !.pc = "authorize"] \in AnyHandler
      BY DEF IInv, Shape, AnyAuth, AnyHandler, AnyCount
    <3> QED
      BY <3>1, <3>2, <3>3, ProcShape DEF IInv
  <2>3. count' \in AnyCount
    BY DEF IInv, Shape, AnyCount
  <2> QED
    BY <2>1, <2>2, <2>3 DEF Shape
<1>2. LockHeld'
  BY DEF IInv, Shape, AnyHandler, LockHeld
<1>3. InHand' /\ Absent' /\ StoredTokensComplete'
  BY DEF IInv, Shape, AnyAuth, AnyHandler, AnyCount, LockHeld, InHand, Absent,
         StoredTokensComplete
<1>4. Rotation'
  BY DEF IInv, Shape, AnyAuth, AnyHandler, AnyCount, LockHeld, InHand,
         Rotation, Committing
<1>5. Paid'
  BY DEF IInv, Shape, AnyAuth, AnyHandler, AnyCount, LockHeld, InHand, Absent,
         Paid, Credit, Committing
<1> QED
  BY <1>1, <1>2, <1>3, <1>4, <1>5 DEF IInv

LEMMA AuthorizeInvariant ==
    ASSUME NEW w \in Workers, IInv, Authorize(w) PROVE IInv'
<1> USE EdxAuthAssumption DEF Authorize, Becomes, Issued
<1>1. Shape'
  <2>1. auth' \in AnyAuth /\ synced' \in BOOLEAN /\ lock' \in Workers \cup {NoWorker}
    BY DEF IInv, Shape, AnyAuth, AnyHandler
  <2>2. proc' \in [Workers -> AnyHandler]
    <3> DEFINE new == Issued(count'.issued)
    <3>1. new \in AnyAuth
      BY DEF IInv, Shape, AnyAuth, AnyCount
    <3>2. proc[w] \in AnyHandler
      BY DEF IInv, Shape
    <3> HIDE DEF new
    <3>3. [proc[w] EXCEPT !.pc = "commit", !.inst = new] \in AnyHandler
      BY <3>1, <3>2 DEF AnyHandler
    <3> QED
      BY <3>3, ProcShape DEF IInv, new
  <2>3. count' \in AnyCount
    BY DEF IInv, Shape, AnyCount
  <2> QED
    BY <2>1, <2>2, <2>3 DEF Shape
<1>2. LockHeld'
  BY DEF IInv, Shape, AnyHandler, LockHeld
<1>3. InHand' /\ Absent' /\ StoredTokensComplete'
  BY DEF IInv, Shape, AnyAuth, AnyHandler, AnyCount, LockHeld, InHand, Absent,
         StoredTokensComplete
<1>4. Rotation'
  BY DEF IInv, Shape, AnyAuth, AnyHandler, AnyCount, LockHeld, InHand,
         Rotation, Committing
<1>5. Paid'
  BY DEF IInv, Shape, AnyAuth, AnyHandler, AnyCount, LockHeld, InHand, Absent,
         Paid, Credit, Committing
<1> QED
  BY <1>1, <1>2, <1>3, <1>4, <1>5 DEF IInv

LEMMA AuthorizeFailsInvariant ==
    ASSUME NEW w \in Workers, IInv, AuthorizeFails(w) PROVE IInv'
<1> USE EdxAuthAssumption DEF AuthorizeFails, Counts, RollBack, Becomes, Idle, NoAuth
<1>1. Shape'
  <2>1. auth' \in AnyAuth /\ synced' \in BOOLEAN /\ lock' \in Workers \cup {NoWorker}
    BY DEF IInv, Shape, AnyAuth, AnyHandler
  <2>2. proc' \in [Workers -> AnyHandler]
    BY DEF IInv, Shape, AnyAuth, AnyHandler
  <2>3. count' \in AnyCount
    BY DEF IInv, Shape, AnyCount
  <2> QED
    BY <2>1, <2>2, <2>3 DEF Shape
<1>2. LockHeld'
  BY DEF IInv, Shape, AnyHandler, LockHeld
<1>3. InHand' /\ Absent' /\ StoredTokensComplete'
  BY DEF IInv, Shape, AnyAuth, AnyHandler, AnyCount, LockHeld, InHand, Absent,
         StoredTokensComplete
<1>4. Rotation'
  BY DEF IInv, Shape, AnyAuth, AnyHandler, AnyCount, LockHeld, InHand,
         Rotation, Committing
<1>5. Paid'
  BY DEF IInv, Shape, AnyAuth, AnyHandler, AnyCount, LockHeld, InHand, Absent,
         Paid, Credit, Committing
<1> QED
  BY <1>1, <1>2, <1>3, <1>4, <1>5 DEF IInv

LEMMA CheckAuthInvariant ==
    ASSUME NEW w \in Workers, IInv, CheckAuth(w) PROVE IInv'
<1> USE EdxAuthAssumption DEF CheckAuth, Goto, Becomes, Idle, NoAuth
<1>1. Shape'
  <2>1. auth' \in AnyAuth /\ synced' \in BOOLEAN /\ lock' \in Workers \cup {NoWorker}
    BY DEF IInv, Shape, AnyAuth, AnyHandler
  <2>2. proc' \in [Workers -> AnyHandler]
    <3>1. Idle \in AnyHandler
      BY DEF IInv, Shape, AnyAuth, AnyHandler, AnyCount
    <3>2. [proc[w] EXCEPT !.pc = "lock"] \in AnyHandler
      BY DEF IInv, Shape, AnyAuth, AnyHandler, AnyCount
    <3> QED
      BY <3>1, <3>2, ProcShape DEF IInv
  <2>3. count' \in AnyCount
    BY DEF IInv, Shape, AnyCount
  <2> QED
    BY <2>1, <2>2, <2>3 DEF Shape
<1>2. LockHeld'
  BY DEF IInv, Shape, AnyHandler, LockHeld
<1>3. InHand' /\ Absent' /\ StoredTokensComplete'
  BY DEF IInv, Shape, AnyAuth, AnyHandler, AnyCount, LockHeld, InHand, Absent,
         StoredTokensComplete
<1>4. Rotation'
  BY DEF IInv, Shape, AnyAuth, AnyHandler, AnyCount, LockHeld, InHand,
         Rotation, Committing
<1>5. Paid'
  BY DEF IInv, Shape, AnyAuth, AnyHandler, AnyCount, LockHeld, InHand, Absent,
         Paid, Credit, Committing
<1> QED
  BY <1>1, <1>2, <1>3, <1>4, <1>5 DEF IInv

LEMMA LockAuthInvariant ==
    ASSUME NEW w \in Workers, IInv, LockAuth(w) PROVE IInv'
<1> USE EdxAuthAssumption DEF LockAuth, Lockable, Refreshing, Becomes, Idle, NoAuth
<1>1. Shape'
  <2>1. auth' \in AnyAuth /\ synced' \in BOOLEAN /\ lock' \in Workers \cup {NoWorker}
    BY DEF IInv, Shape, AnyAuth, AnyHandler
  <2>2. proc' \in [Workers -> AnyHandler]
    <3>1. Idle \in AnyHandler
      BY DEF IInv, Shape, AnyAuth, AnyHandler, AnyCount
    <3>2. Refreshing \in AnyHandler
      BY DEF IInv, Shape, AnyAuth, AnyHandler, AnyCount
    <3> QED
      BY <3>1, <3>2, ProcShape DEF IInv
  <2>3. count' \in AnyCount
    BY DEF IInv, Shape, AnyCount
  <2> QED
    BY <2>1, <2>2, <2>3 DEF Shape
<1>2. LockHeld'
  BY DEF IInv, Shape, AnyHandler, LockHeld
<1>3. InHand' /\ Absent' /\ StoredTokensComplete'
  BY DEF IInv, Shape, AnyAuth, AnyHandler, AnyCount, LockHeld, InHand, Absent,
         StoredTokensComplete
<1>4. Rotation'
  BY DEF IInv, Shape, AnyAuth, AnyHandler, AnyCount, LockHeld, InHand,
         Rotation, Committing
<1>5. Paid'
  BY DEF IInv, Shape, AnyAuth, AnyHandler, AnyCount, LockHeld, InHand, Absent,
         Paid, Credit, Committing
<1> QED
  BY <1>1, <1>2, <1>3, <1>4, <1>5 DEF IInv

LEMMA RefreshInvariant ==
    ASSUME NEW w \in Workers, IInv, Refresh(w) PROVE IInv'
<1> USE EdxAuthAssumption DEF Refresh, Becomes, Issued
<1>1. Shape'
  <2>1. auth' \in AnyAuth /\ synced' \in BOOLEAN /\ lock' \in Workers \cup {NoWorker}
    BY DEF IInv, Shape, AnyAuth, AnyHandler
  <2>2. proc' \in [Workers -> AnyHandler]
    <3> DEFINE new == Issued(count'.issued)
    <3>1. new \in AnyAuth
      BY DEF IInv, Shape, AnyAuth, AnyCount
    <3>2. proc[w] \in AnyHandler
      BY DEF IInv, Shape
    <3> HIDE DEF new
    <3>3. [proc[w] EXCEPT !.pc = "commit", !.inst = new] \in AnyHandler
      BY <3>1, <3>2 DEF AnyHandler
    <3> QED
      BY <3>3, ProcShape DEF IInv, new
  <2>3. count' \in AnyCount
    BY DEF IInv, Shape, AnyCount
  <2> QED
    BY <2>1, <2>2, <2>3 DEF Shape
<1>2. LockHeld'
  BY DEF IInv, Shape, AnyHandler, LockHeld
<1>3. InHand' /\ Absent' /\ StoredTokensComplete'
  BY DEF IInv, Shape, AnyAuth, AnyHandler, AnyCount, LockHeld, InHand, Absent,
         StoredTokensComplete
<1>4. Rotation'
  BY DEF IInv, Shape, AnyAuth, AnyHandler, AnyCount, LockHeld, InHand,
         Rotation, Committing
<1>5. Paid'
  BY DEF IInv, Shape, AnyAuth, AnyHandler, AnyCount, LockHeld, InHand, Absent,
         Paid, Credit, Committing
<1> QED
  BY <1>1, <1>2, <1>3, <1>4, <1>5 DEF IInv

LEMMA InvalidGrantInvariant ==
    ASSUME NEW w \in Workers, IInv, InvalidGrant(w) PROVE IInv'
<1> USE EdxAuthAssumption DEF InvalidGrant, Goto, RollBack, Becomes, Idle, NoAuth
<1>1. Shape'
  <2>1. auth' \in AnyAuth /\ synced' \in BOOLEAN /\ lock' \in Workers \cup {NoWorker}
    BY DEF IInv, Shape, AnyAuth, AnyHandler
  <2>2. proc' \in [Workers -> AnyHandler]
    <3>1. Idle \in AnyHandler
      BY DEF IInv, Shape, AnyAuth, AnyHandler, AnyCount
    <3>2. [proc[w] EXCEPT !.pc = "authorize"] \in AnyHandler
      BY DEF IInv, Shape, AnyAuth, AnyHandler, AnyCount
    <3> QED
      BY <3>1, <3>2, ProcShape DEF IInv
  <2>3. count' \in AnyCount
    BY DEF IInv, Shape, AnyCount
  <2> QED
    BY <2>1, <2>2, <2>3 DEF Shape
<1>2. LockHeld'
  BY DEF IInv, Shape, AnyHandler, LockHeld
<1>3. InHand' /\ Absent' /\ StoredTokensComplete'
  BY DEF IInv, Shape, AnyAuth, AnyHandler, AnyCount, LockHeld, InHand, Absent,
         StoredTokensComplete
<1>4. Rotation'
  BY DEF IInv, Shape, AnyAuth, AnyHandler, AnyCount, LockHeld, InHand,
         Rotation, Committing
<1>5. Paid'
  BY DEF IInv, Shape, AnyAuth, AnyHandler, AnyCount, LockHeld, InHand, Absent,
         Paid, Credit, Committing
<1> QED
  BY <1>1, <1>2, <1>3, <1>4, <1>5 DEF IInv

LEMMA RefreshFailsInvariant ==
    ASSUME NEW w \in Workers, IInv, RefreshFails(w) PROVE IInv'
<1> USE EdxAuthAssumption DEF RefreshFails, Counts, RollBack, Becomes, Idle, NoAuth
<1>1. Shape'
  <2>1. auth' \in AnyAuth /\ synced' \in BOOLEAN /\ lock' \in Workers \cup {NoWorker}
    BY DEF IInv, Shape, AnyAuth, AnyHandler
  <2>2. proc' \in [Workers -> AnyHandler]
    BY DEF IInv, Shape, AnyAuth, AnyHandler
  <2>3. count' \in AnyCount
    BY DEF IInv, Shape, AnyCount
  <2> QED
    BY <2>1, <2>2, <2>3 DEF Shape
<1>2. LockHeld'
  BY DEF IInv, Shape, AnyHandler, LockHeld
<1>3. InHand' /\ Absent' /\ StoredTokensComplete'
  BY DEF IInv, Shape, AnyAuth, AnyHandler, AnyCount, LockHeld, InHand, Absent,
         StoredTokensComplete
<1>4. Rotation'
  BY DEF IInv, Shape, AnyAuth, AnyHandler, AnyCount, LockHeld, InHand,
         Rotation, Committing
<1>5. Paid'
  BY DEF IInv, Shape, AnyAuth, AnyHandler, AnyCount, LockHeld, InHand, Absent,
         Paid, Credit, Committing
<1> QED
  BY <1>1, <1>2, <1>3, <1>4, <1>5 DEF IInv

LEMMA CommitInvariant ==
    ASSUME NEW w \in Workers, IInv, Commit(w) PROVE IInv'
<1> USE EdxAuthAssumption DEF Commit, Ensured, Becomes, Idle, NoAuth
<1>1. Shape'
  <2>1. auth' \in AnyAuth /\ synced' \in BOOLEAN /\ lock' \in Workers \cup {NoWorker}
    BY DEF IInv, Shape, AnyAuth, AnyHandler
  <2>2. proc' \in [Workers -> AnyHandler]
    BY DEF IInv, Shape, AnyAuth, AnyHandler
  <2>3. count' \in AnyCount
    BY DEF IInv, Shape, AnyCount
  <2> QED
    BY <2>1, <2>2, <2>3 DEF Shape
<1>2. LockHeld'
  BY DEF IInv, Shape, AnyHandler, LockHeld
<1>3. InHand' /\ Absent' /\ StoredTokensComplete'
  BY DEF IInv, Shape, AnyAuth, AnyHandler, AnyCount, LockHeld, InHand, Absent,
         StoredTokensComplete
<1>4. Rotation'
  BY DEF IInv, Shape, AnyAuth, AnyHandler, AnyCount, LockHeld, InHand,
         Rotation, Committing
<1>5. Paid'
  BY DEF IInv, Shape, AnyAuth, AnyHandler, AnyCount, LockHeld, InHand, Absent,
         Paid, Credit, Committing
<1> QED
  BY <1>1, <1>2, <1>3, <1>4, <1>5 DEF IInv

LEMMA CrashInvariant ==
    ASSUME NEW w \in Workers, IInv, Crash(w) PROVE IInv'
<1> USE EdxAuthAssumption DEF Crash, Counts, RollBack, Becomes, Idle, NoAuth
<1>1. Shape'
  <2>1. auth' \in AnyAuth /\ synced' \in BOOLEAN /\ lock' \in Workers \cup {NoWorker}
    BY DEF IInv, Shape, AnyAuth, AnyHandler
  <2>2. proc' \in [Workers -> AnyHandler]
    BY DEF IInv, Shape, AnyAuth, AnyHandler
  <2>3. count' \in AnyCount
    BY DEF IInv, Shape, AnyCount
  <2> QED
    BY <2>1, <2>2, <2>3 DEF Shape
<1>2. LockHeld'
  BY DEF IInv, Shape, AnyHandler, LockHeld
<1>3. InHand' /\ Absent' /\ StoredTokensComplete'
  BY DEF IInv, Shape, AnyAuth, AnyHandler, AnyCount, LockHeld, InHand, Absent,
         StoredTokensComplete
<1>4. Rotation'
  BY DEF IInv, Shape, AnyAuth, AnyHandler, AnyCount, LockHeld, InHand,
         Rotation, Committing
<1>5. Paid'
  BY DEF IInv, Shape, AnyAuth, AnyHandler, AnyCount, LockHeld, InHand, Absent,
         Paid, Credit, Committing
<1> QED
  BY <1>1, <1>2, <1>3, <1>4, <1>5 DEF IInv

LEMMA AccessTokenExpiresInvariant ==
    ASSUME IInv, AccessTokenExpires PROVE IInv'
<1> USE EdxAuthAssumption DEF AccessTokenExpires, Counts
<1>1. Shape'
  <2>1. auth' \in AnyAuth /\ synced' \in BOOLEAN /\ lock' \in Workers \cup {NoWorker}
    BY DEF IInv, Shape, AnyAuth, AnyHandler
  <2>2. proc' \in [Workers -> AnyHandler]
    BY DEF IInv, Shape, AnyAuth, AnyHandler
  <2>3. count' \in AnyCount
    BY DEF IInv, Shape, AnyCount
  <2> QED
    BY <2>1, <2>2, <2>3 DEF Shape
<1>2. LockHeld'
  BY DEF IInv, Shape, AnyHandler, LockHeld
<1>3. InHand' /\ Absent' /\ StoredTokensComplete'
  BY DEF IInv, Shape, AnyAuth, AnyHandler, AnyCount, LockHeld, InHand, Absent,
         StoredTokensComplete
<1>4. Rotation'
  BY DEF IInv, Shape, AnyAuth, AnyHandler, AnyCount, LockHeld, InHand,
         Rotation, Committing
<1>5. Paid'
  BY DEF IInv, Shape, AnyAuth, AnyHandler, AnyCount, LockHeld, InHand, Absent,
         Paid, Credit, Committing
<1> QED
  BY <1>1, <1>2, <1>3, <1>4, <1>5 DEF IInv

LEMMA RefreshTokenDiesInvariant ==
    ASSUME IInv, RefreshTokenDies PROVE IInv'
<1> USE EdxAuthAssumption DEF RefreshTokenDies, Counts
<1>1. Shape'
  <2>1. auth' \in AnyAuth /\ synced' \in BOOLEAN /\ lock' \in Workers \cup {NoWorker}
    BY DEF IInv, Shape, AnyAuth, AnyHandler
  <2>2. proc' \in [Workers -> AnyHandler]
    BY DEF IInv, Shape, AnyAuth, AnyHandler
  <2>3. count' \in AnyCount
    BY DEF IInv, Shape, AnyCount
  <2> QED
    BY <2>1, <2>2, <2>3 DEF Shape
<1>2. LockHeld'
  BY DEF IInv, Shape, AnyHandler, LockHeld
<1>3. InHand' /\ Absent' /\ StoredTokensComplete'
  BY DEF IInv, Shape, AnyAuth, AnyHandler, AnyCount, LockHeld, InHand, Absent,
         StoredTokensComplete
<1>4. Rotation'
  BY DEF IInv, Shape, AnyAuth, AnyHandler, AnyCount, LockHeld, InHand,
         Rotation, Committing
<1>5. Paid'
  BY DEF IInv, Shape, AnyAuth, AnyHandler, AnyCount, LockHeld, InHand, Absent,
         Paid, Credit, Committing
<1> QED
  BY <1>1, <1>2, <1>3, <1>4, <1>5 DEF IInv

LEMMA SyncChangesInvariant ==
    ASSUME IInv, SyncChanges PROVE IInv'
<1> USE EdxAuthAssumption DEF SyncChanges, Counts
<1>1. Shape'
  <2>1. auth' \in AnyAuth /\ synced' \in BOOLEAN /\ lock' \in Workers \cup {NoWorker}
    BY DEF IInv, Shape, AnyAuth, AnyHandler
  <2>2. proc' \in [Workers -> AnyHandler]
    BY DEF IInv, Shape, AnyAuth, AnyHandler
  <2>3. count' \in AnyCount
    BY DEF IInv, Shape, AnyCount
  <2> QED
    BY <2>1, <2>2, <2>3 DEF Shape
<1>2. LockHeld'
  BY DEF IInv, Shape, AnyHandler, LockHeld
<1>3. InHand' /\ Absent' /\ StoredTokensComplete'
  BY DEF IInv, Shape, AnyAuth, AnyHandler, AnyCount, LockHeld, InHand, Absent,
         StoredTokensComplete
<1>4. Rotation'
  BY DEF IInv, Shape, AnyAuth, AnyHandler, AnyCount, LockHeld, InHand,
         Rotation, Committing
<1>5. Paid'
  BY DEF IInv, Shape, AnyAuth, AnyHandler, AnyCount, LockHeld, InHand, Absent,
         Paid, Credit, Committing
<1> QED
  BY <1>1, <1>2, <1>3, <1>4, <1>5 DEF IInv

LEMMA NextInvariant == IInv /\ [Next]_vars => IInv'
<1>1. SUFFICES ASSUME IInv, [Next]_vars PROVE IInv'
  OBVIOUS
<1>2. CASE UNCHANGED vars
  BY <1>1, <1>2 DEF vars, IInv, Shape, AnyHandler, LockHeld, InHand, Absent,
                    StoredTokensComplete, Rotation, Paid, Credit, Committing
<1>3. CASE \E w \in Workers, client \in BOOLEAN : Request(w, client)
  BY <1>1, <1>3, RequestInvariant
<1>4. CASE \E w \in Workers : Regenerate(w)
  BY <1>1, <1>4, RegenerateInvariant
<1>5. CASE \E w \in Workers : DeleteAuth(w)
  BY <1>1, <1>5, DeleteAuthInvariant
<1>6. CASE \E w \in Workers : EnsureAuth(w)
  BY <1>1, <1>6, EnsureAuthInvariant
<1>7. CASE \E w \in Workers : Authorize(w)
  BY <1>1, <1>7, AuthorizeInvariant
<1>8. CASE \E w \in Workers : AuthorizeFails(w)
  BY <1>1, <1>8, AuthorizeFailsInvariant
<1>9. CASE \E w \in Workers : CheckAuth(w)
  BY <1>1, <1>9, CheckAuthInvariant
<1>10. CASE \E w \in Workers : LockAuth(w)
  BY <1>1, <1>10, LockAuthInvariant
<1>11. CASE \E w \in Workers : Refresh(w)
  BY <1>1, <1>11, RefreshInvariant
<1>12. CASE \E w \in Workers : InvalidGrant(w)
  BY <1>1, <1>12, InvalidGrantInvariant
<1>13. CASE \E w \in Workers : RefreshFails(w)
  BY <1>1, <1>13, RefreshFailsInvariant
<1>14. CASE \E w \in Workers : Commit(w)
  BY <1>1, <1>14, CommitInvariant
<1>15. CASE \E w \in Workers : Crash(w)
  BY <1>1, <1>15, CrashInvariant
<1>16. CASE AccessTokenExpires
  BY <1>1, <1>16, AccessTokenExpiresInvariant
<1>17. CASE RefreshTokenDies
  BY <1>1, <1>17, RefreshTokenDiesInvariant
<1>18. CASE SyncChanges
  BY <1>1, <1>18, SyncChangesInvariant
<1> QED
  BY <1>1, <1>2, <1>3, <1>4, <1>5, <1>6, <1>7, <1>8, <1>9, <1>10, <1>11,
                                                                                                                             <1>12,
                                                                                                                             <1>13,
                                                                                                                             <1>14,
                                                                                                                             <1>15,
                                                                                                                             <1>16,
                                                                                                                             <1>17,
                                                                                                                             <1>18
                                                                                                                             DEF
                                                                                                                             Next,
                                                                                                                             Step

LEMMA Invariance == Spec => []IInv
<1>1. Init => IInv
  BY InitInvariant
<1>2. IInv /\ [Next]_vars => IInv'
  BY NextInvariant
<1> QED
  BY <1>1, <1>2, PTL DEF Spec

-----------------------------------------------------------------------------
(* Results *)

\* No reader ever finds the stored row without its tokens, wherever a call
\* fails or a worker dies inside create_edx_auth_token or
\* _refresh_edx_api_auth.
THEOREM TokensAreComplete == Spec => []StoredTokensComplete
<1>1. IInv => StoredTokensComplete
  BY DEF IInv
<1> QED
  BY <1>1, Invariance, PTL

\* As long as edX drops no token and no call fails, the token that the row
\* shows when nobody has it locked is one that edX accepts: rotation by
\* get_valid_edx_api_auth never strands it.
THEOREM TokensStayUsable == Spec => []StoredTokenIsLive
<1>1. IInv => StoredTokenIsLive
  BY EdxAuthAssumption DEF IInv, StoredTokenIsLive, Rotation, LockHeld,
                           Committing
<1> QED
  BY <1>1, Invariance, PTL

\* Any number of workers that meet an expired token make edX issue one new
\* token between them (the second look of get_valid_edx_api_auth).
THEOREM OneTokenPerExpiry == Spec => []NoThunderingHerd
<1>1. IInv => NoThunderingHerd
  BY DEF IInv, Shape, AnyCount, NoThunderingHerd, Paid, Credit
<1> QED
  BY <1>1, Invariance, PTL
=============================================================================
