-------------------------- MODULE EdxAccountProofs --------------------------
(***************************************************************************)
(* The invariants of EdxAccount, for any learners, names and workers and   *)
(* any bounds.  A row is saved whole from an instance in memory, so the    *)
(* argument is about the instances: a worker saves an instance that says   *)
(* synced only after edX gave the very name it carries to its learner, and *)
(* edX never takes a name back.  That a synced row stays so is the lock's  *)
(* doing: outside `late` a learner's row is saved by the owner of the lock *)
(* alone, who read it after taking the lock.                               *)
(***************************************************************************)
EXTENDS EdxAccount, TLAPS

\* Where a worker is past the lock of _create_edx_user_request.
Holding == {"save", "post", "synced", "error"}

\* What a worker h may have in hand when edX's accounts are acc and the
\* learners saved without the lock are lt.
Fit(h, acc, lt) ==
    /\ h \in Handler
    /\ h.owns => h.pc \in Holding
    /\ h.pc \in {"choose", "save_name"} => h.user \in lt /\ ~h.inst.synced
    /\ h.pc = "save_name" => h.inst.username \in Names
    /\ h.pc = "lock" => h.name \in Names
    /\ h.pc \in Holding => /\ h.name \in Names
                           /\ ~h.inst.synced
                           /\ h.owns \/ h.user \in lt
    /\ h.pc \in {"post", "synced"} => h.inst.username = h.name
    /\ h.pc = "synced" => acc[h.name] = h.user
    /\ h.pc \in {"lock", "save"} => h.attempt < MaxAttempts

AllFit == \A w \in Workers : Fit(proc[w], account, late)

\* The owner of a lock is one, and the lock is there.
OneOwner ==
    /\ \A w \in Workers : proc[w].owns => proc[w].user \in lock
    /\ \A w, x \in Workers :
          proc[w].owns /\ proc[x].owns /\ proc[w].user = proc[x].user => w = x

\* Only a row with a username is synced.
RowsNamed == \A u \in Users : row[u].synced => row[u].username \in Names

\* While a worker is past the lock, its learner is not synced.
Undisturbed ==
    \A w \in Workers :
        proc[w].pc \in Holding /\ proc[w].user \notin late
          => ~row[proc[w].user].synced

IInv ==
    /\ TypeOK
    /\ AllFit
    /\ OneOwner
    /\ RowsNamed
    /\ SyncedNameIsInEdx
    /\ Undisturbed

\* A worker with nothing in hand, or waiting for the lock.
Fresh(h) ==
    /\ h \in Handler
    /\ h.pc \in {"idle", "lock"}
    /\ ~h.owns
    /\ h.pc = "lock" => h.name \in Names /\ h.attempt < MaxAttempts

-----------------------------------------------------------------------------
(* Workers and their instances *)

LEMMA IdleFresh == Fresh(Idle) /\ Idle.pc = "idle"
<1>1. (CHOOSE u \in Users : TRUE) \in Users
  BY EdxAccountAssumption
<1>2. NewRow(NoName) \in Row
  BY DEF NewRow, Row
<1>3. 0 \in 0 .. MaxAttempts
  BY EdxAccountAssumption
<1> QED
  BY <1>1, <1>2, <1>3 DEF Fresh, Idle, Handler

\* Who is fresh fits whatever edX and the late learners are.
LEMMA FreshFits ==
  ASSUME NEW h, Fresh(h), NEW acc, NEW lt
  PROVE  Fit(h, acc, lt)
BY DEF Fresh, Fit, Holding

\* edX takes no name back and late learners stay late: who fits still fits.
LEMMA FitKept ==
  ASSUME NEW h, NEW acc, NEW acc2, NEW lt, NEW lt2,
         Fit(h, acc, lt),
         \A n \in Names : acc[n] \in Users => acc2[n] = acc[n],
         lt \subseteq lt2
  PROVE  Fit(h, acc2, lt2)
<1>1. h.user \in Users
  BY DEF Fit, Handler
<1> QED
  BY <1>1 DEF Fit, Holding

LEMMA GeneratedNames ==
  ASSUME NEW base, NEW n \in Generated(base)
  PROVE  n \in Names \cup {NoName}
BY DEF Generated

LEMMA LoadedFresh ==
  ASSUME NEW u \in Users, NEW r \in Row, NEW h \in Loaded(u, r)
  PROVE  Fresh(h)
<1>1. CASE h = Idle
  BY <1>1, IdleFresh
<1>2. ASSUME h # Idle
      PROVE  Fresh(h)
  <2>1. PICK n \in Attemptable(u, r.desired) :
           n # NoName /\ h = [Idle EXCEPT !.pc = "lock", !.user = u, !.inst = r, !.name = n]
    BY <1>2 DEF Loaded
  <2>2. n \in Names
    <3>1. r.desired \in Names \cup {NoName}
      BY DEF Row
    <3> QED
      BY <2>1, <3>1, GeneratedNames DEF Attemptable
  <2>3. 0 \in 0 .. MaxAttempts /\ 0 < MaxAttempts
    BY EdxAccountAssumption
  <2> QED
    BY <2>1, <2>2, <2>3 DEF Fresh, Idle, Handler
<1> QED
  BY <1>1, <1>2

-----------------------------------------------------------------------------
(* What a step of one worker keeps *)

\* A worker's step from which edX only grows leaves everybody fit.
LEMMA StepFit ==
  ASSUME IInv, NEW w \in Workers, NEW h, Becomes(w, h), Fit(h, account', late'),
         \A n \in Names : account[n] \in Users => account'[n] = account[n],
         late \subseteq late'
  PROVE  AllFit' /\ proc' \in [Workers -> Handler]
<1>1. proc' = [x \in Workers |-> IF x = w THEN h ELSE proc[x]]
  BY DEF IInv, TypeOK, Becomes
<1>2. \A x \in Workers : Fit(proc[x], account', late')
  <2>1. TAKE x \in Workers
  <2>2. Fit(proc[x], account, late)
    BY DEF IInv, AllFit
  <2> QED
    BY <2>2, FitKept
<1>3. \A x \in Workers : Fit(proc'[x], account', late')
  BY <1>1, <1>2
<1>4. \A x \in Workers : proc'[x] \in Handler
  BY <1>3 DEF Fit
<1> QED
  BY <1>1, <1>3, <1>4 DEF AllFit

\* A worker that takes no lock, and gives back at most its own.
LEMMA StepOwner ==
  ASSUME IInv, NEW w \in Workers, NEW h, Becomes(w, h),
         h.owns => proc[w].owns /\ h.user = proc[w].user /\ lock' = lock,
         lock' = lock \/ (proc[w].owns /\ lock' = lock \ {proc[w].user})
  PROVE  OneOwner'
<1>1. proc' = [x \in Workers |-> IF x = w THEN h ELSE proc[x]]
  BY DEF IInv, TypeOK, Becomes
<1>2. OneOwner
  BY DEF IInv
<1>3. ASSUME NEW x \in Workers, proc'[x].owns
      PROVE  proc'[x].user \in lock'
  BY <1>1, <1>2, <1>3 DEF OneOwner
<1>4. ASSUME NEW x \in Workers, NEW y \in Workers, proc'[x].owns, proc'[y].owns,
             proc'[x].user = proc'[y].user
      PROVE  x = y
  BY <1>1, <1>2, <1>4 DEF OneOwner
<1> QED
  BY <1>3, <1>4 DEF OneOwner

\* A step that saves nothing.
LEMMA RowsKept ==
  ASSUME IInv, NEW w \in Workers, NEW h, Becomes(w, h), row' = row,
         \A n \in Names : account[n] \in Users => account'[n] = account[n],
         late \subseteq late',
         h.pc \in Holding /\ h.user \notin late' => ~row[h.user].synced
  PROVE  RowsNamed' /\ SyncedNameIsInEdx' /\ Undisturbed'
<1>1. proc' = [x \in Workers |-> IF x = w THEN h ELSE proc[x]]
  BY DEF IInv, TypeOK, Becomes
<1>2. RowsNamed'
  BY DEF IInv, RowsNamed
<1>3. SyncedNameIsInEdx'
  BY DEF IInv, RowsNamed, SyncedNameIsInEdx
<1>4. Undisturbed'
  <2>1. ASSUME NEW x \in Workers, proc'[x].pc \in Holding, proc'[x].user \notin late'
        PROVE  ~row'[proc'[x].user].synced
    BY <1>1, <2>1 DEF IInv, Undisturbed
  <2> QED
    BY <2>1 DEF Undisturbed
<1> QED
  BY <1>2, <1>3, <1>4

\* A step that saves the row of its learner, who is late unless the worker
\* owns the lock.
LEMMA RowSaved ==
  ASSUME IInv, NEW w \in Workers, NEW h, Becomes(w, h), NEW inst \in Row,
         Save(proc[w].user, inst), account' = account, late' = late,
         proc[w].owns \/ proc[w].user \in late,
         inst.synced => /\ inst.username \in Names
                        /\ account[inst.username] = proc[w].user,
         h.pc \in Holding => h.user = proc[w].user /\ ~inst.synced
  PROVE  /\ RowsNamed' /\ SyncedNameIsInEdx' /\ Undisturbed'
         /\ row' \in [Users -> Row]
<1> DEFINE u == proc[w].user
<1>1. proc' = [x \in Workers |-> IF x = w THEN h ELSE proc[x]]
  BY DEF IInv, TypeOK, Becomes
<1>2. u \in Users
  BY DEF IInv, TypeOK, Handler
<1>3. row' = [v \in Users |-> IF v = u THEN inst ELSE row[v]]
  BY DEF IInv, TypeOK, Save
<1>4. row' \in [Users -> Row]
  BY <1>3 DEF IInv, TypeOK
<1>5. RowsNamed'
  BY <1>2, <1>3 DEF IInv, RowsNamed
<1>6. SyncedNameIsInEdx'
  BY <1>2, <1>3 DEF IInv, SyncedNameIsInEdx
<1>7. Undisturbed'
  <2>1. ASSUME NEW x \in Workers, proc'[x].pc \in Holding, proc'[x].user \notin late'
        PROVE  ~row'[proc'[x].user].synced
    <3>1. CASE x = w
      BY <1>1, <1>2, <1>3, <2>1, <3>1
    <3>2. CASE x # w
      <4>1. proc'[x] = proc[x] /\ proc[x].user \in Users
        BY <1>1, <3>2 DEF IInv, TypeOK, Handler
      <4>2. proc[x].owns
        BY <2>1, <4>1 DEF IInv, AllFit, Fit
      <4>3. proc[x].user # u
        <5>1. SUFFICES ASSUME proc[x].user = u PROVE FALSE
          OBVIOUS
        <5>2. proc[w].owns
          BY <2>1, <4>1, <5>1
        <5> QED
          BY <3>2, <4>2, <5>1, <5>2 DEF IInv, OneOwner
      <4>4. ~row[proc[x].user].synced
        BY <2>1, <4>1 DEF IInv, Undisturbed
      <4> QED
        BY <1>3, <4>1, <4>3, <4>4
    <3> QED
      BY <3>1, <3>2
  <2> QED
    BY <2>1 DEF Undisturbed
<1> QED
  BY <1>4, <1>5, <1>6, <1>7

\* Both together, for a step that saves nothing ...
LEMMA StepKeeps ==
  ASSUME IInv, NEW w \in Workers, NEW h, Becomes(w, h), Fit(h, account', late'),
         row' = row,
         account' \in [Names -> Users \cup {Nobody, "someone"}],
         \A n \in Names : account[n] \in Users => account'[n] = account[n],
         lti' \in SUBSET Users, used' \in Bounds,
         late \subseteq late', late' \in SUBSET Users,
         h.owns => proc[w].owns /\ h.user = proc[w].user /\ lock' = lock,
         lock' = lock \/ (proc[w].owns /\ lock' = lock \ {proc[w].user}),
         h.pc \in Holding /\ h.user \notin late' => ~row[h.user].synced
  PROVE  IInv'
<1>1. AllFit' /\ proc' \in [Workers -> Handler]
  BY StepFit
<1>2. OneOwner'
  BY StepOwner
<1>3. RowsNamed' /\ SyncedNameIsInEdx' /\ Undisturbed'
  BY RowsKept
<1>4. TypeOK'
  BY <1>1 DEF IInv, TypeOK
<1> QED
  BY <1>1, <1>2, <1>3, <1>4 DEF IInv

\* ... and for one that saves.
LEMMA SaveKeeps ==
  ASSUME IInv, NEW w \in Workers, NEW h, Becomes(w, h), Fit(h, account, late),
         NEW inst \in Row, Save(proc[w].user, inst),
         UNCHANGED <<account, lti, late, used>>,
         proc[w].owns \/ proc[w].user \in late,
         inst.synced => /\ inst.username \in Names
                        /\ account[inst.username] = proc[w].user,
         h.pc \in Holding => h.user = proc[w].user /\ ~inst.synced,
         h.owns => proc[w].owns /\ h.user = proc[w].user /\ lock' = lock,
         lock' = lock \/ (proc[w].owns /\ lock' = lock \ {proc[w].user})
  PROVE  IInv'
<1>1. AllFit' /\ proc' \in [Workers -> Handler]
  BY StepFit
<1>2. OneOwner'
  BY StepOwner
<1>3. RowsNamed' /\ SyncedNameIsInEdx' /\ Undisturbed' /\ row' \in [Users -> Row]
  BY RowSaved
<1>4. TypeOK'
  BY <1>1, <1>3 DEF IInv, TypeOK
<1> QED
  BY <1>1, <1>2, <1>3, <1>4 DEF IInv

\* A worker that begins anew, or stops, whatever the others do.
LEMMA FreshStep ==
  ASSUME IInv, NEW w \in Workers, NEW h, Becomes(w, h), Fresh(h),
         UNCHANGED <<row, lti, late>>, used' \in Bounds,
         account' \in [Names -> Users \cup {Nobody, "someone"}],
         \A n \in Names : account[n] \in Users => account'[n] = account[n],
         lock' = lock \/ (proc[w].owns /\ lock' = lock \ {proc[w].user})
  PROVE  IInv'
<1>1. Fit(h, account', late')
  BY FreshFits
<1>2. ~h.owns /\ h.pc \notin Holding
  BY DEF Fresh, Holding
<1>3. lti' \in SUBSET Users /\ late' \in SUBSET Users /\ late \subseteq late'
  BY DEF IInv, TypeOK
<1> QED
  BY <1>1, <1>2, <1>3, StepKeeps

\* A bounded counter stays within its bound.
LEMMA UsesBounds ==
  ASSUME used \in Bounds
  PROVE  /\ Uses("requests", MaxRequests) => used' \in Bounds
         /\ Uses("generated", MaxGenerated) => used' \in Bounds
         /\ Uses("faults", MaxFaults) => used' \in Bounds
         /\ Uses("edits", MaxEdits) => used' \in Bounds
<1> USE EdxAccountAssumption DEF Uses, Bounds
<1>1. Uses("requests", MaxRequests) => used' \in Bounds
  OBVIOUS
<1>2. Uses("generated", MaxGenerated) => used' \in Bounds
  OBVIOUS
<1>3. Uses("faults", MaxFaults) => used' \in Bounds
  OBVIOUS
<1>4. Uses("edits", MaxEdits) => used' \in Bounds
  OBVIOUS
<1> QED
  BY <1>1, <1>2, <1>3, <1>4

\* Registering changes only a free name.
LEMMA RegisterGrows ==
  ASSUME TypeOK, NEW u \in Users, NEW n \in Names,
         account' = account \/ (RegistrationFree(u, n) /\ Register(u, n))
  PROVE  /\ account' \in [Names -> Users \cup {Nobody, "someone"}]
         /\ \A m \in Names : account[m] \in Users => account'[m] = account[m]
BY EdxAccountAssumption DEF TypeOK, RegistrationFree, Register

-----------------------------------------------------------------------------
(* Every action preserves the invariant *)

LEMMA InitInvariant == Init => IInv
<1>0. SUFFICES ASSUME Init PROVE IInv
  OBVIOUS
<1> USE EdxAccountAssumption
<1>1. PICK f \in [Users -> Names \cup {NoName}] :
         /\ \A u \in Users : u \in Registered => f[u] = Desired[u]
         /\ row = [u \in Users |-> [NewRow(f[u]) EXCEPT !.synced = u \in Registered]]
  BY <1>0 DEF Init
<1>2. ASSUME NEW u \in Users
      PROVE  /\ row[u] \in Row
             /\ row[u].username = f[u]
             /\ row[u].synced => u \in Registered
  <2>1. row[u] = [NewRow(f[u]) EXCEPT !.synced = u \in Registered]
    BY <1>1
  <2>2. CASE u \in Registered
    <3>1. (u \in Registered) = TRUE
      BY <2>2
    <3>2. row[u] = [NewRow(f[u]) EXCEPT !.synced = TRUE]
      BY <2>1, <3>1
    <3> QED
      BY <2>2, <3>2 DEF NewRow, Row
  <2>3. CASE u \notin Registered
    <3>1. (u \in Registered) = FALSE
      BY <2>3
    <3>2. row[u] = [NewRow(f[u]) EXCEPT !.synced = FALSE]
      BY <2>1, <3>1
    <3> QED
      BY <3>2 DEF NewRow, Row
  <2> QED
    BY <2>2, <2>3
<1>3. row \in [Users -> Row]
  <2>1. row = [u \in Users |-> row[u]]
    BY <1>1
  <2> QED
    BY <1>2, <2>1
<1>4. PICK gone \in SUBSET Others :
         account = [n \in Names |->
                      IF \E u \in Registered : Desired[u] = n
                      THEN CHOOSE u \in Registered : Desired[u] = n
                      ELSE IF n \in gone THEN "someone" ELSE Nobody]
  BY <1>0 DEF Init
<1>5. account \in [Names -> Users \cup {Nobody, "someone"}]
  BY <1>4
<1>6. Fresh(Idle) /\ Idle.pc = "idle" /\ Idle \in Handler
  BY IdleFresh DEF Fresh
<1>7. TypeOK
  <2>1. used \in Bounds
    BY <1>0 DEF Init, Bounds
  <2> QED
    BY <1>0, <1>3, <1>5, <1>6, <2>1 DEF Init, TypeOK
<1>8. AllFit
  BY <1>0, <1>6, FreshFits DEF Init, AllFit
<1>9. OneOwner /\ Undisturbed
  BY <1>0, <1>6 DEF Init, OneOwner, Undisturbed, Fresh, Holding
<1>10. RowsNamed
  BY <1>1, <1>2 DEF RowsNamed
<1>11. SyncedNameIsInEdx
  <2>1. ASSUME NEW u \in Users, row[u].synced
        PROVE  account[row[u].username] = u
    <3>1. u \in Registered /\ row[u].username = Desired[u] /\ Desired[u] \in Names
      BY <1>1, <1>2, <2>1
    <3>2. (CHOOSE v \in Registered : Desired[v] = Desired[u]) = u
      BY <3>1
    <3> QED
      BY <1>4, <3>1, <3>2
  <2> QED
    BY <2>1 DEF SyncedNameIsInEdx
<1> QED
  BY <1>7, <1>8, <1>9, <1>10, <1>11 DEF IInv

LEMMA ReconcileInv ==
  ASSUME IInv, NEW w \in Workers, NEW u \in Users, Reconcile(w, u), used' \in Bounds
  PROVE  IInv'
<1>1. row[u] \in Row /\ late \in SUBSET Users
  BY DEF IInv, TypeOK
<1>2. account' \in [Names -> Users \cup {Nobody, "someone"}]
      /\ \A n \in Names : account[n] \in Users => account'[n] = account[n]
  BY DEF IInv, TypeOK, Reconcile
<1>3. CASE row[u].username = NoName
  <2> DEFINE h == [Idle EXCEPT !.pc = "choose", !.user = u, !.inst = row[u]]
  <2>1. Becomes(w, h) /\ late' = late \cup {u} /\ UNCHANGED <<row, account, lti, lock>>
    BY <1>3 DEF Reconcile
  <2>2. Idle \in Handler /\ ~Idle.owns
    BY IdleFresh DEF Fresh
  <2>3. h \in Handler /\ h.pc = "choose" /\ h.user = u /\ h.inst = row[u] /\ ~h.owns
    BY <1>1, <2>2 DEF Handler
  <2>4. ~row[u].synced
    BY <1>3, EdxAccountAssumption DEF IInv, RowsNamed
  <2> HIDE DEF h
  <2>5. Fit(h, account', late')
    BY <2>1, <2>3, <2>4 DEF Fit, Holding
  <2>6. lti' \in SUBSET Users /\ late \subseteq late' /\ late' \in SUBSET Users
    BY <1>1, <2>1 DEF IInv, TypeOK
  <2>7. h.pc \notin Holding
    BY <2>3 DEF Holding
  <2> QED
    BY <1>2, <2>1, <2>3, <2>5, <2>6, <2>7, StepKeeps
<1>4. CASE row[u].username # NoName
  <2>1. PICK h \in Loaded(u, row[u]) : Becomes(w, h)
    BY <1>4 DEF Reconcile
  <2>2. Fresh(h)
    BY <1>1, LoadedFresh
  <2>3. UNCHANGED <<row, lti, late>> /\ lock' = lock
    BY <1>4 DEF Reconcile
  <2> QED
    BY <1>2, <2>1, <2>2, <2>3, FreshStep
<1> QED
  BY <1>3, <1>4

LEMMA ChooseNameInv ==
  ASSUME IInv, NEW w \in Workers, ChooseName(w)
  PROVE  IInv'
<1> DEFINE h == proc[w]
           wanted == Desired[h.user]
           exists == \E v \in Users : row[v].username = wanted
           chosen(n) == [h EXCEPT !.pc = "save_name",
                           !.inst.username = n, !.inst.desired = n]
<1>1. /\ h.pc = "choose"
      /\ UNCHANGED <<row, account, lti, lock, late, used>>
  BY DEF ChooseName
<1>2. /\ h \in Handler /\ h.user \in Users /\ wanted \in Names
      /\ row[h.user] \in Row /\ used' \in Bounds
      /\ lti' \in SUBSET Users /\ late' \in SUBSET Users
      /\ account' \in [Names -> Users \cup {Nobody, "someone"}]
  BY <1>1, EdxAccountAssumption DEF IInv, TypeOK, Handler
<1>3. Fit(h, account, late) /\ ~h.owns
  BY <1>1 DEF IInv, AllFit, Fit, Holding
<1>4. PICK n \in IF exists THEN Generated(wanted) ELSE {wanted} :
         IF n = NoName
         THEN \E g \in Loaded(h.user, row[h.user]) : Becomes(w, g)
         ELSE Becomes(w, chosen(n))
  BY DEF ChooseName
<1>5. CASE n = NoName
  <2>1. PICK g \in Loaded(h.user, row[h.user]) : Becomes(w, g)
    BY <1>4, <1>5
  <2>2. Fresh(g)
    BY <1>2, LoadedFresh
  <2> QED
    BY <1>1, <1>2, <2>1, <2>2, FreshStep
<1>6. CASE n # NoName
  <2>1. n \in Names
    BY <1>2, <1>4, <1>6, GeneratedNames
  <2>2. h.inst \in Row /\ ~h.inst.synced /\ h.user \in late
    BY <1>1, <1>2, <1>3 DEF Fit, Handler
  <2>3. /\ chosen(n).pc = "save_name" /\ chosen(n).user = h.user
        /\ chosen(n).owns = h.owns
        /\ chosen(n).inst = [h.inst EXCEPT !.username = n, !.desired = n]
    BY <1>2 DEF Handler
  <2>4. [h.inst EXCEPT !.username = n, !.desired = n] \in Row
        /\ [h.inst EXCEPT !.username = n, !.desired = n].username = n
        /\ [h.inst EXCEPT !.username = n, !.desired = n].synced = h.inst.synced
    BY <2>1, <2>2 DEF Row
  <2>5. chosen(n) \in Handler
    BY <1>2, <2>3, <2>4 DEF Handler
  <2>6. PICK g : g = chosen(n)
    OBVIOUS
  <2>7. g \in Handler /\ g.pc = "save_name" /\ g.user = h.user /\ ~g.owns
        /\ g.inst.username = n /\ ~g.inst.synced
    BY <1>3, <2>2, <2>3, <2>4, <2>5, <2>6
  <2>8. Fit(g, account', late') /\ g.pc \notin Holding
    BY <1>1, <2>1, <2>2, <2>7 DEF Fit, Holding
  <2>9. Becomes(w, g)
    BY <1>4, <1>6, <2>6
  <2> QED
    BY <1>1, <1>2, <2>7, <2>8, <2>9, StepKeeps
<1> QED
  BY <1>5, <1>6

\* What the invariant says of one worker and of what is not changed.
LEMMA Facts ==
  ASSUME IInv, NEW w \in Workers
  PROVE  /\ proc[w] \in Handler /\ proc[w].user \in Users /\ proc[w].inst \in Row
         /\ row[proc[w].user] \in Row
         /\ Fit(proc[w], account, late)
         /\ account \in [Names -> Users \cup {Nobody, "someone"}]
         /\ lti \in SUBSET Users /\ late \in SUBSET Users /\ lock \in SUBSET Users
         /\ used \in Bounds
<1>1. proc[w] \in Handler
  BY DEF IInv, TypeOK
<1>2. proc[w].user \in Users /\ proc[w].inst \in Row
  BY <1>1 DEF Handler
<1> QED
  BY <1>1, <1>2 DEF IInv, TypeOK, AllFit

LEMMA SaveNameInv ==
  ASSUME IInv, NEW w \in Workers, SaveName(w)
  PROVE  IInv'
<1> DEFINE h == proc[w]
<1>1. h.pc = "save_name" /\ UNCHANGED <<account, lti, lock, late, used>>
  BY DEF SaveName
<1>2. /\ h.user \in Users /\ h.inst \in Row /\ h.user \in late
      /\ ~h.inst.synced
  BY <1>1, Facts DEF Fit
<1>3. CASE CanSave(h.user, h.inst)
  <2>1. Save(h.user, h.inst)
    BY <1>3 DEF SaveName
  <2>2. PICK g \in Loaded(h.user, h.inst) : Becomes(w, g)
    BY <1>3 DEF SaveName
  <2>3. Fresh(g)
    BY <1>2, LoadedFresh
  <2>4. Fit(g, account, late) /\ ~g.owns /\ g.pc \notin Holding
    BY <2>3, FreshFits DEF Fresh, Holding
  <2> QED
    BY <1>1, <1>2, <2>1, <2>2, <2>4, SaveKeeps
<1>4. CASE ~CanSave(h.user, h.inst)
  <2>1. row' = row /\ Becomes(w, Idle)
    BY <1>4 DEF SaveName
  <2> QED
    BY <1>1, <2>1, IdleFresh, Facts, FreshStep
<1> QED
  BY <1>3, <1>4

LEMMA AcquireLockInv ==
  ASSUME IInv, NEW w \in Workers, AcquireLock(w)
  PROVE  IInv'
<1> DEFINE h == proc[w]
           r == row[h.user]
           held == [h EXCEPT !.pc = "save", !.inst = r, !.owns = TRUE]
<1>1. /\ h.pc = "lock" /\ h.user \notin lock /\ lock' = lock \cup {h.user}
      /\ UNCHANGED <<row, account, lti, late, used>>
  BY DEF AcquireLock
<1>2. /\ h \in Handler /\ h.user \in Users /\ r \in Row /\ h.name \in Names
      /\ Fit(h, account, late) /\ ~h.owns
  BY <1>1, Facts DEF Fit, Holding
<1>3. PICK g : /\ Becomes(w, g)
               /\ g = IF r.synced THEN Idle ELSE held
  BY DEF AcquireLock
<1>4. Idle \in Handler /\ ~Idle.owns /\ Idle.pc = "idle"
  BY IdleFresh DEF Fresh
<1>5. ~r.synced => /\ g \in Handler /\ g.pc = "save" /\ g.user = h.user
                   /\ g.inst = r /\ g.owns /\ g.name = h.name
                   /\ g.attempt = h.attempt
  BY <1>2, <1>3 DEF Handler
<1>6. r.synced => g = Idle
  BY <1>3
<1>7. Fit(g, account', late')
  <2>1. CASE r.synced
    BY <1>6, <2>1, IdleFresh, FreshFits
  <2>2. CASE ~r.synced
    BY <1>1, <1>2, <1>5, <2>2 DEF Fit, Holding
  <2> QED
    BY <2>1, <2>2
<1>8. AllFit' /\ proc' \in [Workers -> Handler]
  BY <1>1, <1>3, <1>7, StepFit
<1>9. OneOwner'
  <2>1. proc' = [x \in Workers |-> IF x = w THEN g ELSE proc[x]]
    BY <1>3 DEF IInv, TypeOK, Becomes
  <2>2. OneOwner
    BY DEF IInv
  <2>3. g.owns => g.user = h.user
    BY <1>4, <1>5, <1>6
  <2>4. ASSUME NEW x \in Workers, proc'[x].owns
        PROVE  proc'[x].user \in lock'
    BY <1>1, <2>1, <2>2, <2>3, <2>4 DEF OneOwner
  <2>5. ASSUME NEW x \in Workers, NEW y \in Workers, proc'[x].owns, proc'[y].owns,
               proc'[x].user = proc'[y].user
        PROVE  x = y
    BY <1>1, <2>1, <2>2, <2>3, <2>5 DEF OneOwner
  <2> QED
    BY <2>4, <2>5 DEF OneOwner
<1>10. g.pc \in Holding /\ g.user \notin late' => ~row[g.user].synced
  BY <1>4, <1>5, <1>6 DEF Holding
<1>11. RowsNamed' /\ SyncedNameIsInEdx' /\ Undisturbed'
  BY <1>1, <1>3, <1>10, RowsKept
<1>12. TypeOK'
  BY <1>1, <1>2, <1>8 DEF IInv, TypeOK
<1> QED
  BY <1>8, <1>9, <1>11, <1>12 DEF IInv

\* Stopping, with the lock given back when it is still the worker's own.
LEMMA StopInv ==
  ASSUME IInv, NEW w \in Workers, ReleaseAndStop(w),
         UNCHANGED <<row, lti, late>>, used' \in Bounds,
         account' \in [Names -> Users \cup {Nobody, "someone"}],
         \A n \in Names : account[n] \in Users => account'[n] = account[n]
  PROVE  IInv'
<1>1. Becomes(w, Idle) /\ lock' = IF proc[w].owns THEN lock \ {proc[w].user} ELSE lock
  BY DEF ReleaseAndStop
<1> QED
  BY <1>1, IdleFresh, FreshStep

LEMMA LockTimeoutInv ==
  ASSUME IInv, NEW w \in Workers, LockTimeout(w)
  PROVE  IInv'
BY IdleFresh, Facts, FreshStep DEF LockTimeout

LEMMA CrashInv ==
  ASSUME IInv, NEW w \in Workers, Crash(w)
  PROVE  IInv'
<1>1. used' \in Bounds
  BY Facts, UsesBounds DEF Crash
<1> QED
  BY <1>1, IdleFresh, Facts, FreshStep DEF Crash

LEMMA SaveAttemptInv ==
  ASSUME IInv, NEW w \in Workers, SaveAttempt(w)
  PROVE  IInv'
<1> DEFINE h == proc[w]
           inst == [h.inst EXCEPT !.username = h.name]
           posted == [h EXCEPT !.pc = "post", !.inst = inst, !.attempt = @ + 1]
<1>1. h.pc = "save" /\ UNCHANGED <<account, lti, late, used>>
  BY DEF SaveAttempt
<1>2. /\ h \in Handler /\ h.user \in Users /\ h.inst \in Row /\ h.name \in Names
      /\ Fit(h, account, late) /\ ~h.inst.synced
      /\ h.owns \/ h.user \in late
      /\ h.attempt < MaxAttempts
  BY <1>1, Facts DEF Fit, Holding
<1>3. inst \in Row /\ ~inst.synced /\ inst.username = h.name
  BY <1>2 DEF Row
<1>4. h.attempt + 1 \in 0 .. MaxAttempts
  BY <1>2, EdxAccountAssumption DEF Handler
<1> HIDE DEF inst
<1>5. CASE CanSave(h.user, inst)
  <2>1. Save(h.user, inst) /\ lock' = lock
    BY <1>5 DEF SaveAttempt, inst
  <2>2. PICK g : Becomes(w, g) /\ g = posted
    BY <1>5 DEF SaveAttempt, inst
  <2>3. /\ g \in Handler /\ g.pc = "post" /\ g.user = h.user /\ g.inst = inst
        /\ g.owns = h.owns /\ g.name = h.name
    BY <1>2, <1>3, <1>4, <2>2 DEF Handler
  <2>4. Fit(g, account, late)
    BY <1>2, <1>3, <2>3 DEF Fit, Holding
  <2> QED
    BY <1>1, <1>2, <1>3, <2>1, <2>2, <2>3, <2>4, SaveKeeps
<1>6. CASE ~CanSave(h.user, inst)
  <2>1. row' = row /\ ReleaseAndStop(w)
    BY <1>6 DEF SaveAttempt, inst
  <2> QED
    BY <1>1, <2>1, Facts, StopInv
<1> QED
  BY <1>5, <1>6

-----------------------------------------------------------------------------
(* The answers of edX *)

\* What is known of a worker whose request edX is answering.
LEMMA Posting ==
  ASSUME IInv, NEW w \in Workers, proc[w].pc = "post"
  PROVE  /\ proc[w].name \in Names /\ proc[w].inst.username = proc[w].name
         /\ ~proc[w].inst.synced
         /\ proc[w].owns \/ proc[w].user \in late
         /\ proc[w].user \notin late => ~row[proc[w].user].synced
BY Facts DEF Fit, Holding, IInv, Undisturbed

\* The worker goes on under the lock, for the same learner and with the same
\* instance.
LEMMA AnswerInv ==
  ASSUME IInv, NEW w \in Workers, proc[w].pc = "post", NEW g \in Handler,
         Becomes(w, g), g.user = proc[w].user, g.owns = proc[w].owns,
         g.inst = proc[w].inst, g.name \in Names,
         g.pc \in {"save", "error"}, g.pc = "save" => g.attempt < MaxAttempts,
         UNCHANGED <<row, account, lock, late>>, used' \in Bounds,
         lti' \in SUBSET Users
  PROVE  IInv'
<1>1. Fit(g, account', late')
  BY Posting DEF Fit, Holding
<1>2. g.pc \in Holding /\ g.user \notin late' => ~row[g.user].synced
  BY Posting
<1> QED
  BY <1>1, <1>2, Facts, StepKeeps

LEMMA NextAttemptInv ==
  ASSUME IInv, NEW w \in Workers, proc[w].pc = "post", NEW g \in Handler,
         NextAttempt(w, g), g.user = proc[w].user, g.owns = proc[w].owns,
         g.inst = proc[w].inst, g.name \in Names,
         UNCHANGED <<row, account, lock, late>>, used' \in Bounds,
         lti' \in SUBSET Users
  PROVE  IInv'
<1>1. PICK label : /\ label = IF g.attempt < MaxAttempts THEN "save" ELSE "error"
                   /\ Becomes(w, [g EXCEPT !.pc = label])
  BY DEF NextAttempt
<1>2. PICK k : k = [g EXCEPT !.pc = label]
  OBVIOUS
<1>3. label \in {"save", "error"}
  BY <1>1
<1>4. /\ k \in Handler /\ k.pc = label /\ k.user = g.user /\ k.owns = g.owns
      /\ k.inst = g.inst /\ k.name = g.name /\ k.attempt = g.attempt
  BY <1>2, <1>3 DEF Handler
<1>5. k.pc = "save" => k.attempt < MaxAttempts
  BY <1>1, <1>4
<1>6. Becomes(w, k)
  BY <1>1, <1>2
<1> QED
  BY <1>3, <1>4, <1>5, <1>6, AnswerInv

\* edX's last word was no.
LEMMA GotoErrorInv ==
  ASSUME IInv, NEW w \in Workers, proc[w].pc = "post", Goto(w, "error"),
         UNCHANGED <<row, account, lti, lock, late>>, used' \in Bounds
  PROVE  IInv'
<1>1. PICK k : k = [proc[w] EXCEPT !.pc = "error"]
  OBVIOUS
<1>2. /\ k \in Handler /\ k.pc = "error" /\ k.user = proc[w].user
      /\ k.owns = proc[w].owns /\ k.inst = proc[w].inst /\ k.name = proc[w].name
  BY <1>1, Facts DEF Handler
<1>3. Becomes(w, k)
  BY <1>1 DEF Goto
<1> QED
  BY <1>2, <1>3, Posting, Facts, AnswerInv

LEMMA PostRegisteredInv ==
  ASSUME IInv, NEW w \in Workers, PostRegistered(w)
  PROVE  IInv'
<1> DEFINE h == proc[w]
<1>1. /\ h.pc = "post" /\ RegistrationFree(h.user, h.name)
      /\ Register(h.user, h.name)
      /\ UNCHANGED <<row, lti, lock, late, used>>
  BY DEF PostRegistered
<1>2. /\ h \in Handler /\ h.user \in Users /\ h.name \in Names
      /\ h.inst.username = h.name /\ ~h.inst.synced
      /\ h.owns \/ h.user \in late
      /\ h.user \notin late => ~row[h.user].synced
  BY <1>1, Facts, Posting
<1>3. account' \in [Names -> Users \cup {Nobody, "someone"}]
      /\ \A n \in Names : account[n] \in Users => account'[n] = account[n]
  BY <1>1, <1>2, RegisterGrows DEF IInv
<1>4. account'[h.name] = h.user
  BY <1>1, <1>2 DEF IInv, TypeOK, Register
<1>5. PICK k : Becomes(w, k) /\ k = [h EXCEPT !.pc = "synced"]
  BY DEF PostRegistered, Goto
<1>6. /\ k \in Handler /\ k.pc = "synced" /\ k.user = h.user
      /\ k.owns = h.owns /\ k.inst = h.inst /\ k.name = h.name
  BY <1>2, <1>5 DEF Handler
<1>7. Fit(k, account', late')
  BY <1>1, <1>2, <1>4, <1>6 DEF Fit, Holding
<1>8. k.pc \in Holding /\ k.user \notin late' => ~row[k.user].synced
  BY <1>1, <1>2, <1>6
<1> QED
  BY <1>1, <1>3, <1>5, <1>6, <1>7, <1>8, Facts, StepKeeps

LEMMA PostFailsInv ==
  ASSUME IInv, NEW w \in Workers, PostFails(w)
  PROVE  IInv'
<1> DEFINE h == proc[w]
<1>1. /\ h.pc = "post" /\ UNCHANGED <<row, lti, late>> /\ ReleaseAndStop(w)
      /\ account' = account
         \/ (RegistrationFree(h.user, h.name) /\ Register(h.user, h.name))
  BY DEF PostFails
<1>2. account' \in [Names -> Users \cup {Nobody, "someone"}]
      /\ \A n \in Names : account[n] \in Users => account'[n] = account[n]
  BY <1>1, Facts, Posting, RegisterGrows DEF IInv
<1>3. used' \in Bounds
  BY Facts, UsesBounds DEF PostFails
<1> QED
  BY <1>1, <1>2, <1>3, StopInv

LEMMA PostInvalidInv ==
  ASSUME IInv, NEW w \in Workers, PostInvalid(w)
  PROVE  IInv'
<1>1. used' \in Bounds
  BY Facts, UsesBounds DEF PostInvalid
<1> QED
  BY <1>1, GotoErrorInv DEF PostInvalid

LEMMA PostDuplicateUsernameInv ==
  ASSUME IInv, NEW w \in Workers, PostDuplicateUsername(w)
  PROVE  IInv'
<1> DEFINE h == proc[w]
<1>1. h.pc = "post" /\ UNCHANGED <<row, account, lti, lock, late>>
  BY DEF PostDuplicateUsername
<1>2. /\ h \in Handler /\ used \in Bounds /\ lti' \in SUBSET Users
  BY <1>1, Facts
<1>3. ASSUME NEW n \in Names, NextAttempt(w, [h EXCEPT !.name = n]), UNCHANGED used
      PROVE  IInv'
  <2>1. PICK g : g = [h EXCEPT !.name = n]
    OBVIOUS
  <2>2. /\ g \in Handler /\ g.user = h.user /\ g.owns = h.owns
        /\ g.inst = h.inst /\ g.name = n
    BY <1>2, <2>1 DEF Handler
  <2>3. NextAttempt(w, g)
    BY <1>3, <2>1
  <2> QED
    BY <1>1, <1>2, <1>3, <2>2, <2>3, NextAttemptInv
<1>4. ASSUME NEW n \in Generated(h.inst.desired),
             IF n = NoName
             THEN Goto(w, "error") /\ UNCHANGED used
             ELSE /\ Uses("generated", MaxGenerated)
                  /\ NextAttempt(w, [h EXCEPT !.name = n, !.attempt = 0])
      PROVE  IInv'
  <2>1. CASE n = NoName
    BY <1>1, <1>2, <1>4, <2>1, GotoErrorInv
  <2>2. CASE n # NoName
    <3>1. n \in Names /\ used' \in Bounds
      BY <1>2, <1>4, <2>2, GeneratedNames, UsesBounds
    <3>2. PICK g : g = [h EXCEPT !.name = n, !.attempt = 0]
      OBVIOUS
    <3>3. 0 \in 0 .. MaxAttempts
      BY EdxAccountAssumption
    <3>4. /\ g \in Handler /\ g.user = h.user /\ g.owns = h.owns
          /\ g.inst = h.inst /\ g.name = n
      BY <1>2, <3>1, <3>2, <3>3 DEF Handler
    <3>5. NextAttempt(w, g)
      BY <1>4, <2>2, <3>2
    <3> QED
      BY <1>1, <1>2, <3>1, <3>4, <3>5, NextAttemptInv
  <2> QED
    BY <2>1, <2>2
<1> QED
  BY <1>3, <1>4 DEF PostDuplicateUsername

LEMMA PostDuplicateEmailInv ==
  ASSUME IInv, NEW w \in Workers, PostDuplicateEmail(w)
  PROVE  IInv'
<1> DEFINE h == [proc[w] EXCEPT !.fixed = TRUE]
<1>1. h \in Handler /\ h.pc = proc[w].pc /\ h.user = proc[w].user
      /\ h.owns = proc[w].owns /\ h.inst = proc[w].inst /\ h.name = proc[w].name
  BY Facts DEF Handler
<1>2. proc[w].pc = "post" /\ UNCHANGED <<row, account, lock, late, used>>
  BY <1>1 DEF PostDuplicateEmail
<1>3. h.name \in Names /\ lti \in SUBSET Users /\ used' \in Bounds
  BY <1>1, <1>2, Facts, Posting
<1> HIDE DEF h
<1>4. CASE lti' = lti \ {h.user} /\ NextAttempt(w, h)
  BY <1>1, <1>2, <1>3, <1>4, NextAttemptInv
<1>5. CASE lti' = lti /\ Goto(w, "error")
  BY <1>2, <1>3, <1>5, GotoErrorInv
<1> QED
  BY <1>4, <1>5 DEF PostDuplicateEmail, h

-----------------------------------------------------------------------------
(* The outcome is saved; what happens around the workers *)

LEMMA SaveSyncedInv ==
  ASSUME IInv, NEW w \in Workers, SaveSynced(w)
  PROVE  IInv'
<1> DEFINE h == proc[w]
           inst == [h.inst EXCEPT !.synced = TRUE]
<1>1. /\ h.pc = "synced" /\ ReleaseAndStop(w)
      /\ UNCHANGED <<account, lti, late, used>>
      /\ IF CanSave(h.user, inst) THEN Save(h.user, inst) ELSE UNCHANGED row
  BY DEF SaveSynced, SaveOutcome
<1>2. /\ h.inst \in Row /\ h.name \in Names /\ h.inst.username = h.name
      /\ account[h.name] = h.user
      /\ h.owns \/ h.user \in late
  BY <1>1, Facts DEF Fit, Holding
<1>3. inst \in Row /\ inst.username = h.name
  BY <1>2 DEF Row
<1> HIDE DEF inst
<1>4. CASE Save(h.user, inst)
  <2>1. Becomes(w, Idle) /\ lock' = IF h.owns THEN lock \ {h.user} ELSE lock
    BY <1>1 DEF ReleaseAndStop
  <2>2. Fit(Idle, account, late) /\ ~Idle.owns /\ Idle.pc \notin Holding
    BY IdleFresh, FreshFits DEF Fresh, Holding
  <2> QED
    BY <1>1, <1>2, <1>3, <1>4, <2>1, <2>2, SaveKeeps
<1>5. CASE row' = row
  BY <1>1, <1>5, Facts, StopInv
<1> QED
  BY <1>1, <1>4, <1>5

LEMMA SetEdxErrorInv ==
  ASSUME IInv, NEW w \in Workers, SetEdxError(w)
  PROVE  IInv'
<1> DEFINE h == proc[w]
           inst == [h.inst EXCEPT !.error = TRUE]
<1>1. /\ h.pc = "error" /\ ReleaseAndStop(w)
      /\ UNCHANGED <<account, lti, late, used>>
      /\ IF CanSave(h.user, inst) THEN Save(h.user, inst) ELSE UNCHANGED row
  BY DEF SetEdxError, SaveOutcome
<1>2. /\ h.inst \in Row /\ ~h.inst.synced
      /\ h.owns \/ h.user \in late
  BY <1>1, Facts DEF Fit, Holding
<1>3. inst \in Row /\ ~inst.synced
  BY <1>2 DEF Row
<1> HIDE DEF inst
<1>4. CASE Save(h.user, inst)
  <2>1. Becomes(w, Idle) /\ lock' = IF h.owns THEN lock \ {h.user} ELSE lock
    BY <1>1 DEF ReleaseAndStop
  <2>2. Fit(Idle, account, late) /\ ~Idle.owns /\ Idle.pc \notin Holding
    BY IdleFresh, FreshFits DEF Fresh, Holding
  <2> QED
    BY <1>1, <1>2, <1>3, <1>4, <2>1, <2>2, SaveKeeps
<1>5. CASE row' = row
  BY <1>1, <1>5, Facts, StopInv
<1> QED
  BY <1>1, <1>4, <1>5

\* An edit changes nothing of a row but the error.
LEMMA ClearedRow ==
  ASSUME TypeOK, NEW u \in Users, ClearSyncError(u)
  PROVE  /\ row' \in [Users -> Row]
         /\ \A v \in Users : /\ row'[v].synced = row[v].synced
                             /\ row'[v].username = row[v].username
<1>1. row' = [row EXCEPT ![u] = [row[u] EXCEPT !.error = FALSE]]
  BY DEF ClearSyncError
<1>2. row[u] \in Row
  BY DEF TypeOK
<1>3. PICK r : r = [row[u] EXCEPT !.error = FALSE]
  OBVIOUS
<1>4. r \in Row /\ r.synced = row[u].synced /\ r.username = row[u].username
  BY <1>2, <1>3 DEF Row
<1>5. row' = [row EXCEPT ![u] = r]
  BY <1>1, <1>3
<1> QED
  BY <1>4, <1>5 DEF TypeOK

LEMMA ClearSyncErrorInv ==
  ASSUME IInv, NEW u \in Users, ClearSyncError(u)
  PROVE  IInv'
<1>1. UNCHANGED <<account, lti, lock, proc, late>>
  BY DEF ClearSyncError
<1>2. /\ row' \in [Users -> Row]
      /\ \A v \in Users : /\ row'[v].synced = row[v].synced
                          /\ row'[v].username = row[v].username
  BY ClearedRow DEF IInv
<1>3. used' \in Bounds
  BY UsesBounds DEF ClearSyncError, IInv, TypeOK
<1>4. TypeOK'
  BY <1>1, <1>2, <1>3 DEF IInv, TypeOK
<1>5. AllFit' /\ OneOwner'
  BY <1>1 DEF IInv, AllFit, OneOwner
<1>6. RowsNamed' /\ SyncedNameIsInEdx'
  BY <1>1, <1>2 DEF IInv, RowsNamed, SyncedNameIsInEdx
<1>7. Undisturbed'
  <2>1. \A x \in Workers : proc[x].user \in Users
    BY Facts
  <2> QED
    BY <1>1, <1>2, <2>1 DEF IInv, Undisturbed
<1> QED
  BY <1>4, <1>5, <1>6, <1>7 DEF IInv

\* The owner goes on without the lock, and its learner is late from then on.
LEMMA LockExpiresInv ==
  ASSUME IInv, NEW u \in Users, LockExpires(u)
  PROVE  IInv'
<1>1. UNCHANGED <<row, account, lti>> /\ lock' = lock \ {u}
  BY DEF LockExpires
<1>2. proc' = [w \in Workers |-> IF w \in Holders(u)
                                 THEN [proc[w] EXCEPT !.owns = FALSE]
                                 ELSE proc[w]]
  BY DEF LockExpires
<1>3. /\ late \subseteq late' /\ late' \in SUBSET Users /\ used' \in Bounds
      /\ Holders(u) # {} => u \in late'
  BY UsesBounds DEF LockExpires, IInv, TypeOK
<1>4. ASSUME NEW w \in Workers
      PROVE  /\ Fit(proc'[w], account', late')
             /\ proc'[w].pc = proc[w].pc /\ proc'[w].user = proc[w].user
             /\ proc'[w].owns => proc[w].owns /\ proc[w].user # u
  <2>1. Fit(proc[w], account', late')
    BY <1>1, <1>3, FitKept DEF IInv, AllFit
  <2>2. CASE w \in Holders(u)
    <3>1. proc[w].owns /\ proc[w].user = u /\ u \in late'
      BY <1>3, <2>2 DEF Holders
    <3>2. PICK g : g = [proc[w] EXCEPT !.owns = FALSE]
      OBVIOUS
    <3>3. /\ g \in Handler /\ g.pc = proc[w].pc /\ g.user = proc[w].user
          /\ g.inst = proc[w].inst /\ g.name = proc[w].name
          /\ g.attempt = proc[w].attempt /\ ~g.owns
      BY <3>2, Facts DEF Handler
    <3>4. Fit(g, account', late')
      BY <2>1, <3>1, <3>3 DEF Fit, Holding
    <3> QED
      BY <1>2, <2>2, <3>2, <3>3, <3>4
  <2>3. CASE w \notin Holders(u)
    BY <1>2, <2>1, <2>3 DEF Holders
  <2> QED
    BY <2>2, <2>3
<1>5. AllFit' /\ proc' \in [Workers -> Handler]
  <2>1. \A w \in Workers : proc'[w] \in Handler
    BY <1>4 DEF Fit
  <2> QED
    BY <1>2, <1>4, <2>1 DEF AllFit
<1>6. TypeOK'
  BY <1>1, <1>3, <1>5 DEF IInv, TypeOK
<1>7. OneOwner'
  BY <1>1, <1>4 DEF IInv, OneOwner
<1>8. RowsNamed' /\ SyncedNameIsInEdx'
  BY <1>1 DEF IInv, RowsNamed, SyncedNameIsInEdx
<1>9. Undisturbed'
  BY <1>1, <1>3, <1>4 DEF IInv, Undisturbed
<1> QED
  BY <1>5, <1>6, <1>7, <1>8, <1>9 DEF IInv

LEMMA StutterInv ==
  ASSUME IInv, UNCHANGED vars
  PROVE  IInv'
BY DEF vars, IInv, TypeOK, AllFit, OneOwner, RowsNamed, SyncedNameIsInEdx, Undisturbed

LEMMA NextInv ==
  ASSUME IInv, [Next]_vars
  PROVE  IInv'
<1>1. ASSUME NEW w \in Workers, NEW u \in Users, CreateUser(w, u)
      PROVE  IInv'
  <2>1. used' \in Bounds
    BY <1>1, Facts, UsesBounds DEF CreateUser
  <2> QED
    BY <1>1, <2>1, ReconcileInv DEF CreateUser
<1>2. ASSUME NEW w \in Workers, NEW u \in Users, RepairFaultyUser(w, u)
      PROVE  IInv'
  BY <1>2, Facts, ReconcileInv DEF RepairFaultyUser
<1>3. ASSUME NEW w \in Workers, Step(w)
      PROVE  IInv'
  BY <1>3, ChooseNameInv, SaveNameInv, AcquireLockInv, LockTimeoutInv,
     SaveAttemptInv, PostRegisteredInv, PostFailsInv, PostInvalidInv,
     PostDuplicateUsernameInv, PostDuplicateEmailInv, SaveSyncedInv,
     SetEdxErrorInv DEF Step
<1>4. ASSUME NEW w \in Workers, Crash(w)
      PROVE  IInv'
  BY <1>4, CrashInv
<1>5. ASSUME NEW u \in Users, ClearSyncError(u) \/ LockExpires(u)
      PROVE  IInv'
  BY <1>5, ClearSyncErrorInv, LockExpiresInv
<1>6. CASE UNCHANGED vars
  BY <1>6, StutterInv
<1> QED
  BY <1>1, <1>2, <1>3, <1>4, <1>5, <1>6 DEF Next

LEMMA InvariantHolds == Spec => []IInv
<1>1. Init => IInv
  BY InitInvariant
<1>2. IInv /\ [Next]_vars => IInv'
  BY NextInv
<1> QED
  BY <1>1, <1>2, PTL DEF Spec

\* A row that says synced carries a name edX gave to its learner, whichever
\* workers saved it and in whichever order; rows, workers and the use of the
\* bounds keep their types (create_edx_user and _create_edx_user_request).
THEOREM SyncedNames == Spec => [](TypeOK /\ SyncedNameIsInEdx)
<1>1. IInv => TypeOK /\ SyncedNameIsInEdx
  BY DEF IInv
<1> QED
  BY <1>1, InvariantHolds, PTL

-----------------------------------------------------------------------------
(* A synced learner stays synced *)

\* Who may save a row saves none that is synced, late learners apart.
LEMMA SavesElsewhere ==
  ASSUME IInv, NEW w \in Workers,
         proc[w].pc \in Holding \cup {"save_name"},
         NEW inst, Save(proc[w].user, inst),
         NEW u \in Users \ late, row[u].synced
  PROVE  row'[u] = row[u]
<1>1. proc[w].user # u
  BY Facts DEF Fit, IInv, Undisturbed
<1> QED
  BY <1>1 DEF Save, IInv, TypeOK

LEMMA SyncedKept ==
  ASSUME IInv, Next, NEW u \in Users \ late, row[u].synced
  PROVE  row'[u].synced /\ row'[u].username = row[u].username
<1>1. CASE row' = row
  BY <1>1
<1>2. ASSUME NEW w \in Workers, SaveName(w)
      PROVE  row'[u] = row[u]
  <2>1. proc[w].pc = "save_name"
        /\ (row' = row \/ Save(proc[w].user, proc[w].inst))
    BY <1>2 DEF SaveName
  <2> QED
    BY <2>1, SavesElsewhere
<1>3. ASSUME NEW w \in Workers, SaveAttempt(w)
      PROVE  row'[u] = row[u]
  <2>1. /\ proc[w].pc = "save"
        /\ row' = row
           \/ Save(proc[w].user, [proc[w].inst EXCEPT !.username = proc[w].name])
    BY <1>3 DEF SaveAttempt
  <2> QED
    BY <2>1, SavesElsewhere DEF Holding
<1>4. ASSUME NEW w \in Workers, SaveSynced(w) \/ SetEdxError(w)
      PROVE  row'[u] = row[u]
  <2>1. /\ proc[w].pc \in {"synced", "error"}
        /\ row' = row \/ \E inst : Save(proc[w].user, inst)
    BY <1>4 DEF SaveSynced, SetEdxError, SaveOutcome
  <2> QED
    BY <2>1, SavesElsewhere DEF Holding
<1>5. ASSUME NEW v \in Users, ClearSyncError(v)
      PROVE  row'[u].synced /\ row'[u].username = row[u].username
  BY <1>5, ClearedRow DEF IInv
<1>6. ASSUME NEW w \in Workers, NEW v \in Users, CreateUser(w, v) \/ RepairFaultyUser(w, v)
      PROVE  row' = row
  BY <1>6 DEF CreateUser, RepairFaultyUser, Reconcile
<1>7. ASSUME NEW w \in Workers, Step(w)
      PROVE  \/ row' = row \/ SaveName(w) \/ SaveAttempt(w)
             \/ SaveSynced(w) \/ SetEdxError(w)
  BY <1>7 DEF Step, ChooseName, AcquireLock, LockTimeout, PostRegistered, PostFails,
         PostInvalid, PostDuplicateUsername, PostDuplicateEmail
<1>8. ASSUME NEW v, NEW w, LockExpires(v) \/ Crash(w)
      PROVE  row' = row
  BY <1>8 DEF LockExpires, Crash
<1> QED
  BY <1>1, <1>2, <1>3, <1>4, <1>5, <1>6, <1>7, <1>8 DEF Next

\* A learner who has been synced stays so under the same name, as long as no
\* worker outlived its lock or chose the learner's first username: the lock
\* and the second look at the row in _create_edx_user_request suffice.
THEOREM StaysSynced == Spec => OnceSynced
<1> DEFINE Kept == \A u \in Users \ late :
              row[u].synced => row'[u].synced /\ row'[u].username = row[u].username
<1>1. IInv /\ [Next]_vars => [Kept]_vars
  <2>1. ASSUME IInv, Next
        PROVE  Kept
    BY <2>1, SyncedKept
  <2> QED
    BY <2>1
<1>2. Spec => [][Kept]_vars
  BY <1>1, InvariantHolds, PTL DEF Spec
<1> QED
  BY <1>2 DEF OnceSynced
=============================================================================
