------------------------ MODULE ContractCodesProofs ------------------------
(***************************************************************************)
(* The properties of ContractCodes, for any numbers of learners, workers,  *)
(* codes, records, mails and operations.                                   *)
(*                                                                         *)
(* Who redeemed a code is a member because the learner is added first and  *)
(* members never leave; instances in memory are as good as the records     *)
(* they were loaded from.  Learners who come by code exceed the seats by   *)
(* at most the requests between the check and the addition.  Everything    *)
(* else is argued code by code: while a code is undisturbed its handlers   *)
(* follow one another, so what a handler loaded is what it writes over,    *)
(* and a step on one code leaves the records, mails and secret of every    *)
(* other code alone.  A second invariant says what a check of the codes    *)
(* knows between its counts, its pick and its removals.                    *)
(***************************************************************************)
EXTENDS ContractCodes, FiniteSetTheorems, WellFoundedInduction, TLAPS

Labels == {"idle", "attach", "redeem", "assign", "revoke", "reassign", "remind",
           "new_secret", "mid", "event", "codes", "select", "unlink", "delete"}
Checks == {"codes", "select", "unlink", "delete"}
AnyCode == [exists: BOOLEAN, linked: BOOLEAN, unlimited: BOOLEAN, secret: Nat]
AnyRecord == [exists: BOOLEAN, code: Nat, email: Users \cup {NoUser},
              user: Users \cup {NoUser}, mid: Nat, ts: Nat]
Handler == [pc: Labels, code: Nat, user: Users \cup {NoUser}, rec: Nat,
            inst: AnyRecord, n: Nat, picks: SUBSET Codes]
Mail == [mid: Nat, rec: Nat, email: Users \cup {NoUser}, code: Nat, secret: Nat]

\* Shape of the state, without the bounds of the model.
Shape ==
    /\ seats \in Nat
    /\ code \in [Codes -> AnyCode]
    /\ rec \in [Records -> AnyRecord]
    /\ members \in SUBSET Users /\ IsFiniteSet(members)
    /\ enrolled \in SUBSET Users
    /\ queue \in [Records -> Nat]
    /\ mailed \in SUBSET Mail /\ IsFiniteSet(mailed)
    /\ proc \in [Workers -> Handler]
    /\ newest \in [Records -> Nat]
    /\ disturbed \in SUBSET Nat
    /\ count \in [ops: Nat, crashes: Nat, records: Nat]

\* Whoever a record, or an instance of one, names as the redeemer is in.
Admitted ==
    /\ \A r \in Records : rec[r].user # NoUser => rec[r].user \in members
    /\ \A w \in Workers :
          /\ proc[w].inst.user # NoUser => proc[w].inst.user \in members
          /\ proc[w].pc = "redeem" => proc[w].user \in members
          /\ proc[w].pc \in {"attach", "redeem"} => proc[w].user \in Users

\* Requests between the check of the seats and the addition.
Attaching == {w \in Workers : proc[w].pc = "attach"}
SeatsCounted ==
    seats # 0 =>
        Cardinality(members \ enrolled) + Cardinality(Attaching) + 1
           <= seats + Cardinality(Workers)

\* Records not made yet, and the code each of the others belongs to.
Unmade ==
    \A r \in Records : r > count.records => ~rec[r].exists /\ newest[r] = 0
RecordsCoded == \A r \in Records : r <= count.records => rec[r].code \in Codes

\* What a handler h has in hand: a code, and a record of this code.
InHand(h) ==
    /\ h.pc \notin {"idle"} \cup Checks => h.code \in Codes
    /\ h.pc = "idle" => h.code = 0
    /\ h.pc \in Checks => h.code = Check
    /\ h.pc \in {"revoke", "reassign", "remind", "mid", "event"} =>
          h.rec \in Records /\ h.rec <= count.records /\ rec[h.rec].code = h.code
    /\ h.pc \in {"revoke", "reassign", "remind", "event"} =>
          h.inst.exists /\ h.inst.code = h.code
    /\ h.pc = "unlink" => h.picks # {}
    /\ h.pc = "delete" => h.n \in h.picks
AllInHand == \A w \in Workers : InHand(proc[w])

\* The handlers of a code that is not disturbed are alone.
Alone ==
    \A w, x \in Workers :
        w # x /\ proc[w].code = proc[x].code /\ proc[w].code # 0
          => proc[w].code \in disturbed

\* The mails with a secret that still opens the code.
Current(c) == {m \in mailed : m.code = c /\ m.secret = code[c].secret}
MailsOld == \A m \in mailed : m.code \in Codes /\ m.secret <= code[m.code].secret

\* What the handler h of an undisturbed code can rely on until it writes.
Steady(h) ==
    h.code \notin disturbed =>
        /\ h.pc \in {"revoke", "reassign", "remind"} =>
              rec[h.rec].exists /\ rec[h.rec].user = NoUser /\ h.inst.user = NoUser
        /\ h.pc = "remind" =>
              rec[h.rec].email = h.inst.email \/ Current(h.code) = {}
        /\ h.pc = "event" => rec[h.rec] = h.inst /\ h.n > h.inst.ts
        /\ h.pc = "assign" => RecordsOf(h.code) = {}
AllSteady == \A w \in Workers : Steady(proc[w])

\* The records and mails of an undisturbed code.
Revoking(c) == \E w \in Workers : proc[w].pc = "new_secret" /\ proc[w].code = c
Settled(c) ==
    /\ \A r \in RecordsOf(c) : rec[r].ts = newest[r]
    /\ \A r, q \in RecordsOf(c) : ~Redeemed(r) => q = r
    /\ RecordsOf(c) = {} => Revoking(c) \/ Current(c) = {}
    /\ \A m \in Current(c), r \in RecordsOf(c) : ~Redeemed(r) => m.email = rec[r].email
AllSettled == \A c \in Codes \ disturbed : Settled(c)

\* Codes that do not exist, or not any more, have no records.
Gone == \A c \in Codes \ disturbed : ~code[c].exists => RecordsOf(c) = {}

IInv ==
    /\ Shape
    /\ Admitted
    /\ SeatsCounted
    /\ Unmade
    /\ RecordsCoded
    /\ AllInHand
    /\ Alone
    /\ MailsOld
    /\ AllSteady
    /\ AllSettled
    /\ Gone

-----------------------------------------------------------------------------
(* A step on one code leaves the others alone *)

\* Nothing of code c changes.
Quiet(c) ==
    /\ RecordsOf(c)' = RecordsOf(c)
    /\ \A r \in RecordsOf(c) : rec'[r] = rec[r] /\ newest'[r] = newest[r]
    /\ Current(c)' = Current(c)

\* A record belongs to its code for good.
CodesKept ==
    /\ \A r \in Records : r <= count.records => rec'[r].code = rec[r].code
    /\ count.records <= count'.records

LEMMA IdleInHand ==
  /\ Idle \in Handler /\ InHand(Idle) /\ Steady(Idle)
  /\ Idle.pc = "idle" /\ Idle.code = 0 /\ Idle.inst.user = NoUser
BY ContractCodesAssumption
   DEF Idle, Handler, Labels, Checks, InHand, Steady, NoRecord, AnyRecord

LEMMA InHandKept ==
  ASSUME NEW h \in Handler, InHand(h), CodesKept,
         count.records \in Nat, count'.records \in Nat
  PROVE  InHand(h)'
<1>1. h.rec \in Nat
  BY DEF Handler
<1> QED
  BY <1>1 DEF InHand, Checks, CodesKept

LEMMA QuietSteady ==
  ASSUME NEW h, InHand(h), Steady(h), Quiet(h.code), disturbed \subseteq disturbed'
  PROVE  Steady(h)'
<1>1. SUFFICES ASSUME h.code \notin disturbed'
               PROVE  Steady(h)'
  BY DEF Steady
<1>2. h.code \notin disturbed
  BY <1>1
<1>3. ASSUME h.pc \in {"revoke", "reassign", "remind"}
      PROVE  /\ rec'[h.rec].exists /\ rec'[h.rec].user = NoUser /\ h.inst.user = NoUser
             /\ rec'[h.rec] = rec[h.rec]
  <2>1. h.rec \in RecordsOf(h.code)
    BY <1>2, <1>3 DEF Steady, InHand, Checks, RecordsOf
  <2> QED
    BY <1>2, <1>3, <2>1 DEF Steady, Quiet
<1>4. ASSUME h.pc = "remind"
      PROVE  rec'[h.rec].email = h.inst.email \/ Current(h.code)' = {}
  BY <1>2, <1>3, <1>4 DEF Steady, Quiet
<1>5. ASSUME h.pc = "event"
      PROVE  rec'[h.rec] = h.inst /\ h.n > h.inst.ts
  <2>1. h.rec \in RecordsOf(h.code)
    BY <1>2, <1>5 DEF Steady, InHand, Checks, RecordsOf
  <2> QED
    BY <1>2, <1>5, <2>1 DEF Steady, Quiet
<1>6. ASSUME h.pc = "assign"
      PROVE  RecordsOf(h.code)' = {}
  BY <1>2, <1>6 DEF Steady, Quiet
<1> QED
  BY <1>3, <1>4, <1>5, <1>6 DEF Steady

LEMMA QuietSettled ==
  ASSUME NEW c, Settled(c), Quiet(c), Revoking(c) => Revoking(c)'
  PROVE  Settled(c)'
<1>1. \A r \in RecordsOf(c)' : rec'[r].ts = newest'[r]
  BY DEF Settled, Quiet
<1>2. \A r, q \in RecordsOf(c)' : ~Redeemed(r)' => q = r
  BY DEF Settled, Quiet, Redeemed
<1>3. RecordsOf(c)' = {} => Revoking(c)' \/ Current(c)' = {}
  BY DEF Settled, Quiet
<1>4. \A m \in Current(c)', r \in RecordsOf(c)' : ~Redeemed(r)' => m.email = rec'[r].email
  BY DEF Settled, Quiet, Redeemed
<1> QED
  BY <1>1, <1>2, <1>3, <1>4 DEF Settled

\* The step of a worker on code c: what holds of c afterwards is for the
\* action to show, the rest follows.
LEMMA CodeStep ==
  ASSUME IInv, NEW w \in Workers, NEW h \in Handler, proc' = [proc EXCEPT ![w] = h],
         NEW c \in Nat, h.code \in {0, c},
         proc[w].code \in {0, c} \cup disturbed',
         disturbed \subseteq disturbed',
         c # 0 /\ c \notin disturbed' => \A x \in Workers \ {w} : proc[x].code # c,
         CodesKept, count'.records \in Nat,
         \A d \in Codes \ disturbed' : d # c => Quiet(d),
         c \in Codes \ disturbed' => Settled(c)',
         InHand(h)', Steady(h)'
  PROVE  AllInHand' /\ Alone' /\ AllSteady' /\ AllSettled'
<1>1. proc' = [x \in Workers |-> IF x = w THEN h ELSE proc[x]]
  BY DEF IInv, Shape
<1>2. \A x \in Workers : proc[x] \in Handler /\ InHand(proc[x]) /\ Steady(proc[x])
  BY DEF IInv, Shape, AllInHand, AllSteady
<1>3. AllInHand'
  <2>1. ASSUME NEW x \in Workers
        PROVE  InHand(proc[x])'
    <3>1. PICK g : g = IF x = w THEN h ELSE proc[x]
      OBVIOUS
    <3>2. InHand(g)'
      <4>1. InHand(proc[x]) /\ proc[x] \in Handler /\ count.records \in Nat
        BY <1>2 DEF IInv, Shape
      <4>2. CASE x # w
        BY <3>1, <4>1, <4>2, InHandKept
      <4> QED
        BY <3>1, <4>2
    <3>3. proc'[x] = g
      BY <1>1, <3>1
    <3> QED
      BY <3>2, <3>3 DEF InHand, Checks
  <2> QED
    BY <2>1 DEF AllInHand
<1>4. Alone'
  BY <1>1 DEF IInv, Alone
<1>5. AllSteady'
  <2>1. ASSUME NEW x \in Workers
        PROVE  Steady(proc[x])'
    <3>1. PICK g : g = IF x = w THEN h ELSE proc[x]
      OBVIOUS
    <3>2. proc'[x] = g
      BY <1>1, <3>1
    <3>3. CASE x # w /\ g.pc \notin {"idle"} \cup Checks /\ g.code \notin disturbed'
      <4>1. InHand(g) /\ Steady(g) /\ g = proc[x]
        BY <1>2, <3>1, <3>3
      <4>2. g.code \in Codes /\ g.code # 0
        BY <3>3, <4>1 DEF InHand, Checks, Codes
      <4>3. g.code # c
        BY <3>3, <4>1, <4>2
      <4>4. Quiet(g.code)
        BY <3>3, <4>2, <4>3
      <4> QED
        BY <3>2, <4>1, <4>4, QuietSteady DEF Steady
    <3>4. CASE x = w
      BY <3>1, <3>2, <3>4 DEF Steady
    <3>5. CASE g.pc \in {"idle"} \cup Checks \/ g.code \in disturbed'
      BY <3>2, <3>5 DEF Steady, Checks
    <3> QED
      BY <3>3, <3>4, <3>5
  <2> QED
    BY <2>1 DEF AllSteady
<1>6. AllSettled'
  <2>1. ASSUME NEW d \in Codes, d \notin disturbed'
        PROVE  Settled(d)'
    <3>1. CASE d = c
      BY <2>1, <3>1
    <3>2. CASE d # c
      <4>1. Settled(d) /\ Quiet(d)
        BY <2>1, <3>2 DEF IInv, AllSettled
      <4>2. ASSUME Revoking(d) PROVE Revoking(d)'
        <5>1. PICK x \in Workers : proc[x].pc = "new_secret" /\ proc[x].code = d
          BY <4>2 DEF Revoking
        <5>2. x # w
          BY <2>1, <3>2, <5>1 DEF Codes
        <5> QED
          BY <1>1, <5>1, <5>2 DEF Revoking
      <4> QED
        BY <4>1, <4>2, QuietSettled
    <3> QED
      BY <3>1, <3>2
  <2> QED
    BY <2>1 DEF AllSettled
<1> QED
  BY <1>3, <1>4, <1>5, <1>6

-----------------------------------------------------------------------------
(* Members and seats *)

\* Members stay, and a record is redeemed by one of them only.
LEMMA AdmittedKept ==
  ASSUME IInv, NEW w \in Workers, NEW h \in Handler, proc' = [proc EXCEPT ![w] = h],
         members \subseteq members',
         \A r \in Records : rec'[r].user \in {NoUser, rec[r].user} \cup members',
         h.inst.user # NoUser => h.inst.user \in members',
         h.pc = "redeem" => h.user \in members',
         h.pc \in {"attach", "redeem"} => h.user \in Users
  PROVE  Admitted'
<1>1. proc' = [x \in Workers |-> IF x = w THEN h ELSE proc[x]]
  BY DEF IInv, Shape
<1>2. \A r \in Records : rec'[r].user # NoUser => rec'[r].user \in members'
  BY DEF IInv, Admitted
<1>3. ASSUME NEW x \in Workers
      PROVE  /\ proc'[x].inst.user # NoUser => proc'[x].inst.user \in members'
             /\ proc'[x].pc = "redeem" => proc'[x].user \in members'
             /\ proc'[x].pc \in {"attach", "redeem"} => proc'[x].user \in Users
  <2>1. CASE x = w
    BY <1>1, <2>1
  <2>2. CASE x # w
    BY <1>1, <2>2 DEF IInv, Admitted
  <2> QED
    BY <2>1, <2>2
<1> QED
  BY <1>2, <1>3 DEF Admitted

LEMMA AttachingFinite ==
  /\ IsFiniteSet(Attaching) /\ Cardinality(Attaching) \in Nat
  /\ Cardinality(Attaching) <= Cardinality(Workers)
  /\ IsFiniteSet(Attaching') /\ Cardinality(Attaching') \in Nat
  /\ Cardinality(Attaching') <= Cardinality(Workers)
  /\ Cardinality(Workers) \in Nat
<1>1. IsFiniteSet(Workers)
  BY ContractCodesAssumption
<1>2. Attaching \in SUBSET Workers /\ Attaching' \in SUBSET Workers
  BY DEF Attaching
<1>3. IsFiniteSet(Attaching) /\ Cardinality(Attaching) <= Cardinality(Workers)
  BY <1>1, <1>2, FS_Subset
<1>4. IsFiniteSet(Attaching') /\ Cardinality(Attaching') <= Cardinality(Workers)
  BY <1>1, <1>2, FS_Subset
<1> QED
  BY <1>1, <1>3, <1>4, FS_CardinalityType

LEMMA JoinedFinite ==
  ASSUME Shape
  PROVE  /\ IsFiniteSet(members \ enrolled) /\ Cardinality(members \ enrolled) \in Nat
         /\ Cardinality(members) \in Nat
         /\ Cardinality(members \ enrolled) <= Cardinality(members)
<1>1. IsFiniteSet(members) /\ (members \ enrolled) \in SUBSET members
  BY DEF Shape
<1>2. /\ IsFiniteSet(members \ enrolled)
      /\ Cardinality(members \ enrolled) <= Cardinality(members)
  BY <1>1, FS_Subset
<1> QED
  BY <1>1, <1>2, FS_CardinalityType

LEMMA SeatsKept ==
  ASSUME IInv, NEW w \in Workers, NEW h, proc' = [proc EXCEPT ![w] = h],
         UNCHANGED <<seats, members, enrolled>>, h.pc # "attach"
  PROVE  SeatsCounted'
<1>1. Attaching' \subseteq Attaching
  BY DEF Attaching, IInv, Shape
<1>2. Cardinality(Attaching') <= Cardinality(Attaching)
  BY <1>1, AttachingFinite, FS_Subset
<1>3. Cardinality(members \ enrolled) \in Nat /\ seats \in Nat
  BY JoinedFinite DEF IInv, Shape
<1> QED
  BY <1>2, <1>3, AttachingFinite DEF IInv, SeatsCounted

\* The check: a seat is free, and no more than all workers are on their way.
LEMMA SeatsChecked ==
  ASSUME IInv, UNCHANGED <<seats, members, enrolled>>, ~IsFull
  PROVE  SeatsCounted'
<1>1. /\ Cardinality(members) \in Nat /\ Cardinality(members \ enrolled) \in Nat
      /\ Cardinality(members \ enrolled) <= Cardinality(members) /\ seats \in Nat
  BY JoinedFinite DEF IInv, Shape
<1> QED
  BY <1>1, AttachingFinite DEF IsFull, SeatsCounted

\* One more member is one less on the way.
LEMMA SeatsTaken ==
  ASSUME IInv, NEW w \in Workers, proc[w].pc = "attach", NEW h,
         proc' = [proc EXCEPT ![w] = h], h.pc # "attach",
         UNCHANGED <<seats, enrolled>>, NEW u, members' = members \cup {u}
  PROVE  SeatsCounted'
<1>1. Attaching' = Attaching \ {w} /\ w \in Attaching
  BY DEF Attaching, IInv, Shape
<1>2. Cardinality(Attaching') = Cardinality(Attaching) - 1
  BY <1>1, AttachingFinite, FS_RemoveElement
<1>3. /\ Cardinality(members \ enrolled) \in Nat /\ seats \in Nat
      /\ Cardinality(members' \ enrolled') \in Nat
      /\ Cardinality(members' \ enrolled') <= Cardinality(members \ enrolled) + 1
  <2> DEFINE J == members \ enrolled
  <2>1. IsFiniteSet(J) /\ Cardinality(J) \in Nat /\ seats \in Nat
    BY JoinedFinite DEF IInv, Shape
  <2>2. /\ IsFiniteSet(J \cup {u})
        /\ Cardinality(J \cup {u}) = Cardinality(J)
              \/ Cardinality(J \cup {u}) = Cardinality(J) + 1
    BY <2>1, FS_AddElement
  <2>3. (members' \ enrolled') \in SUBSET (J \cup {u})
    OBVIOUS
  <2>4. /\ IsFiniteSet(members' \ enrolled')
        /\ Cardinality(members' \ enrolled') <= Cardinality(J \cup {u})
    BY <2>2, <2>3, FS_Subset
  <2>5. Cardinality(members' \ enrolled') \in Nat
    BY <2>4, FS_CardinalityType
  <2> QED
    BY <2>1, <2>2, <2>4, <2>5
<1> QED
  BY <1>2, <1>3, AttachingFinite DEF IInv, SeatsCounted

\* Whoever an enrollment brings in takes no seat of those who come by code.
LEMMA EnrollInv ==
  ASSUME IInv, NEW u \in Users, Enroll(u)
  PROVE  IInv'
<1>1. /\ members' = members \cup {u} /\ enrolled' = enrolled \cup ({u} \ members)
      /\ count' = [count EXCEPT !.ops = @ + 1]
      /\ UNCHANGED <<seats, code, rec, queue, mailed, proc, newest, disturbed>>
  BY DEF Enroll
<1>2. count' \in [ops: Nat, crashes: Nat, records: Nat] /\ count'.records = count.records
  BY <1>1 DEF IInv, Shape
<1>3. Shape'
  <2>1. members' \in SUBSET Users /\ IsFiniteSet(members') /\ enrolled' \in SUBSET Users
    BY <1>1, FS_AddElement DEF IInv, Shape
  <2> QED
    BY <1>1, <1>2, <2>1 DEF IInv, Shape
<1>4. Admitted'
  BY <1>1 DEF IInv, Admitted
<1>5. SeatsCounted'
  <2>1. members' \ enrolled' = members \ enrolled /\ Attaching' = Attaching
    BY <1>1 DEF Attaching
  <2> QED
    BY <1>1, <2>1 DEF IInv, SeatsCounted
<1>6. Unmade' /\ RecordsCoded' /\ AllInHand' /\ Alone' /\ MailsOld' /\ Gone'
  BY <1>1, <1>2 DEF IInv, Unmade, RecordsCoded, AllInHand, InHand, Checks, Alone, MailsOld,
                    Gone, RecordsOf
<1>7. AllSteady' /\ AllSettled'
  BY <1>1 DEF IInv, AllSteady, Steady, AllSettled, Settled, Revoking, Current,
              RecordsOf, Redeemed
<1> QED
  BY <1>3, <1>4, <1>5, <1>6, <1>7 DEF IInv

-----------------------------------------------------------------------------
(* Handlers that start *)

LEMMA SecretsKept ==
  ASSUME NEW c \in Codes, mailed' = mailed, code'[c].secret = code[c].secret
  PROVE  Current(c)' = Current(c)
BY DEF Current

\* A start leaves records and members alone; whoever starts on a code that
\* somebody works on disturbs it.
LEMMA StartQueueInv ==
  ASSUME IInv, NEW w \in Workers, NEW h \in Handler, Begin(w, h),
         UNCHANGED <<seats, rec, members, enrolled, mailed, newest>>, queue' \in [Records -> Nat],
         code' \in [Codes -> AnyCode],
         \A c \in Codes : /\ code'[c].secret = code[c].secret
                          /\ code[c].exists => code'[c].exists,
         InHand(h), Steady(h),
         h.inst.user # NoUser => h.inst.user \in members,
         h.pc # "redeem", h.pc = "attach" => h.user \in Users /\ ~IsFull
  PROVE  IInv'
<1>1. /\ proc' = [proc EXCEPT ![w] = h] /\ disturbed \subseteq disturbed'
      /\ count' = [count EXCEPT !.ops = @ + 1]
      /\ h.code # 0 /\ h.code \notin disturbed' =>
            \A x \in Workers : proc[x].code # h.code
      /\ disturbed' \subseteq disturbed \cup {h.code}
  BY DEF Begin
<1>2. /\ count' \in [ops: Nat, crashes: Nat, records: Nat]
      /\ count'.records = count.records
  BY <1>1 DEF IInv, Shape
<1>3. proc' \in [Workers -> Handler] /\ h.code \in Nat
  BY <1>1 DEF IInv, Shape, Handler
<1>4. Shape'
  BY <1>1, <1>2, <1>3 DEF IInv, Shape
<1>5. Admitted'
  BY <1>1, AdmittedKept
<1>6. SeatsCounted'
  BY <1>1, SeatsKept, SeatsChecked
<1>7. Unmade' /\ RecordsCoded' /\ MailsOld'
  BY <1>2 DEF IInv, Unmade, RecordsCoded, MailsOld
<1>8. \A d \in Codes : Quiet(d)
  <2>1. \A d \in Codes : Current(d)' = Current(d)
    BY SecretsKept
  <2> QED
    BY <2>1 DEF Quiet, RecordsOf
<1>9. CodesKept
  BY <1>2, <1>4 DEF CodesKept, Shape, Records
<1>10. h.code \in Codes \ disturbed' => Settled(h.code)'
  <2>1. SUFFICES ASSUME h.code \in Codes, h.code \notin disturbed'
                 PROVE  Settled(h.code)'
    OBVIOUS
  <2>2. Settled(h.code) /\ Quiet(h.code)
    BY <1>1, <1>8, <2>1 DEF IInv, AllSettled
  <2>3. ~Revoking(h.code)
    BY <1>1, <2>1 DEF Revoking, Codes
  <2> QED
    BY <2>2, <2>3, QuietSettled
<1>11. InHand(h)'
  BY <1>2, <1>9, InHandKept DEF IInv, Shape
<1>12. Steady(h)'
  <2>1. CASE h.pc \in {"idle"} \cup Checks
    BY <2>1 DEF Steady, Checks
  <2>2. CASE h.pc \notin {"idle"} \cup Checks
    BY <1>1, <1>8, <2>2, QuietSteady DEF InHand, Checks
  <2> QED
    BY <2>1, <2>2
<1>13. proc[w].code \in {0, h.code} \cup disturbed'
  BY DEF Begin, IInv, AllInHand, InHand, Checks
<1>14. AllInHand' /\ Alone' /\ AllSteady' /\ AllSettled'
  BY <1>1, <1>2, <1>3, <1>8, <1>9, <1>10, <1>11, <1>12, <1>13, CodeStep
<1>15. Gone'
  BY <1>1 DEF IInv, Gone, RecordsOf
<1> QED
  BY <1>4, <1>5, <1>6, <1>7, <1>14, <1>15 DEF IInv

\* Most of them queue nothing either.
LEMMA StartInv ==
  ASSUME IInv, NEW w \in Workers, NEW h \in Handler, Begin(w, h),
         UNCHANGED <<seats, rec, members, enrolled, queue, mailed, newest>>,
         code' \in [Codes -> AnyCode],
         \A c \in Codes : /\ code'[c].secret = code[c].secret
                          /\ code[c].exists => code'[c].exists,
         InHand(h), Steady(h),
         h.inst.user # NoUser => h.inst.user \in members,
         h.pc # "redeem", h.pc = "attach" => h.user \in Users /\ ~IsFull
  PROVE  IInv'
<1>1. queue' \in [Records -> Nat]
  BY DEF IInv, Shape
<1> QED
  BY <1>1, StartQueueInv

\* The smallest of some numbers is one of them: first() finds a row.
LEMMA MinIn ==
  ASSUME NEW T \in SUBSET Nat, T # {}
  PROVE  Min(T) \in T
<1>1. PICK x \in T : \A y \in T : ~(<<y, x>> \in OpToRel(<, Nat))
  BY NatLessThanWellFounded, WFMin
<1>2. \A y, z \in Nat : y < z => <<y, z>> \in OpToRel(<, Nat)
  BY DEF OpToRel
<1>3. ASSUME NEW y \in T PROVE x =< y
  <2>1. x \in Nat /\ y \in Nat
    OBVIOUS
  <2>2. ~(y < x)
    BY <1>1, <1>2, <2>1, Zenon
  <2> QED
    BY <2>1, <2>2
<1>4. \E z \in T : \A y \in T : z =< y
  BY <1>3
<1> QED
  BY <1>4 DEF Min

LEMMA Indices ==
  /\ Codes \subseteq Nat /\ 0 \notin Codes
  /\ Check \in Nat /\ Check \notin Codes /\ Check # 0
  /\ Records \subseteq Nat /\ 0 \notin Records
BY ContractCodesAssumption DEF Codes, Check, Records

LEMMA AttachCheckInv ==
  ASSUME IInv, NEW w \in Workers, NEW u \in Users, NEW c \in Codes, AttachCheck(w, u, c)
  PROVE  IInv'
<1>1. PICK h : h = [Idle EXCEPT !.pc = "attach", !.code = c, !.user = u]
  OBVIOUS
<1>2. /\ h \in Handler /\ h.pc = "attach" /\ h.code = c /\ h.user = u
      /\ h.inst.user = NoUser
  BY <1>1, IdleInHand, Indices DEF Handler, Labels
<1>3. InHand(h) /\ Steady(h)
  BY <1>2 DEF InHand, Checks, Steady
<1>4. Begin(w, h) /\ ~IsFull /\ UNCHANGED <<seats, code, rec, members, enrolled, queue, mailed, newest>>
  BY <1>1 DEF AttachCheck
<1>5. code' \in [Codes -> AnyCode]
  BY <1>4 DEF IInv, Shape
<1> QED
  BY <1>2, <1>3, <1>4, <1>5, StartInv

\* An assignment starts on a code without records.
LEMMA AssignStart ==
  ASSUME IInv, NEW w \in Workers, NEW email \in Users, NEW c \in Codes,
         c \notin disturbed => Unused(c),
         NEW h, h = [Idle EXCEPT !.pc = "assign", !.code = c, !.user = email],
         Begin(w, h),
         code' \in [Codes -> AnyCode],
         \A d \in Codes : /\ code'[d].secret = code[d].secret
                          /\ code[d].exists => code'[d].exists,
         UNCHANGED <<seats, rec, members, enrolled, queue, mailed, newest>>
  PROVE  IInv'
<1>2. /\ h \in Handler /\ h.pc = "assign" /\ h.code = c /\ h.inst.user = NoUser
  BY IdleInHand, Indices DEF Handler, Labels
<1>3. InHand(h) /\ Steady(h)
  BY <1>2 DEF InHand, Checks, Steady, Unused
<1> QED
  BY <1>2, <1>3, StartInv

LEMMA AssignCodeInv ==
  ASSUME IInv, NEW w \in Workers, NEW email \in Users, NEW c \in Codes,
         AssignCode(w, c, email)
  PROVE  IInv'
<1>1. PICK h : /\ h = [Idle EXCEPT !.pc = "assign", !.code = c, !.user = email]
               /\ Begin(w, h)
               /\ Unused(c)
               /\ UNCHANGED <<seats, code, rec, members, enrolled, queue, mailed, newest>>
  BY DEF AssignCode
<1>2. code' \in [Codes -> AnyCode]
  BY <1>1 DEF IInv, Shape
<1> QED
  BY <1>1, <1>2, AssignStart

LEMMA BulkAssignInv ==
  ASSUME IInv, NEW w \in Workers, NEW email \in Users, BulkAssign(w, email)
  PROVE  IInv'
<1> DEFINE free == {c \in Existing : Unused(c)}
<1>1. PICK c : /\ c = IF free # {} THEN Min(free) ELSE Min(Fresh)
               /\ code' = IF free # {} THEN code
                          ELSE [code EXCEPT ![c].exists = TRUE, ![c].linked = TRUE,
                                            ![c].unlimited = FALSE]
               /\ Begin(w, [Idle EXCEPT !.pc = "assign", !.code = c, !.user = email])
  BY DEF BulkAssign
<1>2. free # {} \/ Fresh # {}
  BY DEF BulkAssign
<1>3. free \in SUBSET Codes /\ Fresh \in SUBSET Codes /\ Codes \in SUBSET Nat
  BY DEF Existing, Fresh, Codes
<1>4. free \in SUBSET Nat /\ Fresh \in SUBSET Nat
  BY <1>3
<1>5. c \in Codes /\ (IF free # {} THEN c \in free ELSE c \in Fresh)
  BY <1>1, <1>2, <1>3, <1>4, MinIn
<1>6. c \notin disturbed => Unused(c)
  BY <1>5 DEF IInv, Gone, Fresh, Unused
<1>7. /\ code' \in [Codes -> AnyCode]
      /\ \A d \in Codes : /\ code'[d].secret = code[d].secret
                          /\ code[d].exists => code'[d].exists
  <2>0. code \in [Codes -> AnyCode]
    BY DEF IInv, Shape
  <2>1. CASE code' = code
    BY <2>0, <2>1
  <2>2. CASE code' = [code EXCEPT ![c].exists = TRUE, ![c].linked = TRUE,
                                  ![c].unlimited = FALSE]
    <3>1. code' = [code EXCEPT ![c] = [code[c] EXCEPT !.exists = TRUE, !.linked = TRUE,
                                                      !.unlimited = FALSE]]
      BY <2>2
    <3>2. PICK k : k = [code[c] EXCEPT !.exists = TRUE, !.linked = TRUE, !.unlimited = FALSE]
      OBVIOUS
    <3>3. k \in AnyCode /\ k.secret = code[c].secret /\ k.exists
      BY <1>5, <2>0, <3>2 DEF AnyCode
    <3>4. code' = [code EXCEPT ![c] = k]
      BY <3>1, <3>2
    <3> QED
      BY <1>5, <2>0, <3>3, <3>4
  <2> QED
    BY <1>1, <2>1, <2>2
<1>8. UNCHANGED <<seats, rec, members, enrolled, queue, mailed, newest>>
  BY DEF BulkAssign
<1>9. PICK h : /\ h = [Idle EXCEPT !.pc = "assign", !.code = c, !.user = email]
               /\ Begin(w, h)
  BY <1>1
<1>10. c \in Codes
  BY <1>5
<1> HIDE DEF free
<1> QED
  BY <1>6, <1>7, <1>8, <1>9, <1>10, AssignStart

\* A manager's change starts from a record that nobody redeemed.
LEMMA EditRecordInv ==
  ASSUME IInv, NEW w \in Workers, NEW label \in {"revoke", "reassign", "remind"},
         NEW c \in Codes, NEW email \in Users \cup {NoUser}, EditRecord(w, label, c, email)
  PROVE  IInv'
<1>1. PICK r : r = FirstRecord(c)
  OBVIOUS
<1>2. r \in RecordsOf(c) /\ ~Redeemed(r)
  <2>1. RecordsOf(c) # {} /\ RecordsOf(c) \in SUBSET Nat
    BY DEF EditRecord, Unused, RecordsOf, Records
  <2> QED
    BY <1>1, <2>1, MinIn DEF FirstRecord, EditRecord
<1>3. /\ r \in Records /\ rec[r] \in AnyRecord /\ rec[r].exists
      /\ rec[r].code = c /\ rec[r].user = NoUser /\ r <= count.records
  <2>1. r \in Records /\ rec[r].exists /\ rec[r].code = c /\ rec[r].user = NoUser
    BY <1>2 DEF RecordsOf, Redeemed
  <2>2. r \in Nat /\ count.records \in Nat /\ rec[r] \in AnyRecord
    BY <2>1 DEF IInv, Shape, Records
  <2> QED
    BY <2>1, <2>2 DEF IInv, Unmade
<1>4. PICK h : h = [Idle EXCEPT !.pc = label, !.code = c, !.user = email,
                                !.rec = r, !.inst = rec[r]]
  OBVIOUS
<1>5. /\ h \in Handler /\ h.pc = label /\ h.code = c /\ h.rec = r /\ h.inst = rec[r]
  BY <1>3, <1>4, IdleInHand, Indices DEF Handler, Labels
<1>6. InHand(h) /\ Steady(h)
  BY <1>3, <1>5 DEF InHand, Checks, Steady
<1>7. Begin(w, h) /\ UNCHANGED <<seats, code, rec, members, enrolled, queue, mailed, newest>>
  BY <1>1, <1>4 DEF EditRecord
<1>8. code' \in [Codes -> AnyCode]
  BY <1>7 DEF IInv, Shape
<1>9. h.inst.user = NoUser /\ h.pc # "redeem" /\ h.pc # "attach"
  BY <1>3, <1>5
<1> QED
  BY <1>5, <1>6, <1>7, <1>8, <1>9, StartInv

LEMMA WebhookInv ==
  ASSUME IInv, NEW w \in Workers, NEW r \in Records, NEW ts \in 1 .. MaxTime,
         Webhook(w, r, ts)
  PROVE  IInv'
<1>1. PICK h : h = [Idle EXCEPT !.pc = "event", !.code = rec[r].code, !.rec = r,
                                !.inst = rec[r], !.n = ts]
  OBVIOUS
<1>2. /\ rec[r].exists /\ ts > rec[r].ts /\ rec[r] \in AnyRecord
      /\ r \in Nat /\ r <= count.records /\ ts \in Nat
  BY DEF Webhook, IsNews, IInv, Shape, Unmade, Records
<1>3. /\ h \in Handler /\ h.pc = "event" /\ h.code = rec[r].code /\ h.rec = r
      /\ h.inst = rec[r] /\ h.n = ts
  BY <1>1, <1>2, IdleInHand DEF Handler, Labels, AnyRecord
<1>4. rec[r].code \in Codes
  BY <1>2 DEF IInv, RecordsCoded
<1>5. InHand(h) /\ Steady(h)
  BY <1>2, <1>3, <1>4 DEF InHand, Checks, Steady
<1>6. Begin(w, h) /\ UNCHANGED <<seats, code, rec, members, enrolled, queue, mailed, newest>>
  BY <1>1 DEF Webhook
<1>7. code' \in [Codes -> AnyCode]
  BY <1>6 DEF IInv, Shape
<1>8. h.inst.user # NoUser => h.inst.user \in members
  BY <1>3 DEF IInv, Admitted
<1> QED
  BY <1>3, <1>5, <1>6, <1>7, <1>8, StartInv

LEMMA ExistingFinite ==
  /\ Existing \subseteq Codes /\ Codes \subseteq Nat /\ IsFiniteSet(Codes)
  /\ IsFiniteSet(Existing) /\ Cardinality(Existing) \in Nat
  /\ IsFiniteSet(Existing') /\ Cardinality(Existing') \in Nat
<1>1. 1 \in Int /\ MaxCodes \in Int
  BY ContractCodesAssumption
<1>2. IsFiniteSet(Codes) /\ Codes \subseteq Nat
  BY <1>1, FS_Interval DEF Codes
<1>3. Existing \in SUBSET Codes /\ Existing' \in SUBSET Codes
  BY DEF Existing
<1>4. IsFiniteSet(Existing) /\ IsFiniteSet(Existing')
  BY <1>2, <1>3, FS_Subset
<1> QED
  BY <1>2, <1>3, <1>4, FS_CardinalityType

LEMMA CountCodesInv ==
  ASSUME IInv, NEW w \in Workers, CountCodes(w)
  PROVE  IInv'
<1>1. PICK h : h = [Idle EXCEPT !.pc = "codes", !.code = Check,
                                !.n = Cardinality(Existing)]
  OBVIOUS
<1>2. Cardinality(Existing) \in Nat
  BY ExistingFinite
<1>3. h \in Handler /\ h.pc = "codes" /\ h.code = Check /\ h.inst.user = NoUser
  BY <1>1, <1>2, IdleInHand, Indices DEF Handler, Labels
<1>4. InHand(h) /\ Steady(h)
  BY <1>3 DEF InHand, Checks, Steady
<1>5. Begin(w, h) /\ UNCHANGED <<seats, rec, members, enrolled, queue, mailed, newest>>
  BY <1>1 DEF CountCodes
<1>6. code' = [c \in Codes |-> IF c \in Existing /\ seats # 0
                               THEN [code[c] EXCEPT !.unlimited = FALSE]
                               ELSE code[c]]
  BY DEF CountCodes
<1>7. ASSUME NEW c \in Codes
      PROVE  /\ code'[c] \in AnyCode /\ code'[c].secret = code[c].secret
             /\ code[c].exists => code'[c].exists
  <2>1. code[c] \in AnyCode
    BY DEF IInv, Shape
  <2>2. PICK k : k = [code[c] EXCEPT !.unlimited = FALSE]
    OBVIOUS
  <2>3. k \in AnyCode /\ k.secret = code[c].secret /\ k.exists = code[c].exists
    BY <2>1, <2>2 DEF AnyCode
  <2>4. code'[c] = k \/ code'[c] = code[c]
    BY <1>6, <2>2
  <2> QED
    BY <2>1, <2>3, <2>4
<1>8. code' \in [Codes -> AnyCode]
  BY <1>6, <1>7
<1> QED
  BY <1>3, <1>4, <1>5, <1>7, <1>8, StartInv

\* The mail goes to the assignee, with the secret of the moment.
LEMMA SendMailInv ==
  ASSUME IInv, NEW w \in Workers, NEW r \in Records, SendMail(w, r)
  PROVE  IInv'
<1>1. /\ queue' = [queue EXCEPT ![r] = @ - 1] /\ queue[r] > 0
      /\ UNCHANGED <<seats, code, rec, members, enrolled, newest>>
  BY DEF SendMail
<1>2. queue' \in [Records -> Nat]
  BY <1>1 DEF IInv, Shape
<1>3. CASE ~rec[r].exists
  <2>1. Begin(w, Idle) /\ mailed' = mailed
    BY <1>3 DEF SendMail
  <2>2. code' \in [Codes -> AnyCode]
    BY <1>1 DEF IInv, Shape
  <2> QED
    BY <1>1, <1>2, <2>1, <2>2, IdleInHand, StartQueueInv
<1>4. CASE rec[r].exists
  <2>0. PICK c, m, mail, h :
           /\ c = rec[r].code
           /\ m = Cardinality(mailed) + 1
           /\ mail = [mid |-> m, rec |-> r, email |-> rec[r].email, code |-> c,
                      secret |-> code[c].secret]
           /\ h = [Idle EXCEPT !.pc = "mid", !.code = c, !.rec = r, !.n = m]
    OBVIOUS
  <2>1. mailed' = mailed \cup {mail} /\ Begin(w, h)
    BY <1>4, <2>0 DEF SendMail
  <2>2. /\ rec[r] \in AnyRecord /\ r \in Nat /\ r <= count.records /\ c \in Codes
        /\ IsFiniteSet(mailed) /\ m \in Nat /\ c \in Nat /\ c # 0
    <3>1. rec[r] \in AnyRecord /\ IsFiniteSet(mailed) /\ count.records \in Nat
      BY DEF IInv, Shape
    <3>2. r \in Nat /\ r <= count.records
      BY <1>4, <3>1, Indices DEF IInv, Unmade
    <3>3. c \in Codes
      BY <2>0, <3>2 DEF IInv, RecordsCoded
    <3>4. m \in Nat
      BY <2>0, <3>1, FS_CardinalityType
    <3> QED
      BY <3>1, <3>2, <3>3, <3>4, Indices
  <2>3. /\ h \in Handler /\ h.pc = "mid" /\ h.code = c /\ h.rec = r
        /\ h.inst.user = NoUser
    BY <2>0, <2>2, IdleInHand DEF Handler, Labels
  <2>4. mail \in Mail /\ mail.code = c /\ mail.secret = code[c].secret
        /\ mail.email = rec[r].email
    BY <2>0, <2>2 DEF Mail, AnyRecord, IInv, Shape, AnyCode
  <2>5. /\ proc' = [proc EXCEPT ![w] = h] /\ disturbed \subseteq disturbed'
        /\ count' = [count EXCEPT !.ops = @ + 1]
        /\ c \notin disturbed' => \A x \in Workers : proc[x].code # c
        /\ disturbed' \subseteq disturbed \cup {c}
    BY <2>1, <2>2, <2>3 DEF Begin
  <2>6. /\ count' \in [ops: Nat, crashes: Nat, records: Nat]
        /\ count'.records = count.records
    BY <2>5 DEF IInv, Shape
  <2>7. Shape'
    <3>1. proc' \in [Workers -> Handler]
      BY <2>3, <2>5 DEF IInv, Shape
    <3>2. mailed' \in SUBSET Mail /\ IsFiniteSet(mailed')
      BY <2>1, <2>2, <2>4, FS_AddElement DEF IInv, Shape
    <3>3. disturbed' \in SUBSET Nat
      BY <2>2, <2>5 DEF IInv, Shape
    <3> QED
      BY <1>1, <1>2, <2>6, <3>1, <3>2, <3>3 DEF IInv, Shape
  <2>8. Admitted'
    BY <1>1, <2>3, <2>5, AdmittedKept
  <2>9. SeatsCounted'
    BY <1>1, <2>3, <2>5, SeatsKept
  <2>10. Unmade' /\ RecordsCoded'
    BY <1>1, <2>6 DEF IInv, Unmade, RecordsCoded
  <2>11. MailsOld'
    <3>1. ASSUME NEW k \in mailed'
          PROVE  k.code \in Codes /\ k.secret <= code'[k.code].secret
      <4>1. CASE k \in mailed
        BY <1>1, <4>1 DEF IInv, MailsOld
      <4>2. CASE k = mail
        <5>1. code[c].secret \in Nat
          BY <2>2 DEF IInv, Shape, AnyCode
        <5> QED
          BY <1>1, <2>2, <2>4, <4>2, <5>1
      <4> QED
        BY <2>1, <4>1, <4>2
    <3> QED
      BY <3>1 DEF MailsOld
  <2>12. ASSUME NEW d \in Codes, d # c
         PROVE  Quiet(d)
    <3>1. Current(d)' = Current(d)
      BY <1>1, <2>1, <2>4, <2>12 DEF Current
    <3> QED
      BY <1>1, <3>1 DEF Quiet, RecordsOf
  <2>13. CodesKept
    BY <1>1, <2>6, <2>7 DEF CodesKept, Shape
  <2>14. ASSUME c \notin disturbed'
         PROVE  Settled(c)'
    <3>1. Settled(c) /\ RecordsOf(c)' = RecordsOf(c) /\ r \in RecordsOf(c)
      BY <1>1, <1>4, <2>0, <2>2, <2>5, <2>14 DEF IInv, AllSettled, RecordsOf
    <3>2. Current(c)' = Current(c) \cup {mail}
      BY <1>1, <2>1, <2>4 DEF Current
    <3>3. \A q \in RecordsOf(c)' : rec'[q].ts = newest'[q]
      BY <1>1, <3>1 DEF Settled
    <3>4. \A q, p \in RecordsOf(c)' : ~Redeemed(q)' => p = q
      BY <1>1, <3>1 DEF Settled, Redeemed
    <3>5. \A k \in Current(c)', q \in RecordsOf(c)' : ~Redeemed(q)' => k.email = rec'[q].email
      <4>1. ASSUME NEW k \in Current(c)', NEW q \in RecordsOf(c), ~Redeemed(q)
            PROVE  k.email = rec[q].email
        <5>1. CASE k \in Current(c)
          BY <3>1, <4>1, <5>1 DEF Settled
        <5>2. CASE k = mail
          <6>1. q = r
            BY <3>1, <4>1 DEF Settled
          <6> QED
            BY <2>4, <5>2, <6>1
        <5> QED
          BY <3>2, <4>1, <5>1, <5>2
      <4> QED
        BY <1>1, <3>1, <4>1 DEF Redeemed
    <3> QED
      BY <3>1, <3>3, <3>4, <3>5 DEF Settled
  <2>15. InHand(h)' /\ Steady(h)'
    BY <1>1, <2>0, <2>2, <2>3, <2>6 DEF InHand, Checks, Steady
  <2>16. proc[w].code \in {0, c} \cup disturbed'
    BY <2>1 DEF Begin, IInv, AllInHand, InHand, Checks
  <2>17. AllInHand' /\ Alone' /\ AllSteady' /\ AllSettled'
    <3>1. \A d \in Codes \ disturbed' : d # c => Quiet(d)
      BY <2>12
    <3>2. c \in Codes \ disturbed' => Settled(c)'
      BY <2>14
    <3>3. c # 0 /\ c \notin disturbed' => \A x \in Workers \ {w} : proc[x].code # c
      BY <2>5
    <3>4. h.code \in {0, c} /\ count'.records \in Nat /\ disturbed \subseteq disturbed'
      BY <2>3, <2>5, <2>6
    <3> QED
      BY <2>2, <2>3, <2>5, <2>13, <2>15, <2>16, <3>1, <3>2, <3>3, <3>4, CodeStep
  <2>18. Gone'
    BY <1>1, <2>5 DEF IInv, Gone, RecordsOf
  <2> QED
    BY <2>7, <2>8, <2>9, <2>10, <2>11, <2>17, <2>18 DEF IInv
<1> QED
  BY <1>3, <1>4

-----------------------------------------------------------------------------
(* Handlers that go on *)

\* The handler's code is the only one that a step touches, and while it is
\* undisturbed no other handler works on it.
LEMMA ContinueStep ==
  ASSUME IInv, NEW w \in Workers, NEW h \in Handler, Continue(w, h),
         NEW c, c = proc[w].code, h.code \in {0, c},
         CodesKept, count'.records \in Nat,
         \A d \in Codes \ disturbed : d # c => Quiet(d),
         c \in Codes \ disturbed => Settled(c)',
         InHand(h)', Steady(h)'
  PROVE  AllInHand' /\ Alone' /\ AllSteady' /\ AllSettled'
<1>1. c \in Nat
  BY DEF IInv, Shape, Handler
<1>2. proc' = [proc EXCEPT ![w] = h] /\ disturbed' = disturbed
  BY DEF Continue
<1>3. c # 0 /\ c \notin disturbed' => \A x \in Workers \ {w} : proc[x].code # c
  BY <1>2 DEF IInv, Alone
<1> QED
  BY <1>1, <1>2, <1>3, CodeStep

\* A step after which all codes are as before.
LEMMA QuietStep ==
  ASSUME IInv, NEW w \in Workers, NEW h \in Handler, Continue(w, h),
         NEW c, c = proc[w].code, h.code \in {0, c}, proc[w].pc # "new_secret",
         UNCHANGED <<rec, mailed, newest, count>>,
         \A d \in Codes : code'[d].secret = code[d].secret,
         InHand(h)', Steady(h)'
  PROVE  AllInHand' /\ Alone' /\ AllSteady' /\ AllSettled'
<1>1. proc' = [proc EXCEPT ![w] = h] /\ disturbed' = disturbed
  BY DEF Continue
<1>2. CodesKept /\ count'.records \in Nat
  BY DEF CodesKept, IInv, Shape
<1>3. \A d \in Codes : Quiet(d)
  <2>1. \A d \in Codes : Current(d)' = Current(d)
    BY SecretsKept
  <2> QED
    BY <2>1 DEF Quiet, RecordsOf
<1>4. ASSUME c \in Codes \ disturbed
      PROVE  Settled(c)'
  <2>1. Settled(c) /\ Quiet(c)
    BY <1>3, <1>4 DEF IInv, AllSettled
  <2>2. Revoking(c) => Revoking(c)'
    BY <1>1 DEF Revoking, IInv, Shape
  <2> QED
    BY <2>1, <2>2, QuietSettled
<1> QED
  BY <1>2, <1>3, <1>4, ContinueStep

\* The parts of the invariant that a step without records keeps.
LEMMA QuietRest ==
  ASSUME IInv, NEW w \in Workers, NEW h \in Handler, Continue(w, h),
         UNCHANGED <<seats, rec, enrolled, queue, mailed, newest, count>>,
         code' \in [Codes -> AnyCode],
         \A c \in Codes : /\ code'[c].secret >= code[c].secret
                          /\ code[c].exists => code'[c].exists \/ Unused(c),
         members \subseteq members', members' \in SUBSET Users, IsFiniteSet(members'),
         h.inst.user # NoUser => h.inst.user \in members',
         h.pc = "redeem" => h.user \in members',
         h.pc # "attach", SeatsCounted',
         AllInHand' /\ Alone' /\ AllSteady' /\ AllSettled'
  PROVE  IInv'
<1>1. proc' = [proc EXCEPT ![w] = h] /\ disturbed' = disturbed
  BY DEF Continue
<1>2. proc' \in [Workers -> Handler]
  BY <1>1 DEF IInv, Shape
<1>3. Shape'
  BY <1>1, <1>2 DEF IInv, Shape
<1>4. Admitted'
  BY <1>1, AdmittedKept
<1>5. Unmade' /\ RecordsCoded'
  BY DEF IInv, Unmade, RecordsCoded
<1>6. MailsOld'
  <2>1. ASSUME NEW m \in mailed
        PROVE  m.code \in Codes /\ m.secret <= code'[m.code].secret
    <3>1. m.code \in Codes /\ m.secret <= code[m.code].secret /\ m.secret \in Nat
      BY DEF IInv, MailsOld, Shape, Mail
    <3>2. /\ code[m.code].secret \in Nat /\ code'[m.code].secret \in Nat
          /\ code'[m.code].secret >= code[m.code].secret
      BY <3>1 DEF IInv, Shape, AnyCode
    <3> QED
      BY <3>1, <3>2
  <2> QED
    BY <2>1 DEF MailsOld
<1>7. Gone'
  BY <1>1 DEF IInv, Gone, RecordsOf, Unused
<1> QED
  BY <1>3, <1>4, <1>5, <1>6, <1>7 DEF IInv

\* Code and user of a worker's handler.
LEMMA HandlerFacts ==
  ASSUME IInv, NEW w \in Workers
  PROVE  /\ proc[w] \in Handler /\ InHand(proc[w]) /\ Steady(proc[w])
         /\ proc[w].inst \in AnyRecord /\ proc[w].code \in Nat /\ proc[w].rec \in Nat
         /\ proc[w].n \in Nat /\ proc[w].user \in Users \cup {NoUser}
         /\ proc[w].inst.user \in {NoUser} \cup members
<1>1. proc[w] \in Handler
  BY DEF IInv, Shape
<1> QED
  BY <1>1 DEF Handler, IInv, AllInHand, AllSteady, Admitted

LEMMA AttachAddInv ==
  ASSUME IInv, NEW w \in Workers, AttachAdd(w)
  PROVE  IInv'
<1>1. PICK c, h : c = proc[w].code /\ h = [proc[w] EXCEPT !.pc = "redeem"]
  OBVIOUS
<1>2. /\ proc[w].pc = "attach" /\ members' = members \cup {proc[w].user} /\ Continue(w, h)
      /\ UNCHANGED <<seats, code, rec, enrolled, queue, mailed, newest, count>>
  BY <1>1 DEF AttachAdd, At
<1>3. /\ h \in Handler /\ h.pc = "redeem" /\ h.code = c /\ h.user = proc[w].user
      /\ h.inst.user \in {NoUser} \cup members
  BY <1>1, HandlerFacts DEF Handler, Labels
<1>4. c \in Codes /\ proc[w].user \in Users
  BY <1>1, <1>2, HandlerFacts DEF InHand, Checks, IInv, Admitted
<1>5. InHand(h)' /\ Steady(h)'
  BY <1>3, <1>4 DEF InHand, Checks, Steady
<1>6. AllInHand' /\ Alone' /\ AllSteady' /\ AllSettled'
  BY <1>1, <1>2, <1>3, <1>5, QuietStep
<1>7. SeatsCounted'
  BY <1>2, <1>3, SeatsTaken DEF Continue
<1>8. members' \in SUBSET Users /\ IsFiniteSet(members')
  BY <1>2, <1>4, FS_AddElement DEF IInv, Shape
<1>9. \A d \in Codes : code'[d].secret >= code[d].secret
  BY <1>2 DEF IInv, Shape, AnyCode
<1>10. code' \in [Codes -> AnyCode]
  BY <1>2 DEF IInv, Shape
<1> QED
  BY <1>2, <1>3, <1>6, <1>7, <1>8, <1>9, <1>10, QuietRest

\* A handler that ends without having changed anything.
LEMMA FinishInv ==
  ASSUME IInv, NEW w \in Workers, Finish(w), proc[w].pc # "new_secret",
         UNCHANGED <<seats, rec, members, enrolled, queue, mailed, newest, count>>,
         code' \in [Codes -> AnyCode],
         \A c \in Codes : /\ code'[c].secret = code[c].secret
                          /\ code[c].exists => code'[c].exists \/ Unused(c)
  PROVE  IInv'
<1>1. Continue(w, Idle)
  BY DEF Finish
<1>2. Idle \in Handler /\ Idle.pc = "idle" /\ Idle.code = 0 /\ Idle.inst.user = NoUser
  BY IdleInHand
<1>3. PICK h : h = Idle
  OBVIOUS
<1>4. InHand(h)' /\ Steady(h)'
  BY <1>2, <1>3 DEF InHand, Checks, Steady
<1>5. AllInHand' /\ Alone' /\ AllSteady' /\ AllSettled'
  BY <1>1, <1>2, <1>3, <1>4, QuietStep
<1>6. SeatsCounted'
  BY <1>1, <1>2, SeatsKept DEF Continue
<1>7. \A c \in Codes : code'[c].secret >= code[c].secret
  BY DEF IInv, Shape, AnyCode
<1>8. members' \in SUBSET Users /\ IsFiniteSet(members')
  BY DEF IInv, Shape
<1> QED
  BY <1>1, <1>2, <1>5, <1>6, <1>7, <1>8, QuietRest

-----------------------------------------------------------------------------
(* Records that are made and saved *)

\* A new record of an existing code: an assignment of a code without records,
\* or a redemption when no record waits for one.
LEMMA RecordMade ==
  ASSUME IInv, NEW w \in Workers, NEW c \in Codes, c = proc[w].code, code[c].exists,
         proc[w].pc # "new_secret",
         NEW email \in Users \cup {NoUser}, NEW user \in {NoUser} \cup members,
         CreateRecord(c, email, user), Finish(w),
         UNCHANGED <<seats, code, members, enrolled, mailed, newest>>,
         c \notin disturbed => IF user = NoUser THEN RecordsOf(c) = {}
                               ELSE \A q \in RecordsOf(c) : Redeemed(q)
  PROVE  IInv'
<1>1. PICK r, new :
         /\ r = count.records + 1
         /\ new = [exists |-> TRUE, code |-> c, email |-> email,
                   user |-> user, mid |-> 0, ts |-> 0]
  OBVIOUS
<1>2. /\ r \in Records /\ rec' = [rec EXCEPT ![r] = new]
      /\ count' = [count EXCEPT !.records = r]
      /\ queue' = IF email = NoUser THEN queue ELSE [queue EXCEPT ![r] = @ + 1]
  BY <1>1 DEF CreateRecord
<1>3. Continue(w, Idle) /\ proc' = [proc EXCEPT ![w] = Idle] /\ disturbed' = disturbed
  BY DEF Finish, Continue
<1>4. /\ count.records \in Nat /\ rec \in [Records -> AnyRecord]
      /\ members \in SUBSET Users /\ count \in [ops: Nat, crashes: Nat, records: Nat]
      /\ queue \in [Records -> Nat] /\ proc \in [Workers -> Handler]
  BY DEF IInv, Shape
<1>5. /\ new \in AnyRecord /\ new.exists /\ new.code = c /\ new.email = email
      /\ new.user = user /\ new.ts = 0
  BY <1>1, <1>4, Indices DEF AnyRecord
<1>6. /\ count' \in [ops: Nat, crashes: Nat, records: Nat] /\ count'.records = r /\ r \in Nat
  BY <1>1, <1>2, <1>4
<1>7. ~rec[r].exists /\ newest[r] = 0
  BY <1>1, <1>2, <1>4 DEF IInv, Unmade
<1>8. rec' \in [Records -> AnyRecord] /\ rec'[r] = new
      /\ \A q \in Records : q # r => rec'[q] = rec[q]
  BY <1>2, <1>4, <1>5
<1>9. Shape'
  <2>1. queue' \in [Records -> Nat]
    BY <1>2, <1>4
  <2>2. proc' \in [Workers -> Handler]
    BY <1>3, <1>4, IdleInHand
  <2> QED
    BY <1>3, <1>6, <1>8, <2>1, <2>2 DEF IInv, Shape
<1>10. Admitted'
  <2>1. \A q \in Records : rec'[q].user \in {NoUser, rec[q].user} \cup members'
    BY <1>5, <1>8
  <2> QED
    BY <1>3, <2>1, IdleInHand, AdmittedKept
<1>11. SeatsCounted'
  BY <1>3, IdleInHand, SeatsKept
<1>12. Unmade' /\ RecordsCoded'
  <2>1. ASSUME NEW q \in Records, q > r
        PROVE  ~rec'[q].exists /\ newest'[q] = 0
    BY <1>1, <1>4, <1>8, <2>1, Indices DEF IInv, Unmade
  <2>2. ASSUME NEW q \in Records, q <= r
        PROVE  rec'[q].code \in Codes
    <3>1. CASE q = r
      BY <1>5, <1>8, <3>1
    <3>2. CASE q # r
      BY <1>1, <1>4, <1>8, <2>2, <3>2, Indices DEF IInv, RecordsCoded
    <3> QED
      BY <3>1, <3>2
  <2> QED
    BY <1>6, <2>1, <2>2 DEF Unmade, RecordsCoded
<1>13. MailsOld'
  BY DEF IInv, MailsOld
<1>14. RecordsOf(c)' = RecordsOf(c) \cup {r}
  BY <1>2, <1>5, <1>7, <1>8 DEF RecordsOf
<1>15. ASSUME NEW d \in Codes, d # c
       PROVE  Quiet(d)
  <2>1. RecordsOf(d)' = RecordsOf(d)
    BY <1>2, <1>5, <1>7, <1>8, <1>15 DEF RecordsOf
  <2>2. \A q \in RecordsOf(d) : rec'[q] = rec[q]
    BY <1>7, <1>8 DEF RecordsOf
  <2> QED
    BY <2>1, <2>2 DEF Quiet, Current
<1>16. CodesKept
  BY <1>1, <1>4, <1>6, <1>8, Indices DEF CodesKept
<1>17. ASSUME c \notin disturbed
       PROVE  Settled(c)'
  <2>1. Settled(c) /\ Current(c)' = Current(c)
    BY <1>17 DEF IInv, AllSettled, Current
  <2>2. \A q \in RecordsOf(c) : q \in Records /\ q # r /\ rec'[q] = rec[q]
    BY <1>7, <1>8 DEF RecordsOf
  <2>3. \A q \in RecordsOf(c)' : rec'[q].ts = newest'[q]
    BY <1>5, <1>7, <1>8, <1>14, <2>1, <2>2 DEF Settled
  <2>4. CASE user = NoUser
    <3>1. RecordsOf(c) = {} /\ RecordsOf(c)' = {r}
      BY <1>14, <1>17, <2>4
    <3>2. ~Revoking(c)
      BY <1>17, Indices DEF Revoking, IInv, Alone
    <3>3. Current(c)' = {}
      BY <2>1, <3>1, <3>2 DEF Settled
    <3> QED
      BY <2>3, <3>1, <3>3 DEF Settled
  <2>5. CASE user # NoUser
    <3>1. \A q \in RecordsOf(c)' : Redeemed(q)'
      BY <1>5, <1>8, <1>14, <1>17, <2>2, <2>5 DEF Redeemed
    <3> QED
      BY <1>14, <2>3, <3>1 DEF Settled
  <2> QED
    BY <2>4, <2>5
<1>18. PICK h : h = Idle
  OBVIOUS
<1>19. InHand(h)' /\ Steady(h)'
  BY <1>18, IdleInHand DEF InHand, Checks, Steady
<1>20. AllInHand' /\ Alone' /\ AllSteady' /\ AllSettled'
  BY <1>3, <1>6, <1>15, <1>16, <1>17, <1>18, <1>19, IdleInHand, ContinueStep
<1>21. Gone'
  <2>1. ASSUME NEW d \in Codes, d \notin disturbed, ~code[d].exists
        PROVE  RecordsOf(d)' = {}
    <3>1. d # c /\ RecordsOf(d) = {}
      BY <2>1 DEF IInv, Gone
    <3> QED
      BY <1>15, <3>1 DEF Quiet
  <2> QED
    BY <1>3, <2>1 DEF Gone
<1> QED
  BY <1>9, <1>10, <1>11, <1>12, <1>13, <1>20, <1>21 DEF IInv

\* A record of the handler's code is written.
LEMMA RecordSaved ==
  ASSUME IInv, NEW w \in Workers, NEW h \in Handler, Continue(w, h),
         NEW c \in Codes, c = proc[w].code, h.code \in {0, c},
         h.pc \notin {"attach", "redeem"}, h.inst.user \in {NoUser} \cup members,
         NEW r \in Records, r <= count.records, rec[r].code = c,
         NEW inst \in AnyRecord, inst.code = c, SaveRecord(r, inst),
         inst.user \in {NoUser} \cup members,
         c \notin disturbed /\ inst.exists => rec[r].exists,
         UNCHANGED <<seats, code, members, enrolled, mailed, count>>,
         queue' \in [Records -> Nat], newest' \in [Records -> Nat],
         \A q \in Records : q # r => newest'[q] = newest[q],
         c \notin disturbed => Settled(c)', InHand(h)', Steady(h)'
  PROVE  IInv'
<1>1. proc' = [proc EXCEPT ![w] = h] /\ disturbed' = disturbed
  BY DEF Continue
<1>2. /\ rec \in [Records -> AnyRecord] /\ proc \in [Workers -> Handler]
      /\ count.records \in Nat
  BY DEF IInv, Shape
<1>3. rec' \in [Records -> AnyRecord] /\ rec'[r] = inst
      /\ \A q \in Records : q # r => rec'[q] = rec[q]
  BY <1>2 DEF SaveRecord
<1>4. Shape'
  <2>1. proc' \in [Workers -> Handler]
    BY <1>1, <1>2
  <2> QED
    BY <1>1, <1>3, <2>1 DEF IInv, Shape
<1>5. Admitted'
  <2>1. \A q \in Records : rec'[q].user \in {NoUser, rec[q].user} \cup members'
    BY <1>3
  <2> QED
    BY <1>1, <2>1, AdmittedKept
<1>6. SeatsCounted'
  BY <1>1, SeatsKept
<1>7. Unmade' /\ RecordsCoded'
  <2>1. ASSUME NEW q \in Records, q > count.records
        PROVE  ~rec'[q].exists /\ newest'[q] = 0
    <3>1. q # r
      BY <1>2, <2>1, Indices
    <3> QED
      BY <1>3, <2>1, <3>1 DEF IInv, Unmade
  <2>2. ASSUME NEW q \in Records, q <= count.records
        PROVE  rec'[q].code \in Codes
    BY <1>3, <2>2 DEF IInv, RecordsCoded
  <2> QED
    BY <2>1, <2>2 DEF Unmade, RecordsCoded
<1>8. MailsOld'
  BY DEF IInv, MailsOld
<1>9. ASSUME NEW d \in Codes, d # c
      PROVE  Quiet(d)
  <2>1. RecordsOf(d)' = RecordsOf(d)
    BY <1>3, <1>9 DEF RecordsOf
  <2>2. \A q \in RecordsOf(d) : rec'[q] = rec[q] /\ newest'[q] = newest[q]
    BY <1>3, <1>9 DEF RecordsOf
  <2> QED
    BY <2>1, <2>2 DEF Quiet, Current
<1>10. CodesKept
  BY <1>2, <1>3 DEF CodesKept
<1>11. AllInHand' /\ Alone' /\ AllSteady' /\ AllSettled'
  BY <1>2, <1>9, <1>10, ContinueStep
<1>12. Gone'
  <2>1. ASSUME NEW d \in Codes, d \notin disturbed, ~code[d].exists
        PROVE  RecordsOf(d)' = {}
    <3>1. RecordsOf(d) = {}
      BY <2>1 DEF IInv, Gone
    <3>2. CASE d # c
      BY <1>9, <3>1, <3>2 DEF Quiet
    <3>3. CASE d = c
      BY <1>3, <2>1, <3>1, <3>3 DEF RecordsOf
    <3> QED
      BY <3>2, <3>3
  <2> QED
    BY <1>1, <2>1 DEF Gone
<1> QED
  BY <1>4, <1>5, <1>6, <1>7, <1>8, <1>11, <1>12 DEF IInv

\* A worker that ends has nothing in hand.
LEMMA Ended ==
  ASSUME NEW h, h = Idle
  PROVE  /\ h \in Handler /\ h.code = 0 /\ h.pc = "idle" /\ h.inst.user = NoUser
         /\ InHand(h)' /\ Steady(h)'
BY IdleInHand DEF InHand, Checks, Steady

LEMMA RecordFinished ==
  ASSUME IInv, NEW w \in Workers, Finish(w), NEW c \in Codes, c = proc[w].code,
         NEW r \in Records, r <= count.records, rec[r].code = c,
         NEW inst \in AnyRecord, inst.code = c, SaveRecord(r, inst),
         inst.user \in {NoUser} \cup members,
         c \notin disturbed => rec[r].exists /\ Settled(c)',
         UNCHANGED <<seats, code, members, enrolled, mailed, count>>,
         queue' \in [Records -> Nat], newest' \in [Records -> Nat],
         \A q \in Records : q # r => newest'[q] = newest[q]
  PROVE  IInv'
<1>1. PICK h : h = Idle
  OBVIOUS
<1>2. Continue(w, h)
  BY <1>1 DEF Finish
<1>3. /\ h \in Handler /\ h.code \in {0, c} /\ h.pc \notin {"attach", "redeem"}
      /\ h.inst.user \in {NoUser} \cup members /\ InHand(h)' /\ Steady(h)'
  BY <1>1, Ended
<1> QED
  BY <1>2, <1>3, RecordSaved

LEMMA AssignSaveInv ==
  ASSUME IInv, NEW w \in Workers, AssignSave(w)
  PROVE  IInv'
<1>1. PICK c : c = proc[w].code
  OBVIOUS
<1>2. /\ proc[w].pc = "assign" /\ Finish(w)
      /\ UNCHANGED <<seats, code, members, enrolled, mailed, newest>>
  BY DEF AssignSave, At
<1>3. /\ c \in Codes /\ proc[w].user \in Users \cup {NoUser}
      /\ c \notin disturbed => RecordsOf(c) = {}
  BY <1>1, <1>2, HandlerFacts DEF InHand, Checks, Steady
<1>4. CASE code[c].exists
  <2>1. CreateRecord(c, proc[w].user, NoUser)
    BY <1>1, <1>4 DEF AssignSave
  <2> QED
    BY <1>1, <1>2, <1>3, <1>4, <2>1, RecordMade
<1>5. CASE ~code[c].exists
  <2>1. UNCHANGED <<rec, queue, count>>
    BY <1>1, <1>5 DEF AssignSave
  <2>2. code' \in [Codes -> AnyCode]
    BY <1>2 DEF IInv, Shape
  <2> QED
    BY <1>2, <2>1, <2>2, FinishInv
<1> QED
  BY <1>4, <1>5

LEMMA AttachRedeemInv ==
  ASSUME IInv, NEW w \in Workers, AttachRedeem(w)
  PROVE  IInv'
<1>1. PICK c, open : c = proc[w].code /\ open = {r \in RecordsOf(c) : ~Redeemed(r)}
  OBVIOUS
<1>2. /\ proc[w].pc = "redeem" /\ Finish(w)
      /\ UNCHANGED <<seats, code, members, enrolled, mailed, newest>>
  BY DEF AttachRedeem, At
<1>3. c \in Codes /\ proc[w].user \in members /\ proc[w].user \in Users
  BY <1>1, <1>2, HandlerFacts DEF InHand, Checks, IInv, Admitted
<1>4. /\ code' \in [Codes -> AnyCode] /\ queue \in [Records -> Nat]
      /\ newest \in [Records -> Nat] /\ rec \in [Records -> AnyRecord]
      /\ count.records \in Nat
  BY <1>2 DEF IInv, Shape
<1>5. CASE open = {} /\ code[c].exists /\ CreateRecord(c, NoUser, proc[w].user)
  <2>1. \A q \in RecordsOf(c) : Redeemed(q)
    BY <1>1, <1>5
  <2>2. proc[w].user # NoUser
    BY <1>3, ContractCodesAssumption
  <2> QED
    BY <1>1, <1>2, <1>3, <1>5, <2>1, <2>2, RecordMade
<1>6. ASSUME NEW r \in open, SaveRecord(r, [rec[r] EXCEPT !.user = proc[w].user]),
             UNCHANGED <<queue, count>>
      PROVE  IInv'
  <2>1. /\ r \in Records /\ rec[r].exists /\ rec[r].code = c /\ ~Redeemed(r)
        /\ r \in RecordsOf(c) /\ r <= count.records /\ rec[r] \in AnyRecord
    <3>1. r \in Records /\ rec[r].exists /\ rec[r].code = c /\ ~Redeemed(r) /\ r \in RecordsOf(c)
      BY <1>1 DEF RecordsOf
    <3> QED
      BY <1>4, <3>1, Indices DEF IInv, Unmade
  <2>2. PICK inst : inst = [rec[r] EXCEPT !.user = proc[w].user]
    OBVIOUS
  <2>3. /\ inst \in AnyRecord /\ inst.user = proc[w].user /\ inst.code = c /\ inst.exists
        /\ inst.ts = rec[r].ts
    BY <1>3, <2>1, <2>2 DEF AnyRecord
  <2>4. SaveRecord(r, inst) /\ rec' = [rec EXCEPT ![r] = inst]
    BY <1>6, <2>2 DEF SaveRecord
  <2>5. ASSUME c \notin disturbed
        PROVE  Settled(c)'
    <3>1. Settled(c)
      BY <1>3, <2>5 DEF IInv, AllSettled
    <3>2. RecordsOf(c) = {r}
      BY <2>1, <3>1 DEF Settled
    <3>3. rec'[r] = inst /\ \A q \in Records : q # r => rec'[q] = rec[q]
      BY <1>4, <2>1, <2>4
    <3>4. RecordsOf(c)' = {r}
      BY <2>1, <2>3, <3>2, <3>3 DEF RecordsOf
    <3>5. Redeemed(r)'
      BY <1>3, <2>3, <3>3, ContractCodesAssumption DEF Redeemed
    <3>6. rec'[r].ts = newest'[r]
      BY <1>2, <2>1, <2>3, <3>1, <3>3 DEF Settled
    <3> QED
      BY <3>4, <3>5, <3>6 DEF Settled
  <2>6. PICK h : h = Idle
    OBVIOUS
  <2>7. Continue(w, h)
    BY <1>2, <2>6 DEF Finish
  <2> QED
    BY <1>1, <1>2, <1>3, <1>4, <1>6, <2>1, <2>3, <2>4, <2>5, <2>6, <2>7, Ended, RecordSaved
<1>7. CASE UNCHANGED <<rec, queue, count>>
  BY <1>2, <1>4, <1>7, FinishInv
<1> QED
  BY <1>1, <1>5, <1>6, <1>7 DEF AttachRedeem

\* The manager's handlers up to their last write.
LEMMA EditFacts ==
  ASSUME IInv, NEW w \in Workers, NEW c, c = proc[w].code, NEW r, r = proc[w].rec,
         proc[w].pc \in {"revoke", "reassign", "remind", "mid", "event"}
  PROVE  /\ c \in Codes /\ r \in Records /\ r <= count.records /\ rec[r].code = c
         /\ rec[r] \in AnyRecord
         /\ c \notin disturbed => Settled(c)
         /\ c \notin disturbed /\ proc[w].pc \in {"revoke", "reassign", "remind"} =>
               r \in RecordsOf(c) /\ RecordsOf(c) = {r} /\ rec[r].user = NoUser
<1>1. c \in Codes /\ r \in Records /\ r <= count.records /\ rec[r].code = c
  BY HandlerFacts DEF InHand, Checks
<1>2. rec[r] \in AnyRecord
  BY <1>1 DEF IInv, Shape
<1>3. c \notin disturbed => Settled(c)
  BY <1>1 DEF IInv, AllSettled
<1>4. ASSUME c \notin disturbed, proc[w].pc \in {"revoke", "reassign", "remind"}
      PROVE  r \in RecordsOf(c) /\ RecordsOf(c) = {r} /\ rec[r].user = NoUser
  <2>1. rec[r].exists /\ rec[r].user = NoUser
    BY <1>4, HandlerFacts DEF Steady
  <2>2. r \in RecordsOf(c)
    BY <1>1, <2>1 DEF RecordsOf
  <2> QED
    BY <1>3, <1>4, <2>1, <2>2 DEF Settled, Redeemed
<1> QED
  BY <1>1, <1>2, <1>3, <1>4

LEMMA RevokeDeleteInv ==
  ASSUME IInv, NEW w \in Workers, RevokeDelete(w)
  PROVE  IInv'
<1>1. PICK c, r, h, inst : /\ c = proc[w].code /\ r = proc[w].rec
                           /\ h = [proc[w] EXCEPT !.pc = "new_secret"]
                           /\ inst = [rec[r] EXCEPT !.exists = FALSE]
  OBVIOUS
<1>2. /\ proc[w].pc = "revoke" /\ Continue(w, h) /\ SaveRecord(r, inst)
      /\ UNCHANGED <<seats, code, members, enrolled, queue, mailed, newest, count>>
  BY <1>1 DEF RevokeDelete, At, SaveRecord
<1>3. /\ c \in Codes /\ r \in Records /\ r <= count.records /\ rec[r].code = c
      /\ rec[r] \in AnyRecord
      /\ c \notin disturbed => RecordsOf(c) = {r}
  BY <1>1, <1>2, EditFacts
<1>4. /\ h \in Handler /\ h.pc = "new_secret" /\ h.code = c
      /\ h.inst.user \in {NoUser} \cup members
  BY <1>1, HandlerFacts DEF Handler, Labels
<1>5. inst \in AnyRecord /\ ~inst.exists /\ inst.code = c /\ inst.user = rec[r].user
  BY <1>1, <1>3 DEF AnyRecord
<1>6. InHand(h)' /\ Steady(h)'
  BY <1>3, <1>4 DEF InHand, Checks, Steady
<1>7. ASSUME c \notin disturbed
      PROVE  Settled(c)'
  <2>1. RecordsOf(c)' = {}
    BY <1>2, <1>3, <1>5, <1>7 DEF RecordsOf, SaveRecord, IInv, Shape
  <2>2. Revoking(c)'
    BY <1>2, <1>4 DEF Revoking, Continue, IInv, Shape
  <2> QED
    BY <2>1, <2>2 DEF Settled
<1>8. queue' \in [Records -> Nat] /\ newest' \in [Records -> Nat]
  BY <1>2 DEF IInv, Shape
<1>9. inst.user \in {NoUser} \cup members
  BY <1>3, <1>5 DEF IInv, Admitted
<1> QED
  BY <1>1, <1>2, <1>3, <1>4, <1>5, <1>6, <1>7, <1>8, <1>9, RecordSaved

\* A new secret makes every mail that left useless.
LEMMA SecretChanged ==
  ASSUME IInv, NEW w \in Workers, NEW h \in Handler, Continue(w, h),
         NEW c \in Codes, c = proc[w].code, h.code \in {0, c},
         h.pc \notin {"attach", "redeem"}, h.inst.user \in {NoUser} \cup members,
         NewSecret(c),
         UNCHANGED <<seats, rec, members, enrolled, queue, mailed, newest, count>>,
         InHand(h)', Current(c)' = {} => Steady(h)'
  PROVE  IInv'
<1>1. PICK k : k = [code[c] EXCEPT !.secret = @ + 1]
  OBVIOUS
<1>2. code \in [Codes -> AnyCode] /\ code[c] \in AnyCode
  BY DEF IInv, Shape
<1>3. k \in AnyCode /\ k.secret = code[c].secret + 1 /\ k.exists = code[c].exists
      /\ code[c].secret \in Nat
  BY <1>1, <1>2 DEF AnyCode
<1>4. code' = [code EXCEPT ![c] = k]
  BY <1>1 DEF NewSecret
<1>5. /\ code' \in [Codes -> AnyCode] /\ code'[c] = k
      /\ \A d \in Codes : d # c => code'[d] = code[d]
  BY <1>2, <1>3, <1>4
<1>6. Current(c)' = {}
  <2>1. ASSUME NEW m \in mailed, m.code = c
        PROVE  m.secret # code'[c].secret
    <3>1. m.secret <= code[c].secret /\ m.secret \in Nat
      BY <2>1 DEF IInv, MailsOld, Shape, Mail
    <3> QED
      BY <1>3, <1>5, <3>1
  <2> QED
    BY <2>1 DEF Current
<1>7. \A d \in Codes : d # c => Quiet(d)
  BY <1>5 DEF Quiet, Current, RecordsOf
<1>8. ASSUME c \notin disturbed
      PROVE  Settled(c)'
  <2>1. Settled(c) /\ RecordsOf(c)' = RecordsOf(c)
    BY <1>8 DEF IInv, AllSettled, RecordsOf
  <2> QED
    BY <1>6, <2>1 DEF Settled, Redeemed
<1>9. CodesKept /\ count'.records \in Nat
  BY DEF CodesKept, IInv, Shape
<1>10. AllInHand' /\ Alone' /\ AllSteady' /\ AllSettled'
  BY <1>6, <1>7, <1>8, <1>9, ContinueStep
<1>11. ASSUME NEW d \in Codes
       PROVE  /\ code'[d].secret >= code[d].secret
              /\ code[d].exists => code'[d].exists
  <2>1. code[d].secret \in Nat
    BY <1>2 DEF AnyCode
  <2>2. CASE d = c
    BY <1>3, <1>5, <2>1, <2>2
  <2>3. CASE d # c
    BY <1>5, <2>1, <2>3
  <2> QED
    BY <2>2, <2>3
<1>12. SeatsCounted'
  BY SeatsKept DEF Continue
<1>13. members' \in SUBSET Users /\ IsFiniteSet(members')
  BY DEF IInv, Shape
<1> QED
  BY <1>5, <1>10, <1>11, <1>12, <1>13, QuietRest

LEMMA RevokeSecretInv ==
  ASSUME IInv, NEW w \in Workers, RevokeSecret(w)
  PROVE  IInv'
<1>1. PICK c, h : c = proc[w].code /\ h = Idle
  OBVIOUS
<1>2. /\ proc[w].pc = "new_secret" /\ NewSecret(c) /\ Continue(w, h)
      /\ UNCHANGED <<seats, rec, members, enrolled, queue, mailed, newest, count>>
  BY <1>1 DEF RevokeSecret, At, Finish
<1>3. c \in Codes
  BY <1>1, <1>2, HandlerFacts DEF InHand, Checks
<1> QED
  BY <1>1, <1>2, <1>3, Ended, SecretChanged

LEMMA ReassignSecretInv ==
  ASSUME IInv, NEW w \in Workers, ReassignSecret(w)
  PROVE  IInv'
<1>1. PICK c, r, inst, h :
         /\ c = proc[w].code /\ r = proc[w].rec
         /\ inst = [proc[w].inst EXCEPT !.email = proc[w].user]
         /\ h = [proc[w] EXCEPT !.pc = "remind", !.inst = inst]
  OBVIOUS
<1>2. /\ proc[w].pc = "reassign" /\ NewSecret(c)
      /\ Continue(w, [proc[w] EXCEPT !.pc = "remind", !.inst.email = proc[w].user])
      /\ UNCHANGED <<seats, rec, members, enrolled, queue, mailed, newest, count>>
  BY <1>1 DEF ReassignSecret, At
<1>3. /\ proc[w] \in Handler /\ proc[w].inst \in AnyRecord
      /\ proc[w].user \in Users \cup {NoUser}
      /\ proc[w].inst.user \in {NoUser} \cup members
      /\ InHand(proc[w]) /\ Steady(proc[w])
  BY HandlerFacts
<1>4. [proc[w] EXCEPT !.pc = "remind", !.inst.email = proc[w].user] = h
  BY <1>1, <1>3 DEF Handler
<1>5. /\ inst \in AnyRecord /\ inst.email = proc[w].user /\ inst.exists = proc[w].inst.exists
      /\ inst.code = proc[w].inst.code /\ inst.user = proc[w].inst.user
  BY <1>1, <1>3 DEF AnyRecord
<1>6. /\ h \in Handler /\ h.pc = "remind" /\ h.code = c /\ h.rec = r /\ h.inst = inst
  BY <1>1, <1>3, <1>5 DEF Handler, Labels
<1>7. c \in Codes /\ r \in Records /\ r <= count.records /\ rec[r].code = c
      /\ proc[w].inst.exists /\ proc[w].inst.code = c
  BY <1>1, <1>2, <1>3 DEF InHand, Checks
<1>8. InHand(h)'
  BY <1>2, <1>5, <1>6, <1>7 DEF InHand, Checks
<1>9. ASSUME Current(c)' = {}
      PROVE  Steady(h)'
  <2>1. disturbed' = disturbed /\ rec' = rec
    BY <1>2 DEF Continue
  <2>2. c \notin disturbed => rec[r].exists /\ rec[r].user = NoUser /\ inst.user = NoUser
    BY <1>1, <1>2, <1>3, <1>5 DEF Steady
  <2> QED
    BY <1>6, <1>9, <2>1, <2>2 DEF Steady
<1> QED
  BY <1>1, <1>2, <1>3, <1>4, <1>5, <1>6, <1>7, <1>8, <1>9, SecretChanged

LEMMA SaveAndMailInv ==
  ASSUME IInv, NEW w \in Workers, SaveAndMail(w)
  PROVE  IInv'
<1>1. PICK c, r, h, inst : /\ c = proc[w].code /\ r = proc[w].rec /\ h = Idle
                           /\ inst = [proc[w].inst EXCEPT !.mid = 0, !.ts = 0]
  OBVIOUS
<1>2. /\ proc[w].pc = "remind" /\ Continue(w, h) /\ SaveRecord(r, inst)
      /\ queue' = [queue EXCEPT ![r] = @ + 1] /\ newest' = [newest EXCEPT ![r] = 0]
      /\ UNCHANGED <<seats, code, members, enrolled, mailed, count>>
  BY <1>1 DEF SaveAndMail, At, Finish
<1>3. /\ proc[w] \in Handler /\ proc[w].inst \in AnyRecord
      /\ proc[w].inst.user \in {NoUser} \cup members
      /\ InHand(proc[w]) /\ Steady(proc[w])
  BY HandlerFacts
<1>4. /\ c \in Codes /\ r \in Records /\ r <= count.records /\ rec[r].code = c
      /\ rec[r] \in AnyRecord
      /\ c \notin disturbed => Settled(c) /\ r \in RecordsOf(c) /\ RecordsOf(c) = {r}
                               /\ rec[r].user = NoUser
  BY <1>1, <1>2, EditFacts
<1>5. /\ inst \in AnyRecord /\ inst.exists = proc[w].inst.exists
      /\ inst.code = proc[w].inst.code /\ inst.user = proc[w].inst.user
      /\ inst.email = proc[w].inst.email /\ inst.ts = 0
  BY <1>1, <1>3 DEF AnyRecord
<1>6. inst.code = c /\ inst.exists
  BY <1>1, <1>2, <1>3, <1>5 DEF InHand, Checks
<1>7. queue' \in [Records -> Nat] /\ newest' \in [Records -> Nat]
      /\ newest'[r] = 0 /\ \A q \in Records : q # r => newest'[q] = newest[q]
  BY <1>2, <1>4 DEF IInv, Shape
<1>8. ASSUME c \notin disturbed
      PROVE  Settled(c)' /\ rec[r].exists
  <2>1. rec[r].exists
    BY <1>4, <1>8 DEF RecordsOf
  <2>2. rec'[r] = inst /\ \A q \in Records : q # r => rec'[q] = rec[q]
    BY <1>2, <1>4 DEF SaveRecord, IInv, Shape
  <2>3. RecordsOf(c)' = {r}
    BY <1>4, <1>6, <1>8, <2>2 DEF RecordsOf
  <2>4. Current(c)' = Current(c)
    BY <1>2 DEF Current
  <2>5. rec[r].email = inst.email \/ Current(c) = {}
    BY <1>1, <1>2, <1>3, <1>5, <1>8 DEF Steady
  <2>6. \A m \in Current(c)' : m.email = rec'[r].email
    BY <1>4, <1>8, <2>2, <2>4, <2>5 DEF Settled, Redeemed
  <2> QED
    BY <1>5, <1>7, <2>1, <2>2, <2>3, <2>6 DEF Settled
<1> QED
  <2>1. inst.user \in {NoUser} \cup members /\ Finish(w)
    BY <1>1, <1>2, <1>3, <1>5 DEF Finish
  <2>2. /\ c = proc[w].code /\ SaveRecord(r, inst)
        /\ UNCHANGED <<seats, code, members, enrolled, mailed, count>>
    BY <1>1, <1>2
  <2>3. /\ c \in Codes /\ r \in Records /\ r <= count.records /\ rec[r].code = c
        /\ inst \in AnyRecord /\ inst.code = c
    BY <1>4, <1>5, <1>6
  <2>4. /\ queue' \in [Records -> Nat] /\ newest' \in [Records -> Nat]
        /\ \A q \in Records : q # r => newest'[q] = newest[q]
    BY <1>6, <1>7
  <2>5. c \notin disturbed => rec[r].exists /\ Settled(c)'
    BY <1>8
  <2> QED
    BY <2>1, <2>2, <2>3, <2>4, <2>5, RecordFinished

\* A record that changes only in what the mails say about it.
LEMMA SettledRecord ==
  ASSUME IInv, NEW c \in Codes, c \notin disturbed, NEW r \in RecordsOf(c),
         NEW inst, rec' = [rec EXCEPT ![r] = inst],
         inst.exists, inst.code = c, inst.user = rec[r].user, inst.email = rec[r].email,
         inst.ts = newest'[r], \A q \in Records : q # r => newest'[q] = newest[q],
         UNCHANGED <<code, mailed>>
  PROVE  Settled(c)'
<1>1. Settled(c) /\ r \in Records
  BY DEF IInv, AllSettled, RecordsOf
<1>2. rec'[r] = inst /\ \A q \in Records : q # r => rec'[q] = rec[q]
  BY <1>1 DEF IInv, Shape
<1>3. RecordsOf(c)' = RecordsOf(c) /\ Current(c)' = Current(c)
  BY <1>1, <1>2 DEF RecordsOf, Current
<1>4. \A q \in RecordsOf(c) : /\ rec'[q].ts = newest'[q]
                              /\ rec'[q].user = rec[q].user /\ rec'[q].email = rec[q].email
  BY <1>1, <1>2 DEF Settled, RecordsOf
<1> QED
  BY <1>1, <1>3, <1>4 DEF Settled, Redeemed

LEMMA SaveMessageIdInv ==
  ASSUME IInv, NEW w \in Workers, SaveMessageId(w)
  PROVE  IInv'
<1>1. PICK c, r, h, inst : /\ c = proc[w].code /\ r = proc[w].rec /\ h = Idle
                           /\ inst = [rec[r] EXCEPT !.mid = proc[w].n]
  OBVIOUS
<1>2. /\ proc[w].pc = "mid" /\ Continue(w, h) /\ Finish(w)
      /\ UNCHANGED <<seats, code, members, enrolled, queue, mailed, newest, count>>
      /\ IF rec[r].exists THEN rec' = [rec EXCEPT ![r] = inst] ELSE rec' = rec
  BY <1>1 DEF SaveMessageId, At, Finish
<1>3. /\ c \in Codes /\ r \in Records /\ r <= count.records /\ rec[r].code = c
      /\ rec[r] \in AnyRecord /\ proc[w].n \in Nat
  BY <1>1, <1>2, EditFacts, HandlerFacts
<1>4. /\ inst \in AnyRecord /\ inst.exists = rec[r].exists /\ inst.code = c
      /\ inst.user = rec[r].user /\ inst.email = rec[r].email /\ inst.ts = rec[r].ts
  BY <1>1, <1>3 DEF AnyRecord
<1>5. /\ queue' \in [Records -> Nat] /\ newest' \in [Records -> Nat]
      /\ code' \in [Codes -> AnyCode]
  BY <1>2 DEF IInv, Shape
<1>6. CASE rec[r].exists
  <2>1. rec' = [rec EXCEPT ![r] = inst] /\ SaveRecord(r, inst)
    BY <1>2, <1>6 DEF SaveRecord
  <2>2. c \notin disturbed => Settled(c)'
    <3>1. SUFFICES ASSUME c \notin disturbed PROVE Settled(c)'
      OBVIOUS
    <3>2. r \in RecordsOf(c) /\ rec[r].ts = newest[r]
      BY <1>3, <1>6, <3>1 DEF RecordsOf, IInv, AllSettled, Settled
    <3> QED
      BY <1>2, <1>3, <1>4, <1>6, <2>1, <3>1, <3>2, SettledRecord
  <2>3. inst.user \in {NoUser} \cup members
    BY <1>3, <1>4 DEF IInv, Admitted
  <2> QED
    BY <1>1, <1>2, <1>3, <1>4, <1>5, <1>6, <2>1, <2>2, <2>3, RecordFinished
<1>7. CASE ~rec[r].exists
  BY <1>2, <1>5, <1>7, FinishInv
<1> QED
  BY <1>6, <1>7

LEMMA SaveEventInv ==
  ASSUME IInv, NEW w \in Workers, SaveEvent(w)
  PROVE  IInv'
<1>1. PICK c, r, n, h, inst : /\ c = proc[w].code /\ r = proc[w].rec /\ n = proc[w].n
                              /\ h = Idle /\ inst = [proc[w].inst EXCEPT !.ts = n]
  OBVIOUS
<1>2. /\ proc[w].pc = "event" /\ Continue(w, h) /\ SaveRecord(r, inst)
      /\ newest' = [newest EXCEPT ![r] = Max({newest[r], n})]
      /\ UNCHANGED <<seats, code, members, enrolled, queue, mailed, count>>
  BY <1>1 DEF SaveEvent, At, Finish
<1>3. /\ proc[w] \in Handler /\ proc[w].inst \in AnyRecord /\ n \in Nat
      /\ proc[w].inst.user \in {NoUser} \cup members
      /\ InHand(proc[w]) /\ Steady(proc[w])
  BY <1>1, HandlerFacts
<1>4. /\ c \in Codes /\ r \in Records /\ r <= count.records /\ rec[r].code = c
      /\ rec[r] \in AnyRecord
      /\ proc[w].inst.exists /\ proc[w].inst.code = c
  BY <1>1, <1>2, <1>3, EditFacts DEF InHand, Checks
<1>5. /\ inst \in AnyRecord /\ inst.exists /\ inst.code = c
      /\ inst.user = proc[w].inst.user /\ inst.email = proc[w].inst.email /\ inst.ts = n
  BY <1>1, <1>3, <1>4 DEF AnyRecord
<1>6. newest \in [Records -> Nat] /\ newest[r] \in Nat /\ queue' \in [Records -> Nat]
  BY <1>2, <1>4 DEF IInv, Shape
<1>7. Max({newest[r], n}) = IF newest[r] >= n THEN newest[r] ELSE n
  <2>1. PICK a : a = newest[r]
    OBVIOUS
  <2>2. a \in Nat /\ n \in Nat
    BY <1>3, <1>6, <2>1
  <2>3. CASE a >= n
    <3>1. \A x \in {a, n} : (\A y \in {a, n} : x >= y) <=> x = a
      BY <2>2, <2>3
    <3> QED
      BY <2>1, <2>3, <3>1 DEF Max
  <2>4. CASE ~(a >= n)
    <3>1. \A x \in {a, n} : (\A y \in {a, n} : x >= y) <=> x = n
      BY <2>2, <2>4
    <3> QED
      BY <2>1, <2>4, <3>1 DEF Max
  <2> QED
    BY <2>3, <2>4
<1>8. /\ newest' \in [Records -> Nat]
      /\ newest'[r] = IF newest[r] >= n THEN newest[r] ELSE n
      /\ \A q \in Records : q # r => newest'[q] = newest[q]
  BY <1>2, <1>3, <1>4, <1>6, <1>7
<1>9. ASSUME c \notin disturbed
      PROVE  Settled(c)' /\ rec[r].exists
  <2>1. rec[r] = proc[w].inst /\ n > rec[r].ts
    BY <1>1, <1>2, <1>3, <1>9 DEF Steady
  <2>2. r \in RecordsOf(c) /\ rec[r].exists
    BY <1>4, <2>1 DEF RecordsOf
  <2>3. newest[r] = rec[r].ts
    BY <1>4, <1>9, <2>2 DEF IInv, AllSettled, Settled
  <2>4. newest'[r] = n
    BY <1>3, <1>6, <1>8, <2>1, <2>3
  <2>5. rec' = [rec EXCEPT ![r] = inst]
    BY <1>2 DEF SaveRecord
  <2>6. inst.user = rec[r].user /\ inst.email = rec[r].email
    BY <1>5, <2>1
  <2> QED
    BY <1>2, <1>4, <1>5, <1>8, <1>9, <2>2, <2>4, <2>5, <2>6, SettledRecord
<1> QED
  <2>1. inst.user \in {NoUser} \cup members /\ Finish(w)
    BY <1>1, <1>2, <1>3, <1>5 DEF Finish
  <2>2. /\ c = proc[w].code /\ SaveRecord(r, inst)
        /\ UNCHANGED <<seats, code, members, enrolled, mailed, count>>
    BY <1>1, <1>2
  <2>3. /\ c \in Codes /\ r \in Records /\ r <= count.records /\ rec[r].code = c
        /\ inst \in AnyRecord /\ inst.code = c
    BY <1>4, <1>5, <1>6
  <2>4. /\ queue' \in [Records -> Nat] /\ newest' \in [Records -> Nat]
        /\ \A q \in Records : q # r => newest'[q] = newest[q]
    BY <1>6, <1>8
  <2>5. c \notin disturbed => rec[r].exists /\ Settled(c)'
    BY <1>9
  <2> QED
    BY <2>1, <2>2, <2>3, <2>4, <2>5, RecordFinished

-----------------------------------------------------------------------------
(* ensure_enrollment_codes_exist; the worker dies *)

\* A step of a check: its handler goes on, secrets stay, and only codes without
\* records go.
LEMMA CheckGoesOn ==
  ASSUME IInv, NEW w \in Workers, proc[w].pc \in Checks, NEW h \in Handler,
         Continue(w, h), h.pc \in Checks, h.code = Check, h.inst = proc[w].inst,
         h.pc = "unlink" => h.picks # {}, h.pc = "delete" => h.n \in h.picks,
         UNCHANGED <<seats, rec, members, enrolled, queue, mailed, newest, count>>,
         code' \in [Codes -> AnyCode],
         \A c \in Codes : /\ code'[c].secret = code[c].secret
                          /\ code[c].exists => code'[c].exists \/ Unused(c)
  PROVE  IInv'
<1>1. proc[w].code = Check /\ proc[w].pc # "new_secret"
  BY HandlerFacts DEF InHand, Checks
<1>2. InHand(h)' /\ Steady(h)'
  BY DEF InHand, Steady, Checks
<1>3. AllInHand' /\ Alone' /\ AllSteady' /\ AllSettled'
  <2>1. PICK c : c = proc[w].code
    OBVIOUS
  <2>2. h.code \in {0, c}
    BY <1>1, <2>1
  <2> QED
    BY <1>1, <1>2, <2>1, <2>2, QuietStep
<1>4. h.pc # "attach" /\ h.pc # "redeem"
  BY DEF Checks
<1>5. SeatsCounted'
  BY <1>4, SeatsKept DEF Continue
<1>6. \A c \in Codes : code'[c].secret >= code[c].secret
  BY DEF IInv, Shape, AnyCode
<1>7. members' \in SUBSET Users /\ IsFiniteSet(members')
  BY DEF IInv, Shape
<1>8. h.inst.user # NoUser => h.inst.user \in members'
  BY HandlerFacts
<1> QED
  BY <1>3, <1>4, <1>5, <1>6, <1>7, <1>8, QuietRest

\* One code is written, its secret left as it is.
LEMMA OneCodeWritten ==
  ASSUME IInv, NEW c, NEW k, code' = [code EXCEPT ![c] = k],
         c \in Codes => k \in AnyCode /\ k.secret = code[c].secret
  PROVE  /\ code' \in [Codes -> AnyCode]
         /\ \A d \in Codes : /\ code'[d].secret = code[d].secret
                             /\ d # c => code'[d] = code[d]
                             /\ d = c => code'[d] = k
<1>1. code \in [Codes -> AnyCode]
  BY DEF IInv, Shape
<1>2. code' = [d \in Codes |-> IF d = c THEN k ELSE code[d]]
  BY <1>1
<1> QED
  BY <1>1, <1>2

\* A field of a code is written.
LEMMA CodeWritten ==
  ASSUME IInv, NEW new, NEW b \in BOOLEAN,
         code' \in {[c \in Codes |-> IF c \in new
                                     THEN [code[c] EXCEPT !.exists = TRUE, !.linked = TRUE,
                                                          !.unlimited = b]
                                     ELSE code[c]],
                    [code EXCEPT ![new].unlimited = b], [code EXCEPT ![new].linked = b],
                    code}
  PROVE  /\ code' \in [Codes -> AnyCode]
         /\ \A c \in Codes : /\ code'[c].secret = code[c].secret
                             /\ code[c].exists => code'[c].exists
<1>1. code \in [Codes -> AnyCode]
  BY DEF IInv, Shape
<1>2. CASE code' = [c \in Codes |-> IF c \in new
                                    THEN [code[c] EXCEPT !.exists = TRUE, !.linked = TRUE,
                                                         !.unlimited = b]
                                    ELSE code[c]]
  <2>1. ASSUME NEW c \in Codes
        PROVE  /\ code'[c] \in AnyCode /\ code'[c].secret = code[c].secret
               /\ code[c].exists => code'[c].exists
    <3>1. code[c] \in AnyCode
      BY <1>1
    <3>2. PICK x : x = [code[c] EXCEPT !.exists = TRUE, !.linked = TRUE, !.unlimited = b]
      OBVIOUS
    <3>3. x \in AnyCode /\ x.secret = code[c].secret /\ x.exists
      BY <3>1, <3>2 DEF AnyCode
    <3>4. code'[c] = x \/ code'[c] = code[c]
      BY <1>2, <3>2
    <3> QED
      BY <3>1, <3>3, <3>4
  <2> QED
    BY <1>2, <2>1
<1>3. ASSUME NEW k, code' = [code EXCEPT ![new] = k],
             k \in {[code[new] EXCEPT !.unlimited = b], [code[new] EXCEPT !.linked = b]}
      PROVE  /\ code' \in [Codes -> AnyCode]
             /\ \A c \in Codes : /\ code'[c].secret = code[c].secret
                                 /\ code[c].exists => code'[c].exists
  <2>1. new \in Codes =>
           k \in AnyCode /\ k.secret = code[new].secret /\ k.exists = code[new].exists
    <3>1. SUFFICES ASSUME NEW x \in AnyCode, x = code[new]
                   PROVE  /\ k \in AnyCode /\ k.secret = x.secret /\ k.exists = x.exists
      BY <1>1
    <3>2. CASE k = [x EXCEPT !.unlimited = b]
      BY <3>2 DEF AnyCode
    <3>3. CASE k = [x EXCEPT !.linked = b]
      BY <3>3 DEF AnyCode
    <3> QED
      BY <1>3, <3>1, <3>2, <3>3
  <2> QED
    BY <1>3, <2>1, OneCodeWritten
<1>4. CASE code' \in {[code EXCEPT ![new].unlimited = b], [code EXCEPT ![new].linked = b]}
  <2>1. \E k : /\ code' = [code EXCEPT ![new] = k]
               /\ k \in {[code[new] EXCEPT !.unlimited = b], [code[new] EXCEPT !.linked = b]}
    BY <1>4
  <2> QED
    BY <1>3, <2>1
<1>5. CASE code' = code
  BY <1>1, <1>5
<1> QED
  BY <1>2, <1>4, <1>5

LEMMA WrittenCodes ==
  ASSUME IInv, NEW w \in Workers, WriteCodes(w)
  PROVE  /\ code' \in [Codes -> AnyCode]
         /\ \A c \in Codes : /\ code'[c].secret = code[c].secret
                             /\ code[c].exists => code'[c].exists
<1>1. ASSUME NEW k, NEW b \in BOOLEAN, CreateCodes(k, b)
      PROVE  \E new : code' = [c \in Codes |-> IF c \in new
                                 THEN [code[c] EXCEPT !.exists = TRUE, !.linked = TRUE,
                                                      !.unlimited = b]
                                 ELSE code[c]]
  BY <1>1 DEF CreateCodes
<1>2. \/ CreateCodes(1, TRUE)
      \/ code' = [code EXCEPT ![Min(Existing)].unlimited = TRUE]
      \/ CreateCodes(seats - proc[w].n, FALSE)
      \/ code' = code
  BY DEF WriteCodes
<1> QED
  BY <1>1, <1>2, CodeWritten

LEMMA WriteCodesInv ==
  ASSUME IInv, NEW w \in Workers, WriteCodes(w)
  PROVE  IInv'
<1>1. /\ proc[w].pc = "codes"
      /\ UNCHANGED <<seats, rec, members, enrolled, queue, mailed, newest, count>>
  BY DEF WriteCodes, At
<1>2. CASE Finish(w)
  BY <1>1, <1>2, WrittenCodes, FinishInv
<1>3. CASE Continue(w, [proc[w] EXCEPT !.pc = "select", !.n = Cardinality(Existing) - seats])
           /\ Cardinality(Existing) - seats > 0
  <2>1. PICK h : h = [proc[w] EXCEPT !.pc = "select", !.n = Cardinality(Existing) - seats]
    OBVIOUS
  <2>2. Cardinality(Existing) - seats \in Nat
    BY <1>3, ExistingFinite DEF IInv, Shape
  <2>3. proc[w] \in Handler /\ proc[w].code = Check
    BY <1>1, HandlerFacts DEF InHand, Checks
  <2>4. h \in Handler /\ h.pc = "select" /\ h.code = Check /\ h.inst = proc[w].inst
    BY <2>1, <2>2, <2>3 DEF Handler, Labels
  <2>5. Continue(w, h)
    BY <1>3, <2>1
  <2> QED
    BY <1>1, <2>4, <2>5, WrittenCodes, CheckGoesOn DEF Checks
<1> QED
  BY <1>2, <1>3 DEF WriteCodes

LEMMA SelectCodesInv ==
  ASSUME IInv, NEW w \in Workers, SelectCodes(w)
  PROVE  IInv'
<1>1. /\ proc[w].pc = "select"
      /\ UNCHANGED <<seats, code, rec, members, enrolled, queue, mailed, newest, count>>
  BY DEF SelectCodes, At
<1>2. /\ code' \in [Codes -> AnyCode]
      /\ \A c \in Codes : /\ code'[c].secret = code[c].secret
                          /\ code[c].exists => code'[c].exists
  BY <1>1 DEF IInv, Shape
<1>3. CASE Finish(w)
  BY <1>1, <1>2, <1>3, FinishInv
<1>4. CASE /\ Removable(proc[w].n) # {}
           /\ Continue(w, [proc[w] EXCEPT !.pc = "unlink", !.picks = Removable(proc[w].n),
                                          !.rec = count.records])
  <2>1. PICK h : h = [proc[w] EXCEPT !.pc = "unlink", !.picks = Removable(proc[w].n),
                                     !.rec = count.records]
    OBVIOUS
  <2>2. Removable(proc[w].n) \in SUBSET Codes /\ count.records \in Nat
    BY DEF Removable, Existing, IInv, Shape
  <2>3. proc[w] \in Handler /\ proc[w].code = Check
    BY <1>1, HandlerFacts DEF InHand, Checks
  <2>4. h \in Handler /\ h.pc = "unlink" /\ h.code = Check /\ h.inst = proc[w].inst
        /\ h.picks # {}
    BY <1>4, <2>1, <2>2, <2>3 DEF Handler, Labels
  <2>5. Continue(w, h)
    BY <1>4, <2>1
  <2> QED
    BY <1>1, <1>2, <2>4, <2>5, CheckGoesOn DEF Checks
<1> QED
  BY <1>3, <1>4 DEF SelectCodes

\* The larger of some codes is one of them.
LEMMA MaxIn ==
  ASSUME NEW T \in SUBSET Codes, T # {}
  PROVE  Max(T) \in T
<1> DEFINE below == {MaxCodes - c : c \in T}
<1>1. MaxCodes \in Nat /\ \A c \in T : c \in Nat /\ c <= MaxCodes
  BY ContractCodesAssumption DEF Codes
<1>2. below \in SUBSET Nat /\ below # {}
  BY <1>1
<1>3. PICK b \in below : \A d \in below : ~(<<d, b>> \in OpToRel(<, Nat))
  <2> HIDE DEF below
  <2> QED
    BY <1>2, NatLessThanWellFounded, WFMin
<1>4. PICK x \in T : b = MaxCodes - x
  BY <1>3
<1>5. ASSUME NEW c \in T PROVE x >= c
  <2>1. MaxCodes - c \in below /\ MaxCodes - c \in Nat /\ b \in Nat
    BY <1>1, <1>4
  <2>2. ~(<<MaxCodes - c, b>> \in OpToRel(<, Nat))
    BY <1>3, <2>1
  <2>3. ~(MaxCodes - c < b)
    BY <2>1, <2>2 DEF OpToRel
  <2> QED
    BY <1>1, <1>4, <2>3
<1>6. \E z \in T : \A y \in T : z >= y
  BY <1>5
<1> QED
  BY <1>6 DEF Max

\* What a worker that removes codes has in hand.
LEMMA PicksFacts ==
  ASSUME IInv, NEW w \in Workers, proc[w].pc \in {"unlink", "delete"}
  PROVE  /\ proc[w].picks \in SUBSET Codes /\ proc[w].picks # {} /\ proc[w].code = Check
         /\ proc[w].pc = "unlink" => Max(proc[w].picks) \in proc[w].picks
         /\ proc[w].pc = "delete" => proc[w].n \in proc[w].picks
<1>1. proc[w].picks \in SUBSET Codes /\ InHand(proc[w])
  BY HandlerFacts DEF Handler
<1> QED
  BY <1>1, MaxIn DEF InHand, Checks

LEMMA UnlinkCodeInv ==
  ASSUME IInv, NEW w \in Workers, UnlinkCode(w)
  PROVE  IInv'
<1>1. PICK c : /\ c = Max(proc[w].picks)
               /\ code' = [code EXCEPT ![c].linked = FALSE]
               /\ Continue(w, [proc[w] EXCEPT !.pc = "delete", !.n = c])
  BY DEF UnlinkCode
<1>2. /\ proc[w].pc = "unlink"
      /\ UNCHANGED <<seats, rec, members, enrolled, queue, mailed, newest, count>>
  BY DEF UnlinkCode, At
<1>3. c \in proc[w].picks /\ c \in Codes /\ proc[w].code = Check
  BY <1>1, <1>2, PicksFacts
<1>4. PICK h : h = [proc[w] EXCEPT !.pc = "delete", !.n = c]
  OBVIOUS
<1>5. proc[w] \in Handler /\ c \in Nat
  BY <1>3, HandlerFacts, Indices
<1>6. /\ h \in Handler /\ h.pc = "delete" /\ h.code = Check /\ h.inst = proc[w].inst
      /\ h.n \in h.picks
  BY <1>3, <1>4, <1>5 DEF Handler, Labels
<1>7. Continue(w, h)
  BY <1>1, <1>4
<1>8. /\ code' \in [Codes -> AnyCode]
      /\ \A d \in Codes : /\ code'[d].secret = code[d].secret
                          /\ code[d].exists => code'[d].exists
  BY <1>1, CodeWritten
<1> QED
  BY <1>2, <1>6, <1>7, <1>8, CheckGoesOn DEF Checks

LEMMA DeleteCodeInv ==
  ASSUME IInv, NEW w \in Workers, DeleteCode(w)
  PROVE  IInv'
<1>1. PICK c, left : c = proc[w].n /\ left = proc[w].picks \ {c}
  OBVIOUS
<1>2. /\ proc[w].pc = "delete"
      /\ UNCHANGED <<seats, rec, members, enrolled, queue, mailed, newest, count>>
  BY DEF DeleteCode, At
<1>3. \/ code' = [code EXCEPT ![c].exists = FALSE] /\ Unused(c)
      \/ code' = code
  BY <1>1 DEF DeleteCode
<1>4. /\ code' \in [Codes -> AnyCode]
      /\ \A d \in Codes : /\ code'[d].secret = code[d].secret
                          /\ code[d].exists => code'[d].exists \/ Unused(d)
  <2>1. code \in [Codes -> AnyCode]
    BY DEF IInv, Shape
  <2>2. PICK k : k = [code[c] EXCEPT !.exists = FALSE]
    OBVIOUS
  <2>3. c \in Codes => k \in AnyCode /\ k.secret = code[c].secret
    BY <2>1, <2>2 DEF AnyCode
  <2>4. CASE code' = [code EXCEPT ![c] = k] /\ Unused(c)
    BY <2>3, <2>4, OneCodeWritten
  <2>5. CASE code' = code
    BY <2>1, <2>5
  <2> QED
    BY <1>3, <2>2, <2>4, <2>5
<1>5. CASE Finish(w)
  BY <1>2, <1>4, <1>5, FinishInv
<1>6. CASE Continue(w, [proc[w] EXCEPT !.pc = "unlink", !.picks = left]) /\ left # {}
  <2>1. PICK h : h = [proc[w] EXCEPT !.pc = "unlink", !.picks = left]
    OBVIOUS
  <2>2. proc[w] \in Handler /\ proc[w].code = Check /\ left \in SUBSET Codes
    BY <1>1, <1>2, HandlerFacts, PicksFacts
  <2>3. /\ h \in Handler /\ h.pc = "unlink" /\ h.code = Check /\ h.inst = proc[w].inst
        /\ h.picks # {}
    BY <1>6, <2>1, <2>2 DEF Handler, Labels
  <2>4. Continue(w, h)
    BY <1>6, <2>1
  <2> QED
    BY <1>2, <1>4, <2>3, <2>4, CheckGoesOn DEF Checks
<1> QED
  BY <1>1, <1>5, <1>6 DEF DeleteCode

\* The code of a worker that dies is disturbed.
LEMMA CrashInv ==
  ASSUME IInv, NEW w \in Workers, Crash(w)
  PROVE  IInv'
<1>1. PICK c, h : c = proc[w].code /\ h = Idle
  OBVIOUS
<1>2. /\ proc' = [proc EXCEPT ![w] = h] /\ disturbed' = disturbed \cup ({c} \cap Codes)
      /\ count' = [count EXCEPT !.crashes = @ + 1]
      /\ UNCHANGED <<seats, code, rec, members, enrolled, queue, mailed, newest>>
  BY <1>1 DEF Crash
<1>3. /\ h \in Handler /\ h.code = 0 /\ h.pc = "idle" /\ h.inst.user = NoUser
      /\ InHand(h)' /\ Steady(h)'
  BY <1>1, Ended
<1>4. c \in Nat /\ count.records \in Nat
  BY <1>1, HandlerFacts DEF IInv, Shape
<1>5. /\ count' \in [ops: Nat, crashes: Nat, records: Nat]
      /\ count'.records = count.records
  BY <1>2 DEF IInv, Shape
<1>6. Shape'
  <2>1. proc' \in [Workers -> Handler] /\ disturbed' \in SUBSET Nat
    BY <1>2, <1>3, <1>4 DEF IInv, Shape
  <2> QED
    BY <1>2, <1>5, <2>1 DEF IInv, Shape
<1>7. Admitted'
  BY <1>2, <1>3, AdmittedKept
<1>8. SeatsCounted'
  BY <1>2, <1>3, SeatsKept
<1>9. Unmade' /\ RecordsCoded' /\ MailsOld'
  BY <1>2, <1>5 DEF IInv, Unmade, RecordsCoded, MailsOld
<1>10. \A d \in Codes : Quiet(d)
  BY <1>2 DEF Quiet, RecordsOf, Current
<1>11. CodesKept
  BY <1>2, <1>4, <1>5 DEF CodesKept
<1>12. c \notin Codes \ disturbed'
  BY <1>2
<1>13. AllInHand' /\ Alone' /\ AllSteady' /\ AllSettled'
  <2>1. /\ disturbed \subseteq disturbed'
        /\ c # 0 /\ c \notin disturbed' => \A x \in Workers \ {w} : proc[x].code # c
    BY <1>1, <1>2 DEF IInv, Alone
  <2>2. h.code \in {0, c} /\ proc[w].code \in {0, c} \cup disturbed'
        /\ count'.records \in Nat
    BY <1>1, <1>3, <1>4, <1>5
  <2> QED
    BY <1>2, <1>3, <1>4, <1>10, <1>11, <1>12, <2>1, <2>2, CodeStep
<1>14. Gone'
  BY <1>2 DEF IInv, Gone, RecordsOf
<1> QED
  BY <1>6, <1>7, <1>8, <1>9, <1>13, <1>14 DEF IInv

-----------------------------------------------------------------------------
(* The invariant *)

LEMMA InitInvariant == Init => IInv
<1>0. SUFFICES ASSUME Init PROVE IInv
  OBVIOUS
<1> USE ContractCodesAssumption
<1>1. PICK n \in FirstCodes, unlimited \in BOOLEAN :
         code = [c \in Codes |-> [exists |-> c <= n, linked |-> c <= n,
                                  unlimited |-> unlimited, secret |-> 0]]
  BY <1>0 DEF Init
<1>2. code \in [Codes -> AnyCode]
  <2>1. ASSUME NEW c \in Codes
        PROVE  [exists |-> c <= n, linked |-> c <= n,
                unlimited |-> unlimited, secret |-> 0] \in AnyCode
    <3>1. (c <= n) \in BOOLEAN
      OBVIOUS
    <3> QED
      BY <3>1 DEF AnyCode
  <2> QED
    BY <1>1, <2>1
<1>3. NoRecord \in AnyRecord /\ ~NoRecord.exists /\ NoRecord.user = NoUser
  BY DEF NoRecord, AnyRecord
<1>4. IsFiniteSet({}) /\ Cardinality({}) = 0
  BY FS_EmptySet
<1>5. Shape
  <2>1. count \in [ops: Nat, crashes: Nat, records: Nat]
    BY <1>0 DEF Init
  <2>2. proc \in [Workers -> Handler]
    BY <1>0, IdleInHand DEF Init
  <2> QED
    BY <1>0, <1>2, <1>3, <1>4, <2>1, <2>2 DEF Init, Shape
<1>6. \A w \in Workers : /\ proc[w] = Idle /\ Idle.pc = "idle" /\ Idle.code = 0
                         /\ Idle.inst.user = NoUser
  BY <1>0, IdleInHand DEF Init
<1>7. \A r \in Records : rec[r] = NoRecord /\ newest[r] = 0
  BY <1>0 DEF Init
<1>8. Admitted
  BY <1>3, <1>6, <1>7 DEF Admitted
<1>9. SeatsCounted
  <2>1. Attaching = {} /\ members \ enrolled = {}
    BY <1>0, <1>6 DEF Init, Attaching
  <2>2. seats \in Nat /\ Cardinality(Workers) \in Nat
    BY <1>5, FS_CardinalityType DEF Shape
  <2> QED
    BY <1>4, <2>1, <2>2 DEF SeatsCounted
<1>10. Unmade /\ RecordsCoded
  BY <1>0, <1>3, <1>7, Indices DEF Init, Unmade, RecordsCoded
<1>11. AllInHand /\ Alone /\ AllSteady
  BY <1>6, IdleInHand DEF AllInHand, Alone, AllSteady
<1>12. MailsOld
  BY <1>0 DEF Init, MailsOld
<1>13. \A c \in Codes : RecordsOf(c) = {} /\ Current(c) = {}
  BY <1>0, <1>3, <1>7 DEF Init, RecordsOf, Current
<1>14. AllSettled /\ Gone
  BY <1>13 DEF AllSettled, Settled, Gone
<1> QED
  BY <1>5, <1>8, <1>9, <1>10, <1>11, <1>12, <1>14 DEF IInv

LEMMA NextInv ==
  ASSUME IInv, [Next]_vars
  PROVE  IInv'
<1>1. ASSUME NEW w \in Workers, Start(w)
      PROVE  IInv'
  <2>1. ASSUME NEW c \in Codes, NEW u \in Users,
               AttachCheck(w, u, c) \/ AssignCode(w, c, u) \/ Reassign(w, c, u)
        PROVE  IInv'
    BY <2>1, AttachCheckInv, AssignCodeInv, EditRecordInv DEF Reassign
  <2>2. ASSUME NEW u \in Users, BulkAssign(w, u)
        PROVE  IInv'
    BY <2>2, BulkAssignInv
  <2>3. ASSUME NEW c \in Codes, Revoke(w, c) \/ Remind(w, c)
        PROVE  IInv'
    BY <2>3, EditRecordInv DEF Revoke, Remind
  <2>4. ASSUME NEW r \in Records,
               SendMail(w, r) \/ \E ts \in 1 .. MaxTime : Webhook(w, r, ts)
        PROVE  IInv'
    BY <2>4, SendMailInv, WebhookInv
  <2> QED
    BY <1>1, <2>1, <2>2, <2>3, <2>4, CountCodesInv DEF Start
<1>2. ASSUME NEW w \in Workers, Step(w)
      PROVE  IInv'
  BY <1>2, AttachAddInv, AttachRedeemInv, AssignSaveInv, RevokeDeleteInv,
     RevokeSecretInv, ReassignSecretInv, SaveAndMailInv, SaveMessageIdInv,
     SaveEventInv, WriteCodesInv, SelectCodesInv, UnlinkCodeInv, DeleteCodeInv DEF Step
<1>3. ASSUME NEW w \in Workers, Crash(w)
      PROVE  IInv'
  BY <1>3, CrashInv
<1>4. CASE UNCHANGED vars
  BY <1>4 DEF vars, IInv, Shape, Admitted, SeatsCounted, Attaching, Unmade, RecordsCoded,
         AllInHand, InHand, Alone, MailsOld, AllSteady, Steady, AllSettled, Settled,
         Revoking, Current, RecordsOf, Redeemed, Gone
<1> QED
  BY <1>1, <1>2, <1>3, <1>4, EnrollInv DEF Next

LEMMA InvariantHolds == Spec => []IInv
<1>1. Init => IInv
  BY InitInvariant
<1>2. IInv /\ [Next]_vars => IInv'
  BY NextInv
<1> QED
  BY <1>1, <1>2, PTL DEF Spec

-----------------------------------------------------------------------------
(* The theorems *)

\* Whoever a record says redeemed its code is in the contract, whatever
\* overlaps or dies (_attach_user_to_contracts adds the learner first).
THEOREM RedeemersAreMembers == Spec => []RedeemerIsMember
<1>1. IInv => RedeemerIsMember
  BY DEF IInv, Admitted, RedeemerIsMember, Redeemed
<1> QED
  BY <1>1, InvariantHolds, PTL

\* The learners who come by code exceed the seats by no more than the requests
\* between the check of is_full and the addition, however many learners are
\* brought in by enrollments before, between or after.
THEOREM SeatsAlmostKept == Spec => []SeatsNearlyKept
<1>1. IInv => SeatsNearlyKept
  <2>1. SUFFICES ASSUME IInv, seats # 0
                 PROVE  Cardinality(members \ enrolled) <= seats + Cardinality(Workers) - 1
    BY DEF SeatsNearlyKept
  <2>2. Cardinality(members \ enrolled) \in Nat /\ seats \in Nat
    BY <2>1, JoinedFinite DEF IInv, Shape
  <2>3. Cardinality(members \ enrolled) + Cardinality(Attaching) + 1
           <= seats + Cardinality(Workers)
    BY <2>1 DEF IInv, SeatsCounted
  <2> QED
    BY <2>2, <2>3, AttachingFinite
<1> QED
  BY <1>1, InvariantHolds, PTL

\* A secret that opens an assigned code was mailed to nobody but the present
\* assignee, however late the mails of earlier assignments leave: revoke_code
\* and reassign_code replace the secret before anyone else is told it.
THEOREM SecretsStayPrivate == Spec => []SecretOnlyForAssignee
<1>1. IInv => SecretOnlyForAssignee
  <2>1. SUFFICES ASSUME IInv, NEW m \in mailed, NEW r \in Records,
                        m.code \notin disturbed, rec[r].exists, rec[r].code = m.code,
                        ~Redeemed(r), m.secret = code[m.code].secret
                 PROVE  m.email = rec[r].email
    BY DEF SecretOnlyForAssignee
  <2>2. PICK c : c = m.code
    OBVIOUS
  <2>3. c \in Codes \ disturbed
    BY <2>1, <2>2 DEF IInv, MailsOld
  <2>4. Settled(c)
    BY <2>1, <2>3 DEF IInv, AllSettled
  <2>5. m \in Current(c) /\ r \in RecordsOf(c)
    BY <2>1, <2>2 DEF Current, RecordsOf
  <2> QED
    BY <2>1, <2>4, <2>5 DEF Settled
<1> QED
  BY <1>1, InvariantHolds, PTL

\* The delivery status of a mail comes from the latest event received, in
\* whatever order Mailgun delivers them (the timestamp test of the webhook).
THEOREM StatusFollowsEvents == Spec => []StatusIsNewest
<1>1. IInv => StatusIsNewest
  <2>1. SUFFICES ASSUME IInv, NEW r \in Records, rec[r].exists, rec[r].code \notin disturbed
                 PROVE  rec[r].ts = newest[r]
    BY DEF StatusIsNewest
  <2>2. PICK c : c = rec[r].code
    OBVIOUS
  <2>3. c \in Codes /\ r \in RecordsOf(c)
    <3>1. r <= count.records
      BY <2>1, Indices DEF IInv, Unmade, Shape
    <3> QED
      BY <2>1, <2>2, <3>1 DEF IInv, RecordsCoded, RecordsOf
  <2>4. Settled(c)
    BY <2>1, <2>2, <2>3 DEF IInv, AllSettled
  <2> QED
    BY <2>3, <2>4 DEF Settled
<1> QED
  BY <1>1, InvariantHolds, PTL

-----------------------------------------------------------------------------
(* Redemptions are kept *)

\* Record r keeps its redeemer in this step.
Keeps(r) == rec'[r].exists /\ rec'[r].user = rec[r].user

\* A record that is written once its code is alone, or is not redeemed, or
\* changes neither its existence nor its redeemer.
LEMMA WriteKeeps ==
  ASSUME IInv, NEW q \in Records, NEW inst, rec' = [rec EXCEPT ![q] = inst],
         rec[q].exists /\ Redeemed(q) /\ rec[q].code \notin disturbed
            => inst.exists /\ inst.user = rec[q].user,
         NEW r \in Records, rec[r].exists, Redeemed(r), rec[r].code \notin disturbed
  PROVE  Keeps(r)
<1>1. rec'[r] = IF r = q THEN inst ELSE rec[r]
  BY DEF IInv, Shape
<1> QED
  BY <1>1 DEF Keeps

LEMMA CreateKeeps ==
  ASSUME IInv, NEW c, NEW email, NEW user, CreateRecord(c, email, user),
         NEW r \in Records, rec[r].exists, Redeemed(r), rec[r].code \notin disturbed
  PROVE  Keeps(r)
<1>1. PICK q, inst : /\ q = count.records + 1
                     /\ inst = [exists |-> TRUE, code |-> c, email |-> email,
                                user |-> user, mid |-> 0, ts |-> 0]
  OBVIOUS
<1>2. q \in Records /\ rec' = [rec EXCEPT ![q] = inst]
  BY <1>1 DEF CreateRecord
<1>3. q > count.records
  BY <1>1 DEF IInv, Shape
<1>4. ~rec[q].exists
  BY <1>2, <1>3 DEF IInv, Unmade
<1> QED
  BY <1>2, <1>4, WriteKeeps

LEMMA StepKeeps ==
  ASSUME IInv, NEW w \in Workers, Step(w),
         NEW r \in Records, rec[r].exists, Redeemed(r), rec[r].code \notin disturbed
  PROVE  Keeps(r)
<1>1. CASE UNCHANGED rec
  BY <1>1 DEF Keeps
<1>2. CASE AttachRedeem(w)
  <2>1. PICK c, open : c = proc[w].code /\ open = {q \in RecordsOf(c) : ~Redeemed(q)}
    OBVIOUS
  <2>2. ASSUME NEW q \in open, SaveRecord(q, [rec[q] EXCEPT !.user = proc[w].user])
        PROVE  Keeps(r)
    <3>1. q \in Records /\ ~Redeemed(q)
      BY <2>1, <2>2 DEF RecordsOf
    <3> QED
      BY <2>2, <3>1, WriteKeeps DEF SaveRecord
  <2>3. \/ CreateRecord(c, NoUser, proc[w].user)
        \/ \E q \in open : SaveRecord(q, [rec[q] EXCEPT !.user = proc[w].user])
        \/ UNCHANGED rec
    BY <1>2, <2>1 DEF AttachRedeem
  <2> QED
    BY <1>1, <2>2, <2>3, CreateKeeps
<1>3. CASE AssignSave(w)
  <2>1. CreateRecord(proc[w].code, proc[w].user, NoUser) \/ UNCHANGED rec
    BY <1>3 DEF AssignSave
  <2> QED
    BY <1>1, <2>1, CreateKeeps
<1>4. CASE RevokeDelete(w)
  <2>1. PICK c, q, inst : /\ c = proc[w].code /\ q = proc[w].rec
                          /\ inst = [rec[q] EXCEPT !.exists = FALSE]
    OBVIOUS
  <2>2. proc[w].pc = "revoke" /\ rec' = [rec EXCEPT ![q] = inst]
    BY <1>4, <2>1 DEF RevokeDelete, At
  <2>3. q \in Records /\ rec[q].code = c /\ (c \notin disturbed => rec[q].user = NoUser)
    BY <2>1, <2>2, EditFacts
  <2> QED
    BY <2>2, <2>3, WriteKeeps DEF Redeemed
<1>5. CASE SaveAndMail(w)
  <2>1. PICK c, q, inst : /\ c = proc[w].code /\ q = proc[w].rec
                          /\ inst = [proc[w].inst EXCEPT !.mid = 0, !.ts = 0]
    OBVIOUS
  <2>2. proc[w].pc = "remind" /\ rec' = [rec EXCEPT ![q] = inst]
    BY <1>5, <2>1 DEF SaveAndMail, At, SaveRecord
  <2>3. q \in Records /\ rec[q].code = c /\ (c \notin disturbed => rec[q].user = NoUser)
    BY <2>1, <2>2, EditFacts
  <2> QED
    BY <2>2, <2>3, WriteKeeps DEF Redeemed
<1>6. CASE SaveMessageId(w)
  <2>1. PICK q, inst : q = proc[w].rec /\ inst = [rec[q] EXCEPT !.mid = proc[w].n]
    OBVIOUS
  <2>2. /\ proc[w].pc = "mid"
        /\ rec' = [rec EXCEPT ![q] = inst] \/ UNCHANGED rec
    BY <1>6, <2>1 DEF SaveMessageId, At
  <2>3. q \in Records /\ rec[q] \in AnyRecord
    BY <2>1, <2>2, EditFacts
  <2>4. inst.exists = rec[q].exists /\ inst.user = rec[q].user
    BY <2>1, <2>3 DEF AnyRecord
  <2> QED
    BY <1>1, <2>2, <2>3, <2>4, WriteKeeps
<1>7. CASE SaveEvent(w)
  <2>1. PICK c, q, inst : /\ c = proc[w].code /\ q = proc[w].rec
                          /\ inst = [proc[w].inst EXCEPT !.ts = proc[w].n]
    OBVIOUS
  <2>2. proc[w].pc = "event" /\ rec' = [rec EXCEPT ![q] = inst]
    BY <1>7, <2>1 DEF SaveEvent, At, SaveRecord
  <2>3. q \in Records /\ rec[q].code = c /\ proc[w].inst \in AnyRecord
    BY <2>1, <2>2, EditFacts, HandlerFacts
  <2>4. c \notin disturbed => rec[q] = proc[w].inst
    BY <2>1, <2>2, HandlerFacts DEF Steady
  <2>5. inst.exists = proc[w].inst.exists /\ inst.user = proc[w].inst.user
    BY <2>1, <2>3 DEF AnyRecord
  <2> QED
    BY <2>2, <2>3, <2>4, <2>5, WriteKeeps
<1> QED
  BY <1>1, <1>2, <1>3, <1>4, <1>5, <1>6, <1>7
     DEF Step, AttachAdd, RevokeSecret, ReassignSecret, WriteCodes, SelectCodes,
         UnlinkCode, DeleteCode

\* No handler of a code that follows the others gives a redeemed code back:
\* neither a manager's change nor a late event or mail.  Before a manager's
\* write the record was loaded unredeemed and nobody else wrote since.
THEOREM RedemptionsStay == Spec => RedemptionKept
<1> DEFINE Kept == \A r \in Records :
                      rec[r].exists /\ Redeemed(r) /\ rec[r].code \notin disturbed
                         => rec'[r].exists /\ rec'[r].user = rec[r].user
<1>1. IInv /\ [Next]_vars => [Kept]_vars
  <2>1. SUFFICES ASSUME IInv, Next, NEW r \in Records,
                        rec[r].exists, Redeemed(r), rec[r].code \notin disturbed
                 PROVE  Keeps(r)
    BY DEF Keeps
  <2>2. ASSUME NEW w \in Workers PROVE Start(w) => UNCHANGED rec
    BY DEF Start, AttachCheck, AssignCode, Reassign, Revoke, Remind, EditRecord,
           BulkAssign, SendMail, Webhook, CountCodes
  <2>3. ASSUME NEW w \in Workers PROVE Crash(w) => UNCHANGED rec
    BY DEF Crash
  <2>4. ASSUME NEW u \in Users PROVE Enroll(u) => UNCHANGED rec
    BY DEF Enroll
  <2> QED
    BY <2>1, <2>2, <2>3, <2>4, StepKeeps DEF Keeps, Next
<1> QED
  BY <1>1, InvariantHolds, PTL DEF Spec, RedemptionKept

-----------------------------------------------------------------------------
(* How many codes a check leaves *)

\* There are n numbers below n.
LEMMA Below ==
  ASSUME NEW n \in Nat
  PROVE  IsFiniteSet(0 .. (n - 1)) /\ Cardinality(0 .. (n - 1)) = n
<1>1. 0 \in Int /\ n - 1 \in Int
  OBVIOUS
<1>2. PICK b \in Int : b = n - 1
  BY <1>1
<1>3. IsFiniteSet(0 .. b) /\ Cardinality(0 .. b) = IF 0 > b THEN 0 ELSE b - 0 + 1
  BY <1>1, <1>2, FS_Interval
<1>4. (IF 0 > b THEN 0 ELSE b - 0 + 1) = n
  BY <1>2
<1> QED
  BY <1>2, <1>3, <1>4

\* The k newest of some codes are k of them, or all when these are fewer: how
\* many of the others are newer numbers them from 0 without a gap.
LEMMA NewestCounted ==
  ASSUME NEW U \in SUBSET Nat, IsFiniteSet(U), NEW k \in Nat
  PROVE  Cardinality({c \in U : Cardinality({d \in U : d > c}) < k})
            = IF Cardinality(U) < k THEN Cardinality(U) ELSE k
<1> DEFINE N == Cardinality(U)
           Newer(c) == {d \in U : d > c}
           top == {c \in U : Cardinality(Newer(c)) < k}
           f == [c \in U |-> Cardinality(Newer(c))]
           m == IF N < k THEN N ELSE k
           g == [c \in top |-> f[c]]
<1>1. N \in Nat
  BY FS_CardinalityType
<1>2. ASSUME NEW c \in U
      PROVE  IsFiniteSet(Newer(c)) /\ Cardinality(Newer(c)) \in 0 .. (N - 1)
  <2>1. Newer(c) \in SUBSET U /\ c \notin Newer(c)
    OBVIOUS
  <2>2. IsFiniteSet(Newer(c)) /\ Cardinality(Newer(c)) <= N
    BY <2>1, FS_Subset
  <2>3. Cardinality(Newer(c)) # N
    BY <2>1, FS_Subset
  <2>4. Cardinality(Newer(c)) \in Nat
    BY <2>2, FS_CardinalityType
  <2> QED
    BY <1>1, <2>2, <2>3, <2>4
<1>3. ASSUME NEW c \in U, NEW d \in U, c < d
      PROVE  Cardinality(Newer(d)) # Cardinality(Newer(c))
  <2>1. c \in Nat /\ d \in Nat /\ \A x \in U : x \in Nat
    OBVIOUS
  <2>2. \A x \in Newer(d) : x \in U /\ x > c
    BY <1>3, <2>1
  <2>3. d > c /\ ~(d > d)
    BY <1>3, <2>1
  <2>4. Newer(d) \in SUBSET Newer(c)
    BY <2>2
  <2>5. d \in Newer(c) /\ d \notin Newer(d)
    BY <2>3
  <2> QED
    BY <1>2, <2>4, <2>5, FS_Subset
<1>4. f \in Injection(U, 0 .. (N - 1))
  <2>1. f \in [U -> 0 .. (N - 1)]
    BY <1>2
  <2>2. ASSUME NEW c \in U, NEW d \in U, f[c] = f[d] PROVE c = d
    BY <1>3, <2>2
  <2> QED
    BY <2>1, <2>2 DEF Injection, IsInjective
<1>5. IsFiniteSet(0 .. (N - 1)) /\ Cardinality(0 .. (N - 1)) = N
  BY <1>1, Below
<1>6. f \in Surjection(U, 0 .. (N - 1))
  BY <1>4, <1>5, FS_Injection
<1>7. m \in Nat /\ m <= N /\ m <= k
  BY <1>1
<1>8. g \in Bijection(top, 0 .. (m - 1))
  <2>1. ASSUME NEW c \in top PROVE c \in U /\ g[c] = f[c] /\ f[c] \in 0 .. (m - 1)
    <3>1. c \in U /\ g[c] = f[c] /\ f[c] < k /\ f[c] \in 0 .. (N - 1)
      BY <1>2
    <3> QED
      BY <1>1, <3>1
  <2>2. g \in [top -> 0 .. (m - 1)]
    BY <2>1
  <2>3. ASSUME NEW c \in top, NEW d \in top, g[c] = g[d] PROVE c = d
    <3>1. f[c] = f[d] /\ c \in U /\ d \in U
      BY <2>1, <2>3
    <3> QED
      BY <1>4, <3>1 DEF Injection, IsInjective
  <2>4. ASSUME NEW i \in 0 .. (m - 1) PROVE \E c \in top : g[c] = i
    <3>1. i \in 0 .. (N - 1) /\ i < k
      BY <1>1, <1>7
    <3>2. PICK c \in U : f[c] = i
      BY <1>6, <3>1 DEF Surjection
    <3>3. c \in top
      BY <3>1, <3>2
    <3> QED
      BY <2>1, <3>2, <3>3
  <2> QED
    BY <2>2, <2>3, <2>4 DEF Bijection, Injection, Surjection, IsInjective
<1>9. Cardinality(0 .. (m - 1)) = m /\ IsFiniteSet(0 .. (m - 1))
  BY <1>7, Below
<1>10. IsFiniteSet(top) /\ ExistsBijection(top, 0 .. (m - 1))
  <2>1. top \in SUBSET U
    OBVIOUS
  <2> QED
    BY <1>8, <2>1, FS_Subset DEF ExistsBijection
<1>11. Cardinality(top) = m
  BY <1>9, <1>10, FS_Bijection
<1> QED
  BY <1>11

\* Only a worker's own steps move it.
LEMMA OthersStay ==
  ASSUME IInv, NEW v \in Workers, NEW w \in Workers, v # w,
         Start(v) \/ Step(v) \/ Crash(v)
  PROVE  proc'[w] = proc[w]
<1>1. proc \in [Workers -> Handler]
  BY DEF IInv, Shape
<1>2. \E h : proc' = [proc EXCEPT ![v] = h]
  <2>1. Start(v) => \E h : proc' = [proc EXCEPT ![v] = h]
    BY DEF Start, AttachCheck, AssignCode, Reassign, Revoke, Remind, EditRecord,
           BulkAssign, SendMail, Webhook, CountCodes, Begin
  <2>2. Step(v) => \E h : proc' = [proc EXCEPT ![v] = h]
    BY DEF Step, AttachAdd, AttachRedeem, AssignSave, RevokeDelete, RevokeSecret,
           ReassignSecret, SaveAndMail, SaveMessageId, SaveEvent, WriteCodes,
           SelectCodes, UnlinkCode, DeleteCode, Finish, Continue
  <2>3. Crash(v) => \E h : proc' = [proc EXCEPT ![v] = h]
    BY DEF Crash
  <2> QED
    BY <2>1, <2>2, <2>3
<1> QED
  BY <1>1, <1>2

\* New codes make up the number asked for.
LEMMA CodesCreated ==
  ASSUME IInv, NEW k \in Nat, NEW unlimited \in BOOLEAN, CreateCodes(k, unlimited)
  PROVE  /\ Cardinality(Existing') = Cardinality(Existing) + k
         /\ Existing \subseteq Existing'
<1>1. code \in [Codes -> AnyCode] /\ IsFiniteSet(Codes)
  <2>1. 1 \in Int /\ MaxCodes \in Int
    BY ContractCodesAssumption
  <2> QED
    BY <2>1, FS_Interval DEF IInv, Shape, Codes
<1>2. PICK new \in SUBSET Fresh :
         /\ Cardinality(new) = k
         /\ code' = [c \in Codes |-> IF c \in new
                                     THEN [code[c] EXCEPT !.exists = TRUE, !.linked = TRUE,
                                                          !.unlimited = unlimited]
                                     ELSE code[c]]
  BY DEF CreateCodes, kSubset
<1>3. ASSUME NEW c \in Codes
      PROVE  c \in Existing' <=> c \in new \/ c \in Existing
  <2>1. code[c] \in AnyCode
    BY <1>1
  <2>2. PICK x : x = [code[c] EXCEPT !.exists = TRUE, !.linked = TRUE,
                                     !.unlimited = unlimited]
    OBVIOUS
  <2>3. x.exists = TRUE /\ x.linked = TRUE
    BY <2>1, <2>2 DEF AnyCode
  <2>4. code'[c] = IF c \in new THEN x ELSE code[c]
    BY <1>2, <2>2
  <2> QED
    BY <2>3, <2>4 DEF Existing
<1>4. Existing' = Existing \cup new
  <2>1. Existing' \subseteq Codes /\ Existing \subseteq Codes /\ new \subseteq Codes
    BY <1>2 DEF Existing, Fresh
  <2> QED
    BY <1>3, <2>1
<1>5. Existing \in SUBSET Codes /\ new \in SUBSET Codes /\ Existing \cap new = {}
  BY <1>2 DEF Existing, Fresh
<1>6. IsFiniteSet(Existing) /\ IsFiniteSet(new)
  BY <1>1, <1>5, FS_Subset
<1>7. Cardinality(Existing) \in Nat
  BY <1>6, FS_CardinalityType
<1>8. Cardinality(Existing \cup new)
         = Cardinality(Existing) + Cardinality(new) - Cardinality(Existing \cap new)
  BY <1>6, FS_Union
<1>9. Cardinality(Existing \cap new) = 0
  BY <1>5, FS_EmptySet
<1>10. Cardinality(Existing \cup new) = Cardinality(Existing) + k - 0
  BY <1>2, <1>8, <1>9
<1>11. Cardinality(Existing \cup new) = Cardinality(Existing) + k
  <2>1. PICK a \in Nat : a = Cardinality(Existing)
    BY <1>7
  <2>2. a + k - 0 = a + k
    OBVIOUS
  <2> QED
    BY <1>10, <2>1, <2>2
<1>12. Existing \subseteq Existing'
  BY <1>4
<1> QED
  BY <1>4, <1>11, <1>12

\* What a worker that removes codes picked is not more than it was asked for.
LEMMA RemovableCounted ==
  ASSUME NEW k \in Nat
  PROVE  /\ Removable(k) \subseteq Existing /\ \A c \in Removable(k) : Unused(c)
         /\ IsFiniteSet(Removable(k)) /\ Cardinality(Removable(k)) \in Nat
         /\ Cardinality(Removable(k)) <= k
<1>1. PICK unused \in SUBSET Existing : unused = {c \in Existing : Unused(c)}
  OBVIOUS
<1>2. Removable(k) = {c \in unused : Cardinality({d \in unused : d > c}) < k}
  BY <1>1 DEF Removable
<1>3. IsFiniteSet(unused) /\ unused \in SUBSET Nat
  BY <1>1, ExistingFinite, FS_Subset
<1>4. Cardinality(unused) \in Nat
  BY <1>3, FS_CardinalityType
<1>5. Cardinality({c \in unused : Cardinality({d \in unused : d > c}) < k})
         = IF Cardinality(unused) < k THEN Cardinality(unused) ELSE k
  BY <1>3, NewestCounted
<1>6. Removable(k) \in SUBSET unused /\ \A c \in unused : Unused(c)
  BY <1>1, <1>2
<1>7. IsFiniteSet(Removable(k))
  BY <1>3, <1>6, FS_Subset
<1>8. Cardinality(Removable(k)) <= k
  BY <1>2, <1>4, <1>5
<1> QED
  BY <1>1, <1>6, <1>7, <1>8, FS_CardinalityType

-----------------------------------------------------------------------------
(* Which steps change the codes of the contract *)

\* A step that leaves existence and links alone.
LEMMA LinksKept ==
  ASSUME \A c \in Codes : /\ code'[c].exists = code[c].exists
                          /\ code'[c].linked = code[c].linked
  PROVE  Existing' = Existing
BY DEF Existing

LEMMA StartLinks ==
  ASSUME IInv, NEW w \in Workers, Start(w)
  PROVE  Existing' = Existing \/ (seats = 0 /\ Existing \subseteq Existing')
<1>0. code \in [Codes -> AnyCode]
  BY DEF IInv, Shape
<1>1. CASE code' = code
  BY <1>1, LinksKept
<1>2. CASE CountCodes(w)
  <2>1. code' = [c \in Codes |-> IF c \in Existing /\ seats # 0
                                 THEN [code[c] EXCEPT !.unlimited = FALSE]
                                 ELSE code[c]]
    BY <1>2 DEF CountCodes
  <2>2. ASSUME NEW c \in Codes
        PROVE  code'[c].exists = code[c].exists /\ code'[c].linked = code[c].linked
    <3>1. code'[c] \in {code[c], [code[c] EXCEPT !.unlimited = FALSE]} /\ code[c] \in AnyCode
      BY <1>0, <2>1
    <3> QED
      BY <3>1 DEF AnyCode
  <2> QED
    BY <2>2, LinksKept
<1>3. ASSUME NEW email \in Users, BulkAssign(w, email), code' # code
      PROVE  seats = 0 /\ Existing \subseteq Existing'
  <2>1. PICK c : code' = [code EXCEPT ![c].exists = TRUE, ![c].linked = TRUE,
                                      ![c].unlimited = FALSE]
    BY <1>3 DEF BulkAssign
  <2>2. seats = 0
    BY <1>3 DEF BulkAssign
  <2>3. PICK k : k = [code[c] EXCEPT !.exists = TRUE, !.linked = TRUE, !.unlimited = FALSE]
    OBVIOUS
  <2>4. code' = [code EXCEPT ![c] = k]
    BY <2>1, <2>3
  <2>5. c \in Codes => k.exists /\ k.linked
    BY <1>0, <2>3 DEF AnyCode
  <2>6. \A d \in Codes : code'[d] = IF d = c THEN k ELSE code[d]
    BY <1>0, <2>4
  <2> QED
    BY <2>2, <2>5, <2>6 DEF Existing
<1>4. code' = code \/ CountCodes(w) \/ \E email \in Users : BulkAssign(w, email)
  BY DEF Start, AttachCheck, AssignCode, Reassign, Revoke, Remind, EditRecord,
         SendMail, Webhook
<1> QED
  BY <1>1, <1>2, <1>3, <1>4

\* The code whose link goes.
LEMMA UnlinkLinks ==
  ASSUME IInv, NEW w \in Workers, UnlinkCode(w)
  PROVE  Existing' = Existing \ {Max(proc[w].picks)}
<1>1. PICK c : c = Max(proc[w].picks) /\ code' = [code EXCEPT ![c].linked = FALSE]
  BY DEF UnlinkCode
<1>2. proc[w].pc = "unlink"
  BY DEF UnlinkCode, At
<1>3. c \in Codes
  BY <1>1, <1>2, PicksFacts
<1>4. PICK k : k = [code[c] EXCEPT !.linked = FALSE]
  OBVIOUS
<1>5. code' = [code EXCEPT ![c] = k] /\ code \in [Codes -> AnyCode]
  BY <1>1, <1>4 DEF IInv, Shape
<1>6. ~k.linked
  BY <1>3, <1>4, <1>5 DEF AnyCode
<1>7. \A d \in Codes : code'[d] = IF d = c THEN k ELSE code[d]
  BY <1>5
<1> QED
  BY <1>1, <1>6, <1>7 DEF Existing

LEMMA DeleteLinks ==
  ASSUME IInv, NEW w \in Workers, DeleteCode(w)
  PROVE  Existing' = Existing
<1>1. PICK c : c = proc[w].n
  OBVIOUS
<1>2. \/ code' = [code EXCEPT ![c].exists = FALSE] /\ ~code[c].linked
      \/ code' = code
  BY <1>1 DEF DeleteCode
<1>3. CASE code' = [code EXCEPT ![c].exists = FALSE] /\ ~code[c].linked
  <2>1. PICK k : k = [code[c] EXCEPT !.exists = FALSE]
    OBVIOUS
  <2>2. code' = [code EXCEPT ![c] = k] /\ code \in [Codes -> AnyCode]
    BY <1>3, <2>1 DEF IInv, Shape
  <2>3. c \in Codes => ~k.exists
    BY <2>1, <2>2 DEF AnyCode
  <2>4. \A d \in Codes : code'[d] = IF d = c THEN k ELSE code[d]
    BY <2>2
  <2> QED
    BY <1>3, <2>3, <2>4 DEF Existing
<1> QED
  BY <1>2, <1>3 DEF Existing

\* A check with a limit makes up what its count is short of.
LEMMA WriteLinks ==
  ASSUME IInv, NEW w \in Workers, WriteCodes(w)
  PROVE  /\ Existing \subseteq Existing'
         /\ seats # 0 /\ ~(proc[w].n < seats) => Existing' = Existing
         /\ seats # 0 /\ proc[w].n < seats =>
               Cardinality(Existing') = Cardinality(Existing) + (seats - proc[w].n)
<1>0. code \in [Codes -> AnyCode] /\ seats \in Nat /\ proc[w].n \in Nat
  BY HandlerFacts DEF IInv, Shape
<1>1. PICK n \in Nat : n = proc[w].n
  BY <1>0
<1>2. CASE seats = 0
  <2>1. \/ CreateCodes(1, TRUE)
        \/ code' = [code EXCEPT ![Min(Existing)].unlimited = TRUE]
        \/ code' = code
    <3>1. PICK A, B, C, D :
            /\ A = CreateCodes(1, TRUE)
            /\ B = (code' = [code EXCEPT ![Min(Existing)].unlimited = TRUE])
            /\ C = CreateCodes(seats - n, FALSE)
            /\ D = (code' = code)
      OBVIOUS
    <3>2. (CASE seats = 0 /\ n = 0 -> A
            [] seats = 0 /\ n = 1 -> B
            [] seats # 0 /\ n < seats -> C
            [] OTHER -> D)
      BY <1>1, <3>1 DEF WriteCodes
    <3>3. A \/ B \/ D
      BY <1>2, <3>2
    <3> QED
      BY <3>1, <3>3
  <2>2. CASE CreateCodes(1, TRUE)
    BY <1>2, <2>2, CodesCreated
  <2>3. CASE code' = [code EXCEPT ![Min(Existing)].unlimited = TRUE]
    <3>1. PICK c, k : c = Min(Existing) /\ k = [code[c] EXCEPT !.unlimited = TRUE]
      OBVIOUS
    <3>2. \A d \in Codes : code'[d] = IF d = c THEN k ELSE code[d]
      BY <1>0, <2>3, <3>1
    <3>3. c \in Codes => k.exists = code[c].exists /\ k.linked = code[c].linked
      BY <1>0, <3>1 DEF AnyCode
    <3>4. Existing' = Existing
      BY <3>2, <3>3, LinksKept
    <3> QED
      BY <1>2, <3>4
  <2>4. CASE code' = code
    <3>1. Existing' = Existing
      BY <2>4 DEF Existing
    <3> QED
      BY <1>2, <3>1
  <2> QED
    BY <2>1, <2>2, <2>3, <2>4
<1>3. CASE seats # 0
  <2>1. PICK A, B, C, D :
          /\ A = CreateCodes(1, TRUE)
          /\ B = (code' = [code EXCEPT ![Min(Existing)].unlimited = TRUE])
          /\ C = CreateCodes(seats - n, FALSE)
          /\ D = (code' = code)
    OBVIOUS
  <2>2. (CASE seats = 0 /\ n = 0 -> A
          [] seats = 0 /\ n = 1 -> B
          [] seats # 0 /\ n < seats -> C
          [] OTHER -> D)
    BY <1>1, <2>1 DEF WriteCodes
  <2>3. CASE n < seats
    <3>1. C
      BY <1>3, <2>2, <2>3
    <3>2. CreateCodes(seats - n, FALSE)
      BY <2>1, <3>1, Zenon
    <3>3. seats - n \in Nat
      BY <1>0, <2>3
    <3>4. /\ Cardinality(Existing') = Cardinality(Existing) + (seats - n)
          /\ Existing \subseteq Existing'
      BY <3>2, <3>3, CodesCreated
    <3> QED
      BY <1>1, <2>3, <3>4
  <2>4. CASE ~(n < seats)
    <3>1. D
      BY <1>3, <2>2, <2>4
    <3>2. Existing' = Existing
      BY <2>1, <3>1 DEF Existing
    <3> QED
      BY <1>1, <2>4, <3>2
  <2> QED
    BY <2>3, <2>4
<1> QED
  BY <1>2, <1>3

\* All steps together.
LEMMA CodesMove ==
  ASSUME IInv, [Next]_vars
  PROVE  \/ Existing' = Existing
         \/ seats = 0 /\ Existing \subseteq Existing'
         \/ \E w \in Workers : WriteCodes(w)
         \/ \E w \in Workers : UnlinkCode(w)
<1>0. code \in [Codes -> AnyCode]
  BY DEF IInv, Shape
<1>1. ASSUME NEW w \in Workers, Start(w)
      PROVE  Existing' = Existing \/ (seats = 0 /\ Existing \subseteq Existing')
  BY <1>1, StartLinks
<1>2. ASSUME NEW c, NewSecret(c)
      PROVE  Existing' = Existing
  <2>1. PICK k : k = [code[c] EXCEPT !.secret = @ + 1]
    OBVIOUS
  <2>2. code' = [code EXCEPT ![c] = k]
    BY <1>2, <2>1 DEF NewSecret
  <2>3. \A d \in Codes : code'[d] = IF d = c THEN k ELSE code[d]
    BY <1>0, <2>2
  <2>4. c \in Codes => k.exists = code[c].exists /\ k.linked = code[c].linked
    BY <1>0, <2>1 DEF AnyCode
  <2> QED
    BY <2>3, <2>4, LinksKept
<1>3. CASE code' = code
  BY <1>3, LinksKept
<1>4. ASSUME NEW w \in Workers, Step(w)
      PROVE  \/ code' = code \/ WriteCodes(w) \/ UnlinkCode(w) \/ DeleteCode(w)
             \/ \E c : NewSecret(c)
  BY <1>4 DEF Step, AttachAdd, AttachRedeem, AssignSave, RevokeDelete, RevokeSecret,
         ReassignSecret, SaveAndMail, SaveMessageId, SaveEvent, SelectCodes
<1>5. ASSUME NEW w \in Workers, Crash(w) PROVE code' = code
  BY <1>5 DEF Crash
<1>6. ASSUME NEW u \in Users, Enroll(u) PROVE code' = code
  BY <1>6 DEF Enroll
<1> QED
  BY <1>1, <1>2, <1>3, <1>4, <1>5, <1>6, DeleteLinks DEF Next, vars

-----------------------------------------------------------------------------
(* What a check of the codes relies on *)

\* A check that no other overlapped knows how many codes there are to spare.
Counted(h) ==
    /\ h.pc = "codes" => h.n = Cardinality(Existing)
    /\ h.pc = "select" => h.n + seats = Cardinality(Existing)
    /\ h.pc = "unlink" => /\ h.picks \subseteq Existing
                          /\ Cardinality(h.picks) + seats <= Cardinality(Existing)
    /\ h.pc = "delete" => /\ h.picks \ {h.n} \subseteq Existing
                          /\ Cardinality(h.picks \ {h.n}) + seats <= Cardinality(Existing)
AllCounted ==
    seats # 0 /\ Check \notin disturbed => \A w \in Workers : Counted(proc[w])

\* The records of the codes that were picked are newer than the pick.
Picked(h) ==
    h.pc \in {"unlink", "delete"} =>
        /\ h.rec <= count.records
        /\ \A c \in h.picks \ disturbed : \A r \in RecordsOf(c) : r > h.rec
AllPicked == \A w \in Workers : Picked(proc[w])

\* Records are only added to a code, as the newest of all.
OnlyNew ==
    \A c \in Codes \ disturbed : \A r \in RecordsOf(c)' :
        r \in RecordsOf(c) \/ r > count.records

LEMMA WriteOnlyNew ==
  ASSUME IInv, NEW q \in Records, NEW inst, rec' = [rec EXCEPT ![q] = inst],
         inst.exists /\ inst.code \notin disturbed =>
            (rec[q].exists /\ rec[q].code = inst.code) \/ q > count.records
  PROVE  OnlyNew
<1>1. \A r \in Records : rec'[r] = IF r = q THEN inst ELSE rec[r]
  BY DEF IInv, Shape
<1> QED
  BY <1>1 DEF OnlyNew, RecordsOf

LEMMA CreateOnlyNew ==
  ASSUME IInv, NEW c, NEW email, NEW user, CreateRecord(c, email, user)
  PROVE  OnlyNew
<1>1. PICK q, inst : /\ q = count.records + 1
                     /\ inst = [exists |-> TRUE, code |-> c, email |-> email,
                                user |-> user, mid |-> 0, ts |-> 0]
  OBVIOUS
<1>2. q \in Records /\ rec' = [rec EXCEPT ![q] = inst]
  BY <1>1 DEF CreateRecord
<1>3. q > count.records
  BY <1>1 DEF IInv, Shape
<1> QED
  BY <1>2, <1>3, WriteOnlyNew

LEMMA StepOnlyNew ==
  ASSUME IInv, NEW w \in Workers, Step(w)
  PROVE  OnlyNew
<1>1. CASE UNCHANGED rec
  BY <1>1 DEF OnlyNew, RecordsOf
<1>2. CASE AttachRedeem(w)
  <2>1. PICK c, open : c = proc[w].code /\ open = {q \in RecordsOf(c) : ~Redeemed(q)}
    OBVIOUS
  <2>2. ASSUME NEW q \in open, SaveRecord(q, [rec[q] EXCEPT !.user = proc[w].user])
        PROVE  OnlyNew
    <3>1. q \in Records /\ rec[q] \in AnyRecord /\ rec[q].exists
      BY <2>1, <2>2 DEF RecordsOf, IInv, Shape
    <3>2. PICK inst : inst = [rec[q] EXCEPT !.user = proc[w].user]
      OBVIOUS
    <3>3. inst.code = rec[q].code /\ rec' = [rec EXCEPT ![q] = inst]
      BY <2>2, <3>1, <3>2 DEF AnyRecord, SaveRecord
    <3> QED
      BY <3>1, <3>3, WriteOnlyNew
  <2>3. \/ CreateRecord(c, NoUser, proc[w].user)
        \/ \E q \in open : SaveRecord(q, [rec[q] EXCEPT !.user = proc[w].user])
        \/ UNCHANGED rec
    BY <1>2, <2>1 DEF AttachRedeem
  <2> QED
    BY <1>1, <2>2, <2>3, CreateOnlyNew
<1>3. CASE AssignSave(w)
  <2>1. CreateRecord(proc[w].code, proc[w].user, NoUser) \/ UNCHANGED rec
    BY <1>3 DEF AssignSave
  <2> QED
    BY <1>1, <2>1, CreateOnlyNew
<1>4. CASE RevokeDelete(w)
  <2>1. PICK q, inst : q = proc[w].rec /\ inst = [rec[q] EXCEPT !.exists = FALSE]
    OBVIOUS
  <2>2. proc[w].pc = "revoke" /\ rec' = [rec EXCEPT ![q] = inst]
    BY <1>4, <2>1 DEF RevokeDelete, At
  <2>3. q \in Records /\ rec[q] \in AnyRecord
    BY <2>1, <2>2, EditFacts
  <2>4. ~inst.exists
    BY <2>1, <2>3 DEF AnyRecord
  <2> QED
    BY <2>2, <2>3, <2>4, WriteOnlyNew
<1>5. CASE SaveAndMail(w)
  <2>1. PICK c, q, inst : /\ c = proc[w].code /\ q = proc[w].rec
                          /\ inst = [proc[w].inst EXCEPT !.mid = 0, !.ts = 0]
    OBVIOUS
  <2>2. proc[w].pc = "remind" /\ rec' = [rec EXCEPT ![q] = inst]
    BY <1>5, <2>1 DEF SaveAndMail, At, SaveRecord
  <2>3. /\ q \in Records /\ rec[q].code = c /\ proc[w].inst.code = c
        /\ c \notin disturbed => rec[q].exists
    BY <2>1, <2>2, EditFacts, HandlerFacts DEF InHand, Steady
  <2>4. inst.code = c
    BY <2>1, <2>3, HandlerFacts DEF AnyRecord
  <2> QED
    BY <2>2, <2>3, <2>4, WriteOnlyNew
<1>6. CASE SaveMessageId(w)
  <2>1. PICK q, inst : q = proc[w].rec /\ inst = [rec[q] EXCEPT !.mid = proc[w].n]
    OBVIOUS
  <2>2. /\ proc[w].pc = "mid"
        /\ (rec' = [rec EXCEPT ![q] = inst] /\ rec[q].exists) \/ UNCHANGED rec
    BY <1>6, <2>1 DEF SaveMessageId, At
  <2>3. q \in Records /\ rec[q] \in AnyRecord
    BY <2>1, <2>2, EditFacts
  <2>4. inst.code = rec[q].code
    BY <2>1, <2>3 DEF AnyRecord
  <2> QED
    BY <1>1, <2>2, <2>3, <2>4, WriteOnlyNew
<1>7. CASE SaveEvent(w)
  <2>1. PICK c, q, inst : /\ c = proc[w].code /\ q = proc[w].rec
                          /\ inst = [proc[w].inst EXCEPT !.ts = proc[w].n]
    OBVIOUS
  <2>2. proc[w].pc = "event" /\ rec' = [rec EXCEPT ![q] = inst]
    BY <1>7, <2>1 DEF SaveEvent, At, SaveRecord
  <2>3. /\ q \in Records /\ rec[q].code = c /\ proc[w].inst.code = c
        /\ proc[w].inst.exists
    BY <2>1, <2>2, EditFacts, HandlerFacts DEF InHand
  <2>4. c \notin disturbed => rec[q].exists
    BY <2>1, <2>2, <2>3, HandlerFacts DEF Steady
  <2>5. inst.code = c
    BY <2>1, <2>3, HandlerFacts DEF AnyRecord
  <2> QED
    BY <2>2, <2>3, <2>4, <2>5, WriteOnlyNew
<1> QED
  BY <1>1, <1>2, <1>3, <1>4, <1>5, <1>6, <1>7
     DEF Step, AttachAdd, RevokeSecret, ReassignSecret, WriteCodes, SelectCodes,
         UnlinkCode, DeleteCode

LEMMA NextOnlyNew ==
  ASSUME IInv, [Next]_vars
  PROVE  OnlyNew
<1>1. UNCHANGED rec => OnlyNew
  BY DEF OnlyNew, RecordsOf
<1>2. ASSUME NEW w \in Workers PROVE Start(w) => UNCHANGED rec
  BY DEF Start, AttachCheck, AssignCode, Reassign, Revoke, Remind, EditRecord,
         BulkAssign, SendMail, Webhook, CountCodes
<1>3. ASSUME NEW w \in Workers PROVE Crash(w) => UNCHANGED rec
  BY DEF Crash
<1>4. ASSUME NEW u \in Users PROVE Enroll(u) => UNCHANGED rec
  BY DEF Enroll
<1> QED
  BY <1>1, <1>2, <1>3, <1>4, StepOnlyNew DEF Next, vars

\* Only its own steps, those of a check, bring a worker to a check.
LEMMA CheckMoves ==
  ASSUME IInv, [Next]_vars, NEW w \in Workers
  PROVE  \/ proc'[w] = proc[w]
         \/ proc'[w].pc \notin Checks
         \/ CountCodes(w) \/ WriteCodes(w) \/ SelectCodes(w) \/ UnlinkCode(w) \/ DeleteCode(w)
<1>1. proc \in [Workers -> Handler] /\ proc[w] \in Handler
  BY DEF IInv, Shape
<1>2. ASSUME NEW h, h.pc \notin Checks, Begin(w, h) \/ Continue(w, h)
      PROVE  proc'[w].pc \notin Checks
  BY <1>1, <1>2 DEF Begin, Continue
<1>3. Idle.pc \notin Checks
  BY DEF Idle, Checks
<1>4. ASSUME NEW c \in Codes, NEW u \in Users, AttachCheck(w, u, c)
      PROVE  proc'[w].pc \notin Checks
  <2>1. PICK h : h = [Idle EXCEPT !.pc = "attach", !.code = c, !.user = u] /\ Begin(w, h)
    BY <1>4 DEF AttachCheck
  <2>2. h.pc \notin Checks
    BY <2>1 DEF Idle, Checks
  <2> QED
    BY <1>2, <2>1, <2>2
<1>5. ASSUME NEW u \in Users, BulkAssign(w, u) \/ \E c \in Codes : AssignCode(w, c, u)
      PROVE  proc'[w].pc \notin Checks
  <2>1. PICK c, h : /\ h = [Idle EXCEPT !.pc = "assign", !.code = c, !.user = u]
                    /\ Begin(w, h)
    BY <1>5 DEF BulkAssign, AssignCode
  <2>2. h.pc \notin Checks
    BY <2>1 DEF Idle, Checks
  <2> QED
    BY <1>2, <2>1, <2>2
<1>6. ASSUME NEW c \in Codes, NEW u, NEW label \in {"revoke", "reassign", "remind"},
             EditRecord(w, label, c, u)
      PROVE  proc'[w].pc \notin Checks
  <2>1. PICK h : /\ h = [Idle EXCEPT !.pc = label, !.code = c, !.user = u,
                                     !.rec = FirstRecord(c), !.inst = rec[FirstRecord(c)]]
                 /\ Begin(w, h)
    BY <1>6 DEF EditRecord
  <2>2. h.pc \notin Checks
    BY <2>1 DEF Idle, Checks
  <2> QED
    BY <1>2, <2>1, <2>2
<1>7. ASSUME NEW r \in Records, SendMail(w, r)
      PROVE  proc'[w].pc \notin Checks
  <2>1. PICK h, m : /\ \/ h = Idle
                       \/ h = [Idle EXCEPT !.pc = "mid", !.code = rec[r].code,
                                           !.rec = r, !.n = m]
                    /\ Begin(w, h)
    BY <1>7 DEF SendMail
  <2>2. h.pc \notin Checks
    <3>1. CASE h = Idle
      BY <1>3, <3>1
    <3>2. CASE h = [Idle EXCEPT !.pc = "mid", !.code = rec[r].code, !.rec = r, !.n = m]
      BY <3>2 DEF Idle, Checks
    <3> QED
      BY <2>1, <3>1, <3>2
  <2> QED
    BY <1>2, <2>1, <2>2
<1>8. ASSUME NEW r \in Records, NEW ts \in 1 .. MaxTime, Webhook(w, r, ts)
      PROVE  proc'[w].pc \notin Checks
  <2>1. PICK h : /\ h = [Idle EXCEPT !.pc = "event", !.code = rec[r].code, !.rec = r,
                                     !.inst = rec[r], !.n = ts]
                 /\ Begin(w, h)
    BY <1>8 DEF Webhook
  <2>2. h.pc \notin Checks
    BY <2>1 DEF Idle, Checks
  <2> QED
    BY <1>2, <2>1, <2>2
<1>9. CASE Start(w)
  BY <1>4, <1>5, <1>6, <1>7, <1>8, <1>9 DEF Start, Reassign, Revoke, Remind
<1>10. CASE AttachAdd(w) \/ ReassignSecret(w) \/ RevokeDelete(w)
  <2>1. PICK h, l, i : /\ Continue(w, h) /\ l \in {"redeem", "remind", "new_secret"}
                       /\ \/ h = [proc[w] EXCEPT !.pc = l]
                          \/ h = [proc[w] EXCEPT !.pc = l, !.inst.email = i]
    BY <1>10 DEF AttachAdd, ReassignSecret, RevokeDelete
  <2>2. h.pc \notin Checks
    BY <1>1, <2>1 DEF Handler, Checks
  <2> QED
    BY <1>2, <2>1, <2>2
<1>11. CASE Finish(w)
  BY <1>2, <1>3, <1>11 DEF Finish
<1>12. Step(w) => \/ AttachAdd(w) \/ ReassignSecret(w) \/ RevokeDelete(w) \/ Finish(w)
                  \/ WriteCodes(w) \/ SelectCodes(w) \/ UnlinkCode(w) \/ DeleteCode(w)
  BY DEF Step, AttachRedeem, AssignSave, RevokeSecret, SaveAndMail, SaveMessageId, SaveEvent
<1>13. CASE Crash(w)
  BY <1>1, <1>3, <1>13 DEF Crash
<1>14. CASE \E v \in Workers \ {w} : Start(v) \/ Step(v) \/ Crash(v)
  BY <1>14, OthersStay
<1>15. CASE UNCHANGED vars \/ \E u \in Users : Enroll(u)
  BY <1>15 DEF vars, Enroll
<1> QED
  BY <1>9, <1>10, <1>11, <1>12, <1>13, <1>14, <1>15 DEF Next

\* How workers that remove codes go on.
LEMMA RemovalGoesOn ==
  ASSUME IInv, [Next]_vars, NEW w \in Workers, proc'[w].pc \in {"unlink", "delete"}
  PROVE  \/ /\ proc[w].pc \in {"unlink", "delete"} /\ proc'[w].rec = proc[w].rec
            /\ proc'[w].picks \subseteq proc[w].picks
         \/ /\ proc'[w].rec = count.records /\ rec' = rec
            /\ \A c \in proc'[w].picks : Unused(c)
<1>1. proc \in [Workers -> Handler] /\ proc[w] \in Handler
  BY DEF IInv, Shape
<1>2. CASE proc'[w] = proc[w]
  BY <1>2
<1>3. CASE CountCodes(w)
  <2>1. PICK h : h = [Idle EXCEPT !.pc = "codes", !.code = Check, !.n = Cardinality(Existing)]
                 /\ Begin(w, h)
    BY <1>3 DEF CountCodes
  <2>2. h.pc = "codes"
    BY <2>1 DEF Idle
  <2>3. proc'[w].pc = "codes"
    BY <1>1, <2>1, <2>2 DEF Begin
  <2> QED
    BY <2>3
<1>4. CASE Finish(w)
  BY <1>1, <1>4 DEF Finish, Continue, Idle
<1>5. CASE WriteCodes(w) /\ ~Finish(w)
  <2>1. PICK h, n : h = [proc[w] EXCEPT !.pc = "select", !.n = n] /\ Continue(w, h)
    BY <1>5 DEF WriteCodes
  <2>2. proc'[w].pc = "select"
    BY <1>1, <2>1 DEF Continue, Handler
  <2> QED
    BY <2>2
<1>6. CASE SelectCodes(w) /\ ~Finish(w)
  <2>1. PICK h : /\ h = [proc[w] EXCEPT !.pc = "unlink", !.picks = Removable(proc[w].n),
                                        !.rec = count.records]
                 /\ Continue(w, h)
    BY <1>6 DEF SelectCodes
  <2>2. rec' = rec /\ proc[w].n \in Nat
    BY <1>6, HandlerFacts DEF SelectCodes
  <2>3. proc'[w] = h /\ h.picks = Removable(proc[w].n) /\ h.rec = count.records
    BY <1>1, <2>1 DEF Continue, Handler
  <2>4. \A c \in Removable(proc[w].n) : Unused(c)
    BY <2>2, RemovableCounted
  <2> QED
    BY <2>2, <2>3, <2>4
<1>7. CASE UnlinkCode(w)
  <2>1. PICK h, n : h = [proc[w] EXCEPT !.pc = "delete", !.n = n] /\ Continue(w, h)
    BY <1>7 DEF UnlinkCode
  <2>2. proc'[w] = h /\ h.picks = proc[w].picks /\ h.rec = proc[w].rec
    BY <1>1, <2>1 DEF Continue, Handler
  <2> QED
    BY <1>7, <2>2 DEF UnlinkCode, At
<1>8. CASE DeleteCode(w) /\ ~Finish(w)
  <2>1. PICK h : /\ h = [proc[w] EXCEPT !.pc = "unlink", !.picks = proc[w].picks \ {proc[w].n}]
                 /\ Continue(w, h)
    BY <1>8 DEF DeleteCode
  <2>2. /\ proc'[w] = h /\ h.picks = proc[w].picks \ {proc[w].n} /\ h.rec = proc[w].rec
    BY <1>1, <2>1 DEF Continue, Handler
  <2> QED
    BY <1>8, <2>2 DEF DeleteCode, At
<1> QED
  BY <1>2, <1>3, <1>4, <1>5, <1>6, <1>7, <1>8, CheckMoves DEF Checks

\* The bookkeeping of a step.
LEMMA StepFacts ==
  ASSUME IInv, [Next]_vars
  PROVE  /\ seats' = seats /\ disturbed \subseteq disturbed'
         /\ count'.records \in Nat /\ count.records <= count'.records
<1>1. count \in [ops: Nat, crashes: Nat, records: Nat]
  BY DEF IInv, Shape
<1>2. ASSUME NEW f \in {"ops", "crashes"}
      PROVE  [count EXCEPT ![f] = @ + 1].records = count.records
  BY <1>1, <1>2
<1>3. ASSUME NEW w \in Workers, Start(w)
      PROVE  seats' = seats /\ disturbed \subseteq disturbed' /\ count'.records = count.records
  <2>1. seats' = seats /\ \E h : Begin(w, h)
    BY <1>3 DEF Start, AttachCheck, AssignCode, Reassign, Revoke, Remind, EditRecord,
                BulkAssign, SendMail, Webhook, CountCodes
  <2> QED
    BY <1>1, <2>1 DEF Begin
<1>4. ASSUME NEW c, NEW u, NEW v, CreateRecord(c, u, v)
      PROVE  count'.records = count.records + 1
  BY <1>1, <1>4 DEF CreateRecord
<1>5. ASSUME NEW w \in Workers, Step(w)
      PROVE  /\ seats' = seats /\ disturbed' = disturbed
             /\ count' = count \/ \E c, u, v : CreateRecord(c, u, v)
  BY <1>5 DEF Step, AttachAdd, AttachRedeem, AssignSave, RevokeDelete, RevokeSecret,
              ReassignSecret, SaveAndMail, SaveMessageId, SaveEvent, WriteCodes,
              SelectCodes, UnlinkCode, DeleteCode, Finish, Continue
<1>6. ASSUME NEW w \in Workers, Crash(w)
      PROVE  seats' = seats /\ disturbed \subseteq disturbed' /\ count'.records = count.records
  BY <1>1, <1>6 DEF Crash
<1>7. ASSUME NEW u \in Users, Enroll(u)
      PROVE  seats' = seats /\ disturbed' = disturbed /\ count'.records = count.records
  BY <1>1, <1>7 DEF Enroll
<1>8. CASE UNCHANGED vars
  BY <1>1, <1>8 DEF vars
<1> QED
  BY <1>1, <1>3, <1>4, <1>5, <1>6, <1>7, <1>8 DEF Next

LEMMA PickedKept ==
  ASSUME IInv, AllPicked, [Next]_vars
  PROVE  AllPicked'
<1>1. SUFFICES ASSUME NEW w \in Workers, proc'[w].pc \in {"unlink", "delete"}
               PROVE  /\ proc'[w].rec <= count'.records
                      /\ \A c \in proc'[w].picks \ disturbed' :
                            \A r \in RecordsOf(c)' : r > proc'[w].rec
  BY DEF AllPicked, Picked, RecordsOf
<1>2. /\ disturbed \subseteq disturbed' /\ count'.records \in Nat
      /\ count.records <= count'.records /\ count.records \in Nat /\ proc[w].rec \in Nat
  BY StepFacts, HandlerFacts DEF IInv, Shape
<1>3. CASE /\ proc[w].pc \in {"unlink", "delete"} /\ proc'[w].rec = proc[w].rec
           /\ proc'[w].picks \subseteq proc[w].picks
  <2>1. Picked(proc[w]) /\ proc[w].picks \subseteq Codes
    BY <1>3, PicksFacts DEF AllPicked
  <2>2. ASSUME NEW c \in proc'[w].picks, c \notin disturbed', NEW r \in RecordsOf(c)'
        PROVE  r > proc'[w].rec
    <3>1. r \in RecordsOf(c) \/ r > count.records
      BY <1>2, <1>3, <2>1, <2>2, NextOnlyNew DEF OnlyNew
    <3>2. r \in Nat
      BY <2>2, Indices DEF RecordsOf
    <3> QED
      BY <1>2, <1>3, <2>1, <2>2, <3>1, <3>2 DEF Picked
  <2> QED
    BY <1>2, <1>3, <2>1, <2>2 DEF Picked
<1>4. CASE /\ proc'[w].rec = count.records /\ rec' = rec
           /\ \A c \in proc'[w].picks : Unused(c)
  BY <1>2, <1>4 DEF Unused, RecordsOf
<1> QED
  BY <1>1, <1>3, <1>4, RemovalGoesOn

\* One less to go, and one less to spare.
LEMMA OneLess ==
  ASSUME NEW S, IsFiniteSet(S), NEW c \in S
  PROVE  /\ Cardinality(S) \in Nat /\ Cardinality(S \ {c}) \in Nat
         /\ Cardinality(S \ {c}) + 1 = Cardinality(S)
<1>1. /\ IsFiniteSet(S \ {c})
      /\ Cardinality(S \ {c}) = IF c \in S THEN Cardinality(S) - 1 ELSE Cardinality(S)
  BY FS_RemoveElement
<1>2. Cardinality(S) \in Nat /\ Cardinality(S \ {c}) \in Nat
  BY <1>1, FS_CardinalityType
<1> QED
  BY <1>1, <1>2

\* The removal of one code by a check that counted.
LEMMA UnlinkCounted ==
  ASSUME IInv, NEW w \in Workers, UnlinkCode(w), Counted(proc[w])
  PROVE  /\ Cardinality(Existing') + 1 = Cardinality(Existing)
         /\ Cardinality(Existing') >= seats
         /\ proc[w].picks \ {Max(proc[w].picks)} \subseteq Existing'
         /\ Cardinality(proc[w].picks \ {Max(proc[w].picks)}) + seats <= Cardinality(Existing')
<1>1. PICK c, picks : c = Max(proc[w].picks) /\ picks = proc[w].picks
  OBVIOUS
<1>2. proc[w].pc = "unlink"
  BY DEF UnlinkCode, At
<1>3. /\ c \in picks /\ picks \subseteq Existing /\ Existing' = Existing \ {c}
      /\ Cardinality(picks) + seats <= Cardinality(Existing)
  BY <1>1, <1>2, PicksFacts, UnlinkLinks DEF Counted
<1>4. IsFiniteSet(picks) /\ IsFiniteSet(Existing) /\ seats \in Nat
  BY <1>3, ExistingFinite, FS_Subset DEF IInv, Shape
<1>5. /\ Cardinality(picks) \in Nat /\ Cardinality(picks \ {c}) \in Nat
      /\ Cardinality(picks \ {c}) + 1 = Cardinality(picks)
  BY <1>3, <1>4, OneLess
<1>6. /\ Cardinality(Existing) \in Nat /\ Cardinality(Existing \ {c}) \in Nat
      /\ Cardinality(Existing \ {c}) + 1 = Cardinality(Existing)
  BY <1>3, <1>4, OneLess
<1>7. picks \ {c} \subseteq Existing'
  BY <1>3
<1>8. PICK p \in Nat, q \in Nat, e \in Nat, d \in Nat :
         /\ p = Cardinality(picks) /\ q = Cardinality(picks \ {c})
         /\ e = Cardinality(Existing) /\ d = Cardinality(Existing')
         /\ q + 1 = p /\ d + 1 = e /\ p + seats <= e
  BY <1>3, <1>5, <1>6
<1>9. d + 1 = e /\ d >= seats /\ q + seats <= d
  BY <1>4, <1>8
<1> QED
  BY <1>1, <1>7, <1>8, <1>9

\* While checks do not overlap, only the one that changes codes looks at them.
LEMMA OneCheck ==
  ASSUME IInv, NEW v \in Workers, NEW w \in Workers, Check \notin disturbed,
         proc[v].pc \in Checks, proc[w].pc \in Checks
  PROVE  v = w
<1>1. proc[v].code = Check /\ proc[w].code = Check /\ Check # 0
  BY HandlerFacts, Indices DEF InHand
<1> QED
  BY <1>1 DEF IInv, Alone

LEMMA CountedKept ==
  ASSUME IInv, AllCounted, [Next]_vars
  PROVE  AllCounted'
<1>1. SUFFICES ASSUME seats # 0, Check \notin disturbed, NEW w \in Workers,
                      proc'[w].pc \in Checks
               PROVE  Counted(proc[w])'
  <2>1. seats' = seats /\ disturbed \subseteq disturbed'
    BY StepFacts
  <2>2. ASSUME NEW w \in Workers, proc'[w].pc \notin Checks PROVE Counted(proc[w])'
    BY <2>2 DEF Counted, Checks
  <2> QED
    BY <2>1, <2>2 DEF AllCounted, Check
<1>2. seats' = seats /\ seats \in Nat /\ proc \in [Workers -> Handler] /\ proc[w] \in Handler
  BY StepFacts DEF IInv, Shape
<1>3. \A v \in Workers : Counted(proc[v])
  BY <1>1 DEF AllCounted
<1>4. ASSUME NEW v \in Workers, WriteCodes(v) \/ UnlinkCode(v)
      PROVE  proc[v].pc \in Checks /\ proc'[v].pc # proc[v].pc
  <2>1. CASE Finish(v)
    BY <1>2, <1>4, <2>1 DEF Finish, Continue, Idle, WriteCodes, UnlinkCode, At, Checks
  <2>2. CASE ~Finish(v)
    <3>1. PICK h, n : /\ Continue(v, h)
                      /\ \/ /\ proc[v].pc = "codes"
                            /\ h = [proc[v] EXCEPT !.pc = "select", !.n = n]
                         \/ /\ proc[v].pc = "unlink"
                            /\ h = [proc[v] EXCEPT !.pc = "delete", !.n = n]
      BY <1>4, <2>2 DEF WriteCodes, UnlinkCode, At
    <3>2. proc[v] \in Handler
      BY <1>2
    <3>3. proc'[v] = h /\ h.pc # proc[v].pc
      BY <1>2, <3>1, <3>2 DEF Continue, Handler
    <3> QED
      BY <3>1, <3>3 DEF Checks
  <2> QED
    BY <2>1, <2>2
<1>5. CASE proc'[w] = proc[w]
  <2>1. Existing' = Existing
    <3>1. ASSUME NEW v \in Workers, WriteCodes(v) \/ UnlinkCode(v)
          PROVE  FALSE
      <4>1. v = w
        BY <1>1, <1>4, <1>5, <3>1, OneCheck
      <4> QED
        BY <1>4, <1>5, <3>1, <4>1
    <3> QED
      BY <1>1, <3>1, CodesMove
  <2> QED
    BY <1>2, <1>3, <1>5, <2>1 DEF Counted
<1>6. CASE CountCodes(w)
  <2>1. PICK h : h = [Idle EXCEPT !.pc = "codes", !.code = Check, !.n = Cardinality(Existing)]
                 /\ Begin(w, h)
    BY <1>6 DEF CountCodes
  <2>2. h.pc = "codes" /\ h.n = Cardinality(Existing)
    BY <2>1 DEF Idle
  <2>3. proc'[w] = h
    BY <1>2, <2>1 DEF Begin
  <2>4. Existing' = Existing
    BY <1>1, <1>6, StartLinks DEF Start
  <2> QED
    BY <2>2, <2>3, <2>4 DEF Counted
<1>7. ASSUME Finish(w) PROVE FALSE
  <2>1. proc'[w].pc = "idle"
    BY <1>2, <1>7 DEF Finish, Continue, Idle
  <2> QED
    BY <1>1, <2>1 DEF Checks
<1>8. CASE WriteCodes(w)
  <2>1. PICK n : n = Cardinality(Existing) - seats
    OBVIOUS
  <2>2. PICK h : /\ h = [proc[w] EXCEPT !.pc = "select", !.n = n]
                 /\ Continue(w, h) /\ proc[w].n > seats
    BY <1>7, <1>8, <2>1 DEF WriteCodes
  <2>3. proc'[w] = h /\ h.pc = "select" /\ h.n = n
    BY <1>2, <2>2 DEF Continue, Handler
  <2>4. Existing' = Existing
    BY <1>1, <1>2, <1>8, <2>2, WriteLinks, HandlerFacts
  <2>5. n + seats = Cardinality(Existing)
    BY <1>2, <2>1, ExistingFinite
  <2> QED
    BY <1>2, <2>3, <2>4, <2>5 DEF Counted
<1>9. CASE SelectCodes(w)
  <2>1. PICK h, k : /\ k = proc[w].n
                    /\ h = [proc[w] EXCEPT !.pc = "unlink", !.picks = Removable(k),
                                           !.rec = count.records]
                    /\ Continue(w, h)
    BY <1>7, <1>9 DEF SelectCodes
  <2>2. proc'[w] = h /\ h.pc = "unlink" /\ h.picks = Removable(k)
    BY <1>2, <2>1 DEF Continue, Handler
  <2>3. k \in Nat /\ k + seats = Cardinality(Existing) /\ Existing' = Existing
    BY <1>3, <1>9, <2>1, HandlerFacts DEF SelectCodes, At, Counted, Existing
  <2>4. /\ Removable(k) \subseteq Existing /\ Cardinality(Removable(k)) \in Nat
        /\ Cardinality(Removable(k)) <= k
    BY <2>3, RemovableCounted
  <2>5. Cardinality(Removable(k)) + seats <= Cardinality(Existing)
    BY <1>2, <2>3, <2>4
  <2> QED
    BY <1>2, <2>2, <2>3, <2>4, <2>5 DEF Counted
<1>10. CASE UnlinkCode(w)
  <2>1. PICK h, c : /\ c = Max(proc[w].picks)
                    /\ h = [proc[w] EXCEPT !.pc = "delete", !.n = c]
                    /\ Continue(w, h)
    BY <1>10 DEF UnlinkCode
  <2>2. proc'[w] = h /\ h.pc = "delete" /\ h.picks = proc[w].picks /\ h.n = c
    BY <1>2, <2>1 DEF Continue, Handler
  <2>3. /\ proc[w].picks \ {c} \subseteq Existing'
        /\ Cardinality(proc[w].picks \ {c}) + seats <= Cardinality(Existing')
    BY <1>3, <1>10, <2>1, UnlinkCounted
  <2> QED
    BY <1>2, <2>2, <2>3 DEF Counted
<1>11. CASE DeleteCode(w)
  <2>1. PICK h, left : /\ left = proc[w].picks \ {proc[w].n}
                       /\ h = [proc[w] EXCEPT !.pc = "unlink", !.picks = left]
                       /\ Continue(w, h)
    BY <1>7, <1>11 DEF DeleteCode
  <2>2. proc'[w] = h /\ h.pc = "unlink" /\ h.picks = left
    BY <1>2, <2>1 DEF Continue, Handler
  <2>3. Existing' = Existing
    BY <1>11, DeleteLinks
  <2>4. left \subseteq Existing /\ Cardinality(left) + seats <= Cardinality(Existing)
    BY <1>3, <1>11, <2>1 DEF Counted, DeleteCode, At
  <2> QED
    BY <1>2, <2>2, <2>3, <2>4 DEF Counted
<1> QED
  BY <1>1, <1>5, <1>6, <1>8, <1>9, <1>10, <1>11, CheckMoves

LEMMA ChecksHold == Spec => [](IInv /\ AllCounted /\ AllPicked)
<1>1. Init => IInv /\ AllCounted /\ AllPicked
  <2>1. Init => \A w \in Workers : proc[w].pc = "idle"
    BY IdleInHand DEF Init
  <2> QED
    BY <2>1, InitInvariant DEF AllCounted, Counted, AllPicked, Picked
<1>2. IInv /\ AllCounted /\ AllPicked /\ [Next]_vars => (IInv /\ AllCounted /\ AllPicked)'
  BY NextInv, CountedKept, PickedKept
<1> QED
  BY <1>1, <1>2, PTL DEF Spec

\* Checks of the codes that do not overlap make up what is missing to the seats
\* and take none below them, and a code in use is taken only if it was picked
\* unused and given away after the pick (ensure_enrollment_codes_exist and
\* _handle_extra_enrollment_codes), whatever comes between the counts, the pick
\* and the removals: a check knows how many codes there are to spare from its
\* count until the last removal, as only checks change the codes of a contract
\* with a limit, and records that come after the pick are newer than it.
THEOREM CodesFollowSeats == Spec => CodesFitSeats
<1> DEFINE Fit == UpToSeats /\ OnlyPickedGo
<1>1. IInv /\ AllCounted /\ AllPicked /\ [Next]_vars => [Fit]_vars
  <2>1. SUFFICES ASSUME IInv, AllCounted, AllPicked, Next
                 PROVE  UpToSeats /\ OnlyPickedGo
    OBVIOUS
  <2>2. /\ seats \in Nat /\ Cardinality(Existing) \in Nat /\ Cardinality(Existing') \in Nat
    BY <2>1, ExistingFinite DEF IInv, Shape
  <2>3. UpToSeats
    <3>1. SUFFICES ASSUME seats # 0, Check \notin disturbed
                   PROVE  /\ Cardinality(Existing') > Cardinality(Existing)
                                => Cardinality(Existing') = seats
                          /\ Cardinality(Existing') < Cardinality(Existing)
                                => Cardinality(Existing') >= seats
      BY DEF UpToSeats
    <3>2. CASE Existing' = Existing
      BY <2>2, <3>2
    <3>3. ASSUME NEW w \in Workers, WriteCodes(w)
          PROVE  Cardinality(Existing') \in {seats, Cardinality(Existing)}
      <4>1. proc[w].n = Cardinality(Existing)
        BY <2>1, <3>1, <3>3 DEF AllCounted, Counted, WriteCodes, At
      <4>2. PICK n \in Nat : n = Cardinality(Existing)
        BY <2>2
      <4>3. CASE n < seats
        <5>1. Cardinality(Existing') = n + (seats - n)
          BY <2>1, <3>1, <3>3, <4>1, <4>2, <4>3, WriteLinks
        <5>2. n + (seats - n) = seats
          BY <2>2
        <5> QED
          BY <5>1, <5>2
      <4>4. CASE ~(n < seats)
        BY <2>1, <3>1, <3>3, <4>1, <4>2, <4>4, WriteLinks
      <4> QED
        BY <4>3, <4>4
    <3>4. ASSUME NEW w \in Workers, UnlinkCode(w)
          PROVE  /\ Cardinality(Existing') + 1 = Cardinality(Existing)
                 /\ Cardinality(Existing') >= seats
      BY <2>1, <3>1, <3>4, UnlinkCounted DEF AllCounted
    <3> QED
      BY <2>1, <2>2, <3>1, <3>2, <3>3, <3>4, CodesMove
  <2>4. OnlyPickedGo
    <3>1. SUFFICES ASSUME NEW c \in Existing \ Existing', c \notin disturbed
                   PROVE  \E w \in Workers : /\ c \in proc[w].picks
                                            /\ \A r \in RecordsOf(c) : r > proc[w].rec
      BY DEF OnlyPickedGo
    <3>2. PICK w \in Workers : UnlinkCode(w)
      BY <2>1, <3>1, CodesMove, WriteLinks
    <3>3. c = Max(proc[w].picks) /\ proc[w].pc = "unlink"
      BY <2>1, <3>1, <3>2, UnlinkLinks DEF UnlinkCode, At
    <3>4. c \in proc[w].picks
      BY <2>1, <3>3, PicksFacts
    <3>5. \A r \in RecordsOf(c) : r > proc[w].rec
      BY <2>1, <3>1, <3>3, <3>4 DEF AllPicked, Picked
    <3> QED
      BY <3>4, <3>5
  <2> QED
    BY <2>3, <2>4
<1> QED
  BY <1>1, ChecksHold, PTL DEF Spec, CodesFitSeats
=============================================================================
