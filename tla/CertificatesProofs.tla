------------------------- MODULE CertificatesProofs -------------------------
(***************************************************************************)
(* Theorems about Certificates, for any runs, programs, requirement trees, *)
(* workers and number of events.                                           *)
(*                                                                         *)
(* Revocations and the grades set by staff stand because every step that   *)
(* writes a certificate or a grade looks at the row it writes over, save   *)
(* the two the properties name.  What _has_earned computes is a fixed      *)
(* point of its own definition: the trees are finite and nothing rests on  *)
(* itself, so its values can be found node by node, from the courses up.   *)
(***************************************************************************)
EXTENDS Certificates, FiniteSetTheorems, WellFoundedInduction, TLAPS

CertState == {"none", "active", "revoked"}

\* Every row is one of a run or a program.
Rows ==
    /\ cert \in [Items -> CertState]
    /\ DOMAIN grade = Runs
    /\ DOMAIN work = Workers

-----------------------------------------------------------------------------
(* The rows *)

LEMMA RowsInit == Init => Rows
BY DEF Init, Rows, CertState

LEMMA RowsStep ==
  ASSUME Rows, NEW w \in Workers, Step(w) \/ Crash(w) \/ ProgramFails(w)
  PROVE  Rows'
<1>1. CASE UNCHANGED cert
  <2>1. DOMAIN grade' = Runs
    BY DEF Rows, Step, EnsureGrade, OverrideGrade, DeleteCertificate, CreateCertificate,
           KeepCertificate, NoCertificate, ConsiderProgram, IssueProgram,
           SignCertificate, SkipSigning, Crash, ProgramFails
  <2>2. DOMAIN work' = Workers
    BY DEF Rows, Step, EnsureGrade, OverrideGrade, DeleteCertificate, CreateCertificate,
           KeepCertificate, NoCertificate, ConsiderProgram, IssueProgram,
           SignCertificate, SkipSigning, Crash, ProgramFails, Finish, Continue
  <2> QED
    BY <1>1, <2>1, <2>2 DEF Rows
<1>2. CASE DeleteCertificate(w) \/ CreateCertificate(w)
  BY <1>2 DEF Rows, CertState, DeleteCertificate, CreateCertificate, Finish, Continue
<1>3. CASE IssueProgram(w) \/ SignCertificate(w)
  BY <1>3 DEF Rows, CertState, IssueProgram, SignCertificate, Continue
<1> QED
  BY <1>1, <1>2, <1>3
     DEF Step, EnsureGrade, OverrideGrade, KeepCertificate, NoCertificate, ConsiderProgram,
         SkipSigning, Crash, ProgramFails

LEMMA RowsNext ==
  ASSUME Rows, [Next]_vars
  PROVE  Rows'
<1>1. ASSUME NEW w \in Workers, Step(w) \/ Crash(w) \/ ProgramFails(w)
      PROVE  Rows'
  BY <1>1, RowsStep
<1>2. ASSUME NEW w \in Cron, Nightly(w) \/ \E r \in Runs : StartSync(w, r)
      PROVE  Rows'
  BY <1>2 DEF Rows, Nightly, StartSync, FetchGrade, Continue
<1>3. ASSUME NEW w \in Web,
             \/ \E r \in Runs : Webhook(w, r)
             \/ \E r \in Runs, o \in {None, 0, 2} : CreateCommand(w, r, o)
             \/ \E p \in Programs, k \in {"program", "force"} : ProgramCommand(w, p, k)
             \/ \E i \in Items : Backfill(w, i)
      PROVE  Rows'
  BY <1>3 DEF Rows, Webhook, CreateCommand, ProgramCommand, Backfill, FetchGrade, Continue
<1>4. ASSUME NEW i \in Items, NEW s \in {"active", "revoked"}, Access(i, s)
      PROVE  Rows'
  BY <1>4 DEF Rows, Access, CertState
<1>5. ASSUME \/ UNCHANGED vars
             \/ \E p \in Programs : UpgradeProgram(p)
             \/ \E r \in Runs : CertificateDate(r) \/ LeaveSweep(r) \/ EnterSweep(r)
             \/ \E r \in Runs, l \in Levels : EdxGrades(r, l)
             \/ \E r \in Runs, m \in Modes : ChangeEnrollment(r, m)
      PROVE  Rows'
  BY <1>5 DEF vars, Rows, UpgradeProgram, CertificateDate, LeaveSweep, EnterSweep, EdxGrades, ChangeEnrollment
<1> QED
  BY <1>1, <1>2, <1>3, <1>4, <1>5 DEF Next

LEMMA RowsHold == Spec => []Rows
BY RowsInit, RowsNext, PTL DEF Spec

-----------------------------------------------------------------------------
(* What staff decided *)

\* Who writes certificates.
LEMMA CertWriters ==
  ASSUME Next
  PROVE  \/ UNCHANGED cert
         \/ \E w \in Workers : \/ DeleteCertificate(w) \/ CreateCertificate(w)
                               \/ IssueProgram(w) \/ SignCertificate(w)
         \/ \E i \in Items, s \in {"active", "revoked"} : Access(i, s)
<1>1. ASSUME NEW w \in Workers, Step(w) \/ Crash(w) \/ ProgramFails(w)
      PROVE  \/ UNCHANGED cert
             \/ DeleteCertificate(w) \/ CreateCertificate(w)
             \/ IssueProgram(w) \/ SignCertificate(w)
  BY <1>1 DEF Step, EnsureGrade, OverrideGrade, KeepCertificate, NoCertificate,
              ConsiderProgram, SkipSigning, Crash, ProgramFails
<1> QED
  BY <1>1 DEF Next, Nightly, StartSync, Webhook, CreateCommand, ProgramCommand, Backfill,
              UpgradeProgram, CertificateDate, LeaveSweep, EnterSweep, EdxGrades, ChangeEnrollment

\* A revoked certificate stays revoked until staff restore it or a credential
\* that was being signed is saved with the row it was read with: the delete
\* looks for active certificates, the inserts for none
\* (process_course_run_grade_certificate, generate_program_certificate).
THEOREM RevocationsStand == Spec => RevocationStands
<1> DEFINE Stands(i) == \/ cert'[i] = "revoked"
                        \/ cert'[i] = "active" /\ work' = work
                        \/ \E w \in Workers : At(w, "sign") /\ Item(w) = i
           Stand == \A i \in Items : cert[i] = "revoked" => Stands(i)
<1>1. Rows /\ [Next]_vars => [Stand]_vars
  <2>1. SUFFICES ASSUME Rows, Next, NEW i \in Items, cert[i] = "revoked"
                 PROVE  Stands(i)
    OBVIOUS
  <2>2. cert \in [Items -> CertState]
    BY <2>1 DEF Rows
  <2>3. CASE UNCHANGED cert
    BY <2>1, <2>3
  <2>4. ASSUME NEW w \in Workers, DeleteCertificate(w) \/ CreateCertificate(w)
        PROVE  Stands(i)
    BY <2>1, <2>2, <2>4 DEF DeleteCertificate, CreateCertificate, DeletableCertificate
  <2>5. ASSUME NEW w \in Workers, IssueProgram(w)
        PROVE  Stands(i)
    BY <2>1, <2>2, <2>5 DEF IssueProgram
  <2>6. ASSUME NEW w \in Workers, SignCertificate(w)
        PROVE  Stands(i)
    <3>1. At(w, "sign") /\ cert' = [cert EXCEPT ![Item(w)] = "active"]
      BY <2>6 DEF SignCertificate
    <3> QED
      BY <2>1, <2>2, <3>1
  <2>7. ASSUME NEW j \in Items, NEW s \in {"active", "revoked"}, Access(j, s)
        PROVE  Stands(i)
    <3>1. cert' = [cert EXCEPT ![j] = s] /\ work' = work
      BY <2>7 DEF Access
    <3> QED
      BY <2>1, <2>2, <3>1
  <2> QED
    BY <2>1, <2>3, <2>4, <2>5, <2>6, <2>7, CertWriters
<1> QED
  BY <1>1, RowsHold, PTL DEF Spec, RevocationStands

\* A grade set by staff gives way only to another override: the jobs and
\* webhooks that copy edX's grade keep the row's (ensure_course_run_grade).
THEOREM AdminGradesStand == Spec => AdminGradeStands
<1> DEFINE Overridden(r) == \E w \in Workers : work[w].pc = "override" /\ work[w].run = r
           Stand == \A r \in Runs :
                       grade[r] # None /\ grade[r].admin /\ grade'[r] # grade[r]
                          => Overridden(r)
<1>1. Rows /\ [Next]_vars => [Stand]_vars
  <2>1. SUFFICES ASSUME Rows, Next, NEW r \in Runs,
                        grade[r] # None, grade[r].admin, grade'[r] # grade[r]
                 PROVE  Overridden(r)
    OBVIOUS
  <2>2. PICK w \in Workers : EnsureGrade(w) \/ OverrideGrade(w)
    <3>1. ASSUME NEW w \in Workers, Step(w) \/ Crash(w) \/ ProgramFails(w)
          PROVE  EnsureGrade(w) \/ OverrideGrade(w)
      BY <2>1, <3>1 DEF Step, DeleteCertificate, CreateCertificate, KeepCertificate,
              NoCertificate, ConsiderProgram, IssueProgram, SignCertificate, SkipSigning,
              Crash, ProgramFails
    <3> QED
      BY <2>1, <3>1 DEF Next, Nightly, StartSync, Webhook, CreateCommand, ProgramCommand,
              Backfill, Access, UpgradeProgram, CertificateDate, LeaveSweep, EnterSweep, EdxGrades, ChangeEnrollment
  <2>3. CASE EnsureGrade(w)
    <3>1. grade' = [grade EXCEPT ![work[w].run] = EnsuredGrade(work[w].run, work[w].inst)]
      BY <2>3 DEF EnsureGrade
    <3>2. work[w].run = r
      BY <2>1, <3>1 DEF Rows
    <3>3. EnsuredGrade(r, work[w].inst) = grade[r]
      BY <2>1 DEF EnsuredGrade
    <3> QED
      BY <2>1, <3>1, <3>2, <3>3 DEF Rows
  <2>4. CASE OverrideGrade(w)
    BY <2>1, <2>4 DEF OverrideGrade, Rows
  <2> QED
    BY <2>2, <2>3, <2>4
<1> QED
  BY <1>1, RowsHold, PTL DEF Spec, AdminGradeStands

-----------------------------------------------------------------------------
(* Requirement trees *)

\* What _has_earned answers for a node, given its answers f for others.
Value(f, n) ==
    CASE Node[n].kind \in {"root", "all"} -> \A k \in Node[n].kids : f[k]
      [] Node[n].kind = "min" -> Cardinality({k \in Node[n].kids : f[k]}) >= Node[n].value
      [] Node[n].kind = "course" -> Node[n].of \in Credited
      [] Node[n].kind = "program" -> IF Node[n].of \in PaidPrograms
                                     THEN cert[Node[n].of] = "active"
                                     ELSE f[Root[Node[n].of]]
      [] OTHER -> FALSE

\* Nodes whose answers can be found without looking at any others.
Closed(D) == \A n \in D : RestsOn(n) \subseteq D
Solvable == {D \in SUBSET Nodes : Closed(D) /\ \E f : f = [n \in D |-> Value(f, n)]}

LEMMA RestsInNodes ==
  ASSUME NEW n \in Nodes
  PROVE  RestsOn(n) \subseteq Nodes
BY CertificatesAssumption DEF RestsOn

\* Only the nodes a node rests on matter to it.
LEMMA ValueDepends ==
  ASSUME NEW n \in Nodes, NEW f, NEW g, \A m \in RestsOn(n) : f[m] = g[m]
  PROVE  Value(f, n) = Value(g, n)
<1>1. CASE Node[n].kind = "program"
  <2>1. Node[n].of \notin PaidPrograms => f[Root[Node[n].of]] = g[Root[Node[n].of]]
    BY <1>1 DEF RestsOn
  <2> QED
    BY <1>1, <2>1 DEF Value
<1>2. CASE Node[n].kind # "program"
  <2>1. \A k \in Node[n].kids : f[k] = g[k]
    BY <1>2 DEF RestsOn
  <2>2. {k \in Node[n].kids : f[k]} = {k \in Node[n].kids : g[k]}
    BY <2>1
  <2>3. (\A k \in Node[n].kids : f[k]) = (\A k \in Node[n].kids : g[k])
    BY <2>1
  <2> QED
    BY <1>2, <2>2, <2>3 DEF Value
<1> QED
  BY <1>1, <1>2

\* A node that rests on solved nodes is solved next.
LEMMA OneMore ==
  ASSUME NEW D \in Solvable, NEW n \in Nodes \ D, RestsOn(n) \subseteq D
  PROVE  D \cup {n} \in Solvable
<1>1. D \in SUBSET Nodes /\ Closed(D)
  BY DEF Solvable
<1>2. PICK f : f = [m \in D |-> Value(f, m)]
  BY DEF Solvable
<1>3. PICK g : g = [m \in D \cup {n} |-> IF m \in D THEN f[m] ELSE Value(f, n)]
  OBVIOUS
<1>4. \A m \in D : g[m] = f[m]
  BY <1>3
<1>5. ASSUME NEW m \in D \cup {n}
      PROVE  g[m] = Value(g, m)
  <2>1. m \in Nodes /\ RestsOn(m) \subseteq D
    BY <1>1 DEF Closed
  <2>2. Value(f, m) = Value(g, m)
    BY <1>4, <2>1, ValueDepends
  <2>3. g[m] = Value(f, m)
    BY <1>2, <1>3
  <2> QED
    BY <2>2, <2>3
<1>6. g = [m \in D \cup {n} |-> Value(g, m)]
  BY <1>3, <1>5
<1>7. D \cup {n} \in SUBSET Nodes /\ Closed(D \cup {n})
  BY <1>1 DEF Closed
<1> QED
  BY <1>6, <1>7 DEF Solvable

\* Some number in a set of numbers is the least.
LEMMA LeastNumber ==
  ASSUME NEW S \in SUBSET Nat, S # {}
  PROVE  \E p \in S : \A q \in S : ~(q < p)
<1>1. \E p \in S : \A q \in S : ~(<<q, p>> \in OpToRel(<, Nat))
  BY NatLessThanWellFounded, WFMin
<1>2. \A p, q \in Nat : q < p => <<q, p>> \in OpToRel(<, Nat)
  BY Zenon DEF OpToRel
<1> QED
  BY <1>1, <1>2, Zenon

\* The recursion has a solution: as long as nodes are left, one of them rests
\* on none of them.
LEMMA TreesSolved == \E f : f = [n \in Nodes |-> Value(f, n)]
<1>1. IsFiniteSet(Nodes)
  BY CertificatesAssumption
<1>2. \A D : IsFiniteSet(Nodes \ D) /\ Cardinality(Nodes \ D) \in Nat
  <2>1. ASSUME NEW D PROVE IsFiniteSet(Nodes \ D)
    BY <1>1, FS_Difference
  <2> QED
    BY <2>1, FS_CardinalityType
<1>3. {} \in Solvable
  <2>1. [n \in {} |-> Value(<<>>, n)] = [n \in {} |-> Value([m \in {} |-> Value(<<>>, m)], n)]
    OBVIOUS
  <2> QED
    BY <2>1 DEF Solvable, Closed
<1>4. PICK p \in {Cardinality(Nodes \ D) : D \in Solvable} :
         \A q \in {Cardinality(Nodes \ D) : D \in Solvable} : ~(q < p)
  <2>1. {Cardinality(Nodes \ D) : D \in Solvable} \in SUBSET Nat
    BY <1>2
  <2>2. {Cardinality(Nodes \ D) : D \in Solvable} # {}
    BY <1>3
  <2> QED
    BY <2>1, <2>2, LeastNumber
<1>5. PICK D \in Solvable : p = Cardinality(Nodes \ D)
  BY <1>4
<1>6. ASSUME Nodes \ D # {} PROVE FALSE
  <2>1. PICK n \in Nodes \ D : RestsOn(n) \cap (Nodes \ D) = {}
    BY <1>6, TreesAssumption
  <2>2. RestsOn(n) \subseteq D
    BY <2>1, RestsInNodes
  <2>3. D \cup {n} \in Solvable
    BY <2>2, OneMore
  <2>4. Nodes \ (D \cup {n}) = (Nodes \ D) \ {n}
    OBVIOUS
  <2>5. Cardinality((Nodes \ D) \ {n}) = p - 1
    BY <1>2, <1>5, FS_RemoveElement
  <2>6. p \in Nat
    BY <1>2, <1>5
  <2>7. ~(p - 1 < p)
    BY <1>4, <2>3, <2>4, <2>5
  <2> QED
    BY <2>6, <2>7
<1>7. D = Nodes
  BY <1>6 DEF Solvable
<1> QED
  BY <1>5, <1>7 DEF Solvable

\* So the model's recursive function is one.
LEMMA EarnedSolves == EarnedNode = [n \in Nodes |-> Value(EarnedNode, n)]
<1>1. EarnedNode = CHOOSE f : f = [n \in Nodes |-> Value(f, n)]
  BY DEF EarnedNode, Value
<1> QED
  BY <1>1, TreesSolved

\* A finite set has subsets of every size up to its own.
LEMMA SomeOfThem ==
  ASSUME NEW T, IsFiniteSet(T), NEW v \in Nat, v <= Cardinality(T)
  PROVE  \E s \in SUBSET T : Cardinality(s) = v
<1>1. Cardinality(T) \in Nat /\ ExistsBijection(1 .. Cardinality(T), T)
  BY FS_CardinalityType
<1>2. PICK b \in [1 .. Cardinality(T) -> T] :
         \A i, j \in 1 .. Cardinality(T) : b[i] = b[j] => i = j
  BY <1>1 DEF ExistsBijection, Bijection, Injection, IsInjective
<1>3. 1 .. v \subseteq 1 .. Cardinality(T)
  BY <1>1
<1>4. PICK s : s = {b[i] : i \in 1 .. v}
  OBVIOUS
<1>5. s \in SUBSET T
  BY <1>2, <1>3, <1>4
<1>6. PICK c : c = [i \in 1 .. v |-> b[i]]
  OBVIOUS
<1>7. c \in Bijection(1 .. v, s)
  <2>1. c \in [1 .. v -> s]
    BY <1>4, <1>6
  <2>2. \A i, j \in 1 .. v : c[i] = c[j] => i = j
    BY <1>2, <1>3, <1>6
  <2>3. \A x \in s : \E i \in 1 .. v : c[i] = x
    BY <1>4, <1>6
  <2> QED
    BY <2>1, <2>2, <2>3 DEF Bijection, Injection, Surjection, IsInjective
<1>8. IsFiniteSet(1 .. v) /\ Cardinality(1 .. v) = v
  <2>1. 1 \in Int /\ v \in Int
    OBVIOUS
  <2>2. IsFiniteSet(1 .. v) /\ Cardinality(1 .. v) = IF 1 > v THEN 0 ELSE v - 1 + 1
    BY <2>1, FS_Interval
  <2>3. (IF 1 > v THEN 0 ELSE v - 1 + 1) = v
    OBVIOUS
  <2> QED
    BY <2>2, <2>3
<1>9. Cardinality(s) = v
  BY <1>7, <1>8, FS_Bijection DEF ExistsBijection
<1> QED
  BY <1>5, <1>9

\* "At least v" of some nodes, counted or shown by v of them.
LEMMA AtLeast ==
  ASSUME NEW T, IsFiniteSet(T), NEW v \in Nat
  PROVE  Cardinality(T) >= v <=> \E s \in SUBSET T : Cardinality(s) = v
<1>1. Cardinality(T) \in Nat
  BY FS_CardinalityType
<1>2. ASSUME Cardinality(T) >= v PROVE \E s \in SUBSET T : Cardinality(s) = v
  <2>1. v <= Cardinality(T)
    BY <1>1, <1>2
  <2> QED
    BY <2>1, SomeOfThem
<1>3. ASSUME NEW s \in SUBSET T, Cardinality(s) = v PROVE Cardinality(T) >= v
  <2>1. Cardinality(s) <= Cardinality(T)
    BY FS_Subset
  <2> QED
    BY <1>1, <1>3, <2>1
<1> QED
  BY <1>2, <1>3

\* Whatever the requirement trees, _has_earned credits the nodes that are met
\* and no others: its recursion from the root down, through nested programs,
\* agrees with what the tree says about each node.
THEOREM EarnedIsMet == Spec => []EarnedMeansMet
<1>1. EarnedMeansMet
  <2> DEFINE met == {n \in Nodes : EarnedNode[n]}
  <2>1. SUFFICES ASSUME NEW n \in Nodes
                 PROVE  EarnedNode[n] <=> Supported(n, met)
    BY DEF EarnedMeansMet
  <2>2. EarnedNode[n] = Value(EarnedNode, n)
    BY EarnedSolves
  <2>3. Node[n].kids \subseteq Nodes /\ Node[n].value \in Nat
    BY CertificatesAssumption
  <2>4. CASE Node[n].kind \in {"root", "all"}
    <3>1. EarnedNode[n] <=> \A k \in Node[n].kids : EarnedNode[k]
      BY <2>2, <2>4 DEF Value
    <3>2. Supported(n, met) <=> Node[n].kids \subseteq met
      BY <2>4 DEF Supported
    <3> QED
      BY <2>3, <3>1, <3>2
  <2>5. CASE Node[n].kind = "min"
    <3>1. PICK T : T = {k \in Node[n].kids : EarnedNode[k]}
      OBVIOUS
    <3>2. EarnedNode[n] <=> Cardinality(T) >= Node[n].value
      BY <2>2, <2>5, <3>1 DEF Value
    <3>3. T = Node[n].kids \cap met
      BY <2>3, <3>1
    <3>4. Supported(n, met) <=> \E s \in SUBSET T : Cardinality(s) = Node[n].value
      BY <2>5, <3>3 DEF Supported
    <3>5. IsFiniteSet(T)
      <4>1. T \in SUBSET Nodes
        BY <2>3, <3>1
      <4> QED
        BY <4>1, CertificatesAssumption, FS_Subset
    <3> QED
      BY <2>3, <3>2, <3>4, <3>5, AtLeast
  <2>6. CASE Node[n].kind = "course"
    BY <2>2, <2>6 DEF Value, Supported
  <2>7. CASE Node[n].kind = "program"
    <3>1. EarnedNode[n] = IF Node[n].of \in PaidPrograms THEN cert[Node[n].of] = "active"
                                                         ELSE EarnedNode[Root[Node[n].of]]
      BY <2>2, <2>7 DEF Value
    <3>2. Root[Node[n].of] \in Nodes
      BY <2>7, CertificatesAssumption
    <3> QED
      BY <2>7, <3>1, <3>2 DEF Supported
  <2>8. CASE Node[n].kind \notin {"root", "all", "min", "course", "program"}
    BY <2>2, <2>8 DEF Value, Supported
  <2> QED
    BY <2>4, <2>5, <2>6, <2>7, <2>8
<1> QED
  BY <1>1, PTL
=============================================================================
