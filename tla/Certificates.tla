---------------------------- MODULE Certificates ----------------------------
(***************************************************************************)
(* Grades, course run certificates and program certificates of one learner *)
(* (courses/api.py, courses/signals.py, courses/tasks.py, the certificate  *)
(* commands, edX's certificate webhook in openedx/views.py).               *)
(*                                                                         *)
(* A periodic job, the webhook and a staff command copy edX's grades and   *)
(* issue or delete course certificates; the job takes only live runs whose *)
(* certificate date is not long past.  Creating one triggers, after the  *)
(* commit, the certificates of the programs that contain the course; a     *)
(* nightly job catches up on triggers that were lost.  Staff revoke and    *)
(* restore certificates at any time, and signing a credential is a slow    *)
(* request that ends in a save of the whole certificate row.               *)
(*                                                                         *)
(* Every row is that of one learner, and no step reads another learner's.  *)
(* A grade is 0 (the value 0.0), 1 (some marks) or 2 (passed).  Enrollment *)
(* changes come from outside (EnrollmentSync).                             *)
(***************************************************************************)
EXTENDS Naturals, Sequences, FiniteSets, SequencesExt

CONSTANTS
    Runs,           \* course runs
    CourseOf,       \* the course of each run
    VerifiedRuns,   \* runs that offer the verified mode
    Programs, LivePrograms,
    PaidPrograms,   \* programs with a mode that requires payment
    Nodes, Node,    \* the requirement trees: the record of each node
    Root,           \* the root node of each program's tree
    Cron, Web,      \* workers that run the periodic jobs, and those that handle
                    \* webhooks and commands
    FirstSwept, FirstEnrolled, FirstProgramEnrolled,    \* to begin with
    None,
    MaxEvents       \* bound on webhooks, commands, changes from outside, faults

Levels == 0 .. 2
Modes == {"none", "audit", "verified"}
Items == Runs \cup Programs
Workers == Cron \cup Web

\* The nodes a node is decided by: its children, or the root of a program
\* that has no certificate to ask for.
RestsOn(n) ==
    IF Node[n].kind = "program"
    THEN {Root[p] : p \in {Node[n].of} \ PaidPrograms}
    ELSE Node[n].kids

ASSUME CertificatesAssumption ==
    /\ PaidPrograms \cup LivePrograms \subseteq Programs
    /\ VerifiedRuns \subseteq Runs
    /\ Runs \cap Programs = {}
    /\ None \notin Levels /\ None \notin Items
    /\ IsFiniteSet(Nodes)
    /\ \A n \in Nodes : Node[n].kids \subseteq Nodes /\ Node[n].value \in Nat
    /\ \A n \in Nodes : Node[n].kind = "program" => Node[n].of \in Programs
    /\ \A p \in Programs : Root[p] \in Nodes
    /\ FirstSwept \subseteq SUBSET Runs
    /\ FirstEnrolled \subseteq [Runs -> Modes]
    /\ FirstProgramEnrolled \subseteq [Programs -> Modes]
    /\ MaxEvents \in Nat

\* No program requires itself through others: _has_earned would not return.
ASSUME TreesAssumption ==
    \A S \in SUBSET Nodes : S # {} => \E n \in S : RestsOn(n) \cap S = {}

VARIABLES
    edx,        \* edX's current grade in each run
    due,        \* runs that are self-paced or past certificate_available_date
    swept,      \* runs the periodic job takes: live, no variant but of language,
                \* and within CERTIFICATE_CREATION_WINDOW_IN_DAYS of that date
    enrolled,   \* mode of the active enrollment in each run
    penrolled,  \* mode of the active enrollment in each program
    grade,      \* CourseRunGrade: None or [level, admin]
    cert,       \* certificate of each run and program: none, active or revoked
    signed,     \* certificates with a verifiable credential
    work,       \* what each worker is doing
    events      \* how many of the bounded events have happened

vars == <<edx, due, swept, enrolled, penrolled, grade, cert, signed, work, events>>
world == <<edx, due, swept, enrolled, penrolled>>

\* todo: what is left to do, as [kind, of]: "program", "force" or "issue" a
\* program, or "sign" a run or program.
Idle == [pc |-> "idle", run |-> None, inst |-> None, now |-> FALSE,
         override |-> None, todo |-> <<>>]

Init ==
    /\ edx \in [Runs -> {0, 2}]
    /\ due = {} /\ swept \in FirstSwept
    /\ enrolled \in FirstEnrolled
    /\ penrolled \in FirstProgramEnrolled
    /\ grade = [r \in Runs |-> None]
    /\ cert = [i \in Items |-> "none"]
    /\ signed = {}
    /\ work = [w \in Workers |-> Idle]
    /\ events = 0

Event == events < MaxEvents /\ events' = events + 1

-----------------------------------------------------------------------------
(* Requirement trees *)

\* The courses a learner is credited with: by a certificate in an active
\* enrollment, or by a passed grade where the run has no verified mode.
Passed(r) == grade[r] # None /\ grade[r].level = 2
CertCourses == {CourseOf[r] : r \in {q \in Runs : enrolled[q] # "none" /\ cert[q] = "active"}}
GradeCourses == {CourseOf[r] : r \in {q \in Runs \ VerifiedRuns : enrolled[q] # "none" /\ Passed(q)}}
Credited == CertCourses \cup GradeCourses

EarnedNodeMoreThanMin ==
    LET earned[n \in Nodes] ==
          CASE Node[n].kind \in {"root", "all"} -> \A k \in Node[n].kids : earned[k]
            [] Node[n].kind = "min" ->
                 Cardinality({k \in Node[n].kids : earned[k]}) > Node[n].value
            [] Node[n].kind = "course" -> Node[n].of \in Credited
            [] Node[n].kind = "program" ->
                 IF Node[n].of \in PaidPrograms THEN cert[Node[n].of] = "active"
                                                ELSE earned[Root[Node[n].of]]
            [] OTHER -> FALSE
    IN  earned

\* What the learner has earned, node by node (_has_earned).
EarnedNode ==
    LET earned[n \in Nodes] ==
          CASE Node[n].kind \in {"root", "all"} -> \A k \in Node[n].kids : earned[k]
            [] Node[n].kind = "min" ->
                 Cardinality({k \in Node[n].kids : earned[k]}) >= Node[n].value
            [] Node[n].kind = "course" -> Node[n].of \in Credited
            [] Node[n].kind = "program" ->
                 IF Node[n].of \in PaidPrograms THEN cert[Node[n].of] = "active"
                                                ELSE earned[Root[Node[n].of]]
            [] OTHER -> FALSE
    IN  earned

HasEarned(p) == EarnedNode[Root[p]]

\* The flat view of a tree that the upgrade job uses: the operators under the
\* root, and the courses at any depth below each.
Operators(p) == Node[Root[p]].kids
CoursesBelow ==
    LET below[n \in Nodes] ==
          IF Node[n].kind = "course" THEN {Node[n].of}
          ELSE UNION {below[k] : k \in Node[n].kids}
    IN  below
FlatCourses(p, elective) ==
    UNION {CoursesBelow[n] : n \in {o \in Operators(p) : Node[o].elective = elective}}
\* The code takes the first elective operator and its minimum; a program is
\* taken to have at most one elective operator with a minimum.
MinimumElectives(p) ==
    LET mins == {n \in Operators(p) : Node[n].elective /\ Node[n].kind = "min"}
    IN  IF mins = {} THEN 0 ELSE Node[CHOOSE n \in mins : TRUE].value

VerifiedCourses == {CourseOf[r] : r \in {q \in Runs : enrolled[q] = "verified"}}

-----------------------------------------------------------------------------
(* Grades and course run certificates *)

\* Every path begins with edX's current grade, a copy that may grow stale.
FetchGrade(w, r, now, override) ==
    /\ work[w].pc = "idle"
    /\ work' = [work EXCEPT ![w] = [Idle EXCEPT !.pc = "ensure", !.run = r, !.inst = edx[r],
                                    !.now = now, !.override = override]]

\* The periodic job takes up a run that get_certificate_grade_eligible_runs
\* returned.  (It asks once for all its runs: one that has left meanwhile is
\* taken up as if it left a little later.)
StartSync(w, r) ==
    /\ r \in swept
    /\ FetchGrade(w, r, FALSE, None)
    /\ UNCHANGED <<world, grade, cert, signed, events>>

\* edX announces a certificate; one that is there already is left alone.
Webhook(w, r) ==
    /\ cert[r] # "active"
    /\ FetchGrade(w, r, TRUE, None)
    /\ Event
    /\ UNCHANGED <<world, grade, cert, signed>>

\* manage_certificates --create, with or without a grade override.
CreateCommand(w, r, override) ==
    /\ FetchGrade(w, r, TRUE, override)
    /\ Event
    /\ UNCHANGED <<world, grade, cert, signed>>

EnsuredGradeAlways(r, level) == [level |-> level, admin |-> FALSE]

\* The row keeps a grade that staff set.
EnsuredGrade(r, level) ==
    IF grade[r] # None /\ grade[r].admin THEN grade[r]
    ELSE [level |-> level, admin |-> FALSE]

EnsureGrade(w) ==
    /\ work[w].pc = "ensure"
    /\ LET row == EnsuredGrade(work[w].run, work[w].inst)
       IN  /\ grade' = [grade EXCEPT ![work[w].run] = row]
           /\ work' = [work EXCEPT ![w].inst = row.level,
                         ![w].pc = IF work[w].override = None THEN "process" ELSE "override"]
    /\ UNCHANGED <<world, cert, signed, events>>

\* The override is written through another instance: the one in hand keeps
\* the grade it was loaded with.
OverrideGrade(w) ==
    /\ work[w].pc = "override"
    /\ grade' = [grade EXCEPT ![work[w].run] = [level |-> work[w].override, admin |-> TRUE]]
    /\ work' = [work EXCEPT ![w].pc = "process"]
    /\ UNCHANGED <<world, cert, signed, events>>

Processing(w) ==
    /\ work[w].pc = "process"
    /\ work[w].now \/ work[w].run \in due
ShouldDelete(w) == work[w].inst = 0
Eligible(w) == work[w].inst = 2 /\ enrolled[work[w].run] = "verified"
ShouldCreate(w) == Eligible(w) \/ work[w].override # None

Todo(kind, items) == SetToSeq({[kind |-> kind, of |-> i] : i \in items})
Unsigned(i) == IF i \in signed THEN <<>> ELSE <<[kind |-> "sign", of |-> i]>>
ProgramsWith(r) ==
    {p \in LivePrograms : \E n \in Nodes : /\ Node[n].program = p /\ Node[n].kind = "course"
                                       /\ Node[n].of = CourseOf[r]}

Finish(w) == work' = [work EXCEPT ![w] = Idle]
Continue(w, todo) ==
    work' = [work EXCEPT ![w] = IF todo = <<>> THEN Idle
                                ELSE [Idle EXCEPT !.pc = "todo", !.todo = todo]]

DeletableCertificateAny(r) == cert[r] # "none"

\* Only active certificates are deleted.
DeletableCertificate(r) == cert[r] = "active"

DeleteCertificateNever(w) ==
    /\ Processing(w) /\ ShouldDelete(w)
    /\ Finish(w)
    /\ UNCHANGED <<world, grade, cert, signed, events>>

DeleteCertificate(w) ==
    LET r == work[w].run
    IN  /\ Processing(w) /\ ShouldDelete(w)
        /\ cert' = [cert EXCEPT ![r] = IF DeletableCertificate(r) THEN "none" ELSE @]
        /\ signed' = IF DeletableCertificate(r) THEN signed \ {r} ELSE signed
        /\ Finish(w)
        /\ UNCHANGED <<world, grade, events>>

\* A new certificate: the programs follow after the commit, then the credential.
CreateCertificate(w) ==
    LET r == work[w].run
    IN  /\ Processing(w) /\ ~ShouldDelete(w) /\ ShouldCreate(w)
        /\ cert[r] = "none"
        /\ cert' = [cert EXCEPT ![r] = "active"]
        /\ Continue(w, Todo("program", ProgramsWith(r)) \o Unsigned(r))
        /\ UNCHANGED <<world, grade, signed, events>>

\* get_or_create finds the row.
KeepCertificate(w) ==
    LET r == work[w].run
    IN  /\ Processing(w) /\ ~ShouldDelete(w) /\ ShouldCreate(w)
        /\ cert[r] = "active"
        /\ Continue(w, Unsigned(r))
        /\ UNCHANGED <<world, grade, cert, signed, events>>

\* Too early, not eligible, or revoked (the insert fails on the unique pair).
NoCertificate(w) ==
    /\ work[w].pc = "process"
    /\ \/ ~Processing(w)
       \/ ~ShouldDelete(w) /\ ~ShouldCreate(w)
       \/ ~ShouldDelete(w) /\ ShouldCreate(w) /\ cert[work[w].run] = "revoked"
    /\ Finish(w)
    /\ UNCHANGED <<world, grade, cert, signed, events>>

-----------------------------------------------------------------------------
(* Program certificates *)

At(w, kind) == work[w].pc = "todo" /\ Head(work[w].todo).kind = kind
Item(w) == Head(work[w].todo).of
Rest(w) == Tail(work[w].todo)

\* The checks of generate_program_certificate: enrollment, an existing
\* certificate (revoked ones too), the requirements.
Deserved(p) == penrolled[p] = "verified" /\ cert[p] = "none" /\ HasEarned(p)

ConsiderProgram(w) ==
    /\ At(w, "program") \/ At(w, "force")
    /\ LET go == \/ At(w, "program") /\ Deserved(Item(w))
                 \/ At(w, "force") /\ cert[Item(w)] = "none"
       IN  Continue(w, IF go THEN <<[kind |-> "issue", of |-> Item(w)]>> \o Rest(w) ELSE Rest(w))
    /\ UNCHANGED <<world, grade, cert, signed, events>>

IssueProgram(w) ==
    LET p == Item(w)
    IN  /\ At(w, "issue")
        /\ IF cert[p] = "none"
           THEN /\ cert' = [cert EXCEPT ![p] = "active"]
                /\ Continue(w, <<[kind |-> "sign", of |-> p]>> \o Rest(w))
           ELSE /\ Continue(w, Rest(w))
                /\ UNCHANGED cert
        /\ UNCHANGED <<world, grade, signed, events>>

\* The credential is signed elsewhere; then the whole row is saved as it was
\* read, and inserted anew when it was deleted meanwhile.
SignCertificate(w) ==
    LET i == Item(w)
        new == cert[i] = "none" /\ i \in Runs
    IN  /\ At(w, "sign")
        /\ cert' = [cert EXCEPT ![i] = "active"]
        /\ signed' = signed \cup {i}
        /\ Continue(w, (IF new THEN Todo("program", ProgramsWith(i)) ELSE <<>>) \o Rest(w))
        /\ UNCHANGED <<world, grade, events>>

\* No credential is wanted for this page, or the service refuses it.
SkipSigning(w) ==
    /\ At(w, "sign")
    /\ Continue(w, Rest(w))
    /\ UNCHANGED <<world, grade, cert, signed, events>>

CandidatesWithCourses ==
    {p \in LivePrograms : /\ penrolled[p] = "verified" /\ cert[p] = "none"
                      /\ \A n \in Nodes : Node[n].program = p => Node[n].kind # "program"}

\* The nightly job: verified enrollments without any certificate.
Candidates == {p \in LivePrograms : penrolled[p] = "verified" /\ cert[p] = "none"}
Nightly(w) ==
    /\ work[w].pc = "idle"
    /\ Candidates # {}
    /\ Continue(w, Todo("program", Candidates))
    /\ UNCHANGED <<world, grade, cert, signed, events>>

\* One program fails; the others go on.
ProgramFails(w) ==
    /\ At(w, "program") \/ At(w, "issue")
    /\ Continue(w, Rest(w))
    /\ Event
    /\ UNCHANGED <<world, grade, cert, signed>>

\* manage_program_certificates --create, with or without --force.
ProgramCommand(w, p, kind) ==
    /\ work[w].pc = "idle"
    /\ Continue(w, Todo(kind, {p}))
    /\ Event
    /\ UNCHANGED <<world, grade, cert, signed>>

UpgradableMore(p) ==
    /\ penrolled[p] = "audit"
    /\ cert[p] # "active"
    /\ FlatCourses(p, FALSE) \subseteq VerifiedCourses
    /\ Cardinality(FlatCourses(p, TRUE) \cap VerifiedCourses) > MinimumElectives(p)

\* The upgrade job: verified in every required course and in enough electives.
Upgradable(p) ==
    /\ penrolled[p] = "audit"
    /\ cert[p] # "active"
    /\ FlatCourses(p, FALSE) \subseteq VerifiedCourses
    /\ Cardinality(FlatCourses(p, TRUE) \cap VerifiedCourses) >= MinimumElectives(p)
UpgradeProgram(p) ==
    /\ Upgradable(p)
    /\ penrolled' = [penrolled EXCEPT ![p] = "verified"]
    /\ UNCHANGED <<edx, due, swept, enrolled, grade, cert, signed, work, events>>

-----------------------------------------------------------------------------
(* Staff and the outside *)

\* Revoke or restore: the row of any state is read and saved.
Access(i, state) ==
    /\ cert[i] \notin {"none", state}
    /\ cert' = [cert EXCEPT ![i] = state]
    /\ Event
    /\ UNCHANGED <<world, grade, signed, work>>

\* The backfill of credentials reads active certificates that have none.
Backfill(w, i) ==
    /\ work[w].pc = "idle"
    /\ cert[i] = "active" /\ i \notin signed
    /\ Continue(w, Unsigned(i))
    /\ Event
    /\ UNCHANGED <<world, grade, cert, signed>>

EdxGrades(r, level) ==
    /\ edx[r] # level
    /\ edx' = [edx EXCEPT ![r] = level]
    /\ Event
    /\ UNCHANGED <<due, swept, enrolled, penrolled, grade, cert, signed, work>>

ChangeEnrollment(r, mode) ==
    /\ enrolled[r] # mode
    /\ mode = "verified" => r \in VerifiedRuns
    /\ enrolled' = [enrolled EXCEPT ![r] = mode]
    /\ Event
    /\ UNCHANGED <<edx, due, swept, penrolled, grade, cert, signed, work>>

CertificateDate(r) ==
    /\ r \notin due
    /\ due' = due \cup {r}
    /\ UNCHANGED <<edx, swept, enrolled, penrolled, grade, cert, signed, work, events>>

\* The window after the certificate date closes, or the run is taken off line.
LeaveSweep(r) ==
    /\ r \in swept
    /\ swept' = swept \ {r}
    /\ Event
    /\ UNCHANGED <<edx, due, enrolled, penrolled, grade, cert, signed, work>>

\* The run goes live, or staff move its certificate date.
EnterSweep(r) ==
    /\ r \notin swept
    /\ swept' = swept \cup {r}
    /\ Event
    /\ UNCHANGED <<edx, due, enrolled, penrolled, grade, cert, signed, work>>

\* A worker dies: whatever was to follow the last commit is lost.
Crash(w) ==
    /\ work[w].pc # "idle"
    /\ Finish(w)
    /\ Event
    /\ UNCHANGED <<world, grade, cert, signed>>

-----------------------------------------------------------------------------
Step(w) ==
    \/ EnsureGrade(w) \/ OverrideGrade(w)
    \/ DeleteCertificate(w) \/ CreateCertificate(w) \/ KeepCertificate(w) \/ NoCertificate(w)
    \/ ConsiderProgram(w) \/ IssueProgram(w)
    \/ SignCertificate(w) \/ SkipSigning(w)

Next ==
    \/ \E w \in Workers : Step(w) \/ Crash(w) \/ ProgramFails(w)
    \/ \E w \in Cron : Nightly(w) \/ \E r \in Runs : StartSync(w, r)
    \/ \E w \in Web :
          \/ \E r \in Runs : Webhook(w, r)
          \/ \E r \in Runs, o \in {None, 0, 2} : CreateCommand(w, r, o)
          \/ \E p \in Programs, k \in {"program", "force"} : ProgramCommand(w, p, k)
          \/ \E i \in Items : Backfill(w, i)
    \/ \E i \in Items, s \in {"active", "revoked"} : Access(i, s)
    \/ \E p \in Programs : UpgradeProgram(p)
    \/ \E r \in Runs : CertificateDate(r) \/ LeaveSweep(r) \/ EnterSweep(r)
    \/ \E r \in Runs, l \in Levels : EdxGrades(r, l)
    \/ \E r \in Runs, m \in Modes : ChangeEnrollment(r, m)

Spec == Init /\ [][Next]_vars

\* Begun work goes on, and the periodic jobs get their turn again and again
\* even when the workers are often busy with other requests; what the grade
\* job does not take, it does not take.
Fairness ==
    /\ \A w \in Workers : WF_vars(Step(w))
    /\ \A r \in Runs : SF_vars(\E w \in Cron : StartSync(w, r))
    /\ SF_vars(\E w \in Cron : Nightly(w))
    /\ \A p \in Programs : WF_vars(UpgradeProgram(p))

FairSpec == Spec /\ Fairness

-----------------------------------------------------------------------------
(* Properties *)

\* What a requirement tree means: a node is met when enough of the nodes it
\* rests on are.
Supported(n, met) ==
    \/ /\ Node[n].kind \in {"root", "all"}
       /\ Node[n].kids \subseteq met
    \/ /\ Node[n].kind = "min"
       /\ \E s \in SUBSET (Node[n].kids \cap met) : Cardinality(s) = Node[n].value
    \/ Node[n].kind = "course" /\ Node[n].of \in Credited
    \/ /\ Node[n].kind = "program"
       /\ \/ Node[n].of \in PaidPrograms /\ cert[Node[n].of] = "active"
          \/ Node[n].of \notin PaidPrograms /\ Root[Node[n].of] \in met

\* _has_earned, which recurses from the root down and through nested programs,
\* credits the nodes that are met and no others (looked at whenever a job is
\* about to ask).
EarnedMeansMet ==
    (\E w \in Workers : At(w, "program")) =>
        LET met == {n \in Nodes : EarnedNode[n]}
        IN  \A n \in Nodes : n \in met <=> Supported(n, met)

\* A revoked certificate stays revoked until staff restore it, or a credential
\* requested before the revocation arrives and saves the row it began with:
\* no grade, webhook, command or job deletes or reissues it.
RevocationStands ==
    [][\A i \in Items :
          cert[i] = "revoked" =>
             \/ cert'[i] = "revoked"
             \/ cert'[i] = "active" /\ work' = work
             \/ \E w \in Workers : At(w, "sign") /\ Item(w) = i]_vars

\* A grade set by staff gives way only to another override, whatever edX
\* reported to jobs that were already under way.
AdminGradeStands ==
    [][\A r \in Runs :
          grade[r] # None /\ grade[r].admin /\ grade'[r] # grade[r] =>
             \E w \in Workers : work[w].pc = "override" /\ work[w].run = r]_vars

\* Once staff have set a grade to 0.0 for good, the run's certificate is
\* eventually gone for good (or revoked), although the command that set the
\* grade may have issued one, and a late credential may bring one back: as
\* long as the periodic job goes on taking the run and its date has come.
\* After the window nothing repeats the deletion.
Blocked(r) == grade[r] # None /\ grade[r].admin /\ grade[r].level = 0
BlockedGradeWins ==
    \A r \in Runs :
        <>[](Blocked(r) /\ r \in due \cap swept) => <>[](cert[r] # "active")

\* A learner with a verified enrollment who has earned a program is not left
\* without its certificate for ever, though triggers are lost, jobs die and
\* other programs fail.
EarnedIsCertified == \A p \in LivePrograms : []<>~Deserved(p)

\* Nor is one with an audit enrollment in a program of plain courses who has
\* earned it with certificates of verified enrollments: it is upgraded first.
PlainProgram(p) == \A n \in Nodes : Node[n].program = p => Node[n].kind # "program"
DeservedOnceUpgraded(p) ==
    /\ penrolled[p] = "audit" /\ cert[p] = "none"
    /\ PlainProgram(p)
    /\ CertCourses \subseteq VerifiedCourses /\ GradeCourses = {}
    /\ HasEarned(p)
AuditIsUpgraded == \A p \in LivePrograms : []<>~DeservedOnceUpgraded(p)

=============================================================================
