---------------------------- MODULE ContractRuns ----------------------------
(***************************************************************************)
(* The course runs of one contract, kept twice: as CourseRun rows and in   *)
(* edX (b2b/api.py create_contract_run, b2b/tasks.py, openedx/tasks.py     *)
(* clone_courserun, courses/api.py sync_course_runs, courses/retirement.py *)
(* and the commands retire_courserun, b2b_courseware and sync_courserun).  *)
(*                                                                         *)
(* A run is created here and cloned in edX by a queued task; dates are     *)
(* pushed to edX by that task and by the commands, and copied back from    *)
(* edX by the nightly sync.  There is no lock on a row: a handler loads    *)
(* its instance, talks to edX, and saves the instance with all columns.    *)
(*                                                                         *)
(* One course with one source run.  A run is named by the index in its     *)
(* key.  Its dates are abstracted to where they come from and whether the  *)
(* enrollment window is closed; "undated" are the dates of a contract      *)
(* without an end, which edX does not take.  Products and codes are other  *)
(* tables (see ContractCodes); expiration dates are left out, and runs of  *)
(* contracts have none when they are created.                              *)
(***************************************************************************)
EXTENDS Naturals, FiniteSets

CONSTANTS
    Workers,
    FirstRuns,      \* what the contract may begin with
    ContractDates,  \* dates contracts give: a subset of {"dated", "undated"}
    Options,        \* options of the commands that staff use
    MaxRetries,     \* OPENEDX_COURSE_CLONE_MAX_RETRIES
    MaxRuns,        \* bound on runs of the contract
    MaxCommands,    \* bound on commands and program tasks
    MaxFaults       \* bound on failed edX calls and crashes

AllOptions == {"skip_edx", "keep_contract", "no_reruns", "force", "enrolled"}

ASSUME ContractRunsAssumption ==
    /\ IsFiniteSet(Workers)
    /\ FirstRuns \subseteq {"none", "in_use", "last_try", "taken_out"}
    /\ ContractDates \subseteq {"dated", "undated"}
    /\ Options \subseteq AllOptions
    /\ {MaxRetries, MaxRuns, MaxCommands, MaxFaults} \subseteq Nat
    /\ "last_try" \in FirstRuns => MaxCommands > 0

Runs == 1..MaxRuns

\* start_date, end_date, enrollment_start and enrollment_end together.
Dates == [from : {"dated", "undated", "source", "past"}, closed : BOOLEAN]
Source == [from |-> "source", closed |-> FALSE]
Past == [from |-> "past", closed |-> TRUE]

Absent == [from |-> "absent", closed |-> TRUE]

\* The columns of a CourseRun that the handlers write.
Row == [live : BOOLEAN, dates : Dates, contract : {"contract", "holding", "none"}]
NoRow == [live |-> FALSE, dates |-> Absent, contract |-> "none"]

VARIABLES
    row,        \* CourseRun rows by index
    edx,        \* the dates edX has for each run
    clone,      \* the clone task of each run, with its retries
    proc,       \* what each worker is doing
    settled,    \* runs whose retirement reached edX when no clone was under way
    causes,     \* reasons there may be one more run
    count       \* commands and faults so far

vars == <<row, edx, clone, proc, settled, causes, count>>
others == <<clone, settled, causes>>

Idle == [pc |-> "idle", run |-> 0, inst |-> NoRow, dates |-> Absent, opts |-> {}]

Exists(r) == row[r] # NoRow

\* The contract has no run yet, one in use that has the dates of its source in
\* edX because the contract gave it none, one whose clone task is queued for the
\* last try, or one that was taken out.
InUse == [live |-> TRUE, contract |-> "contract",
          dates |-> [from |-> "undated", closed |-> FALSE]]
LastTry == [InUse EXCEPT !.dates.from = "dated"]
TakenOut == [live |-> FALSE, contract |-> "none",
             dates |-> [from |-> "dated", closed |-> TRUE]]

Init ==
    /\ \E first \in FirstRuns :
          /\ row = [r \in Runs |-> IF r > 1 THEN NoRow ELSE
                CASE first = "none" -> NoRow
                  [] first = "in_use" -> InUse
                  [] first = "last_try" -> LastTry
                  [] first = "taken_out" -> TakenOut]
          /\ causes = IF first = "taken_out" THEN 1 ELSE 0
          /\ count = [commands |-> IF first = "last_try" THEN 1 ELSE 0, faults |-> 0]
    /\ edx = [r \in Runs |->
          CASE row[r] = InUse -> Source
            [] row[r] = TakenOut -> TakenOut.dates
            [] OTHER -> Absent]
    /\ clone = [r \in Runs |->
          CASE row[r] = NoRow -> [state |-> "none", retries |-> 0]
            [] row[r] = LastTry -> [state |-> "queued", retries |-> MaxRetries]
            [] OTHER -> [state |-> "done", retries |-> 0]]
    /\ proc = [w \in Workers |-> Idle]
    /\ settled = {}

-----------------------------------------------------------------------------
(* Helpers. *)

Created == {r \in Runs : Exists(r)}

Start(w, p) == proc[w].pc = "idle" /\ proc' = [proc EXCEPT ![w] = p]
Goto(w, pc) == proc' = [proc EXCEPT ![w].pc = pc]
Done(w) == proc' = [proc EXCEPT ![w] = Idle]

Command ==
    /\ count.commands < MaxCommands
    /\ count' = [count EXCEPT !.commands = @ + 1]
Fault ==
    /\ count.faults < MaxFaults
    /\ count' = [count EXCEPT !.faults = @ + 1]

\* An edX call is answered, fails, or is carried out without an answer.
Answers == {"ok", "error", "lost"}
Answered(a) == IF a = "ok" THEN UNCHANGED count ELSE Fault

\* edX takes an enrollment window only together with a start and an end.
Complete(d) == d.from # "undated"
PushRunDates(r, d) == IF Complete(d) THEN [edx EXCEPT ![r] = d] ELSE edx

\* courserun.save() of the instance w has in hand.
Save(w, inst) ==
    /\ row' = [row EXCEPT ![proc[w].run] = inst]
    /\ UNCHANGED edx

-----------------------------------------------------------------------------
(* create_contract_run, from the task of a program that was added to the   *)
(* contract or from a command.  The task skips a course that has a run.    *)
(* It asks for a lock first, and is always given it: the default cache is  *)
(* the memory of one process, and a process works on one task at a time.   *)

\* The task of a program is about to create a run, or to find that there is one.
TaskUnderWay(w) ==
    proc[w].pc \in {"exists", "key", "insert"} /\ "task" \in proc[w].opts

CreateProgramContractRuns(w) ==
    /\ Created # Runs
    /\ Command
    /\ Start(w, [Idle EXCEPT !.pc = "exists", !.opts = {"task"}])
    /\ causes' = IF \E x \in Workers : TaskUnderWay(x) THEN causes + 1 ELSE causes
    /\ UNCHANGED <<row, edx, clone, settled>>

\* b2b_courseware add, for a course or for a program (which says no_reruns).
CreateCommand(w, opts) ==
    /\ Created # Runs
    /\ Command
    /\ Start(w, [Idle EXCEPT !.pc = "key", !.opts = opts])
    /\ causes' = causes + 1
    /\ UNCHANGED <<row, edx, clone, settled>>

HasContractRun == \E r \in Runs : row[r].contract = "contract"

\* Mutation: a course that has a run is not skipped.
CheckExistsIgnored(w) ==
    /\ proc[w].pc = "exists"
    /\ Goto(w, "key")
    /\ UNCHANGED <<row, edx, others, count>>

CheckExists(w) ==
    /\ proc[w].pc = "exists"
    /\ IF HasContractRun THEN Done(w) ELSE Goto(w, "key")
    /\ UNCHANGED <<row, edx, others, count>>

\* Runs that were moved to another contract keep their key and still count.
\* Bound: a creation that finds all keys of Runs taken gives up.
CreateContractRunKey == Cardinality(Created) + 1

ChooseKey(w) ==
    /\ proc[w].pc = "key"
    /\ IF Created = Runs \/ (HasContractRun /\ "no_reruns" \in proc[w].opts)
       THEN Done(w)
       ELSE proc' = [proc EXCEPT ![w].run = CreateContractRunKey, ![w].pc = "insert"]
    /\ UNCHANGED <<row, edx, others, count>>

\* The key is unique: the insert fails when another worker was faster.
InsertRun(w, from) ==
    /\ proc[w].pc = "insert"
    /\ LET r == proc[w].run
           new == [live |-> TRUE, contract |-> "contract",
                   dates |-> [from |-> from, closed |-> FALSE]]
       IN  /\ row' = IF Exists(r) THEN row ELSE [row EXCEPT ![r] = new]
           /\ IF Exists(r) \/ "skip_edx" \in proc[w].opts
              THEN Done(w) ELSE Goto(w, "queue")
    /\ UNCHANGED <<edx, others, count>>

QueueClone(w) ==
    /\ proc[w].pc = "queue"
    /\ clone' = [clone EXCEPT ![proc[w].run].state = "queued"]
    /\ Done(w)
    /\ UNCHANGED <<row, edx, settled, causes, count>>

-----------------------------------------------------------------------------
(* clone_courserun: a task that is acknowledged late, so that it is        *)
(* delivered again when the whole worker dies, but not when the pool's     *)
(* child does (task_reject_on_worker_lost is off).  edX errors are         *)
(* retried, a ValueError is not.                                           *)

StartClone(w, r) ==
    /\ clone[r].state = "queued"
    /\ clone' = [clone EXCEPT ![r].state = "running"]
    /\ Start(w, [Idle EXCEPT !.pc = "check", !.run = r, !.inst = row[r]])
    /\ UNCHANGED <<row, edx, settled, causes, count>>

EndClone(w, state) ==
    /\ clone' = [clone EXCEPT ![proc[w].run].state = state]
    /\ Done(w)

\* The clone task of a run is over, one way or another.
Ended(r) == clone[r].state \in {"done", "failed", "lost"}

\* Mutation: the error is logged and the task succeeds.
RetrySwallowed(w) == EndClone(w, "done")

Retry(w) ==
    /\ clone' = [clone EXCEPT ![proc[w].run] =
          IF @.retries >= MaxRetries THEN [@ EXCEPT !.state = "failed"]
          ELSE [state |-> "queued", retries |-> @.retries + 1]]
    /\ Done(w)

\* The run must not be in edX yet.  An API error counts as "not found".
CloneCheck(w, a) ==
    /\ proc[w].pc = "check"
    /\ Answered(a)
    /\ \/ a = "ok" /\ edx[proc[w].run] # Absent /\ EndClone(w, "failed")
       \/ a = "ok" /\ edx[proc[w].run] = Absent /\ Goto(w, "clone") /\ UNCHANGED clone
       \/ a = "error" /\ Retry(w)
       \/ a = "lost" /\ Goto(w, "clone") /\ UNCHANGED clone
    /\ UNCHANGED <<row, edx, settled, causes>>

\* clone_edx_course: edX copies the source run, dates included, and refuses
\* a key that is taken; a refusal or an error page is a ValueError, a call
\* without an answer is retried.
CloneCall(w, a) ==
    /\ proc[w].pc = "clone"
    /\ Answered(a)
    /\ LET r == proc[w].run IN
       /\ edx' = IF a = "error" \/ edx[r] # Absent THEN edx
                 ELSE [edx EXCEPT ![r] = Source]
       /\ \/ a = "ok" /\ edx[r] = Absent /\ Goto(w, "fix") /\ UNCHANGED clone
          \/ a = "ok" /\ edx[r] # Absent /\ EndClone(w, "failed")
          \/ a = "error" /\ EndClone(w, "failed")
          \/ a # "ok" /\ Retry(w)
    /\ UNCHANGED <<row, settled, causes>>

\* fix_cloned_run_data and push_edx_modes_from_run, run at once outside of a
\* transaction; "lost" also stands for a failure of the second.
CloneFix(w, a) ==
    /\ proc[w].pc = "fix"
    /\ Answered(a)
    /\ edx' = IF a = "error" THEN edx ELSE PushRunDates(proc[w].run, proc[w].inst.dates)
    /\ \/ a = "ok" /\ EndClone(w, "done")
       \/ a # "ok" /\ Retry(w)
    /\ UNCHANGED <<row, settled, causes>>

-----------------------------------------------------------------------------
(* sync_course_runs: the nightly task for live runs, the command for any   *)
(* run.  All rows are loaded first, then edX is asked page by page.        *)

StartSync(w, r) ==
    /\ row[r].live
    /\ Start(w, [Idle EXCEPT !.pc = "fetch", !.run = r, !.inst = row[r]])
    /\ UNCHANGED <<row, edx, others, count>>

\* For a live run the command does what the task does.
SyncCommand(w, r) ==
    /\ Exists(r) /\ ~row[r].live
    /\ Command
    /\ Start(w, [Idle EXCEPT !.pc = "fetch", !.run = r, !.inst = row[r]])
    /\ UNCHANGED <<row, edx, others>>

SyncFetch(w) ==
    /\ proc[w].pc = "fetch"
    /\ LET now == edx[proc[w].run] IN
       IF now = Absent THEN Done(w)
       ELSE proc' = [proc EXCEPT ![w].pc = "sync", ![w].dates = now]
    /\ UNCHANGED <<row, edx, others, count>>

SyncFetchFails(w) ==
    /\ proc[w].pc = "fetch"
    /\ Fault
    /\ Done(w)
    /\ UNCHANGED <<row, edx, others>>

\* Mutation: the dates from edX are not saved.
SyncSaveNothing(w) ==
    /\ proc[w].pc = "sync"
    /\ Done(w)
    /\ UNCHANGED <<row, edx, others, count>>

\* Nothing is saved if nothing differs; with equal dates the title, the pacing
\* or the certificate date may differ.
SyncSave(w) ==
    /\ proc[w].pc = "sync"
    /\ \/ proc[w].inst.dates = proc[w].dates /\ UNCHANGED <<row, edx>>
       \/ Save(w, [proc[w].inst EXCEPT !.dates = proc[w].dates])
    /\ Done(w)
    /\ UNCHANGED <<others, count>>

-----------------------------------------------------------------------------
(* retire_courserun: edX first, then the row, then the holding contract.   *)

RetireCommand(w, r, opts) ==
    /\ Exists(r)
    /\ Command
    /\ Start(w, [Idle EXCEPT !.run = r, !.inst = row[r], !.opts = opts,
                             !.pc = IF "skip_edx" \in opts THEN "retire" ELSE "push"])
    /\ UNCHANGED <<row, edx, others>>

\* Mutation: the dates of the row are pushed, before they are changed.
RetirePushOldDates(w, a) ==
    /\ proc[w].pc = "push"
    /\ LET r == proc[w].run
           refused == edx[r] = Absent
       IN  /\ IF refused THEN a = "ok" /\ UNCHANGED count ELSE Answered(a)
           /\ edx' = IF refused \/ a = "error" THEN edx
                     ELSE PushRunDates(r, proc[w].inst.dates)
           /\ settled' = IF ~refused /\ a # "error" /\ Ended(r)
                         THEN settled \cup {r} ELSE settled
           /\ IF refused \/ a # "ok" THEN Done(w) ELSE Goto(w, "retire")
    /\ UNCHANGED <<row, clone, causes>>

\* compute_retirement_dates yields a complete set.  A failure aborts.
RetirePush(w, a) ==
    /\ proc[w].pc = "push"
    /\ LET r == proc[w].run
           refused == edx[r] = Absent
       IN  /\ IF refused THEN a = "ok" /\ UNCHANGED count ELSE Answered(a)
           /\ edx' = IF refused \/ a = "error" THEN edx ELSE PushRunDates(r, Past)
           /\ settled' = IF ~refused /\ a # "error" /\ Ended(r)
                         THEN settled \cup {r} ELSE settled
           /\ IF refused \/ a # "ok" THEN Done(w) ELSE Goto(w, "retire")
    /\ UNCHANGED <<row, clone, causes>>

RetireSave(w) ==
    /\ proc[w].pc = "retire"
    /\ LET retired == [proc[w].inst EXCEPT !.live = FALSE, !.dates = Past] IN
       /\ Save(w, retired)
       /\ proc' = [proc EXCEPT ![w].inst = retired, ![w].pc = "move"]
    /\ UNCHANGED <<others, count>>

\* Only runs of a contract are moved, and only once.
MoveRunToRetirementContract(w) ==
    /\ proc[w].pc = "move"
    /\ LET moves == "keep_contract" \notin proc[w].opts /\ proc[w].inst.contract = "contract" IN
       /\ IF moves THEN Save(w, [proc[w].inst EXCEPT !.contract = "holding"])
          ELSE UNCHANGED <<row, edx>>
       /\ causes' = IF moves THEN causes + 1 ELSE causes
    /\ Done(w)
    /\ UNCHANGED <<clone, settled, count>>

-----------------------------------------------------------------------------
(* b2b_courseware remove and add, for a run.                               *)

RemoveCommand(w, r, opts) ==
    /\ Exists(r)
    /\ Command
    /\ Start(w, [Idle EXCEPT !.pc = "remove", !.run = r, !.inst = row[r], !.opts = opts])
    /\ UNCHANGED <<row, edx, others>>

\* Mutation: a removed run stays live.
RemoveSaveLive(w) ==
    /\ proc[w].pc = "remove"
    /\ LET inst == proc[w].inst
           detach == "enrolled" \notin proc[w].opts /\ inst.contract = "contract"
           removed == [inst EXCEPT !.dates.closed = TRUE,
                                   !.contract = IF detach THEN "none" ELSE @]
       IN  /\ Save(w, removed)
           /\ proc' = [proc EXCEPT ![w].inst = removed, ![w].pc = "close"]
           /\ causes' = IF detach THEN causes + 1 ELSE causes
    /\ UNCHANGED <<clone, settled, count>>

\* A run without enrollments leaves its contract.
RemoveSave(w) ==
    /\ proc[w].pc = "remove"
    /\ LET inst == proc[w].inst
           detach == "enrolled" \notin proc[w].opts /\ inst.contract = "contract"
           removed == [live |-> FALSE, dates |-> [inst.dates EXCEPT !.closed = TRUE],
                       contract |-> IF detach THEN "none" ELSE inst.contract]
       IN  /\ Save(w, removed)
           /\ proc' = [proc EXCEPT ![w].inst = removed, ![w].pc = "close"]
           /\ causes' = IF detach THEN causes + 1 ELSE causes
    /\ UNCHANGED <<clone, settled, count>>

\* A failure of the push is logged and nothing else.
RemovePush(w, a) ==
    /\ proc[w].pc = "close"
    /\ LET r == proc[w].run IN
       /\ IF edx[r] = Absent THEN a = "ok" /\ UNCHANGED count ELSE Answered(a)
       /\ edx' = IF a = "error" \/ edx[r] = Absent THEN edx
                 ELSE PushRunDates(r, proc[w].inst.dates)
    /\ Done(w)
    /\ UNCHANGED <<row, others>>

AddCommand(w, r, opts) ==
    /\ Exists(r)
    /\ row[r].contract = "none" \/ (row[r].contract = "holding" /\ "force" \in opts)
    /\ Command
    /\ Start(w, [Idle EXCEPT !.pc = "add", !.run = r, !.inst = row[r]])
    /\ UNCHANGED <<row, edx, others>>

AddSave(w) ==
    /\ proc[w].pc = "add"
    /\ Save(w, [proc[w].inst EXCEPT !.contract = "contract"])
    /\ Done(w)
    /\ UNCHANGED <<others, count>>

-----------------------------------------------------------------------------
(* Faults. *)

\* A worker dies; its clone task is delivered again, or lost with it.
Crash(w) ==
    /\ proc[w].pc # "idle"
    /\ Fault
    /\ IF proc[w].pc \in {"check", "clone", "fix"}
       THEN \E state \in {"queued", "lost"} :
                clone' = [clone EXCEPT ![proc[w].run].state = state]
       ELSE UNCHANGED clone
    /\ Done(w)
    /\ UNCHANGED <<row, edx, settled, causes>>

-----------------------------------------------------------------------------
Step(w) ==
    \/ CheckExists(w) \/ ChooseKey(w) \/ QueueClone(w)
    \/ \E from \in ContractDates : InsertRun(w, from)
    \/ \E a \in Answers : CloneCheck(w, a) \/ CloneCall(w, a) \/ CloneFix(w, a)
    \/ SyncFetch(w) \/ SyncFetchFails(w) \/ SyncSave(w)
    \/ \E a \in Answers : RetirePush(w, a) \/ RemovePush(w, a)
    \/ RetireSave(w) \/ MoveRunToRetirementContract(w)
    \/ RemoveSave(w) \/ AddSave(w)

Begin(w) ==
    \/ CreateProgramContractRuns(w)
    \/ \E opts \in SUBSET (Options \cap {"no_reruns", "skip_edx"}) : CreateCommand(w, opts)
    \/ \E r \in Runs :
         \/ StartClone(w, r) \/ StartSync(w, r) \/ SyncCommand(w, r)
         \/ \E opts \in SUBSET (Options \cap {"skip_edx", "keep_contract"}) :
              RetireCommand(w, r, opts)
         \/ \E opts \in SUBSET (Options \cap {"enrolled"}) : RemoveCommand(w, r, opts)
         \/ \E opts \in SUBSET (Options \cap {"force"}) : AddCommand(w, r, opts)

Next == \E w \in Workers : Begin(w) \/ Step(w) \/ Crash(w)

Spec == Init /\ [][Next]_vars

\* A running handler goes on, celery works the queue off, the sync runs every
\* night; a start can be disabled for a while because every worker is busy.
FairSpec ==
    /\ Spec
    /\ \A w \in Workers : WF_vars(Step(w))
    /\ \A r \in Runs : SF_vars(\E w \in Workers : StartClone(w, r))
    /\ \A r \in Runs : SF_vars(\E w \in Workers : StartSync(w, r))

-----------------------------------------------------------------------------
(* Properties. *)

\* Rows, edX, tasks and handlers keep their shape, and no clone task passes
\* its retries.
TypeOK ==
    /\ row \in [Runs -> Row \cup {NoRow}]
    /\ edx \in [Runs -> Dates \cup {Absent}]
    /\ clone \in [Runs -> [state : {"none", "queued", "running", "done", "failed", "lost"},
                           retries : 0..MaxRetries]]
    /\ proc \in [Workers ->
          [pc : {"idle", "exists", "key", "insert", "queue", "check",
                 "clone", "fix", "fetch", "sync", "push", "retire", "move",
                 "remove", "close", "add"},
           run : 0..MaxRuns, inst : Row \cup {NoRow}, dates : Dates \cup {Absent},
           opts : SUBSET (Options \cup {"task"})]]
    /\ settled \subseteq Runs
    /\ causes \in Nat
    /\ count \in [commands : 0..MaxCommands, faults : 0..MaxFaults]

\* A run that was taken out of its contract, parked or detached, is not live,
\* so a contract's run never shows up in the public catalog: although every
\* handler saves rows it loaded long ago, "live" and the contract are always
\* saved together.
LiveOnlyUnderContract ==
    \A r \in Runs : row[r].live => row[r].contract = "contract"

\* create_program_contract_runs makes no second run of a course unless staff
\* asked for one, the first was taken out of the contract, or the tasks of two
\* programs (or two of one, for the lock keeps none out) were under way at once;
\* and each of these accounts for one run.
RunsHaveCauses == Cardinality(Created) <= 1 + causes

\* When nothing more is changed, a live run has the dates that edX has, whatever
\* handlers overlapped: this is what heals a retirement that failed after its
\* edX call.
SchedulesAgree ==
    <>[](\A r \in Runs : row[r].live /\ edx[r] # Absent => row[r].dates = edx[r])

Enrollable(r) == row[r].live /\ ~row[r].dates.closed

\* A retirement that reached edX, with no clone of the run under way, ends with
\* a run nobody can enroll in, even if a stale instance makes it live again.
RetirementHolds == <>[](\A r \in settled : ~Enrollable(r))

\* A queued clone is not forgotten while its workers live: the run gets into
\* edX or the task ends as failed, whatever calls fail or are carried out
\* without an answer, and though a clone that is delivered twice finds its own
\* run there.
CloneSettles ==
    <>[](\A r \in Runs : clone[r].state \in {"none", "failed", "lost"} \/ edx[r] # Absent)
=============================================================================
