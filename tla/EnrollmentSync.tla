--------------------------- MODULE EnrollmentSync ---------------------------
(***************************************************************************)
(* One learner's course run enrollments, kept in two places: the           *)
(* CourseRunEnrollment rows here and the enrollments in edX                *)
(* (courses/api.py, the enrollment part of openedx/api.py).                *)
(*                                                                         *)
(* Rows of different learners do not interact, so one learner is enough.   *)
(* A request, task or command is a process that calls edX first and saves  *)
(* its instance of the row afterwards.  Every save but one writes the      *)
(* whole row: what another process has written since is lost.  edX may     *)
(* refuse a call, fail, or carry it out without the answer arriving.       *)
(*                                                                         *)
(* create_run_enrollments is modelled for one run per call.  Mails,        *)
(* subscriptions, audit rows, HubSpot and the B2B membership do not feed   *)
(* back into this state.  The repair job and the sync treat each row on    *)
(* its own, so a batch is a sequence of independent passes.                *)
(***************************************************************************)
EXTENDS Naturals

CONSTANTS
    Runs,           \* course runs
    FakeRuns,       \* runs for which edX is never called on enrollment
    FormerRuns,     \* runs the learner may have left before, which counts as one
                    \* operation
    Workers,        \* web and celery processes
    Operations,     \* the operations in use
    Answers,        \* how edX may answer
    KeepFailed,     \* values of keep_failed_enrollments in use
    MaxRetries,     \* OPENEDX_ENROLLMENT_REPAIR_MAX_RETRIES
    MaxStarts,      \* bound on operations of the learner, staff and edX
    MaxCrashes      \* bound on handlers that die half way

AllOperations == {"enroll", "api_enroll", "purchase", "downgrade", "refund",
                  "unenroll", "defer", "defer_force", "defer_none", "webhook",
                  "reset", "retry", "sync", "edx_enroll", "edx_unenroll"}
AllAnswers == {"ok", "permanent", "transient", "lost"}

ASSUME EnrollmentRunsAssumption == 
    Runs # {} /\ FakeRuns \subseteq Runs /\ FormerRuns \subseteq Runs
ASSUME EnrollmentChoiceAssumption ==
    /\ Operations \subseteq AllOperations
    /\ Answers \subseteq AllAnswers
    /\ KeepFailed \subseteq BOOLEAN
ASSUME EnrollmentBoundsAssumption ==
    /\ MaxRetries \in Nat /\ MaxStarts \in Nat /\ MaxCrashes \in Nat
    /\ FormerRuns # {} => MaxStarts # 0

VARIABLES
    row,        \* the CourseRunEnrollment table: run -> row
    edx,        \* the enrollments edX has: run -> [exists, active, mode]
    paid,       \* runs with a PaidCourseRun of a fulfilled order
    proc,       \* what each worker is doing
    starts,     \* operations started
    crashes     \* handlers that died

vars == <<row, edx, paid, proc, starts, crashes>>

-----------------------------------------------------------------------------
(* Rows, edX enrollments and handlers *)

Modes == {"audit", "verified"}
ChangeStatus == {"none", "deferred", "unenrolled", "refunded"}

Row == [exists: BOOLEAN, active: BOOLEAN, mode: Modes, edx: BOOLEAN,
        status: ChangeStatus, retries: 0 .. MaxRetries]
NoRow == [exists |-> FALSE, active |-> FALSE, mode |-> "audit", edx |-> FALSE,
          status |-> "none", retries |-> 0]
NewRow(mode, success, status) ==
    [exists |-> TRUE, active |-> TRUE, mode |-> mode, edx |-> success,
     status |-> status, retries |-> 0]
LeftRow == [exists |-> TRUE, active |-> FALSE, mode |-> "audit", edx |-> FALSE,
            status |-> "unenrolled", retries |-> 0]

EdxEnrollment == [exists: BOOLEAN, active: BOOLEAN, mode: Modes]
NotInEdx == [exists |-> FALSE, active |-> FALSE, mode |-> "audit"]
InEdx(mode) == [exists |-> TRUE, active |-> TRUE, mode |-> mode]
LeftEdx == [InEdx("audit") EXCEPT !.active = FALSE]

Labels == {"idle", "enroll", "row", "log", "status", "mode", "pay", "unenroll",
           "inactive", "unpay", "target", "move", "retry", "retried", "count",
           "sync_load", "sync_save", "local_active", "local_edx"}

Handler == [pc: Labels, op: AllOperations, run: Runs, from: Runs, to: Runs,
            mode: Modes, status: ChangeStatus, keep: BOOLEAN, ok: BOOLEAN,
            deferred: BOOLEAN, inst: Row, snap: EdxEnrollment]

Idle ==
    LET any == CHOOSE r \in Runs : TRUE
    IN  [pc |-> "idle", op |-> "enroll", run |-> any, from |-> any, to |-> any,
         mode |-> "audit", status |-> "none", keep |-> FALSE, ok |-> FALSE,
         deferred |-> FALSE, inst |-> NoRow, snap |-> NotInEdx]

TypeOK ==
    /\ row \in [Runs -> Row]
    /\ edx \in [Runs -> EdxEnrollment]
    /\ paid \in SUBSET Runs
    /\ proc \in [Workers -> Handler]
    /\ \A p \in Workers : proc[p].pc \in {"retry", "count"} =>
                             proc[p].inst.retries < MaxRetries
    /\ starts \in 0 .. MaxStarts
    /\ crashes \in 0 .. MaxCrashes

Init ==
    /\ \E left \in SUBSET FormerRuns :
          /\ row = [r \in Runs |-> IF r \in left THEN LeftRow ELSE NoRow]
          /\ edx = [r \in Runs |-> IF r \in left THEN LeftEdx ELSE NotInEdx]
          /\ starts = IF left = {} THEN 0 ELSE 1
    /\ paid = {}
    /\ proc = [p \in Workers |-> Idle]
    /\ crashes = 0

\* An edX call that fails for the caller may have been carried out.
CarriedOut(answer) == answer \in {"ok", "lost"}

Save(r, instance) == row' = [row EXCEPT ![r] = instance]
Becomes(p, h) == proc' = [proc EXCEPT ![p] = h]

\* An operation of the learner, of staff or of edX itself begins.
Starts(op) ==
    /\ op \in Operations
    /\ starts < MaxStarts
    /\ starts' = starts + 1
    /\ UNCHANGED crashes
Continues == UNCHANGED <<starts, crashes>>

IsIdle(p) == proc[p].pc = "idle"

-----------------------------------------------------------------------------
(* create_run_enrollments *)

\* The handler calls create_run_enrollments for run r.
Enrolling(h, r, mode, status) ==
    [h EXCEPT !.pc = IF r \in FakeRuns THEN "row" ELSE "enroll", !.run = r,
              !.mode = mode, !.status = status, !.ok = TRUE, !.inst = NoRow]

\* Mutation: the deferral goes on after a failed call.
ReturnedIgnoringFailure(h) ==
    CASE h.op = "purchase" -> [h EXCEPT !.pc = "pay"]
      [] h.op \in {"defer", "defer_force"} ->
            IF h.run = h.to /\ ~h.deferred
            THEN Enrolling(h, h.from, "audit", "deferred")
            ELSE [h EXCEPT !.pc = "move"]
      [] OTHER -> Idle

\* What the caller does once create_run_enrollments has returned h.ok.
Returned(h) ==
    CASE h.op = "purchase" -> [h EXCEPT !.pc = "pay"]
      [] h.op \in {"defer", "defer_force"} ->
            IF ~h.ok /\ ~h.keep THEN Idle
            ELSE IF h.run = h.to /\ ~h.deferred
            THEN Enrolling(h, h.from, "audit", "deferred")
            ELSE [h EXCEPT !.pc = "move"]
      [] OTHER -> Idle

\* Mutation: the row records success whatever edX answered.
EdxEnrollAlwaysOk(p, answer) ==
    LET h == proc[p]
        done == [h EXCEPT !.pc = "row", !.ok = TRUE]
    IN  /\ h.pc = "enroll"
        /\ edx' = IF CarriedOut(answer)
                  THEN [edx EXCEPT ![h.run] = InEdx(h.mode)] ELSE edx
        /\ Becomes(p, IF answer = "ok" \/ h.keep THEN done ELSE Returned(done))
        /\ UNCHANGED <<row, paid>> /\ Continues

\* enroll_in_edx_course_runs.  An active enrollment of the same mode is left
\* alone, so the call has the same effect whether or not there is one.
EdxEnroll(p, answer) ==
    LET h == proc[p]
        done == [h EXCEPT !.pc = "row", !.ok = (answer = "ok")]
    IN  /\ h.pc = "enroll"
        /\ edx' = IF CarriedOut(answer)
                  THEN [edx EXCEPT ![h.run] = InEdx(h.mode)] ELSE edx
        /\ Becomes(p, IF answer = "ok" \/ h.keep THEN done ELSE Returned(done))
        /\ UNCHANGED <<row, paid>> /\ Continues

GetOrCreate(p) ==
    LET h == proc[p]
        new == NewRow(h.mode, h.ok, h.status)
        old == [row[h.run] EXCEPT !.edx = h.ok, !.status = h.status]
    IN  /\ h.pc = "row"
        /\ \/ /\ ~row[h.run].exists
              /\ Save(h.run, new)
              /\ Becomes(p, [h EXCEPT !.pc = "log", !.inst = new])
           \/ /\ row[h.run].exists
              /\ Becomes(p, [h EXCEPT !.pc = "status", !.inst = old])
              /\ UNCHANGED row
        /\ UNCHANGED <<edx, paid>> /\ Continues

\* save_and_log of the row just created.
LogCreated(p) ==
    /\ proc[p].pc = "log"
    /\ Save(proc[p].run, proc[p].inst)
    /\ Becomes(p, Returned(proc[p]))
    /\ UNCHANGED <<edx, paid>> /\ Continues

\* The first save of an existing row: edx_enrolled and change_status.
SaveStatus(p) ==
    LET h == proc[p]
    IN  /\ h.pc = "status"
        /\ Save(h.run, h.inst)
        /\ Becomes(p, IF h.inst.active /\ h.inst.mode = h.mode
                      THEN Returned(h) ELSE [h EXCEPT !.pc = "mode"])
        /\ UNCHANGED <<edx, paid>> /\ Continues

\* The second: update_mode_and_save, or reactivate_and_save, which also
\* forgets the change status.
SaveMode(p) ==
    LET h == proc[p]
        updated == [h.inst EXCEPT !.mode = h.mode]
        reactivated == [updated EXCEPT !.active = TRUE, !.status = "none"]
    IN  /\ h.pc = "mode"
        /\ Save(h.run, IF h.inst.active THEN updated ELSE reactivated)
        /\ Becomes(p, Returned(h))
        /\ UNCHANGED <<edx, paid>> /\ Continues

-----------------------------------------------------------------------------
(* The callers of create_run_enrollments *)

Request(op, keep) == [Idle EXCEPT !.op = op, !.keep = keep]

StartEnrolling(p, op, keep, r, mode, status) ==
    /\ IsIdle(p)
    /\ Starts(op)
    /\ Becomes(p, Enrolling(Request(op, keep), r, mode, status))

\* CreateEnrollmentView refuses a run the learner has paid for or holds
\* a verified enrollment in.
Enroll(p, r) ==
    /\ r \notin paid
    /\ ~(row[r].active /\ row[r].mode = "verified" /\ row[r].status = "none")
    /\ \E keep \in KeepFailed :
           StartEnrolling(p, "enroll", keep, r, "audit", "none")
    /\ UNCHANGED <<row, edx, paid>>

\* The enrollment serializers of the REST API do not.
ApiEnroll(p, r) ==
    /\ \E keep \in KeepFailed :
           StartEnrolling(p, "api_enroll", keep, r, "audit", "none")
    /\ UNCHANGED <<row, edx, paid>>

\* The line hook of a paid order: enroll, then insert the PaidCourseRun.
Purchase(p, r) ==
    /\ r \notin paid
    /\ StartEnrolling(p, "purchase", TRUE, r, "verified", "none")
    /\ UNCHANGED <<row, edx, paid>>

CreatePaidCourseRun(p) ==
    /\ proc[p].pc = "pay"
    /\ paid' = paid \cup {proc[p].run}
    /\ Becomes(p, Idle)
    /\ UNCHANGED <<row, edx>> /\ Continues

\* The admin action.
DowngradeLearner(p, r) ==
    /\ row[r].exists
    /\ StartEnrolling(p, "downgrade", TRUE, r, "audit", "none")
    /\ UNCHANGED <<row, edx, paid>>

\* The task after a refund: the order of the PaidCourseRun is not fulfilled
\* any more.
DowngradeLearnerFromOrder(p, r) ==
    /\ r \in paid
    /\ paid' = paid \ {r}
    /\ StartEnrolling(p, "refund", TRUE, r, "audit", "none")
    /\ UNCHANGED <<row, edx>>

-----------------------------------------------------------------------------
(* deactivate_run_enrollment *)

\* The handler calls deactivate_run_enrollment with the row it has loaded.
Unenrolling(h, r, status) ==
    [h EXCEPT !.pc = "unenroll", !.run = r, !.status = status, !.inst = row[r]]

\* The learner (status "unenrolled") or the refund command ("refunded",
\* which always keeps failed enrollments) unenrolls.
Unenroll(p, r) ==
    /\ IsIdle(p)
    /\ row[r].active
    /\ Starts("unenroll")
    /\ \/ \E keep \in KeepFailed :
             Becomes(p, Unenrolling(Request("unenroll", keep), r, "unenrolled"))
       \/ Becomes(p, Unenrolling(Request("unenroll", TRUE), r, "refunded"))
    /\ UNCHANGED <<row, edx, paid>>

EdxUnenroll(p, answer) ==
    LET h == proc[p]
    IN  /\ h.pc = "unenroll"
        /\ edx' = IF CarriedOut(answer)
                  THEN [edx EXCEPT ![h.run].active = FALSE] ELSE edx
        /\ Becomes(p, IF answer = "ok"
                      THEN [h EXCEPT !.pc = "inactive", !.inst.edx = FALSE]
                      ELSE IF h.keep THEN [h EXCEPT !.pc = "inactive"]
                      ELSE Idle)
        /\ UNCHANGED <<row, paid>> /\ Continues

\* deactivate_and_save
SaveInactive(p) ==
    LET h == proc[p]
        inactive == [h.inst EXCEPT !.active = FALSE, !.status = h.status]
    IN  /\ h.pc = "inactive"
        /\ Save(h.run, inactive)
        /\ Becomes(p, [h EXCEPT !.pc = "unpay", !.inst = inactive])
        /\ UNCHANGED <<edx, paid>> /\ Continues

\* The last step of deactivate_run_enrollment.  A deferral goes on to enroll
\* in the new run unless edX still has the audit enrollment.
DeletePaidCourseRun(p) ==
    LET h == proc[p]
    IN  /\ h.pc = "unpay"
        /\ paid' = paid \ {h.run}
        /\ Becomes(p, IF h.op \in {"defer", "defer_force"} /\ ~h.inst.edx
                      THEN Enrolling(h, h.to, "verified", "none") ELSE Idle)
        /\ UNCHANGED <<row, edx>> /\ Continues

-----------------------------------------------------------------------------
(* defer_enrollment *)

\* Both runs belong to one course and the new one is open for enrollment.
DeferEnrollment(p, from, to) ==
    /\ IsIdle(p)
    /\ row[from].exists
    /\ from # to
    /\ \E op \in {"defer", "defer_force"}, keep \in KeepFailed :
        /\ op = "defer" => row[from].active
        /\ Starts(op)
        /\ Becomes(p, [Request(op, keep) EXCEPT
                          !.pc = "target", !.run = to, !.from = from, !.to = to,
                          !.deferred = (row[from].status = "deferred")])
    /\ UNCHANGED <<row, edx, paid>>

DeferWithoutTarget(p, from) ==
    /\ row[from].exists
    /\ \E keep \in KeepFailed :
           StartEnrolling(p, "defer_none", keep, from, "audit", "deferred")
    /\ UNCHANGED <<row, edx, paid>>

\* A deferral that was carried out before ends here; an audit enrollment in
\* the new run is deactivated first.
FindTarget(p) ==
    LET h == proc[p]
        held == row[h.to].active
        mode == row[h.to].mode
    IN  /\ h.pc = "target"
        /\ Becomes(p, IF h.deferred /\ held /\ mode = "verified" THEN Idle
                      ELSE IF held /\ mode = "audit"
                      THEN Unenrolling(h, h.to, "unenrolled")
                      ELSE Enrolling(h, h.to, "verified", "none"))
        /\ UNCHANGED <<row, edx, paid>> /\ Continues

\* change_payment_to_run
ChangePaymentToRun(p) ==
    LET h == proc[p]
    IN  /\ h.pc = "move"
        /\ paid' = IF h.from \in paid THEN (paid \ {h.from}) \cup {h.to}
                   ELSE paid
        /\ Becomes(p, Idle)
        /\ UNCHANGED <<row, edx>> /\ Continues

-----------------------------------------------------------------------------
(* retry_failed_edx_enrollments *)

\* Mutation: one attempt too many.
RepairableAtLimit(r) ==
    /\ row[r].active
    /\ ~row[r].edx
    /\ row[r].retries <= MaxRetries

Repairable(r) ==
    /\ row[r].active
    /\ ~row[r].edx
    /\ row[r].retries < MaxRetries

RetryFailedEnrollment(p, r) ==
    /\ IsIdle(p)
    /\ "retry" \in Operations
    /\ Repairable(r)
    /\ Becomes(p, [Request("retry", FALSE) EXCEPT
                      !.pc = "retry", !.run = r, !.inst = row[r]])
    /\ UNCHANGED <<row, edx, paid>> /\ Continues

\* A permanent failure is counted, any other leaves the row for the next run.
RetryCall(p, answer) ==
    LET h == proc[p]
    IN  /\ h.pc = "retry"
        /\ edx' = IF CarriedOut(answer)
                  THEN [edx EXCEPT ![h.run] = InEdx(h.inst.mode)] ELSE edx
        /\ Becomes(p, CASE answer = "ok" ->
                              [h EXCEPT !.pc = "retried", !.inst.edx = TRUE]
                        [] answer = "permanent" -> [h EXCEPT !.pc = "count"]
                        [] OTHER -> Idle)
        /\ UNCHANGED <<row, paid>> /\ Continues

\* Mutation: a successful repair is not recorded.
RetryForgets(p) ==
    /\ proc[p].pc = "retried"
    /\ Becomes(p, Idle)
    /\ UNCHANGED <<row, edx, paid>> /\ Continues

RetrySave(p) ==
    /\ proc[p].pc = "retried"
    /\ Save(proc[p].run, proc[p].inst)
    /\ Becomes(p, Idle)
    /\ UNCHANGED <<edx, paid>> /\ Continues

\* save(update_fields=["edx_enrollment_retry_count"])
RetryCount(p) ==
    LET h == proc[p]
    IN  /\ h.pc = "count"
        /\ row' = [row EXCEPT ![h.run].retries = h.inst.retries + 1]
        /\ Becomes(p, Idle)
        /\ UNCHANGED <<edx, paid>> /\ Continues

\* The admin action that makes given-up enrollments eligible again.
ResetRetryCount(r) ==
    /\ row[r].exists
    /\ Starts("reset")
    /\ row' = [row EXCEPT ![r].retries = 0]
    /\ UNCHANGED <<edx, paid, proc>>

-----------------------------------------------------------------------------
(* sync_enrollments_with_edx, when the learner lists the enrollments with v1 *)
(* or v2 of the API and the flag SYNC_ON_DASHBOARD_LOAD is on: edX is asked  *)
(* first, then the rows are read.  A run that edX does not list is only      *)
(* logged.                                                                   *)

SyncFetch(p, r) ==
    /\ IsIdle(p)
    /\ "sync" \in Operations
    /\ edx[r].exists
    /\ Becomes(p, [Request("sync", FALSE) EXCEPT
                      !.pc = "sync_load", !.run = r, !.snap = edx[r]])
    /\ UNCHANGED <<row, edx, paid>> /\ Continues

SyncLoad(p) ==
    LET h == proc[p]
    IN  /\ h.pc = "sync_load"
        /\ Becomes(p, [h EXCEPT !.pc = "sync_save", !.inst = row[h.run]])
        /\ UNCHANGED <<row, edx, paid>> /\ Continues

\* Mutation: the sync only ever reactivates.
SyncedReactivating(inst, snap) ==
    IF ~inst.exists
    THEN [NewRow("audit", TRUE, "none") EXCEPT !.active = snap.active]
    ELSE [inst EXCEPT !.active = TRUE, !.status = "none"]

\* What the sync makes of the loaded row.  A row it creates has the default
\* mode.
Synced(inst, snap) ==
    IF ~inst.exists
    THEN [NewRow("audit", TRUE, "none") EXCEPT !.active = snap.active]
    ELSE IF inst.active /\ ~snap.active
    THEN [inst EXCEPT !.active = FALSE, !.status = "unenrolled"]
    ELSE [inst EXCEPT !.active = TRUE, !.status = "none"]

\* A row that is as active as in edX is not saved; an insert fails when
\* another handler has created the row meanwhile.
SyncSave(p) ==
    LET h == proc[p]
        skipped == IF h.inst.exists THEN h.inst.active = h.snap.active
                   ELSE row[h.run].exists
    IN  /\ h.pc = "sync_save"
        /\ row' = IF skipped THEN row
                  ELSE [row EXCEPT ![h.run] = Synced(h.inst, h.snap)]
        /\ Becomes(p, Idle)
        /\ UNCHANGED <<edx, paid>> /\ Continues

-----------------------------------------------------------------------------
(* create_local_enrollment: the webhook, possibly late.  It is meant for a   *)
(* learner "already enrolled in edX" and does not look.                      *)

CreateLocalEnrollment(p, r) ==
    LET new == NewRow("audit", TRUE, "none")
        h == [Request("webhook", FALSE) EXCEPT !.run = r]
    IN  /\ IsIdle(p)
        /\ edx[r].exists
        /\ Starts("webhook")
        /\ \/ /\ ~row[r].exists
              /\ Save(r, new)
              /\ Becomes(p, [h EXCEPT !.pc = "log", !.inst = new])
           \/ /\ row[r].exists
              /\ ~row[r].active \/ ~row[r].edx
              /\ Becomes(p, [h EXCEPT !.inst = row[r],
                                      !.pc = IF row[r].active THEN "local_edx"
                                             ELSE "local_active"])
              /\ UNCHANGED row
        /\ UNCHANGED <<edx, paid>>

LocalReactivate(p) ==
    LET h == proc[p]
        active == [h.inst EXCEPT !.active = TRUE, !.status = "none"]
    IN  /\ h.pc = "local_active"
        /\ Save(h.run, active)
        /\ Becomes(p, IF h.inst.edx THEN Idle
                      ELSE [h EXCEPT !.pc = "local_edx", !.inst = active])
        /\ UNCHANGED <<edx, paid>> /\ Continues

LocalEdxEnrolled(p) ==
    /\ proc[p].pc = "local_edx"
    /\ Save(proc[p].run, [proc[p].inst EXCEPT !.edx = TRUE])
    /\ Becomes(p, Idle)
    /\ UNCHANGED <<edx, paid>> /\ Continues

-----------------------------------------------------------------------------
(* edX itself, and crashes *)

\* The learner, or course staff, enrolls in edX directly.
EnrolledInEdx(r, mode) ==
    /\ Starts("edx_enroll")
    /\ edx' = [edx EXCEPT ![r] = InEdx(mode)]
    /\ UNCHANGED <<row, paid, proc>>

UnenrolledInEdx(r) ==
    /\ edx[r].active
    /\ Starts("edx_unenroll")
    /\ edx' = [edx EXCEPT ![r].active = FALSE]
    /\ UNCHANGED <<row, paid, proc>>

Crash(p) ==
    /\ ~IsIdle(p)
    /\ crashes < MaxCrashes
    /\ crashes' = crashes + 1
    /\ Becomes(p, Idle)
    /\ UNCHANGED <<row, edx, paid, starts>>

-----------------------------------------------------------------------------
(* The specification *)

\* A running handler takes its next step.
Step(p) ==
    \/ \E answer \in Answers :
           EdxEnroll(p, answer) \/ EdxUnenroll(p, answer) \/ RetryCall(p, answer)
    \/ GetOrCreate(p) \/ LogCreated(p) \/ SaveStatus(p) \/ SaveMode(p)
    \/ CreatePaidCourseRun(p) \/ SaveInactive(p) \/ DeletePaidCourseRun(p)
    \/ FindTarget(p) \/ ChangePaymentToRun(p)
    \/ RetrySave(p) \/ RetryCount(p)
    \/ SyncLoad(p) \/ SyncSave(p) \/ LocalReactivate(p) \/ LocalEdxEnrolled(p)

\* A request, task or command for run r arrives at a free worker.
Begin(p, r) ==
    \/ Enroll(p, r) \/ ApiEnroll(p, r) \/ Purchase(p, r)
    \/ DowngradeLearner(p, r) \/ DowngradeLearnerFromOrder(p, r)
    \/ Unenroll(p, r)
    \/ \E to \in Runs : DeferEnrollment(p, r, to)
    \/ DeferWithoutTarget(p, r)
    \/ RetryFailedEnrollment(p, r)
    \/ SyncFetch(p, r)
    \/ CreateLocalEnrollment(p, r)

Next ==
    \/ \E p \in Workers : Step(p) \/ Crash(p)
    \/ \E p \in Workers, r \in Runs : Begin(p, r)
    \/ \E r \in Runs :
           \/ ResetRetryCount(r)
           \/ \E mode \in Modes : EnrolledInEdx(r, mode)
           \/ UnenrolledInEdx(r)

Spec == Init /\ [][Next]_vars

\* Handlers run on, celery beat keeps starting the repair job, and an edX that
\* is asked again and again answers.  Nothing makes the learner load a page
\* that syncs.
Fairness ==
    /\ \A p \in Workers :
        /\ WF_vars(Step(p))
        /\ SF_vars(RetryCall(p, "ok"))
    /\ \A r \in Runs :
           SF_vars(\E p \in Workers : RetryFailedEnrollment(p, r))

FairSpec == Spec /\ Fairness

-----------------------------------------------------------------------------
(* Properties *)

\* edx_enrolled "Indicates whether or not the request succeeded to enroll via
\* the edX API": a row that says so has an enrollment in edX, whatever stale
\* instances the handlers save and wherever they die.
EnrolledHasEdxRecord ==
    \A r \in Runs \ FakeRuns : row[r].edx => edx[r].exists

\* The inductive form: the same of every instance a handler holds, of every
\* answer it is about to save, and of the runs a sync or webhook works on.
EdxEvidence ==
    /\ EnrolledHasEdxRecord
    /\ \A p \in Workers :
        LET h == proc[p]
        IN  h.run \notin FakeRuns =>
                /\ h.inst.edx => edx[h.run].exists
                /\ h.pc = "row" /\ h.ok => edx[h.run].exists
                /\ h.pc \in {"sync_load", "sync_save", "local_active",
                             "local_edx"} => edx[h.run].exists

\* The learner has a verified place: in edX, or in a row that the repair job
\* has still to take there.
HasSeat ==
    \E r \in Runs :
        /\ row[r].active
        /\ row[r].mode = "verified"
        /\ ~row[r].edx \/ edx[r] = InEdx("verified")

\* A deferral, with its four edX calls any of which may fail, be lost or be
\* the last thing the process does, never leaves a learner who had a verified
\* place without one: the new run is entered before the old one is left.
SeatKept == [][HasSeat => HasSeat']_vars

\* A failed enrollment is taken to edX by the repair job, unless it is
\* deactivated or given up.
FailedIsRepaired ==
    \A r \in Runs : Repairable(r) ~> row[r].edx \/ ~row[r].active
                                      \/ row[r].retries >= MaxRetries

\* Once learner and staff rest, and if the learner keeps loading pages that
\* sync, the row and edX agree for good on whether the learner is enrolled in
\* a run that edX lists, except for an enrollment the repair job has given up:
\* neither stale saves of overlapping handlers nor crashes leave a difference
\* that sync and repair do not remove.  Without the sync they may.
BeingSynced(r) == \E p \in Workers : proc[p].pc = "sync_load" /\ proc[p].run = r
Agrees(r) ==
    \/ row[r].active = edx[r].active
    \/ row[r].active /\ row[r].retries >= MaxRetries
EventuallyAgrees ==
    \A r \in Runs : []<>BeingSynced(r) => <>[]Agrees(r)

============================================================================
