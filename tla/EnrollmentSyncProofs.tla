------------------------ MODULE EnrollmentSyncProofs ------------------------
(***************************************************************************)
(* Theorems about EnrollmentSync, for any number of runs, workers,         *)
(* operations, retries and crashes.                                        *)
(***************************************************************************)
EXTENDS EnrollmentSync, TLAPS

EdxState == [Runs -> EdxEnrollment]

\* What a row of run r, and a handler, may claim when edX holds e.
GoodRow(e, r, x) ==
    /\ x \in Row
    /\ r \notin FakeRuns /\ x.edx => e[r].exists

GoodHandler(e, h) ==
    /\ h \in Handler
    /\ h.pc \in {"retry", "count"} => h.inst.retries < MaxRetries
    /\ h.run \notin FakeRuns =>
          /\ h.inst.edx => e[h.run].exists
          /\ h.pc = "row" /\ h.ok => e[h.run].exists
          /\ h.pc \in {"sync_load", "sync_save", "local_active",
                       "local_edx"} => e[h.run].exists

\* edX never forgets an enrollment.
Grows(e, f) == \A r \in Runs : e[r].exists => f[r].exists

Inv ==
    /\ row \in [Runs -> Row]
    /\ edx \in EdxState
    /\ paid \in SUBSET Runs
    /\ proc \in [Workers -> Handler]
    /\ starts \in 0 .. MaxStarts
    /\ crashes \in 0 .. MaxCrashes
    /\ \A r \in Runs : GoodRow(edx, r, row[r])
    /\ \A p \in Workers : GoodHandler(edx, proc[p])

LEMMA InvIsTypeAndEvidence == Inv <=> TypeOK /\ EdxEvidence
  BY DEF Inv, TypeOK, EdxEvidence, EnrolledHasEdxRecord, GoodRow, GoodHandler,
         EdxState

-----------------------------------------------------------------------------
(* Rows *)

LEMMA NoRowType == NoRow \in Row /\ ~NoRow.edx
  BY EnrollmentBoundsAssumption DEF NoRow, Row, Modes, ChangeStatus

LEMMA NewRowType ==
  ASSUME NEW m \in Modes, NEW ok \in BOOLEAN, NEW s \in ChangeStatus
  PROVE  /\ NewRow(m, ok, s) \in Row
         /\ NewRow(m, ok, s).edx = ok
  BY EnrollmentBoundsAssumption DEF NewRow, Row

\* The updates the handlers make keep a row good.
LEMMA RowUpdates ==
  ASSUME NEW e \in EdxState, NEW r \in Runs, NEW x, GoodRow(e, r, x),
         NEW m \in Modes, NEW s \in ChangeStatus, NEW b \in BOOLEAN
  PROVE  /\ GoodRow(e, r, [x EXCEPT !.mode = m])
         /\ GoodRow(e, r, [x EXCEPT !.active = b, !.status = s])
         /\ GoodRow(e, r, [[x EXCEPT !.mode = m] EXCEPT !.active = b,
                                                     !.status = s])
         /\ GoodRow(e, r, [x EXCEPT !.edx = FALSE])
  BY DEF GoodRow, Row

LEMMA RowClaims ==
  ASSUME NEW e \in EdxState, NEW r \in Runs, NEW x \in Row, NEW ok \in BOOLEAN,
         NEW s \in ChangeStatus, r \notin FakeRuns /\ ok => e[r].exists
  PROVE  /\ GoodRow(e, r, [x EXCEPT !.edx = ok, !.status = s])
         /\ GoodRow(e, r, [x EXCEPT !.edx = ok])
  BY DEF GoodRow, Row

-----------------------------------------------------------------------------
(* Handlers *)

LEMMA IdleGood ==
  ASSUME NEW e \in EdxState
  PROVE  GoodHandler(e, Idle)
  <1>1. (CHOOSE r \in Runs : TRUE) \in Runs
    BY EnrollmentRunsAssumption
  <1>2. NotInEdx \in EdxEnrollment
    BY DEF NotInEdx, EdxEnrollment, Modes
  <1> QED  BY <1>1, <1>2, NoRowType
           DEF Idle, GoodHandler, Handler, Labels, AllOperations, Modes,
               ChangeStatus

LEMMA EnrollingGood ==
  ASSUME NEW e \in EdxState, NEW h \in Handler, NEW r \in Runs,
         NEW m \in Modes, NEW s \in ChangeStatus
  PROVE  GoodHandler(e, Enrolling(h, r, m, s))
  BY NoRowType DEF Enrolling, GoodHandler, Handler, Labels

LEMMA ReturnedGood ==
  ASSUME NEW e \in EdxState, NEW h, GoodHandler(e, h)
  PROVE  GoodHandler(e, Returned(h))
  <1>1. /\ h \in Handler
        /\ h.from \in Runs
        /\ "audit" \in Modes
        /\ "deferred" \in ChangeStatus
    BY DEF GoodHandler, Handler, Modes, ChangeStatus
  <1>2. GoodHandler(e, Enrolling(h, h.from, "audit", "deferred"))
    BY <1>1, EnrollingGood
  <1>3. \A l \in {"pay", "move"} : GoodHandler(e, [h EXCEPT !.pc = l])
    BY <1>1 DEF GoodHandler, Handler, Labels
  <1> QED  BY <1>2, <1>3, IdleGood DEF Returned

\* A handler goes on with the same run: with another label, with a good row
\* as its instance.
LEMMA HandlerUpdates ==
  ASSUME NEW e \in EdxState, NEW h, GoodHandler(e, h), NEW x,
         GoodRow(e, h.run, x),
         NEW l \in {"log", "status", "mode", "inactive", "unpay", "retried"}
  PROVE  /\ GoodHandler(e, [h EXCEPT !.pc = l])
         /\ GoodHandler(e, [h EXCEPT !.pc = l, !.inst = x])
  BY DEF GoodHandler, GoodRow, Handler, Labels

LEMMA UnenrollingGood ==
  ASSUME Inv, NEW h \in Handler, NEW r \in Runs, NEW s \in ChangeStatus
  PROVE  GoodHandler(edx, Unenrolling(h, r, s))
  BY DEF Inv, Unenrolling, GoodHandler, GoodRow, Handler, Labels

LEMMA RequestType ==
  ASSUME NEW op \in AllOperations, NEW keep \in BOOLEAN
  PROVE  /\ Request(op, keep) \in Handler
         /\ Request(op, keep).pc = "idle"
         /\ ~Request(op, keep).inst.edx
  <1>1. GoodHandler([r \in Runs |-> NotInEdx], Idle)
    BY IdleGood DEF EdxState, NotInEdx, EdxEnrollment, Modes
  <1>2. Idle \in Handler
    BY <1>1 DEF GoodHandler
  <1>3. Idle.pc = "idle" /\ ~Idle.inst.edx
    BY DEF Idle, NoRow
  <1> QED  BY <1>2, <1>3 DEF Request, Handler

-----------------------------------------------------------------------------
(* What a step has to show *)

LEMMA GrowsGood ==
  ASSUME NEW e \in EdxState, NEW f \in EdxState, Grows(e, f)
  PROVE  /\ \A r \in Runs : \A x : GoodRow(e, r, x) => GoodRow(f, r, x)
         /\ \A h : GoodHandler(e, h) => GoodHandler(f, h)
  BY DEF Grows, GoodRow, GoodHandler, Handler

\* The handlers: worker p becomes h while edX goes from edx to f.
LEMMA HandlersKept ==
  ASSUME Inv, NEW p \in Workers, NEW f \in EdxState, Grows(edx, f),
         NEW h, GoodHandler(f, h), Becomes(p, h)
  PROVE  /\ proc' \in [Workers -> Handler]
         /\ \A q \in Workers : GoodHandler(f, proc'[q])
  <1>1. h \in Handler
    BY DEF GoodHandler
  <1>2. \A q \in Workers : GoodHandler(f, proc[q])
    BY GrowsGood DEF Inv
  <1> QED  BY <1>1, <1>2 DEF Becomes, Inv

\* The rows: row r is saved as x.
LEMMA RowsKept ==
  ASSUME Inv, NEW f \in EdxState, Grows(edx, f), NEW r \in Runs, NEW x,
         GoodRow(f, r, x), row' = row \/ Save(r, x)
  PROVE  /\ row' \in [Runs -> Row]
         /\ \A s \in Runs : GoodRow(f, s, row'[s])
  <1>1. x \in Row
    BY DEF GoodRow
  <1>2. \A s \in Runs : GoodRow(f, s, row[s])
    BY GrowsGood DEF Inv
  <1> QED  BY <1>1, <1>2 DEF Save, Inv

\* A step that leaves edX alone, saves a good row or none, and leaves a good
\* handler behind.
LEMMA LocalStep ==
  ASSUME Inv, NEW p \in Workers, NEW h, GoodHandler(edx, h), Becomes(p, h),
         NEW r \in Runs, NEW x, GoodRow(edx, r, x), row' = row \/ Save(r, x),
         edx' = edx, paid' \in SUBSET Runs,
         starts' \in 0 .. MaxStarts, crashes' \in 0 .. MaxCrashes
  PROVE  Inv'
  <1>1. edx \in EdxState /\ Grows(edx, edx)
    BY DEF Inv, Grows
  <1>2. /\ proc' \in [Workers -> Handler]
        /\ \A q \in Workers : GoodHandler(edx, proc'[q])
    BY <1>1, HandlersKept
  <1>3. /\ row' \in [Runs -> Row]
        /\ \A s \in Runs : GoodRow(edx, s, row'[s])
    BY <1>1, RowsKept
  <1> QED  BY <1>1, <1>2, <1>3 DEF Inv

\* A step that changes edX and leaves the rows alone.
LEMMA EdxStep ==
  ASSUME Inv, NEW p \in Workers, NEW f \in EdxState, Grows(edx, f), edx' = f,
         NEW h, GoodHandler(f, h), Becomes(p, h),
         row' = row, paid' = paid, Continues
  PROVE  Inv'
  <1>1. /\ proc' \in [Workers -> Handler]
        /\ \A q \in Workers : GoodHandler(f, proc'[q])
    BY HandlersKept
  <1>2. \A s \in Runs : GoodRow(f, s, row[s])
    BY GrowsGood DEF Inv
  <1> QED  BY <1>1, <1>2 DEF Inv, Continues

-----------------------------------------------------------------------------
(* Facts about the state before a step *)

LEMMA HandlerFacts ==
  ASSUME Inv, NEW p \in Workers
  PROVE  /\ edx \in EdxState
         /\ GoodHandler(edx, proc[p])
         /\ proc[p] \in Handler
         /\ proc[p].run \in Runs /\ proc[p].from \in Runs /\ proc[p].to \in Runs
         /\ proc[p].mode \in Modes
         /\ proc[p].status \in ChangeStatus
         /\ proc[p].ok \in BOOLEAN
         /\ proc[p].inst \in Row
         /\ proc[p].snap \in EdxEnrollment
         /\ GoodRow(edx, proc[p].run, proc[p].inst)
         /\ GoodRow(edx, proc[p].run, row[proc[p].run])
  BY DEF Inv, GoodHandler, GoodRow, Handler

LEMMA Counters ==
  ASSUME Inv, Continues \/ \E op \in AllOperations : Starts(op)
  PROVE  starts' \in 0 .. MaxStarts /\ crashes' \in 0 .. MaxCrashes
  BY EnrollmentBoundsAssumption DEF Inv, Continues, Starts

\* The two effects a call has in edX.
LEMMA EdxCalls ==
  ASSUME NEW e \in EdxState, NEW r \in Runs, NEW m \in Modes
  PROVE  /\ [e EXCEPT ![r] = InEdx(m)] \in EdxState
         /\ Grows(e, [e EXCEPT ![r] = InEdx(m)])
         /\ [e EXCEPT ![r] = InEdx(m)][r].exists
         /\ [e EXCEPT ![r].active = FALSE] \in EdxState
         /\ Grows(e, [e EXCEPT ![r].active = FALSE])
         /\ Grows(e, e)
  BY DEF EdxState, EdxEnrollment, InEdx, Grows

-----------------------------------------------------------------------------
(* The calls to edX *)

LEMMA EdxEnrollKept ==
  ASSUME Inv, NEW p \in Workers, NEW a \in Answers, EdxEnroll(p, a)
  PROVE  Inv'
  <1>1. PICK h : h = proc[p]
    OBVIOUS
  <1>2. /\ h \in Handler /\ h.run \in Runs /\ h.mode \in Modes
        /\ GoodHandler(edx, h) /\ edx \in EdxState
    BY <1>1, HandlerFacts
  <1>3. PICK f : f = edx'
    OBVIOUS
  <1>4. /\ f = IF CarriedOut(a) THEN [edx EXCEPT ![h.run] = InEdx(h.mode)]
            ELSE edx
        /\ h.pc = "enroll"
    BY <1>1, <1>3 DEF EdxEnroll
  <1>5. /\ f \in EdxState
        /\ Grows(edx, f)
        /\ a = "ok" => f[h.run].exists
    BY <1>2, <1>4, EdxCalls DEF CarriedOut
  <1>6. PICK d : d = [h EXCEPT !.pc = "row", !.ok = (a = "ok")]
    OBVIOUS
  <1>7. GoodHandler(f, h)
    BY <1>2, <1>5, GrowsGood
  <1>8. (a = "ok") \in BOOLEAN
    OBVIOUS
  <1>9. PICK b \in BOOLEAN : b = (a = "ok")
    BY <1>8
  <1>10. GoodHandler(f, d)
    BY <1>2, <1>5, <1>6, <1>7, <1>9 DEF GoodHandler, Handler, Labels
  <1>11. GoodHandler(f, Returned(d))
    BY <1>5, <1>10, ReturnedGood
  <1>12. Becomes(p, d) \/ Becomes(p, Returned(d))
    BY <1>1, <1>6 DEF EdxEnroll
  <1>13. edx' = f /\ row' = row /\ paid' = paid /\ Continues
    BY <1>3 DEF EdxEnroll
  <1>14. CASE Becomes(p, d)
    BY <1>5, <1>10, <1>13, <1>14, EdxStep
  <1>15. CASE Becomes(p, Returned(d))
    BY <1>5, <1>11, <1>13, <1>15, EdxStep
  <1> QED  BY <1>12, <1>14, <1>15

LEMMA EdxUnenrollKept ==
  ASSUME Inv, NEW p \in Workers, NEW a \in Answers, EdxUnenroll(p, a)
  PROVE  Inv'
  <1>1. PICK h : h = proc[p]
    OBVIOUS
  <1>2. /\ h \in Handler /\ h.run \in Runs /\ h.inst \in Row
        /\ GoodHandler(edx, h) /\ edx \in EdxState
        /\ GoodRow(edx, h.run, h.inst)
    BY <1>1, HandlerFacts
  <1>3. PICK f : f = edx'
    OBVIOUS
  <1>4. f = IF CarriedOut(a) THEN [edx EXCEPT ![h.run].active = FALSE] ELSE edx
    BY <1>1, <1>3 DEF EdxUnenroll
  <1>5. f \in EdxState /\ Grows(edx, f)
    BY <1>2, <1>4, EdxCalls DEF Modes
  <1>6. PICK x : x = [h.inst EXCEPT !.edx = FALSE]
    OBVIOUS
  <1>7. GoodHandler(f, h) /\ GoodRow(f, h.run, h.inst)
    BY <1>2, <1>5, GrowsGood
  <1>8. GoodRow(f, h.run, x)
    BY <1>2, <1>5, <1>6, <1>7 DEF GoodRow, Row
  <1>9. /\ GoodHandler(f, [h EXCEPT !.pc = "inactive"])
        /\ GoodHandler(f, [h EXCEPT !.pc = "inactive", !.inst = x])
        /\ GoodHandler(f, Idle)
    BY <1>5, <1>7, <1>8, HandlerUpdates, IdleGood
  <1>10. [h EXCEPT !.pc = "inactive", !.inst.edx = FALSE] =
             [h EXCEPT !.pc = "inactive", !.inst = x]
    BY <1>2, <1>6 DEF Handler
  <1>11. PICK g : Becomes(p, g) /\ GoodHandler(f, g)
    BY <1>1, <1>9, <1>10 DEF EdxUnenroll
  <1>12. edx' = f /\ row' = row /\ paid' = paid /\ Continues
    BY <1>3 DEF EdxUnenroll
  <1> QED  BY <1>5, <1>11, <1>12, EdxStep

LEMMA RetryCallKept ==
  ASSUME Inv, NEW p \in Workers, NEW a \in Answers, RetryCall(p, a)
  PROVE  Inv'
  <1>1. PICK h : h = proc[p]
    OBVIOUS
  <1>2. /\ h \in Handler /\ h.run \in Runs /\ h.inst \in Row
        /\ GoodHandler(edx, h) /\ edx \in EdxState
        /\ h.inst.mode \in Modes
    BY <1>1, HandlerFacts DEF Row
  <1>3. PICK f : f = edx'
    OBVIOUS
  <1>4. /\ f = IF CarriedOut(a)
                THEN [edx EXCEPT ![h.run] = InEdx(h.inst.mode)] ELSE edx
        /\ h.pc = "retry"
    BY <1>1, <1>3 DEF RetryCall
  <1>5. /\ f \in EdxState
        /\ Grows(edx, f)
        /\ a = "ok" => f[h.run].exists
    BY <1>2, <1>4, EdxCalls DEF CarriedOut
  <1>6. GoodHandler(f, h)
    BY <1>2, <1>5, GrowsGood
  <1>7. PICK x : x = [h.inst EXCEPT !.edx = TRUE]
    OBVIOUS
  <1>8. ASSUME a = "ok"
        PROVE  GoodHandler(f, [h EXCEPT !.pc = "retried", !.inst.edx = TRUE])
    <2>1. GoodRow(f, h.run, x)
      BY <1>2, <1>5, <1>7, <1>8 DEF GoodRow, Row
    <2>2. GoodHandler(f, [h EXCEPT !.pc = "retried", !.inst = x])
      BY <1>5, <1>6, <2>1, HandlerUpdates
    <2>3. [h EXCEPT !.pc = "retried", !.inst.edx = TRUE] =
              [h EXCEPT !.pc = "retried", !.inst = x]
      BY <1>2, <1>7 DEF Handler
    <2> QED  BY <2>2, <2>3
  <1>9. GoodHandler(f, [h EXCEPT !.pc = "count"])
    BY <1>2, <1>4, <1>6 DEF GoodHandler, Handler, Labels
  <1>10. GoodHandler(f, Idle)
    BY <1>5, IdleGood
  <1>11. PICK g : Becomes(p, g) /\ GoodHandler(f, g)
    BY <1>1, <1>8, <1>9, <1>10 DEF RetryCall
  <1>12. edx' = f /\ row' = row /\ paid' = paid /\ Continues
    BY <1>3 DEF RetryCall
  <1> QED  BY <1>5, <1>11, <1>12, EdxStep

-----------------------------------------------------------------------------
(* The saves of create_run_enrollments *)

LEMMA GetOrCreateKept ==
  ASSUME Inv, NEW p \in Workers, GetOrCreate(p)
  PROVE  Inv'
  <1>1. PICK h : h = proc[p]
    OBVIOUS
  <1>2. /\ h \in Handler /\ h.run \in Runs /\ h.mode \in Modes
        /\ h.ok \in BOOLEAN /\ h.status \in ChangeStatus
        /\ GoodHandler(edx, h) /\ edx \in EdxState
        /\ row[h.run] \in Row
    BY <1>1, HandlerFacts DEF GoodRow
  <1>3. h.run \notin FakeRuns /\ h.ok => edx[h.run].exists
    BY <1>1, <1>2 DEF GetOrCreate, GoodHandler
  <1>4. PICK x : x = NewRow(h.mode, h.ok, h.status)
    OBVIOUS
  <1>5. PICK y : y = [row[h.run] EXCEPT !.edx = h.ok, !.status = h.status]
    OBVIOUS
  <1>6. GoodRow(edx, h.run, x)
    BY <1>2, <1>3, <1>4, NewRowType DEF GoodRow
  <1>7. GoodRow(edx, h.run, y)
    BY <1>2, <1>3, <1>5, RowClaims
  <1>8. /\ GoodHandler(edx, [h EXCEPT !.pc = "log", !.inst = x])
        /\ GoodHandler(edx, [h EXCEPT !.pc = "status", !.inst = y])
    BY <1>2, <1>6, <1>7, HandlerUpdates
  <1>9. PICK g : /\ Becomes(p, g) /\ GoodHandler(edx, g)
                 /\ row' = row \/ Save(h.run, x)
    BY <1>1, <1>4, <1>5, <1>8 DEF GetOrCreate
  <1>10. edx' = edx /\ paid' \in SUBSET Runs /\ Continues
    BY DEF GetOrCreate, Inv
  <1> QED  BY <1>2, <1>6, <1>9, <1>10, Counters, LocalStep

LEMMA LogCreatedKept ==
  ASSUME Inv, NEW p \in Workers, LogCreated(p)
  PROVE  Inv'
  <1>1. /\ proc[p].run \in Runs /\ edx \in EdxState
        /\ GoodHandler(edx, proc[p]) /\ GoodRow(edx, proc[p].run, proc[p].inst)
    BY HandlerFacts
  <1>2. PICK g : g = Returned(proc[p])
    OBVIOUS
  <1>3. GoodHandler(edx, g)
    BY <1>1, <1>2, ReturnedGood
  <1>4. /\ Becomes(p, g) /\ Save(proc[p].run, proc[p].inst)
        /\ edx' = edx /\ paid' \in SUBSET Runs /\ Continues
    BY <1>2 DEF LogCreated, Inv
  <1> QED  BY <1>1, <1>3, <1>4, Counters, LocalStep

LEMMA SaveStatusKept ==
  ASSUME Inv, NEW p \in Workers, SaveStatus(p)
  PROVE  Inv'
  <1>1. PICK h : h = proc[p]
    OBVIOUS
  <1>2. /\ h.run \in Runs /\ edx \in EdxState
        /\ GoodHandler(edx, h) /\ GoodRow(edx, h.run, h.inst)
    BY <1>1, HandlerFacts
  <1>3. GoodHandler(edx, Returned(h)) /\ GoodHandler(edx, [h EXCEPT !.pc = "mode"])
    BY <1>2, ReturnedGood, HandlerUpdates
  <1>4. PICK g : Becomes(p, g) /\ GoodHandler(edx, g)
    BY <1>1, <1>3 DEF SaveStatus
  <1>5. /\ Save(h.run, h.inst)
        /\ edx' = edx /\ paid' \in SUBSET Runs /\ Continues
    BY <1>1 DEF SaveStatus, Inv
  <1> QED  BY <1>2, <1>4, <1>5, Counters, LocalStep

LEMMA SaveModeKept ==
  ASSUME Inv, NEW p \in Workers, SaveMode(p)
  PROVE  Inv'
  <1>1. PICK h : h = proc[p]
    OBVIOUS
  <1>2. /\ h.run \in Runs /\ edx \in EdxState /\ h.mode \in Modes
        /\ GoodHandler(edx, h) /\ GoodRow(edx, h.run, h.inst)
        /\ "none" \in ChangeStatus
    BY <1>1, HandlerFacts DEF ChangeStatus
  <1>3. PICK x : x = [h.inst EXCEPT !.mode = h.mode]
    OBVIOUS
  <1>4. PICK y : y = [x EXCEPT !.active = TRUE, !.status = "none"]
    OBVIOUS
  <1>5. GoodRow(edx, h.run, x)
    BY <1>2, <1>3, RowUpdates
  <1>6. GoodRow(edx, h.run, y)
    BY <1>2, <1>4, <1>5, RowUpdates
  <1>7. PICK z : Save(h.run, z) /\ GoodRow(edx, h.run, z)
    BY <1>1, <1>3, <1>4, <1>5, <1>6 DEF SaveMode
  <1>8. PICK g : g = Returned(h)
    OBVIOUS
  <1>9. GoodHandler(edx, g)
    BY <1>2, <1>8, ReturnedGood
  <1>10. /\ Becomes(p, g)
         /\ edx' = edx /\ paid' \in SUBSET Runs /\ Continues
    BY <1>1, <1>8 DEF SaveMode, Inv
  <1> QED  BY <1>2, <1>7, <1>9, <1>10, Counters, LocalStep

-----------------------------------------------------------------------------
(* The other saves *)

LEMMA SaveInactiveKept ==
  ASSUME Inv, NEW p \in Workers, SaveInactive(p)
  PROVE  Inv'
  <1>1. PICK h : h = proc[p]
    OBVIOUS
  <1>2. /\ h.run \in Runs /\ edx \in EdxState /\ h.status \in ChangeStatus
        /\ GoodHandler(edx, h) /\ GoodRow(edx, h.run, h.inst)
    BY <1>1, HandlerFacts
  <1>3. "audit" \in Modes
    BY DEF Modes
  <1>4. PICK x : x = [h.inst EXCEPT !.active = FALSE, !.status = h.status]
    OBVIOUS
  <1>5. GoodRow(edx, h.run, x)
    BY <1>2, <1>3, <1>4, RowUpdates
  <1>6. PICK g : g = [h EXCEPT !.pc = "unpay", !.inst = x]
    OBVIOUS
  <1>7. GoodHandler(edx, g)
    BY <1>2, <1>5, <1>6, HandlerUpdates
  <1>8. /\ Becomes(p, g) /\ Save(h.run, x)
        /\ edx' = edx /\ paid' \in SUBSET Runs /\ Continues
    BY <1>1, <1>4, <1>6 DEF SaveInactive, Inv
  <1> QED  BY <1>2, <1>5, <1>7, <1>8, Counters, LocalStep

LEMMA DeletePaidCourseRunKept ==
  ASSUME Inv, NEW p \in Workers, DeletePaidCourseRun(p)
  PROVE  Inv'
  <1>1. PICK h : h = proc[p]
    OBVIOUS
  <1>2. /\ h \in Handler /\ h.run \in Runs /\ h.to \in Runs /\ edx \in EdxState
        /\ GoodRow(edx, h.run, h.inst)
    BY <1>1, HandlerFacts
  <1>3. /\ GoodHandler(edx, Enrolling(h, h.to, "verified", "none"))
        /\ GoodHandler(edx, Idle)
    BY <1>2, EnrollingGood, IdleGood DEF Modes, ChangeStatus
  <1>4. PICK g : Becomes(p, g) /\ GoodHandler(edx, g)
    BY <1>1, <1>3 DEF DeletePaidCourseRun
  <1>5. row' = row /\ edx' = edx /\ paid' \in SUBSET Runs /\ Continues
    BY DEF DeletePaidCourseRun, Inv
  <1> QED  BY <1>2, <1>4, <1>5, Counters, LocalStep

LEMMA FindTargetKept ==
  ASSUME Inv, NEW p \in Workers, FindTarget(p)
  PROVE  Inv'
  <1>1. PICK h : h = proc[p]
    OBVIOUS
  <1>2. /\ h \in Handler /\ h.run \in Runs /\ h.to \in Runs /\ edx \in EdxState
        /\ GoodRow(edx, h.run, h.inst)
    BY <1>1, HandlerFacts
  <1>3. /\ GoodHandler(edx, Enrolling(h, h.to, "verified", "none"))
        /\ GoodHandler(edx, Unenrolling(h, h.to, "unenrolled"))
        /\ GoodHandler(edx, Idle)
    BY <1>2, EnrollingGood, UnenrollingGood, IdleGood DEF Modes, ChangeStatus
  <1>4. PICK g : Becomes(p, g) /\ GoodHandler(edx, g)
    BY <1>1, <1>3 DEF FindTarget
  <1>5. row' = row /\ edx' = edx /\ paid' \in SUBSET Runs /\ Continues
    BY DEF FindTarget, Inv
  <1> QED  BY <1>2, <1>4, <1>5, Counters, LocalStep

\* The steps on PaidCourseRun that end a handler.
LEMMA PaidKept ==
  ASSUME Inv, NEW p \in Workers,
         CreatePaidCourseRun(p) \/ ChangePaymentToRun(p)
  PROVE  Inv'
  <1>1. /\ proc[p].run \in Runs /\ proc[p].to \in Runs /\ edx \in EdxState
        /\ GoodRow(edx, proc[p].run, proc[p].inst)
    BY HandlerFacts
  <1>2. PICK g : g = Idle
    OBVIOUS
  <1>3. GoodHandler(edx, g)
    BY <1>1, <1>2, IdleGood
  <1>4. /\ Becomes(p, g)
        /\ row' = row /\ edx' = edx /\ paid' \in SUBSET Runs /\ Continues
    BY <1>1, <1>2 DEF CreatePaidCourseRun, ChangePaymentToRun, Inv
  <1> QED  BY <1>1, <1>3, <1>4, Counters, LocalStep

LEMMA RetrySaveKept ==
  ASSUME Inv, NEW p \in Workers, RetrySave(p)
  PROVE  Inv'
  <1>1. /\ proc[p].run \in Runs /\ edx \in EdxState
        /\ GoodRow(edx, proc[p].run, proc[p].inst)
    BY HandlerFacts
  <1>2. PICK g : g = Idle
    OBVIOUS
  <1>3. GoodHandler(edx, g)
    BY <1>1, <1>2, IdleGood
  <1>4. /\ Becomes(p, g) /\ Save(proc[p].run, proc[p].inst)
        /\ edx' = edx /\ paid' \in SUBSET Runs /\ Continues
    BY <1>2 DEF RetrySave, Inv
  <1> QED  BY <1>1, <1>3, <1>4, Counters, LocalStep

\* The count stays within the cap because the job loads only rows below it.
LEMMA RetryCountKept ==
  ASSUME Inv, NEW p \in Workers, RetryCount(p)
  PROVE  Inv'
  <1>1. PICK h : h = proc[p]
    OBVIOUS
  <1>2. /\ h.run \in Runs /\ edx \in EdxState /\ h.inst \in Row
        /\ GoodHandler(edx, h) /\ GoodRow(edx, h.run, row[h.run])
    BY <1>1, HandlerFacts
  <1>3. h.inst.retries < MaxRetries
    BY <1>1, <1>2 DEF RetryCount, GoodHandler
  <1>4. h.inst.retries + 1 \in 0 .. MaxRetries
    BY <1>2, <1>3, EnrollmentBoundsAssumption DEF Row
  <1>5. PICK x : x = [row[h.run] EXCEPT !.retries = h.inst.retries + 1]
    OBVIOUS
  <1>6. GoodRow(edx, h.run, x)
    BY <1>2, <1>4, <1>5 DEF GoodRow, Row
  <1>7. PICK g : g = Idle
    OBVIOUS
  <1>8. GoodHandler(edx, g)
    BY <1>2, <1>7, IdleGood
  <1>9. /\ Becomes(p, g) /\ Save(h.run, x)
        /\ edx' = edx /\ paid' \in SUBSET Runs /\ Continues
    BY <1>1, <1>2, <1>5, <1>7 DEF RetryCount, Save, Inv
  <1> QED  BY <1>2, <1>6, <1>8, <1>9, Counters, LocalStep

-----------------------------------------------------------------------------
(* Sync and webhook *)

LEMMA SyncLoadKept ==
  ASSUME Inv, NEW p \in Workers, SyncLoad(p)
  PROVE  Inv'
  <1>1. PICK h : h = proc[p]
    OBVIOUS
  <1>2. /\ h \in Handler /\ h.run \in Runs /\ edx \in EdxState
        /\ GoodHandler(edx, h) /\ GoodRow(edx, h.run, row[h.run])
    BY <1>1, HandlerFacts
  <1>3. PICK x : x = row[h.run]
    OBVIOUS
  <1>4. PICK g : g = [h EXCEPT !.pc = "sync_save", !.inst = x]
    OBVIOUS
  <1>5. h.pc = "sync_load"
    BY <1>1 DEF SyncLoad
  <1>6. GoodHandler(edx, g)
    BY <1>2, <1>3, <1>4, <1>5 DEF GoodHandler, GoodRow, Handler, Labels
  <1>7. /\ Becomes(p, g)
        /\ row' = row /\ edx' = edx /\ paid' \in SUBSET Runs /\ Continues
    BY <1>1, <1>3, <1>4 DEF SyncLoad, Inv
  <1> QED  BY <1>2, <1>6, <1>7, Counters, LocalStep

LEMMA SyncedGood ==
  ASSUME NEW e \in EdxState, NEW r \in Runs, NEW x, GoodRow(e, r, x),
         NEW n \in EdxEnrollment, r \notin FakeRuns => e[r].exists
  PROVE  GoodRow(e, r, Synced(x, n))
  <1>1. /\ "audit" \in Modes /\ "none" \in ChangeStatus
        /\ "unenrolled" \in ChangeStatus /\ n.active \in BOOLEAN
    BY DEF Modes, ChangeStatus, EdxEnrollment
  <1>2. PICK y : y = NewRow("audit", TRUE, "none")
    OBVIOUS
  <1>3. GoodRow(e, r, y)
    BY <1>1, <1>2, NewRowType DEF GoodRow
  <1>4. GoodRow(e, r, [y EXCEPT !.active = n.active])
    BY <1>1, <1>3 DEF GoodRow, Row
  <1>5. /\ GoodRow(e, r, [x EXCEPT !.active = FALSE, !.status = "unenrolled"])
        /\ GoodRow(e, r, [x EXCEPT !.active = TRUE, !.status = "none"])
    BY <1>1, RowUpdates
  <1> QED  BY <1>2, <1>4, <1>5 DEF Synced

LEMMA SyncSaveKept ==
  ASSUME Inv, NEW p \in Workers, SyncSave(p)
  PROVE  Inv'
  <1>1. PICK h : h = proc[p]
    OBVIOUS
  <1>2. /\ h \in Handler /\ h.run \in Runs /\ edx \in EdxState
        /\ h.snap \in EdxEnrollment
        /\ GoodHandler(edx, h) /\ GoodRow(edx, h.run, h.inst)
    BY <1>1, HandlerFacts
  <1>3. PICK x : x = Synced(h.inst, h.snap)
    OBVIOUS
  <1>4. h.run \notin FakeRuns => edx[h.run].exists
    BY <1>1, <1>2 DEF SyncSave, GoodHandler
  <1>5. GoodRow(edx, h.run, x)
    BY <1>2, <1>3, <1>4, SyncedGood
  <1>6. PICK g : g = Idle
    OBVIOUS
  <1>7. GoodHandler(edx, g)
    BY <1>2, <1>6, IdleGood
  <1>8. row' = row \/ Save(h.run, x)
    BY <1>1, <1>3 DEF SyncSave, Save
  <1>9. /\ Becomes(p, g)
        /\ edx' = edx /\ paid' \in SUBSET Runs /\ Continues
    BY <1>6 DEF SyncSave, Inv
  <1> QED  BY <1>2, <1>5, <1>7, <1>8, <1>9, Counters, LocalStep

LEMMA LocalReactivateKept ==
  ASSUME Inv, NEW p \in Workers, LocalReactivate(p)
  PROVE  Inv'
  <1>1. PICK h : h = proc[p]
    OBVIOUS
  <1>2. /\ h \in Handler /\ h.run \in Runs /\ edx \in EdxState
        /\ GoodHandler(edx, h) /\ GoodRow(edx, h.run, h.inst)
        /\ "none" \in ChangeStatus /\ "audit" \in Modes
    BY <1>1, HandlerFacts DEF ChangeStatus, Modes
  <1>3. PICK x : x = [h.inst EXCEPT !.active = TRUE, !.status = "none"]
    OBVIOUS
  <1>4. GoodRow(edx, h.run, x)
    BY <1>2, <1>3, RowUpdates
  <1>5. h.pc = "local_active"
    BY <1>1 DEF LocalReactivate
  <1>6. GoodHandler(edx, [h EXCEPT !.pc = "local_edx", !.inst = x])
    BY <1>2, <1>4, <1>5 DEF GoodHandler, GoodRow, Handler, Labels
  <1>7. GoodHandler(edx, Idle)
    BY <1>2, IdleGood
  <1>8. PICK g : Becomes(p, g) /\ GoodHandler(edx, g)
    BY <1>1, <1>3, <1>6, <1>7 DEF LocalReactivate
  <1>9. /\ Save(h.run, x)
        /\ edx' = edx /\ paid' \in SUBSET Runs /\ Continues
    BY <1>1, <1>3 DEF LocalReactivate, Inv
  <1> QED  BY <1>2, <1>4, <1>8, <1>9, Counters, LocalStep

LEMMA LocalEdxEnrolledKept ==
  ASSUME Inv, NEW p \in Workers, LocalEdxEnrolled(p)
  PROVE  Inv'
  <1>1. PICK h : h = proc[p]
    OBVIOUS
  <1>2. /\ h.run \in Runs /\ edx \in EdxState /\ h.inst \in Row
        /\ GoodHandler(edx, h) /\ "none" \in ChangeStatus
    BY <1>1, HandlerFacts DEF ChangeStatus
  <1>3. PICK x : x = [h.inst EXCEPT !.edx = TRUE]
    OBVIOUS
  <1>4. h.run \notin FakeRuns => edx[h.run].exists
    BY <1>1, <1>2 DEF LocalEdxEnrolled, GoodHandler
  <1>5. GoodRow(edx, h.run, x)
    BY <1>2, <1>3, <1>4, RowClaims
  <1>6. PICK g : g = Idle
    OBVIOUS
  <1>7. GoodHandler(edx, g)
    BY <1>2, <1>6, IdleGood
  <1>8. /\ Becomes(p, g) /\ Save(h.run, x)
        /\ edx' = edx /\ paid' \in SUBSET Runs /\ Continues
    BY <1>1, <1>3, <1>6 DEF LocalEdxEnrolled, Inv
  <1> QED  BY <1>2, <1>5, <1>7, <1>8, Counters, LocalStep

\* A running handler keeps the invariant, whatever its next step is.
LEMMA StepKept ==
  ASSUME Inv, NEW p \in Workers, Step(p)
  PROVE  Inv'
  BY EdxEnrollKept, EdxUnenrollKept, RetryCallKept, GetOrCreateKept,
     LogCreatedKept, SaveStatusKept, SaveModeKept, SaveInactiveKept,
     DeletePaidCourseRunKept, FindTargetKept, PaidKept, RetrySaveKept,
     RetryCountKept, SyncLoadKept, SyncSaveKept, LocalReactivateKept,
     LocalEdxEnrolledKept DEF Step

-----------------------------------------------------------------------------
(* Requests, tasks and commands *)

\* A request that changes no row.
LEMMA BeginStep ==
  ASSUME Inv, NEW p \in Workers, NEW r \in Runs, NEW h, GoodHandler(edx, h),
         Becomes(p, h), row' = row, edx' = edx, paid' \in SUBSET Runs,
         Continues \/ \E op \in AllOperations : Starts(op)
  PROVE  Inv'
  <1>1. GoodRow(edx, r, row[r])
    BY DEF Inv
  <1> QED  BY <1>1, Counters, LocalStep

LEMMA StartEnrollingKept ==
  ASSUME Inv, NEW p \in Workers, NEW op \in AllOperations, NEW keep \in BOOLEAN,
         NEW r \in Runs, NEW m \in Modes, NEW s \in ChangeStatus,
         StartEnrolling(p, op, keep, r, m, s),
         row' = row, edx' = edx, paid' \in SUBSET Runs
  PROVE  Inv'
  <1>1. PICK h : h = Enrolling(Request(op, keep), r, m, s)
    OBVIOUS
  <1>2. edx \in EdxState
    BY DEF Inv
  <1>3. GoodHandler(edx, h)
    BY <1>1, <1>2, RequestType, EnrollingGood
  <1>4. Becomes(p, h) /\ Starts(op)
    BY <1>1 DEF StartEnrolling
  <1> QED  BY <1>3, <1>4, BeginStep

LEMMA EnrollmentsKept ==
  ASSUME Inv, NEW p \in Workers, NEW r \in Runs,
         \/ Enroll(p, r) \/ ApiEnroll(p, r) \/ Purchase(p, r)
         \/ DowngradeLearner(p, r) \/ DowngradeLearnerFromOrder(p, r)
         \/ DeferWithoutTarget(p, r)
  PROVE  Inv'
  <1>1. PICK op \in AllOperations, keep \in BOOLEAN, m \in Modes,
             s \in ChangeStatus : StartEnrolling(p, op, keep, r, m, s)
    BY EnrollmentChoiceAssumption
    DEF Enroll, ApiEnroll, Purchase, DowngradeLearner,
        DowngradeLearnerFromOrder, DeferWithoutTarget, AllOperations, Modes,
        ChangeStatus
  <1>2. row' = row /\ edx' = edx /\ paid' \in SUBSET Runs
    BY DEF Inv, Enroll, ApiEnroll, Purchase, DowngradeLearner,
           DowngradeLearnerFromOrder, DeferWithoutTarget
  <1> QED  BY <1>1, <1>2, StartEnrollingKept

LEMMA UnenrollKept ==
  ASSUME Inv, NEW p \in Workers, NEW r \in Runs, Unenroll(p, r)
  PROVE  Inv'
  <1>1. PICK keep \in BOOLEAN, s \in ChangeStatus :
            Becomes(p, Unenrolling(Request("unenroll", keep), r, s))
    BY EnrollmentChoiceAssumption DEF Unenroll, ChangeStatus
  <1>2. Request("unenroll", keep) \in Handler
    BY RequestType DEF AllOperations
  <1>3. PICK h : h = Unenrolling(Request("unenroll", keep), r, s)
    OBVIOUS
  <1>4. GoodHandler(edx, h)
    BY <1>2, <1>3, UnenrollingGood
  <1>5. /\ row' = row /\ edx' = edx /\ paid' \in SUBSET Runs
        /\ \E op \in AllOperations : Starts(op)
    BY DEF Unenroll, Inv, AllOperations
  <1> QED  BY <1>1, <1>3, <1>4, <1>5, BeginStep

LEMMA DeferEnrollmentKept ==
  ASSUME Inv, NEW p \in Workers, NEW r \in Runs, NEW to \in Runs,
         DeferEnrollment(p, r, to)
  PROVE  Inv'
  <1>1. PICK op \in {"defer", "defer_force"}, keep \in KeepFailed :
            /\ Starts(op)
            /\ Becomes(p, [Request(op, keep) EXCEPT
                    !.pc = "target", !.run = to, !.from = r, !.to = to,
                    !.deferred = (row[r].status = "deferred")])
    BY DEF DeferEnrollment
  <1>2. op \in AllOperations /\ keep \in BOOLEAN
    BY EnrollmentChoiceAssumption DEF AllOperations
  <1>3. PICK q : q = Request(op, keep)
    OBVIOUS
  <1>4. q \in Handler /\ ~q.inst.edx
    BY <1>2, <1>3, RequestType
  <1>5. (row[r].status = "deferred") \in BOOLEAN
    OBVIOUS
  <1>6. PICK b \in BOOLEAN : b = (row[r].status = "deferred")
    BY <1>5
  <1>7. PICK h : h = [q EXCEPT !.pc = "target", !.run = to, !.from = r,
                               !.to = to, !.deferred = b]
    OBVIOUS
  <1>8. GoodHandler(edx, h)
    BY <1>4, <1>7 DEF GoodHandler, Handler, Labels
  <1>9. Becomes(p, h)
    BY <1>1, <1>3, <1>6, <1>7
  <1>10. row' = row /\ edx' = edx /\ paid' \in SUBSET Runs
    BY DEF DeferEnrollment, Inv
  <1> QED  BY <1>1, <1>2, <1>8, <1>9, <1>10, BeginStep

LEMMA RetryFailedEnrollmentKept ==
  ASSUME Inv, NEW p \in Workers, NEW r \in Runs, RetryFailedEnrollment(p, r)
  PROVE  Inv'
  <1>1. PICK q : q = Request("retry", FALSE)
    OBVIOUS
  <1>2. q \in Handler
    BY <1>1, RequestType DEF AllOperations
  <1>3. PICK h : h = [q EXCEPT !.pc = "retry", !.run = r, !.inst = row[r]]
    OBVIOUS
  <1>4. GoodRow(edx, r, row[r]) /\ row[r].retries < MaxRetries
    BY DEF Inv, RetryFailedEnrollment, Repairable
  <1>5. GoodHandler(edx, h)
    BY <1>2, <1>3, <1>4 DEF GoodHandler, GoodRow, Handler, Labels
  <1>6. /\ Becomes(p, h)
        /\ row' = row /\ edx' = edx /\ paid' \in SUBSET Runs /\ Continues
    BY <1>1, <1>3 DEF RetryFailedEnrollment, Inv
  <1> QED  BY <1>5, <1>6, BeginStep

LEMMA SyncFetchKept ==
  ASSUME Inv, NEW p \in Workers, NEW r \in Runs, SyncFetch(p, r)
  PROVE  Inv'
  <1>1. PICK q : q = Request("sync", FALSE)
    OBVIOUS
  <1>2. q \in Handler /\ ~q.inst.edx
    BY <1>1, RequestType DEF AllOperations
  <1>3. PICK h : h = [q EXCEPT !.pc = "sync_load", !.run = r, !.snap = edx[r]]
    OBVIOUS
  <1>4. edx[r] \in EdxEnrollment /\ edx[r].exists
    BY DEF Inv, EdxState, SyncFetch
  <1>5. GoodHandler(edx, h)
    BY <1>2, <1>3, <1>4 DEF GoodHandler, Handler, Labels
  <1>6. /\ Becomes(p, h)
        /\ row' = row /\ edx' = edx /\ paid' \in SUBSET Runs /\ Continues
    BY <1>1, <1>3 DEF SyncFetch, Inv
  <1> QED  BY <1>5, <1>6, BeginStep

LEMMA CreateLocalEnrollmentKept ==
  ASSUME Inv, NEW p \in Workers, NEW r \in Runs, CreateLocalEnrollment(p, r)
  PROVE  Inv'
  <1>1. PICK q : q = [Request("webhook", FALSE) EXCEPT !.run = r]
    OBVIOUS
  <1>2. q \in Handler /\ q.run = r
    <2>1. Request("webhook", FALSE) \in Handler
      BY RequestType DEF AllOperations
    <2> QED  BY <1>1, <2>1 DEF Handler
  <1>3. /\ edx \in EdxState /\ edx[r].exists
        /\ GoodRow(edx, r, row[r])
    BY DEF Inv, CreateLocalEnrollment
  <1>4. PICK x : x = NewRow("audit", TRUE, "none")
    OBVIOUS
  <1>5. GoodRow(edx, r, x)
    BY <1>3, <1>4, NewRowType DEF GoodRow, Modes, ChangeStatus
  <1>6. GoodHandler(edx, [q EXCEPT !.pc = "log", !.inst = x])
    BY <1>2, <1>5 DEF GoodHandler, GoodRow, Handler, Labels
  <1>7. \A l \in {"local_edx", "local_active"} :
            GoodHandler(edx, [q EXCEPT !.inst = row[r], !.pc = l])
    BY <1>2, <1>3 DEF GoodHandler, GoodRow, Handler, Labels
  <1>8. PICK h : /\ Becomes(p, h) /\ GoodHandler(edx, h)
                 /\ row' = row \/ Save(r, x)
    BY <1>1, <1>4, <1>6, <1>7 DEF CreateLocalEnrollment
  <1>9. /\ edx' = edx /\ paid' \in SUBSET Runs
        /\ \E op \in AllOperations : Starts(op)
    BY DEF CreateLocalEnrollment, Inv, AllOperations
  <1> QED  BY <1>5, <1>8, <1>9, Counters, LocalStep

LEMMA BeginKept ==
  ASSUME Inv, NEW p \in Workers, NEW r \in Runs, Begin(p, r)
  PROVE  Inv'
  BY EnrollmentsKept, UnenrollKept, DeferEnrollmentKept,
     RetryFailedEnrollmentKept, SyncFetchKept, CreateLocalEnrollmentKept
  DEF Begin

-----------------------------------------------------------------------------
(* edX, staff and crashes *)

LEMMA CrashKept ==
  ASSUME Inv, NEW p \in Workers, Crash(p)
  PROVE  Inv'
  <1>1. /\ edx \in EdxState /\ proc[p].run \in Runs
        /\ GoodRow(edx, proc[p].run, proc[p].inst)
    BY HandlerFacts
  <1>2. PICK g : g = Idle
    OBVIOUS
  <1>3. GoodHandler(edx, g)
    BY <1>1, <1>2, IdleGood
  <1>4. /\ Becomes(p, g) /\ row' = row /\ edx' = edx
        /\ paid' \in SUBSET Runs /\ starts' \in 0 .. MaxStarts
        /\ crashes' \in 0 .. MaxCrashes
    BY <1>2, EnrollmentBoundsAssumption DEF Crash, Inv
  <1> QED  BY <1>1, <1>3, <1>4, LocalStep

LEMMA ResetKept ==
  ASSUME Inv, NEW r \in Runs, ResetRetryCount(r)
  PROVE  Inv'
  <1>1. PICK x : x = [row[r] EXCEPT !.retries = 0]
    OBVIOUS
  <1>2. edx \in EdxState /\ Grows(edx, edx) /\ GoodRow(edx, r, row[r])
    BY DEF Inv, Grows
  <1>3. GoodRow(edx, r, x)
    BY <1>1, <1>2, EnrollmentBoundsAssumption DEF GoodRow, Row
  <1>4. Save(r, x)
    BY <1>1 DEF ResetRetryCount, Save, Inv
  <1>5. /\ row' \in [Runs -> Row]
        /\ \A s \in Runs : GoodRow(edx, s, row'[s])
    BY <1>2, <1>3, <1>4, RowsKept
  <1>6. /\ starts' \in 0 .. MaxStarts /\ crashes' \in 0 .. MaxCrashes
        /\ edx' = edx /\ paid' = paid /\ proc' = proc
    BY Counters DEF ResetRetryCount, AllOperations
  <1> QED  BY <1>5, <1>6 DEF Inv

LEMMA EdxSideKept ==
  ASSUME Inv, NEW r \in Runs,
         (\E m \in Modes : EnrolledInEdx(r, m)) \/ UnenrolledInEdx(r)
  PROVE  Inv'
  <1>1. edx \in EdxState
    BY DEF Inv
  <1>2. PICK f : f = edx'
    OBVIOUS
  <1>3. f \in EdxState /\ Grows(edx, f)
    <2>1. ASSUME NEW m \in Modes, EnrolledInEdx(r, m)
          PROVE  f \in EdxState /\ Grows(edx, f)
      <3>1. f = [edx EXCEPT ![r] = InEdx(m)]
        BY <1>2, <2>1 DEF EnrolledInEdx
      <3> QED  BY <1>1, <3>1, EdxCalls
    <2>2. ASSUME UnenrolledInEdx(r)
          PROVE  f \in EdxState /\ Grows(edx, f)
      <3>1. f = [edx EXCEPT ![r].active = FALSE]
        BY <1>2, <2>2 DEF UnenrolledInEdx
      <3>2. "audit" \in Modes
        BY DEF Modes
      <3> QED  BY <1>1, <3>1, <3>2, EdxCalls
    <2> QED  BY <2>1, <2>2
  <1>4. /\ \A s \in Runs : GoodRow(f, s, row[s])
        /\ \A q \in Workers : GoodHandler(f, proc[q])
    BY <1>1, <1>3, GrowsGood DEF Inv
  <1>5. /\ starts' \in 0 .. MaxStarts /\ crashes' \in 0 .. MaxCrashes
        /\ row' = row /\ paid' = paid /\ proc' = proc
    BY Counters DEF EnrolledInEdx, UnenrolledInEdx, AllOperations
  <1> QED  BY <1>2, <1>3, <1>4, <1>5 DEF Inv

-----------------------------------------------------------------------------
(* Theorems *)

LEMMA InitInv == Init => Inv
  <1> SUFFICES ASSUME Init PROVE Inv
    OBVIOUS
  <1>1. PICK left \in SUBSET FormerRuns :
           /\ row = [r \in Runs |-> IF r \in left THEN LeftRow ELSE NoRow]
           /\ edx = [r \in Runs |-> IF r \in left THEN LeftEdx ELSE NotInEdx]
           /\ starts = IF left = {} THEN 0 ELSE 1
    BY DEF Init
  <1>2. LeftEdx \in EdxEnrollment /\ NotInEdx \in EdxEnrollment
    BY DEF LeftEdx, InEdx, NotInEdx, EdxEnrollment, Modes
  <1>3. edx \in EdxState
    BY <1>1, <1>2 DEF EdxState
  <1>4. GoodHandler(edx, Idle) /\ Idle \in Handler
    BY <1>3, IdleGood DEF GoodHandler
  <1>5. LeftRow \in Row /\ ~LeftRow.edx
    BY EnrollmentBoundsAssumption DEF LeftRow, Row, Modes, ChangeStatus
  <1>6. row \in [Runs -> Row] /\ \A r \in Runs : GoodRow(edx, r, row[r])
    BY <1>1, <1>5, NoRowType DEF GoodRow
  <1>7. starts \in 0 .. MaxStarts
    BY <1>1, EnrollmentBoundsAssumption
  <1>8. /\ paid \in SUBSET Runs /\ crashes \in 0 .. MaxCrashes
        /\ proc \in [Workers -> Handler]
        /\ \A p \in Workers : proc[p] = Idle
    BY <1>4, EnrollmentBoundsAssumption DEF Init
  <1> QED  BY <1>3, <1>4, <1>6, <1>7, <1>8 DEF Inv

LEMMA NextInv == Inv /\ [Next]_vars => Inv'
  <1> SUFFICES ASSUME Inv, [Next]_vars PROVE Inv'
    OBVIOUS
  <1>1. CASE UNCHANGED vars
    BY <1>1 DEF vars, Inv
  <1>2. CASE Next
    BY <1>2, StepKept, CrashKept, BeginKept, ResetKept, EdxSideKept DEF Next
  <1> QED  BY <1>1, <1>2

LEMMA InvHolds == Spec => []Inv
  BY InitInv, NextInv, PTL DEF Spec

\* Every row, edX enrollment and handler keeps its shape, and the retry count
\* of a row never passes OPENEDX_ENROLLMENT_REPAIR_MAX_RETRIES, however many
\* repair jobs overlap.
THEOREM EnrollmentTypes == Spec => []TypeOK
  BY InvHolds, InvIsTypeAndEvidence, PTL

\* A row with edx_enrolled set has an enrollment in edX: no stale instance
\* that create_run_enrollments, the repair job, the sync or the webhook saves
\* claims one that edX never had.
THEOREM EnrolledRowsAreInEdx == Spec => []EdxEvidence
  BY InvHolds, InvIsTypeAndEvidence, PTL

\* The part of it that a reader of the table sees.
COROLLARY EdxEnrolledIsTrue == Spec => []EnrolledHasEdxRecord
  <1>1. EdxEvidence => EnrolledHasEdxRecord
    BY DEF EdxEvidence
  <1> QED  BY <1>1, EnrolledRowsAreInEdx, PTL

-----------------------------------------------------------------------------
(* A verified place is kept *)

\* Operations one at a time, of a learner who enrolls, buys and defers, and the
\* repair job; edX is called for every run.
OneAtATime ==
    /\ FakeRuns = {}
    /\ Operations \subseteq {"enroll", "purchase", "defer", "defer_force", "retry"}
    /\ \A p, q \in Workers : p = q

\* A row x, with e in edX, that is a verified place; one that no deferral has
\* begun to leave; and one that a deferral has.
Verified(x) == x.active /\ x.mode = "verified"
Place(x, e) == Verified(x) /\ (~x.edx \/ e = InEdx("verified"))
Firm(x, e) == Place(x, e) /\ x.status = "none"
Leaving(x) == Verified(x) /\ x.status # "none"

FirmElsewhere(R, E, r) == \E q \in Runs \ {r} : Firm(R[q], E[q])

\* A run that a deferral has begun to leave is not the learner's last place.
LeavingIsCovered ==
    (\E r \in Runs : Leaving(row[r])) => \E q \in Runs : Firm(row[q], edx[q])

Enrolls(h) == h.pc \in {"enroll", "row", "log", "status", "mode"}
Defers(h) == h.op \in {"defer", "defer_force"}

\* A handler knows the row it is about to save, and takes a verified place away
\* only when there is another.
Careful(R, E, h) ==
    LET x == R[h.run]
        e == E[h.run]
    IN  /\ h.pc \notin {"sync_load", "sync_save", "local_active", "local_edx"}
        /\ h.pc # "idle" => h.op \in {"enroll", "purchase", "defer", "defer_force", "retry"}
        /\ h.pc # "idle" /\ Defers(h) => h.from # h.to
        /\ Enrolls(h) =>
              /\ h.op # "retry"
              /\ h.op = "purchase" => h.mode = "verified" /\ h.keep
              /\ h.op = "enroll" => h.mode = "audit"
              /\ Defers(h) => h.run = IF h.mode = "verified" THEN h.to ELSE h.from
              /\ h.mode = "verified" => h.status = "none"
              /\ h.mode = "audit" => FirmElsewhere(R, E, h.run) \/ ~Verified(x)
              /\ h.pc # "enroll" /\ h.ok => e = InEdx(h.mode)
        /\ h.pc = "log" => x = NewRow(h.mode, h.ok, h.status) /\ h.inst = x
        /\ h.pc = "status" => h.inst = [x EXCEPT !.edx = h.ok, !.status = h.status]
        /\ h.pc = "mode" => h.inst = x /\ x.edx = h.ok /\ x.status = h.status
        /\ h.pc \in {"unenroll", "inactive"} =>
              /\ Defers(h)
              /\ h.inst.mode = "audit" /\ x.mode = "audit"
        /\ h.pc \in {"target", "unenroll", "inactive", "unpay", "move"} => Defers(h)
        /\ h.pc \in {"retry", "count"} => h.inst = x /\ x.active /\ ~x.edx
        /\ h.pc = "retried" =>
              /\ h.inst = [x EXCEPT !.edx = TRUE]
              /\ ~x.edx /\ e = InEdx(x.mode)

PlacesKept == LeavingIsCovered /\ \A p \in Workers : Careful(row, edx, proc[p])

-----------------------------------------------------------------------------
(* What a step on one run does to the places *)

\* Row y with d in edX becomes x with e and stays what it was.
Steady(y, d, x, e) ==
    /\ Place(y, d) => Place(x, e)
    /\ Firm(y, d) => Firm(x, e)
    /\ Leaving(x) => Leaving(y)

OnlyRun(r, x, e) ==
    /\ row' \in [Runs -> Row]
    /\ \A q \in Runs : /\ row'[q] = IF q = r THEN x ELSE row[q]
                       /\ edx'[q] = IF q = r THEN e ELSE edx[q]

LEMMA HasSeatIsPlace ==
  /\ HasSeat <=> \E r \in Runs : Place(row[r], edx[r])
  /\ HasSeat' <=> \E r \in Runs : Place(row'[r], edx'[r])
  BY DEF HasSeat, Place, Verified

LEMMA ElsewhereKept ==
  ASSUME NEW r \in Runs, NEW x, NEW e, OnlyRun(r, x, e), FirmElsewhere(row, edx, r)
  PROVE  FirmElsewhere(row', edx', r)
  BY DEF OnlyRun, FirmElsewhere

LEMMA PlaceStep ==
  ASSUME OneAtATime, PlacesKept, proc \in [Workers -> Handler],
         NEW p \in Workers, NEW r \in Runs, NEW x, NEW e, NEW g,
         OnlyRun(r, x, e), Becomes(p, g), Careful(row', edx', g),
         FirmElsewhere(row, edx, r) \/ Steady(row[r], edx[r], x, e)
  PROVE  PlacesKept' /\ (HasSeat => HasSeat')
  <1>1. \A q \in Workers : Careful(row', edx', proc'[q])
    <2>1. proc'[p] = g
      BY DEF Becomes
    <2> QED  BY <2>1 DEF OneAtATime
  <1>2. CASE FirmElsewhere(row, edx, r)
    <2>1. PICK q \in Runs : Firm(row'[q], edx'[q])
      BY <1>2, ElsewhereKept DEF FirmElsewhere
    <2>2. LeavingIsCovered'
      BY <2>1 DEF LeavingIsCovered
    <2>3. HasSeat'
      BY <2>1, HasSeatIsPlace DEF Firm
    <2> QED  BY <1>1, <2>2, <2>3 DEF PlacesKept
  <1>3. CASE Steady(row[r], edx[r], x, e)
    <2>1. \A q \in Runs : /\ Place(row[q], edx[q]) => Place(row'[q], edx'[q])
                          /\ Firm(row[q], edx[q]) => Firm(row'[q], edx'[q])
                          /\ Leaving(row'[q]) => Leaving(row[q])
      BY <1>3 DEF Steady, OnlyRun
    <2>2. LeavingIsCovered'
      BY <2>1 DEF LeavingIsCovered, PlacesKept
    <2>3. HasSeat => HasSeat'
      BY <2>1, HasSeatIsPlace
    <2> QED  BY <1>1, <2>2, <2>3 DEF PlacesKept
  <1> QED  BY <1>2, <1>3

\* A step that saves nothing and calls nobody.
LEMMA QuietStep ==
  ASSUME OneAtATime, Inv, PlacesKept, NEW p \in Workers, NEW g,
         Becomes(p, g), Careful(row, edx, g), row' = row, edx' = edx
  PROVE  PlacesKept' /\ (HasSeat => HasSeat')
  <1>1. PICK r \in Runs : TRUE
    BY EnrollmentRunsAssumption
  <1>2. OnlyRun(r, row[r], edx[r])
    BY DEF OnlyRun, Inv
  <1>3. Steady(row[r], edx[r], row[r], edx[r])
    BY DEF Steady
  <1> QED  BY <1>2, <1>3, PlaceStep DEF Inv

LEMMA SavedRow ==
  ASSUME Inv, NEW r \in Runs, NEW x \in Row, Save(r, x), edx' = edx
  PROVE  OnlyRun(r, x, edx[r])
  BY DEF Save, OnlyRun, Inv

LEMMA CalledRun ==
  ASSUME Inv, NEW r \in Runs, NEW e, row' = row,
         edx' = [edx EXCEPT ![r] = e] \/ (edx' = edx /\ e = edx[r])
  PROVE  OnlyRun(r, row[r], e)
  BY DEF OnlyRun, Inv, EdxState

-----------------------------------------------------------------------------
(* Careful handlers *)

LEMMA IdleCareful ==
  ASSUME NEW R, NEW E
  PROVE  Careful(R, E, Idle)
  <1>1. Idle.pc = "idle"
    BY DEF Idle
  <1> QED  BY <1>1 DEF Careful, Enrolls

LEMMA EnrollingFields ==
  ASSUME NEW h \in Handler, NEW r \in Runs, NEW m, NEW s, FakeRuns = {}
  PROVE  /\ Enrolling(h, r, m, s).pc = "enroll"
         /\ Enrolling(h, r, m, s).run = r
         /\ Enrolling(h, r, m, s).mode = m
         /\ Enrolling(h, r, m, s).status = s
         /\ Enrolling(h, r, m, s).op = h.op
         /\ Enrolling(h, r, m, s).keep = h.keep
         /\ Enrolling(h, r, m, s).from = h.from
         /\ Enrolling(h, r, m, s).to = h.to
  BY DEF Enrolling, Handler

LEMMA EnrollingCareful ==
  ASSUME OneAtATime, NEW R, NEW E, NEW h \in Handler, NEW r \in Runs,
         NEW m \in Modes, NEW s,
         h.op \in {"enroll", "purchase", "defer", "defer_force"},
         Defers(h) => h.from # h.to /\ r = IF m = "verified" THEN h.to ELSE h.from,
         h.op = "purchase" => m = "verified" /\ h.keep,
         h.op = "enroll" => m = "audit",
         m = "verified" => s = "none",
         m = "audit" => FirmElsewhere(R, E, r) \/ ~Verified(R[r])
  PROVE  Careful(R, E, Enrolling(h, r, m, s))
  <1>1. PICK g : g = Enrolling(h, r, m, s)
    OBVIOUS
  <1>2. /\ g.pc = "enroll" /\ g.run = r /\ g.mode = m /\ g.status = s
        /\ g.op = h.op /\ g.keep = h.keep /\ g.from = h.from /\ g.to = h.to
    BY <1>1, EnrollingFields DEF OneAtATime
  <1>3. Careful(R, E, g)
    BY <1>2 DEF Careful, Enrolls, Defers
  <1> QED  BY <1>1, <1>3

\* What create_run_enrollments leaves to its caller.
LEMMA ReturnedCareful ==
  ASSUME OneAtATime, NEW R, NEW E, NEW h \in Handler,
         h.op \in {"enroll", "purchase", "defer", "defer_force"},
         Defers(h) => h.from # h.to /\ h.run = IF h.mode = "verified" THEN h.to ELSE h.from,
         h.mode = "verified" => Firm(R[h.run], E[h.run])
  PROVE  Careful(R, E, Returned(h))
  <1>1. \A l \in {"pay", "move"} : h.op # "enroll" /\ (l = "move" => Defers(h)) =>
           Careful(R, E, [h EXCEPT !.pc = l])
    <2> SUFFICES ASSUME NEW l \in {"pay", "move"}, l = "move" => Defers(h)
                 PROVE  Careful(R, E, [h EXCEPT !.pc = l])
      OBVIOUS
    <2>1. PICK g : g = [h EXCEPT !.pc = l]
      OBVIOUS
    <2>2. g.pc = l /\ g.op = h.op /\ g.from = h.from /\ g.to = h.to
      BY <2>1 DEF Handler
    <2>3. Careful(R, E, g)
      BY <2>2 DEF Careful, Enrolls, Defers
    <2> QED  BY <2>1, <2>3
  <1>2. ASSUME Defers(h), h.run = h.to
        PROVE  Careful(R, E, Enrolling(h, h.from, "audit", "deferred"))
    <2>1. h.mode = "verified" /\ h.from \in Runs /\ h.to \in Runs /\ h.from # h.to
      BY <1>2 DEF Handler, Modes
    <2>2. FirmElsewhere(R, E, h.from)
      BY <1>2, <2>1 DEF FirmElsewhere
    <2>3. h.op # "purchase" /\ h.op # "enroll"
      BY <1>2 DEF Defers
    <2> QED  BY <1>2, <2>1, <2>2, <2>3, EnrollingCareful DEF Modes
  <1>3. CASE h.op = "enroll"
    BY <1>3, IdleCareful DEF Returned
  <1>4. CASE h.op = "purchase"
    BY <1>1, <1>4 DEF Returned
  <1>5. CASE Defers(h)
    BY <1>1, <1>2, <1>5, IdleCareful DEF Returned, Defers
  <1> QED  BY <1>3, <1>4, <1>5 DEF Defers

-----------------------------------------------------------------------------
(* The steps of create_run_enrollments *)

LEMMA CarefulFacts ==
  ASSUME Inv, PlacesKept, NEW p \in Workers
  PROVE  /\ Careful(row, edx, proc[p])
         /\ proc[p] \in Handler /\ proc[p].run \in Runs /\ proc[p].mode \in Modes
         /\ proc[p].inst \in Row /\ row[proc[p].run] \in Row
         /\ proc[p].from \in Runs /\ proc[p].to \in Runs
  BY HandlerFacts DEF PlacesKept, GoodRow

LEMMA EnrollsFacts ==
  ASSUME NEW R, NEW E, NEW h, Careful(R, E, h), Enrolls(h)
  PROVE  /\ h.op \in {"enroll", "purchase", "defer", "defer_force"}
         /\ Defers(h) => /\ h.from # h.to
                         /\ h.run = IF h.mode = "verified" THEN h.to ELSE h.from
  <1>1. h.pc # "idle"
    BY DEF Enrolls
  <1> QED  BY <1>1 DEF Careful

LEMMA EdxEnrollCareful ==
  ASSUME OneAtATime, Inv, PlacesKept, NEW p \in Workers, NEW a \in Answers, EdxEnroll(p, a)
  PROVE  PlacesKept' /\ (HasSeat => HasSeat')
  <1>1. PICK h : h = proc[p]
    OBVIOUS
  <1>2. /\ Careful(row, edx, h) /\ h \in Handler /\ h.run \in Runs /\ h.mode \in Modes
        /\ h.pc = "enroll" /\ Enrolls(h)
    BY <1>1, CarefulFacts DEF EdxEnroll, Enrolls
  <1>3. PICK e : e = IF CarriedOut(a) THEN InEdx(h.mode) ELSE edx[h.run]
    OBVIOUS
  <1>4. OnlyRun(h.run, row[h.run], e)
    BY <1>1, <1>2, <1>3, CalledRun DEF EdxEnroll
  <1>5. \/ FirmElsewhere(row, edx, h.run)
        \/ Steady(row[h.run], edx[h.run], row[h.run], e)
    <2>1. CASE h.mode = "verified"
      BY <1>3, <2>1 DEF Steady, Place, Firm
    <2>2. CASE h.mode = "audit"
      BY <1>2, <2>2 DEF Careful, Steady, Place, Firm
    <2> QED  BY <1>2, <2>1, <2>2 DEF Modes
  <1>6. PICK ok \in BOOLEAN : ok = (a = "ok")
    OBVIOUS
  <1>7. PICK d : d = [h EXCEPT !.pc = "row", !.ok = ok]
    OBVIOUS
  <1>8. /\ d.pc = "row" /\ d.ok = ok /\ d.run = h.run /\ d.mode = h.mode
        /\ d.status = h.status /\ d.op = h.op /\ d.keep = h.keep
        /\ d.from = h.from /\ d.to = h.to
    BY <1>2, <1>7 DEF Handler
  <1>9. edx'[h.run] = e /\ row'[h.run] = row[h.run]
    BY <1>2, <1>4 DEF OnlyRun
  <1>10. FirmElsewhere(row, edx, h.run) => FirmElsewhere(row', edx', h.run)
    BY <1>2, <1>4, ElsewhereKept
  <1>11. Careful(row', edx', d)
    <2>1. ok => e = InEdx(h.mode)
      BY <1>3, <1>6 DEF CarriedOut
    <2>2. h.mode = "audit" => FirmElsewhere(row', edx', h.run) \/ ~Verified(row'[h.run])
      BY <1>2, <1>9, <1>10 DEF Careful
    <2> QED  BY <1>2, <1>8, <1>9, <2>1, <2>2 DEF Careful, Enrolls, Defers
  <1>12. CASE Becomes(p, d)
    BY <1>2, <1>4, <1>5, <1>11, <1>12, PlaceStep DEF Inv
  <1>13. CASE Becomes(p, Returned(d)) /\ ~ok /\ ~h.keep
    <2>1. h.op \in {"enroll", "defer", "defer_force"}
      BY <1>2, <1>13 DEF Careful
    <2>2. Returned(d) = Idle
      BY <1>8, <1>13, <2>1 DEF Returned
    <2> QED  BY <1>2, <1>4, <1>5, <1>13, <2>2, IdleCareful, PlaceStep DEF Inv
  <1>14. Becomes(p, d) \/ (Becomes(p, Returned(d)) /\ ~ok /\ ~h.keep)
    BY <1>1, <1>6, <1>7 DEF EdxEnroll
  <1> QED  BY <1>12, <1>13, <1>14

LEMMA GetOrCreateCareful ==
  ASSUME OneAtATime, Inv, PlacesKept, NEW p \in Workers, GetOrCreate(p)
  PROVE  PlacesKept' /\ (HasSeat => HasSeat')
  <1>1. PICK h : h = proc[p]
    OBVIOUS
  <1>2. /\ Careful(row, edx, h) /\ h \in Handler /\ h.run \in Runs /\ h.mode \in Modes
        /\ h.pc = "row" /\ Enrolls(h) /\ row[h.run] \in Row
    BY <1>1, CarefulFacts DEF GetOrCreate, Enrolls
  <1>3. PICK new : new = NewRow(h.mode, h.ok, h.status)
    OBVIOUS
  <1>4. new \in Row /\ new.active /\ new.mode = h.mode /\ new.edx = h.ok
        /\ new.status = h.status
    BY <1>2, <1>3, EnrollmentBoundsAssumption DEF NewRow, Row, Handler
  <1>5. CASE Save(h.run, new) /\ Becomes(p, [h EXCEPT !.pc = "log", !.inst = new])
    <2>1. OnlyRun(h.run, new, edx[h.run])
      BY <1>2, <1>4, <1>5, SavedRow DEF GetOrCreate
    <2>2. \/ FirmElsewhere(row, edx, h.run)
          \/ Steady(row[h.run], edx[h.run], new, edx[h.run])
      <3>1. CASE h.mode = "verified"
        BY <1>2, <1>4, <3>1 DEF Careful, Steady, Place, Firm, Leaving, Verified
      <3>2. CASE h.mode = "audit"
        BY <1>2, <1>4, <3>2 DEF Careful, Steady, Place, Firm, Leaving, Verified
      <3> QED  BY <1>2, <3>1, <3>2 DEF Modes
    <2>3. PICK g : g = [h EXCEPT !.pc = "log", !.inst = new]
      OBVIOUS
    <2>4. /\ g.pc = "log" /\ g.inst = new /\ g.ok = h.ok /\ g.run = h.run
          /\ g.mode = h.mode /\ g.status = h.status /\ g.op = h.op /\ g.keep = h.keep
          /\ g.from = h.from /\ g.to = h.to
      BY <1>2, <2>3 DEF Handler
    <2>5. row'[h.run] = new /\ edx'[h.run] = edx[h.run]
      BY <1>2, <2>1 DEF OnlyRun
    <2>6. h.mode = "audit" => ~Verified(new)
      BY <1>4 DEF Verified
    <2>7. Careful(row', edx', g)
      BY <1>2, <1>3, <2>4, <2>5, <2>6 DEF Careful, Enrolls, Defers
    <2> QED  BY <1>2, <1>5, <2>1, <2>2, <2>3, <2>7, PlaceStep DEF Inv
  <1>6. PICK old : old = [row[h.run] EXCEPT !.edx = h.ok, !.status = h.status]
    OBVIOUS
  <1>7. CASE Becomes(p, [h EXCEPT !.pc = "status", !.inst = old]) /\ row' = row
    <2>1. PICK g : g = [h EXCEPT !.pc = "status", !.inst = old]
      OBVIOUS
    <2>2. /\ g.pc = "status" /\ g.inst = old /\ g.ok = h.ok /\ g.run = h.run
          /\ g.mode = h.mode /\ g.status = h.status /\ g.op = h.op /\ g.keep = h.keep
          /\ g.from = h.from /\ g.to = h.to
      BY <1>2, <2>1 DEF Handler
    <2>3. Careful(row, edx, g)
      BY <1>2, <1>6, <2>2 DEF Careful, Enrolls, Defers
    <2>4. edx' = edx
      BY DEF GetOrCreate
    <2> QED  BY <1>7, <2>1, <2>3, <2>4, QuietStep
  <1> QED  BY <1>1, <1>3, <1>5, <1>6, <1>7 DEF GetOrCreate

LEMMA LogCreatedCareful ==
  ASSUME OneAtATime, Inv, PlacesKept, NEW p \in Workers, LogCreated(p)
  PROVE  PlacesKept' /\ (HasSeat => HasSeat')
  <1>1. PICK h : h = proc[p]
    OBVIOUS
  <1>2. /\ Careful(row, edx, h) /\ h \in Handler /\ h.run \in Runs /\ h.mode \in Modes
        /\ h.pc = "log" /\ Enrolls(h)
    BY <1>1, CarefulFacts DEF LogCreated, Enrolls
  <1>3. h.inst = row[h.run] /\ row[h.run] = NewRow(h.mode, h.ok, h.status)
    BY <1>2 DEF Careful
  <1>4. row' = row /\ edx' = edx /\ Becomes(p, Returned(h))
    BY <1>1, <1>2, <1>3 DEF LogCreated, Save, Inv
  <1>5. h.mode = "verified" => Firm(row[h.run], edx[h.run])
    BY <1>2, <1>3 DEF Careful, Firm, Place, Verified, NewRow
  <1>6. Careful(row, edx, Returned(h))
    BY <1>2, <1>5, EnrollsFacts, ReturnedCareful
  <1> QED  BY <1>4, <1>6, QuietStep

LEMMA SaveStatusCareful ==
  ASSUME OneAtATime, Inv, PlacesKept, NEW p \in Workers, SaveStatus(p)
  PROVE  PlacesKept' /\ (HasSeat => HasSeat')
  <1>1. PICK h : h = proc[p]
    OBVIOUS
  <1>2. /\ Careful(row, edx, h) /\ h \in Handler /\ h.run \in Runs /\ h.mode \in Modes
        /\ h.pc = "status" /\ Enrolls(h) /\ h.inst \in Row /\ row[h.run] \in Row
    BY <1>1, CarefulFacts DEF SaveStatus, Enrolls
  <1>3. PICK x : x = h.inst
    OBVIOUS
  <1>4. x = [row[h.run] EXCEPT !.edx = h.ok, !.status = h.status]
    BY <1>2, <1>3 DEF Careful
  <1>5. /\ x.active = row[h.run].active /\ x.mode = row[h.run].mode
        /\ x.edx = h.ok /\ x.status = h.status /\ x \in Row
    BY <1>2, <1>3, <1>4 DEF Row
  <1>6. OnlyRun(h.run, x, edx[h.run])
    BY <1>1, <1>2, <1>3, SavedRow DEF SaveStatus
  <1>7. \/ FirmElsewhere(row, edx, h.run)
        \/ Steady(row[h.run], edx[h.run], x, edx[h.run])
    <2>1. CASE h.mode = "verified"
      BY <1>2, <1>5, <2>1 DEF Careful, Steady, Place, Firm, Leaving, Verified
    <2>2. CASE h.mode = "audit"
      BY <1>2, <1>5, <2>2 DEF Careful, Steady, Place, Firm, Leaving, Verified
    <2> QED  BY <1>2, <2>1, <2>2 DEF Modes
  <1>8. row'[h.run] = x /\ edx'[h.run] = edx[h.run]
    BY <1>2, <1>6 DEF OnlyRun
  <1>9. FirmElsewhere(row, edx, h.run) => FirmElsewhere(row', edx', h.run)
    BY <1>2, <1>6, ElsewhereKept
  <1>10. CASE h.inst.active /\ h.inst.mode = h.mode /\ Becomes(p, Returned(h))
    <2>1. h.mode = "verified" => Firm(row'[h.run], edx'[h.run])
      BY <1>2, <1>3, <1>5, <1>8, <1>10 DEF Careful, Firm, Place, Verified
    <2>2. Careful(row', edx', Returned(h))
      BY <1>2, <2>1, EnrollsFacts, ReturnedCareful
    <2> QED  BY <1>2, <1>6, <1>7, <1>10, <2>2, PlaceStep DEF Inv
  <1>11. CASE Becomes(p, [h EXCEPT !.pc = "mode"])
    <2>1. PICK g : g = [h EXCEPT !.pc = "mode"]
      OBVIOUS
    <2>2. /\ g.pc = "mode" /\ g.inst = h.inst /\ g.ok = h.ok /\ g.run = h.run
          /\ g.mode = h.mode /\ g.status = h.status /\ g.op = h.op /\ g.keep = h.keep
          /\ g.from = h.from /\ g.to = h.to
      BY <1>2, <2>1 DEF Handler
    <2>3. h.mode = "audit" => FirmElsewhere(row', edx', h.run) \/ ~Verified(x)
      BY <1>2, <1>5, <1>9 DEF Careful, Verified
    <2>4. Careful(row', edx', g)
      BY <1>2, <1>3, <1>5, <1>8, <2>2, <2>3 DEF Careful, Enrolls, Defers
    <2> QED  BY <1>2, <1>6, <1>7, <1>11, <2>1, <2>4, PlaceStep DEF Inv
  <1> QED  BY <1>1, <1>10, <1>11 DEF SaveStatus

LEMMA SaveModeCareful ==
  ASSUME OneAtATime, Inv, PlacesKept, NEW p \in Workers, SaveMode(p)
  PROVE  PlacesKept' /\ (HasSeat => HasSeat')
  <1>1. PICK h : h = proc[p]
    OBVIOUS
  <1>2. /\ Careful(row, edx, h) /\ h \in Handler /\ h.run \in Runs /\ h.mode \in Modes
        /\ h.pc = "mode" /\ Enrolls(h) /\ h.inst \in Row
    BY <1>1, CarefulFacts DEF SaveMode, Enrolls
  <1>3. PICK x : x = IF h.inst.active THEN [h.inst EXCEPT !.mode = h.mode]
                     ELSE [[h.inst EXCEPT !.mode = h.mode] EXCEPT !.active = TRUE,
                                                                 !.status = "none"]
    OBVIOUS
  <1>4. /\ x \in Row /\ x.active /\ x.mode = h.mode /\ x.edx = h.inst.edx
        /\ x.status \in {h.inst.status, "none"}
    BY <1>2, <1>3 DEF Row, ChangeStatus
  <1>5. OnlyRun(h.run, x, edx[h.run])
    BY <1>1, <1>2, <1>3, <1>4, SavedRow DEF SaveMode
  <1>6. h.inst.edx = h.ok /\ h.inst.status = h.status
    BY <1>2 DEF Careful
  <1>7. h.mode = "verified" => Firm(x, edx[h.run]) /\ ~Leaving(x)
    BY <1>2, <1>4, <1>6 DEF Careful, Firm, Place, Verified, Leaving
  <1>8. \/ FirmElsewhere(row, edx, h.run)
        \/ Steady(row[h.run], edx[h.run], x, edx[h.run])
    <2>1. CASE h.mode = "verified"
      BY <1>7, <2>1 DEF Steady, Firm
    <2>2. CASE h.mode = "audit"
      BY <1>2, <1>4, <2>2 DEF Careful, Steady, Place, Firm, Leaving, Verified
    <2> QED  BY <1>2, <2>1, <2>2 DEF Modes
  <1>9. h.mode = "verified" => Firm(row'[h.run], edx'[h.run])
    BY <1>2, <1>5, <1>7 DEF OnlyRun
  <1>10. Careful(row', edx', Returned(h))
    BY <1>2, <1>9, EnrollsFacts, ReturnedCareful
  <1>11. Becomes(p, Returned(h))
    BY <1>1 DEF SaveMode
  <1> QED  BY <1>2, <1>5, <1>8, <1>10, <1>11, PlaceStep DEF Inv

-----------------------------------------------------------------------------
(* The other steps of a deferral *)

LEMMA EndCareful ==
  ASSUME OneAtATime, Inv, PlacesKept, NEW p \in Workers,
         CreatePaidCourseRun(p) \/ ChangePaymentToRun(p) \/ Crash(p)
  PROVE  PlacesKept' /\ (HasSeat => HasSeat')
  <1>1. Becomes(p, Idle) /\ row' = row /\ edx' = edx
    BY DEF CreatePaidCourseRun, ChangePaymentToRun, Crash
  <1> QED  BY <1>1, IdleCareful, QuietStep

LEMMA EdxUnenrollCareful ==
  ASSUME OneAtATime, Inv, PlacesKept, NEW p \in Workers, NEW a \in Answers, EdxUnenroll(p, a)
  PROVE  PlacesKept' /\ (HasSeat => HasSeat')
  <1>1. PICK h : h = proc[p]
    OBVIOUS
  <1>2. /\ Careful(row, edx, h) /\ h \in Handler /\ h.run \in Runs
        /\ h.pc = "unenroll" /\ h.inst \in Row
    BY <1>1, CarefulFacts DEF EdxUnenroll
  <1>3. PICK e : e = IF CarriedOut(a) THEN [edx[h.run] EXCEPT !.active = FALSE]
                     ELSE edx[h.run]
    OBVIOUS
  <1>4. OnlyRun(h.run, row[h.run], e)
    <2>1. edx' = [edx EXCEPT ![h.run] = e] \/ (edx' = edx /\ e = edx[h.run])
      BY <1>1, <1>2, <1>3 DEF EdxUnenroll, Inv, EdxState
    <2> QED  BY <1>2, <2>1, CalledRun DEF EdxUnenroll
  <1>5. Defers(h) /\ h.inst.mode = "audit" /\ row[h.run].mode = "audit" /\ h.from # h.to
    BY <1>2 DEF Careful
  <1>6. Steady(row[h.run], edx[h.run], row[h.run], e)
    BY <1>5 DEF Steady, Place, Firm, Leaving, Verified
  <1>7. row'[h.run] = row[h.run]
    BY <1>2, <1>4 DEF OnlyRun
  <1>8. ASSUME NEW x \in Row, x.mode = "audit"
        PROVE  Careful(row', edx', [h EXCEPT !.pc = "inactive", !.inst = x])
    <2>1. PICK g : g = [h EXCEPT !.pc = "inactive", !.inst = x]
      OBVIOUS
    <2>2. /\ g.pc = "inactive" /\ g.inst = x /\ g.run = h.run /\ g.op = h.op
          /\ g.from = h.from /\ g.to = h.to
      BY <1>2, <2>1 DEF Handler
    <2>3. Careful(row', edx', g)
      BY <1>2, <1>5, <1>7, <1>8, <2>2 DEF Careful, Enrolls, Defers
    <2> QED  BY <2>1, <2>3
  <1>9. PICK x : x = [h.inst EXCEPT !.edx = FALSE]
    OBVIOUS
  <1>10. x \in Row /\ x.mode = "audit"
    BY <1>2, <1>5, <1>9 DEF Row
  <1>11. /\ [h EXCEPT !.pc = "inactive", !.inst.edx = FALSE] =
               [h EXCEPT !.pc = "inactive", !.inst = x]
         /\ [h EXCEPT !.pc = "inactive"] = [h EXCEPT !.pc = "inactive", !.inst = h.inst]
    BY <1>2, <1>9 DEF Handler
  <1>12. \/ Becomes(p, [h EXCEPT !.pc = "inactive", !.inst = x])
         \/ Becomes(p, [h EXCEPT !.pc = "inactive", !.inst = h.inst])
         \/ Becomes(p, Idle)
    BY <1>1, <1>11 DEF EdxUnenroll
  <1>13. PICK g : Becomes(p, g) /\ Careful(row', edx', g)
    BY <1>2, <1>5, <1>8, <1>10, <1>12, IdleCareful
  <1> QED  BY <1>2, <1>4, <1>6, <1>13, PlaceStep DEF Inv

LEMMA SaveInactiveCareful ==
  ASSUME OneAtATime, Inv, PlacesKept, NEW p \in Workers, SaveInactive(p)
  PROVE  PlacesKept' /\ (HasSeat => HasSeat')
  <1>1. PICK h : h = proc[p]
    OBVIOUS
  <1>2. /\ Careful(row, edx, h) /\ h \in Handler /\ h.run \in Runs
        /\ h.pc = "inactive" /\ h.inst \in Row
    BY <1>1, CarefulFacts DEF SaveInactive
  <1>3. PICK x : x = [h.inst EXCEPT !.active = FALSE, !.status = h.status]
    OBVIOUS
  <1>4. x \in Row /\ ~x.active
    BY <1>2, <1>3 DEF Row, Handler
  <1>5. OnlyRun(h.run, x, edx[h.run])
    BY <1>1, <1>2, <1>3, <1>4, SavedRow DEF SaveInactive
  <1>6. Defers(h) /\ row[h.run].mode = "audit" /\ h.from # h.to
    BY <1>2 DEF Careful
  <1>7. Steady(row[h.run], edx[h.run], x, edx[h.run])
    BY <1>4, <1>6 DEF Steady, Place, Firm, Leaving, Verified
  <1>8. PICK g : g = [h EXCEPT !.pc = "unpay", !.inst = x]
    OBVIOUS
  <1>9. g.pc = "unpay" /\ g.op = h.op /\ g.from = h.from /\ g.to = h.to
    BY <1>2, <1>8 DEF Handler
  <1>10. Careful(row', edx', g)
    BY <1>2, <1>6, <1>9 DEF Careful, Enrolls, Defers
  <1>11. Becomes(p, g)
    BY <1>1, <1>3, <1>8 DEF SaveInactive
  <1> QED  BY <1>2, <1>5, <1>7, <1>10, <1>11, PlaceStep DEF Inv

LEMMA EnterTarget ==
  ASSUME OneAtATime, NEW R, NEW E, NEW h \in Handler, Defers(h), h.from # h.to
  PROVE  Careful(R, E, Enrolling(h, h.to, "verified", "none"))
  <1>1. h.op \in {"defer", "defer_force"} /\ h.to \in Runs /\ "verified" \in Modes
    BY DEF Defers, Handler, Modes
  <1> QED  BY <1>1, EnrollingCareful

LEMMA DeletePaidCourseRunCareful ==
  ASSUME OneAtATime, Inv, PlacesKept, NEW p \in Workers, DeletePaidCourseRun(p)
  PROVE  PlacesKept' /\ (HasSeat => HasSeat')
  <1>1. PICK h : h = proc[p]
    OBVIOUS
  <1>2. Careful(row, edx, h) /\ h \in Handler /\ h.pc = "unpay"
    BY <1>1, CarefulFacts DEF DeletePaidCourseRun
  <1>3. Defers(h) /\ h.from # h.to
    BY <1>2 DEF Careful
  <1>4. Becomes(p, Enrolling(h, h.to, "verified", "none")) \/ Becomes(p, Idle)
    BY <1>1 DEF DeletePaidCourseRun
  <1>5. PICK g : Becomes(p, g) /\ Careful(row, edx, g)
    BY <1>2, <1>3, <1>4, EnterTarget, IdleCareful
  <1>6. row' = row /\ edx' = edx
    BY DEF DeletePaidCourseRun
  <1> QED  BY <1>5, <1>6, QuietStep

LEMMA FindTargetCareful ==
  ASSUME OneAtATime, Inv, PlacesKept, NEW p \in Workers, FindTarget(p)
  PROVE  PlacesKept' /\ (HasSeat => HasSeat')
  <1>1. PICK h : h = proc[p]
    OBVIOUS
  <1>2. Careful(row, edx, h) /\ h \in Handler /\ h.pc = "target" /\ h.to \in Runs
    BY <1>1, CarefulFacts DEF FindTarget
  <1>3. Defers(h) /\ h.from # h.to
    BY <1>2 DEF Careful
  <1>4. PICK g : g = Unenrolling(h, h.to, "unenrolled")
    OBVIOUS
  <1>5. row[h.to].mode = "audit" => Careful(row, edx, g)
    <2>1. /\ g.pc = "unenroll" /\ g.run = h.to /\ g.inst = row[h.to] /\ g.op = h.op
          /\ g.from = h.from /\ g.to = h.to
      BY <1>2, <1>4 DEF Unenrolling, Handler
    <2> QED  BY <1>2, <1>3, <2>1 DEF Careful, Enrolls, Defers
  <1>6. \/ Becomes(p, Enrolling(h, h.to, "verified", "none"))
        \/ Becomes(p, Idle)
        \/ Becomes(p, g) /\ row[h.to].mode = "audit"
    BY <1>1, <1>4 DEF FindTarget
  <1>7. PICK k : Becomes(p, k) /\ Careful(row, edx, k)
    BY <1>2, <1>3, <1>5, <1>6, EnterTarget, IdleCareful
  <1>8. row' = row /\ edx' = edx
    BY DEF FindTarget
  <1> QED  BY <1>7, <1>8, QuietStep

-----------------------------------------------------------------------------
(* The repair job *)

LEMMA RetryCallCareful ==
  ASSUME OneAtATime, Inv, PlacesKept, NEW p \in Workers, NEW a \in Answers, RetryCall(p, a)
  PROVE  PlacesKept' /\ (HasSeat => HasSeat')
  <1>1. PICK h : h = proc[p]
    OBVIOUS
  <1>2. /\ Careful(row, edx, h) /\ h \in Handler /\ h.run \in Runs
        /\ h.pc = "retry" /\ h.inst \in Row
    BY <1>1, CarefulFacts DEF RetryCall
  <1>3. h.inst = row[h.run] /\ h.inst.active /\ ~h.inst.edx
        /\ h.op \in {"enroll", "purchase", "defer", "defer_force", "retry"}
        /\ (Defers(h) => h.from # h.to)
    BY <1>2 DEF Careful
  <1>4. PICK e : e = IF CarriedOut(a) THEN InEdx(h.inst.mode) ELSE edx[h.run]
    OBVIOUS
  <1>5. OnlyRun(h.run, row[h.run], e)
    BY <1>1, <1>2, <1>4, CalledRun DEF RetryCall
  <1>6. Steady(row[h.run], edx[h.run], row[h.run], e)
    BY <1>3 DEF Steady, Place, Firm
  <1>7. row'[h.run] = row[h.run] /\ edx'[h.run] = e
    BY <1>2, <1>5 DEF OnlyRun
  <1>8. PICK x : x = [h.inst EXCEPT !.edx = TRUE]
    OBVIOUS
  <1>9. a = "ok" => Careful(row', edx', [h EXCEPT !.pc = "retried", !.inst = x])
    <2> SUFFICES ASSUME a = "ok"
                 PROVE  Careful(row', edx', [h EXCEPT !.pc = "retried", !.inst = x])
      OBVIOUS
    <2>1. PICK g : g = [h EXCEPT !.pc = "retried", !.inst = x]
      OBVIOUS
    <2>2. /\ g.pc = "retried" /\ g.inst = x /\ g.run = h.run /\ g.op = h.op
          /\ g.from = h.from /\ g.to = h.to
      BY <1>2, <2>1 DEF Handler
    <2>3. e = InEdx(row[h.run].mode)
      BY <1>3, <1>4 DEF CarriedOut
    <2>4. Careful(row', edx', g)
      BY <1>3, <1>7, <1>8, <2>2, <2>3 DEF Careful, Enrolls, Defers
    <2> QED  BY <2>1, <2>4
  <1>10. Careful(row', edx', [h EXCEPT !.pc = "count"])
    <2>1. PICK g : g = [h EXCEPT !.pc = "count"]
      OBVIOUS
    <2>2. /\ g.pc = "count" /\ g.inst = h.inst /\ g.run = h.run /\ g.op = h.op
          /\ g.from = h.from /\ g.to = h.to
      BY <1>2, <2>1 DEF Handler
    <2>3. Careful(row', edx', g)
      BY <1>3, <1>7, <2>2 DEF Careful, Enrolls, Defers
    <2> QED  BY <2>1, <2>3
  <1>11. [h EXCEPT !.pc = "retried", !.inst.edx = TRUE] =
             [h EXCEPT !.pc = "retried", !.inst = x]
    BY <1>2, <1>8 DEF Handler
  <1>12. \/ a = "ok" /\ Becomes(p, [h EXCEPT !.pc = "retried", !.inst = x])
         \/ Becomes(p, [h EXCEPT !.pc = "count"])
         \/ Becomes(p, Idle)
    BY <1>1, <1>11 DEF RetryCall
  <1>13. PICK g : Becomes(p, g) /\ Careful(row', edx', g)
    BY <1>9, <1>10, <1>12, IdleCareful
  <1> QED  BY <1>2, <1>5, <1>6, <1>13, PlaceStep DEF Inv

LEMMA RetrySaveCareful ==
  ASSUME OneAtATime, Inv, PlacesKept, NEW p \in Workers, RetrySave(p)
  PROVE  PlacesKept' /\ (HasSeat => HasSeat')
  <1>1. PICK h : h = proc[p]
    OBVIOUS
  <1>2. /\ Careful(row, edx, h) /\ h \in Handler /\ h.run \in Runs
        /\ h.pc = "retried" /\ h.inst \in Row /\ row[h.run] \in Row
    BY <1>1, CarefulFacts DEF RetrySave
  <1>3. PICK x \in Row : x = h.inst
    BY <1>2
  <1>4. /\ x = [row[h.run] EXCEPT !.edx = TRUE]
        /\ edx[h.run] = InEdx(row[h.run].mode)
    BY <1>2, <1>3 DEF Careful
  <1>5. x.active = row[h.run].active /\ x.mode = row[h.run].mode
        /\ x.status = row[h.run].status
    BY <1>2, <1>4 DEF Row
  <1>6. OnlyRun(h.run, x, edx[h.run])
    BY <1>1, <1>2, <1>3, SavedRow DEF RetrySave
  <1>7. Steady(row[h.run], edx[h.run], x, edx[h.run])
    BY <1>4, <1>5 DEF Steady, Place, Firm, Leaving, Verified
  <1>8. Becomes(p, Idle)
    BY DEF RetrySave
  <1> QED  BY <1>2, <1>6, <1>7, <1>8, IdleCareful, PlaceStep DEF Inv

LEMMA RetryCountCareful ==
  ASSUME OneAtATime, Inv, Inv', PlacesKept, NEW p \in Workers, RetryCount(p)
  PROVE  PlacesKept' /\ (HasSeat => HasSeat')
  <1>1. PICK h : h = proc[p]
    OBVIOUS
  <1>2. h \in Handler /\ h.run \in Runs /\ row[h.run] \in Row
    BY <1>1, CarefulFacts
  <1>3. PICK x : x = [row[h.run] EXCEPT !.retries = h.inst.retries + 1]
    OBVIOUS
  <1>4. x.active = row[h.run].active /\ x.mode = row[h.run].mode
        /\ x.status = row[h.run].status /\ x.edx = row[h.run].edx
    BY <1>2, <1>3 DEF Row
  <1>5. row' = [row EXCEPT ![h.run] = x] /\ edx' = edx /\ Becomes(p, Idle)
    BY <1>1, <1>3 DEF RetryCount
  <1>6. OnlyRun(h.run, x, edx[h.run])
    BY <1>2, <1>5 DEF OnlyRun, Inv
  <1>7. Steady(row[h.run], edx[h.run], x, edx[h.run])
    BY <1>4 DEF Steady, Place, Firm, Leaving, Verified
  <1> QED  BY <1>2, <1>5, <1>6, <1>7, IdleCareful, PlaceStep DEF Inv

-----------------------------------------------------------------------------
(* Operations begin *)

LEMMA StartEnrollingCareful ==
  ASSUME OneAtATime, NEW R, NEW E, NEW op \in {"enroll", "purchase"}, NEW keep \in BOOLEAN,
         NEW r \in Runs, op = "purchase" => keep,
         op = "enroll" => FirmElsewhere(R, E, r) \/ ~Verified(R[r])
  PROVE  Careful(R, E, Enrolling(Request(op, keep), r,
                                 IF op = "purchase" THEN "verified" ELSE "audit", "none"))
  <1>1. PICK h : h = Request(op, keep)
    OBVIOUS
  <1>2. h \in Handler /\ h.op = op /\ h.keep = keep
    BY <1>1, RequestType DEF Request, Idle, AllOperations
  <1>3. ~Defers(h)
    BY <1>2 DEF Defers
  <1> QED  BY <1>1, <1>2, <1>3, EnrollingCareful DEF Modes

\* The view refuses a place that no deferral has begun to leave.
LEMMA EnrollCareful ==
  ASSUME OneAtATime, Inv, PlacesKept, NEW p \in Workers, NEW r \in Runs, Enroll(p, r)
  PROVE  PlacesKept' /\ (HasSeat => HasSeat')
  <1>1. PICK keep \in BOOLEAN :
          Becomes(p, Enrolling(Request("enroll", keep), r, "audit", "none"))
    BY EnrollmentChoiceAssumption DEF Enroll, StartEnrolling
  <1>2. FirmElsewhere(row, edx, r) \/ ~Verified(row[r])
    <2>1. CASE Verified(row[r])
      <3>1. row[r].status # "none"
        BY <2>1 DEF Enroll, Verified
      <3>2. PICK q \in Runs : Firm(row[q], edx[q])
        BY <2>1, <3>1 DEF PlacesKept, LeavingIsCovered, Leaving
      <3>3. q # r
        BY <3>1, <3>2 DEF Firm
      <3> QED  BY <3>2, <3>3 DEF FirmElsewhere
    <2> QED  BY <2>1
  <1>3. Careful(row, edx, Enrolling(Request("enroll", keep), r, "audit", "none"))
    BY <1>2, StartEnrollingCareful
  <1>4. row' = row /\ edx' = edx
    BY DEF Enroll
  <1> QED  BY <1>1, <1>3, <1>4, QuietStep

LEMMA PurchaseCareful ==
  ASSUME OneAtATime, Inv, PlacesKept, NEW p \in Workers, NEW r \in Runs, Purchase(p, r)
  PROVE  PlacesKept' /\ (HasSeat => HasSeat')
  <1>1. Becomes(p, Enrolling(Request("purchase", TRUE), r, "verified", "none"))
    BY DEF Purchase, StartEnrolling
  <1>2. Careful(row, edx, Enrolling(Request("purchase", TRUE), r, "verified", "none"))
    BY StartEnrollingCareful
  <1>3. row' = row /\ edx' = edx
    BY DEF Purchase
  <1> QED  BY <1>1, <1>2, <1>3, QuietStep

LEMMA DeferEnrollmentCareful ==
  ASSUME OneAtATime, Inv, PlacesKept, NEW p \in Workers, NEW from \in Runs, NEW to \in Runs,
         DeferEnrollment(p, from, to)
  PROVE  PlacesKept' /\ (HasSeat => HasSeat')
  <1>1. PICK op \in {"defer", "defer_force"}, keep \in BOOLEAN :
          Becomes(p, [Request(op, keep) EXCEPT
                        !.pc = "target", !.run = to, !.from = from, !.to = to,
                        !.deferred = (row[from].status = "deferred")])
    BY EnrollmentChoiceAssumption DEF DeferEnrollment
  <1>2. PICK k : k = Request(op, keep)
    OBVIOUS
  <1>3. k \in Handler /\ k.op = op
    BY <1>2, RequestType DEF Request, Idle, AllOperations
  <1>4. PICK g : g = [k EXCEPT !.pc = "target", !.run = to, !.from = from, !.to = to,
                               !.deferred = (row[from].status = "deferred")]
    OBVIOUS
  <1>5. g.pc = "target" /\ g.op = op /\ g.from = from /\ g.to = to
    BY <1>3, <1>4 DEF Handler
  <1>6. from # to /\ row' = row /\ edx' = edx
    BY DEF DeferEnrollment
  <1>7. Careful(row, edx, g)
    BY <1>5, <1>6 DEF Careful, Enrolls, Defers
  <1> QED  BY <1>1, <1>2, <1>4, <1>6, <1>7, QuietStep

LEMMA RetryFailedEnrollmentCareful ==
  ASSUME OneAtATime, Inv, PlacesKept, NEW p \in Workers, NEW r \in Runs,
         RetryFailedEnrollment(p, r)
  PROVE  PlacesKept' /\ (HasSeat => HasSeat')
  <1>1. PICK k : k = Request("retry", FALSE)
    OBVIOUS
  <1>2. k \in Handler /\ k.op = "retry"
    BY <1>1, RequestType DEF Request, Idle, AllOperations
  <1>3. PICK g : g = [k EXCEPT !.pc = "retry", !.run = r, !.inst = row[r]]
    OBVIOUS
  <1>4. g.pc = "retry" /\ g.run = r /\ g.inst = row[r] /\ g.op = "retry"
    BY <1>2, <1>3 DEF Handler
  <1>5. row[r].active /\ ~row[r].edx
    BY DEF RetryFailedEnrollment, Repairable
  <1>6. Careful(row, edx, g)
    BY <1>4, <1>5 DEF Careful, Enrolls, Defers
  <1>7. Becomes(p, g) /\ row' = row /\ edx' = edx
    BY <1>1, <1>3 DEF RetryFailedEnrollment
  <1> QED  BY <1>6, <1>7, QuietStep

LEMMA InitPlaces == Init => PlacesKept
  <1> SUFFICES ASSUME Init PROVE PlacesKept
    OBVIOUS
  <1>1. \A r \in Runs : row[r] \in {LeftRow, NoRow}
    BY DEF Init
  <1>2. ~LeftRow.active /\ ~NoRow.active
    BY DEF LeftRow, NoRow
  <1>3. LeavingIsCovered
    BY <1>1, <1>2 DEF LeavingIsCovered, Leaving, Verified
  <1>4. \A p \in Workers : proc[p] = Idle
    BY DEF Init
  <1> QED  BY <1>3, <1>4, IdleCareful DEF PlacesKept

LEMMA NextPlaces ==
  ASSUME OneAtATime, Inv, Inv', PlacesKept, [Next]_vars
  PROVE  PlacesKept' /\ (HasSeat => HasSeat')
  <1> DEFINE Goal == PlacesKept' /\ (HasSeat => HasSeat')
  <1>1. ASSUME NEW p \in Workers, Step(p) PROVE Goal
    <2>1. Careful(row, edx, proc[p])
      BY CarefulFacts
    <2>2. ~SyncLoad(p) /\ ~SyncSave(p) /\ ~LocalReactivate(p) /\ ~LocalEdxEnrolled(p)
      BY <2>1 DEF Careful, SyncLoad, SyncSave, LocalReactivate, LocalEdxEnrolled
    <2>3. ASSUME NEW a \in Answers,
                 EdxEnroll(p, a) \/ EdxUnenroll(p, a) \/ RetryCall(p, a)
          PROVE  Goal
      BY <2>3, EdxEnrollCareful, EdxUnenrollCareful, RetryCallCareful
    <2>4. CASE GetOrCreate(p) \/ LogCreated(p) \/ SaveStatus(p) \/ SaveMode(p)
      BY <2>4, GetOrCreateCareful, LogCreatedCareful, SaveStatusCareful, SaveModeCareful
    <2>5. CASE \/ CreatePaidCourseRun(p) \/ ChangePaymentToRun(p) \/ SaveInactive(p)
               \/ DeletePaidCourseRun(p) \/ FindTarget(p)
      BY <2>5, EndCareful, SaveInactiveCareful, DeletePaidCourseRunCareful,
         FindTargetCareful
    <2>6. CASE RetrySave(p) \/ RetryCount(p)
      BY <2>6, RetrySaveCareful, RetryCountCareful
    <2> QED  BY <1>1, <2>2, <2>3, <2>4, <2>5, <2>6 DEF Step
  <1>2. ASSUME NEW p \in Workers, Crash(p) PROVE Goal
    BY <1>2, EndCareful
  <1>3. \A op \in {"api_enroll", "downgrade", "refund", "unenroll", "defer_none", "webhook",
                   "reset", "sync", "edx_enroll", "edx_unenroll"} : op \notin Operations
    BY DEF OneAtATime
  <1>4. ASSUME NEW p \in Workers, NEW r \in Runs, Begin(p, r) PROVE Goal
    <2>1. /\ ~ApiEnroll(p, r) /\ ~DowngradeLearner(p, r) /\ ~DowngradeLearnerFromOrder(p, r)
          /\ ~DeferWithoutTarget(p, r)
      BY <1>3 DEF ApiEnroll, DowngradeLearner, DowngradeLearnerFromOrder,
                  DeferWithoutTarget, StartEnrolling, Starts
    <2>2. ~Unenroll(p, r) /\ ~SyncFetch(p, r) /\ ~CreateLocalEnrollment(p, r)
      BY <1>3 DEF Unenroll, SyncFetch, CreateLocalEnrollment, Starts
    <2> QED  BY <1>4, <2>1, <2>2, EnrollCareful, PurchaseCareful, DeferEnrollmentCareful,
                RetryFailedEnrollmentCareful
             DEF Begin
  <1>5. ASSUME NEW r \in Runs
        PROVE  /\ ~ResetRetryCount(r) /\ ~UnenrolledInEdx(r)
               /\ \A mode \in Modes : ~EnrolledInEdx(r, mode)
    BY <1>3 DEF ResetRetryCount, UnenrolledInEdx, EnrolledInEdx, Starts
  <1>6. CASE UNCHANGED vars
    <2>1. row' = row /\ edx' = edx /\ proc' = proc
      BY <1>6 DEF vars
    <2> QED  BY <2>1, HasSeatIsPlace DEF PlacesKept, LeavingIsCovered
  <1> QED  BY <1>1, <1>2, <1>4, <1>5, <1>6 DEF Next

\* A learner who has a verified place goes on having one while runs are bought
\* and deferred, from run to run and back, whichever of the calls of a deferral
\* fails, is lost, or is the last thing the process does: the new run is entered
\* first, and a row that a broken deferral has marked is never the last place.
THEOREM PlaceIsKept == OneAtATime => (Spec => SeatKept)
  <1> SUFFICES ASSUME OneAtATime PROVE Spec => SeatKept
    OBVIOUS
  <1>1. Inv /\ Inv' /\ PlacesKept /\ [Next]_vars => PlacesKept'
    BY NextPlaces
  <1>2. Spec => []PlacesKept
    BY InvHolds, InitPlaces, <1>1, PTL DEF Spec
  <1>3. Inv /\ Inv' /\ PlacesKept /\ [Next]_vars => [HasSeat => HasSeat']_vars
    BY NextPlaces
  <1> QED  BY InvHolds, <1>2, <1>3, PTL DEF Spec, SeatKept
=============================================================================
