------------------------- MODULE ContractRunsProofs -------------------------
(***************************************************************************)
(* Theorems about ContractRuns, for any number of runs, workers, commands, *)
(* retries and faults.                                                     *)
(***************************************************************************)
EXTENDS ContractRuns, FiniteSetTheorems, TLAPS

Rows == Row \cup {NoRow}
Clones == [state : {"none", "queued", "running", "done", "failed", "lost"},
           retries : 0..MaxRetries]
Labels == {"idle", "exists", "key", "insert", "queue", "check",
           "clone", "fix", "fetch", "sync", "push", "retire", "move",
           "remove", "close", "add"}
Handler == [pc : Labels, run : 0..MaxRuns, inst : Rows, dates : Dates \cup {Absent},
            opts : SUBSET (Options \cup {"task"})]
Counts == [commands : 0..MaxCommands, faults : 0..MaxFaults]

\* What a saved row, an instance in memory and a handler look like: a stale
\* instance is as sound as the row it was loaded from.
Sound(x) == x \in Rows /\ (x.live => x.contract = "contract")

GoodHandler(h) ==
    /\ h \in Handler
    /\ Sound(h.inst)
    /\ h.pc = "move" => ~h.inst.live
    /\ h.pc \in {"remove", "add", "fetch", "sync"} => h.inst \in Row
    /\ h.pc = "sync" => h.dates \in Dates
    /\ h.pc \in {"fetch", "push"} => h.run \in Runs

Shape ==
    /\ edx \in [Runs -> Dates \cup {Absent}]
    /\ clone \in [Runs -> Clones]
    /\ settled \subseteq Runs
    /\ causes \in Nat
    /\ count \in Counts

RowsSound == row \in [Runs -> Rows] /\ \A r \in Runs : Sound(row[r])
HandlersGood == proc \in [Workers -> Handler] /\ \A w \in Workers : GoodHandler(proc[w])

Inv == Shape /\ RowsSound /\ HandlersGood

LEMMA InvImplies == Inv => TypeOK /\ LiveOnlyUnderContract
  BY DEF Inv, Shape, RowsSound, HandlersGood, TypeOK, LiveOnlyUnderContract,
         Rows, Clones, Labels, Handler, Counts, Sound

-----------------------------------------------------------------------------
(* Constants and instances *)

LEMMA DateTypes ==
  /\ Source \in Dates
  /\ Past \in Dates
  /\ Absent \notin Dates
  /\ \A f \in ContractDates : [from |-> f, closed |-> FALSE] \in Dates
  BY ContractRunsAssumption DEF Source, Past, Absent, Dates

LEMMA NoRowSound == Sound(NoRow) /\ ~NoRow.live /\ NoRow \in Rows
  BY DEF Sound, NoRow, Rows

LEMMA FirstRowsSound == Sound(InUse) /\ Sound(LastTry) /\ Sound(TakenOut)
  BY DEF Sound, InUse, LastTry, TakenOut, Rows, Row, Dates

LEMMA IdleGood == GoodHandler(Idle)
  BY NoRowSound, ContractRunsAssumption DEF GoodHandler, Idle, Handler, Labels

\* The changes handlers make to an instance.
LEMMA InstanceUpdates ==
  ASSUME NEW x, Sound(x), NEW d \in Dates
  PROVE  /\ x \in Row => Sound([x EXCEPT !.dates = d])
         /\ x.live => x \in Row
         /\ x.contract = "contract" => x \in Row
         /\ x \in Row => Sound([x EXCEPT !.contract = "contract"])
         /\ ~x.live /\ x \in Row => Sound([x EXCEPT !.contract = "holding"])
  BY DEF Sound, Rows, Row, NoRow

LEMMA RetiredSound ==
  ASSUME NEW x, Sound(x)
  PROVE  /\ Sound([x EXCEPT !.live = FALSE, !.dates = Past])
         /\ ~[x EXCEPT !.live = FALSE, !.dates = Past].live
  <1> DEFINE Any == [live : BOOLEAN, dates : Dates \cup {Absent},
                     contract : {"contract", "holding", "none"}]
  <1>1. x \in Any
    <2>1. NoRow \in Any
      BY DEF NoRow
    <2>2. \A y \in Row : y \in Any
      BY DEF Row
    <2> QED  BY <2>1, <2>2 DEF Sound, Rows
  <1> QED  BY <1>1, DateTypes DEF Sound, Rows, Row

LEMMA InstanceDates ==
  ASSUME NEW x, Sound(x)
  PROVE  x.dates \in Dates \cup {Absent}
  BY DEF Sound, Rows, Row, NoRow

LEMMA RemovedSound ==
  ASSUME NEW x \in Row, NEW c \in {"none", x.contract}
  PROVE  Sound([live |-> FALSE, dates |-> [x.dates EXCEPT !.closed = TRUE],
                contract |-> c])
  BY DEF Sound, Rows, Row, Dates

-----------------------------------------------------------------------------
(* Handlers *)

LEMMA GotoGood ==
  ASSUME NEW h, GoodHandler(h),
         NEW l \in Labels \ {"move", "remove", "add", "fetch", "sync", "push"}
  PROVE  GoodHandler([h EXCEPT !.pc = l])
  BY DEF GoodHandler, Handler

LEMMA InstanceGood ==
  ASSUME NEW h, GoodHandler(h), NEW x, Sound(x), NEW l \in {"move", "close"},
         l = "move" => ~x.live
  PROVE  GoodHandler([h EXCEPT !.inst = x, !.pc = l])
  BY DEF GoodHandler, Handler, Sound, Labels

LEMMA LoadedGood ==
  ASSUME RowsSound, NEW r \in Runs, NEW l \in Labels \ {"move", "sync"},
         l \in {"remove", "add", "fetch"} => row[r] \in Row,
         NEW o \in SUBSET Options
  PROVE  /\ GoodHandler([Idle EXCEPT !.pc = l, !.run = r, !.inst = row[r], !.opts = o])
         /\ GoodHandler([Idle EXCEPT !.pc = l, !.run = r, !.inst = row[r]])
  <1> DEFINE h == [Idle EXCEPT !.pc = l, !.run = r, !.inst = row[r], !.opts = o]
             g == [Idle EXCEPT !.pc = l, !.run = r, !.inst = row[r]]
  <1>1. Sound(row[r]) /\ row[r] \in Rows /\ r \in 0..MaxRuns
    BY ContractRunsAssumption DEF RowsSound, Runs
  <1>2. Idle \in Handler
    BY IdleGood DEF GoodHandler
  <1>3. o \in SUBSET (Options \cup {"task"})
    OBVIOUS
  <1>4. h \in Handler /\ h.pc = l /\ h.inst = row[r] /\ h.run = r
    BY <1>1, <1>2, <1>3 DEF Handler
  <1>5. g \in Handler /\ g.pc = l /\ g.inst = row[r] /\ g.run = r
    BY <1>1, <1>2 DEF Handler
  <1> QED  BY <1>1, <1>4, <1>5 DEF GoodHandler

LEMMA LoadedGoodLast ==
  ASSUME RowsSound, NEW r \in Runs, NEW l \in {"retire", "push"},
         NEW o \in SUBSET Options
  PROVE  GoodHandler([Idle EXCEPT !.run = r, !.inst = row[r], !.opts = o, !.pc = l])
  <1> DEFINE h == [Idle EXCEPT !.run = r, !.inst = row[r], !.opts = o, !.pc = l]
  <1>1. Sound(row[r]) /\ row[r] \in Rows /\ r \in 0..MaxRuns /\ l \in Labels
    BY ContractRunsAssumption DEF RowsSound, Runs, Labels
  <1>2. Idle \in Handler
    BY IdleGood DEF GoodHandler
  <1>3. o \in SUBSET (Options \cup {"task"})
    OBVIOUS
  <1>4. h \in Handler /\ h.pc = l /\ h.inst = row[r] /\ h.run = r
    BY <1>1, <1>2, <1>3 DEF Handler
  <1> QED  BY <1>1, <1>4 DEF GoodHandler

LEMMA CreatingGood ==
  ASSUME NEW l \in {"exists", "key"}, NEW o \in SUBSET (Options \cup {"task"})
  PROVE  GoodHandler([Idle EXCEPT !.pc = l, !.opts = o])
  BY IdleGood DEF GoodHandler, Handler, Labels

LEMMA RunsFinite == IsFiniteSet(Runs) /\ Cardinality(Runs) = MaxRuns
  <1>1. 1 \in Int /\ MaxRuns \in Int /\ MaxRuns \in Nat
    BY ContractRunsAssumption
  <1>2. /\ IsFiniteSet(1..MaxRuns)
        /\ Cardinality(1..MaxRuns) = IF 1 > MaxRuns THEN 0 ELSE MaxRuns - 1 + 1
    BY <1>1, FS_Interval
  <1>3. (IF 1 > MaxRuns THEN 0 ELSE MaxRuns - 1 + 1) = MaxRuns
    BY <1>1
  <1> QED  BY <1>2, <1>3 DEF Runs

\* The next key is free to use while some key is.
LEMMA KeyIsARun ==
  ASSUME Created # Runs
  PROVE  CreateContractRunKey \in Runs
  <1>1. IsFiniteSet(Runs) /\ Cardinality(Runs) = MaxRuns
    BY RunsFinite
  <1>2. Created \in SUBSET Runs
    BY DEF Created
  <1>3. /\ IsFiniteSet(Created)
        /\ Cardinality(Created) <= Cardinality(Runs)
        /\ Cardinality(Runs) # Cardinality(Created)
    BY <1>1, <1>2, FS_Subset
  <1>4. Cardinality(Created) \in Nat
    BY <1>3, FS_CardinalityType
  <1> QED  BY <1>1, <1>3, <1>4, ContractRunsAssumption
           DEF CreateContractRunKey, Runs

-----------------------------------------------------------------------------
(* What a step of a worker has to show *)

LEMMA HandlerStep ==
  ASSUME HandlersGood, NEW w \in Workers, NEW h, GoodHandler(h),
         proc' = [proc EXCEPT ![w] = h]
  PROVE  HandlersGood'
  BY DEF HandlersGood, GoodHandler

LEMMA RowStep ==
  ASSUME RowsSound, NEW r, NEW x, Sound(x), row' = [row EXCEPT ![r] = x]
  PROVE  RowsSound'
  BY DEF RowsSound, Sound

LEMMA RowsKept == RowsSound /\ UNCHANGED row => RowsSound'
  BY DEF RowsSound

LEMMA SaveStep ==
  ASSUME RowsSound, NEW w \in Workers, NEW x, Sound(x), Save(w, x)
  PROVE  RowsSound' /\ UNCHANGED edx
  BY RowStep DEF Save

LEMMA GotoStep ==
  ASSUME HandlersGood, NEW w \in Workers,
         NEW l \in Labels \ {"move", "remove", "add", "fetch", "sync", "push"}, Goto(w, l)
  PROVE  HandlersGood'
  BY GotoGood, HandlerStep DEF Goto, HandlersGood

LEMMA DoneStep ==
  ASSUME HandlersGood, NEW w \in Workers, Done(w)
  PROVE  HandlersGood'
  BY IdleGood, HandlerStep DEF Done

LEMMA CountTypes ==
  ASSUME count \in Counts
  PROVE  /\ Command => count' \in Counts
         /\ Fault => count' \in Counts
         /\ \A a : Answered(a) => count' \in Counts
  <1>1. Command => count' \in Counts
    BY ContractRunsAssumption DEF Command, Counts
  <1>2. Fault => count' \in Counts
    BY ContractRunsAssumption DEF Fault, Counts
  <1> QED  BY <1>1, <1>2 DEF Answered

LEMMA PushType ==
  ASSUME edx \in [Runs -> Dates \cup {Absent}], NEW r,
         NEW d \in Dates \cup {Absent}
  PROVE  PushRunDates(r, d) \in [Runs -> Dates \cup {Absent}]
  BY DEF PushRunDates

LEMMA CloneTypes ==
  ASSUME clone \in [Runs -> Clones], NEW w \in Workers
  PROVE  /\ \A s \in {"queued", "done", "failed"} :
               EndClone(w, s) => clone' \in [Runs -> Clones]
         /\ Retry(w) => clone' \in [Runs -> Clones]
         /\ \A r : \A s \in {"queued", "running", "lost"} :
               [clone EXCEPT ![r].state = s] \in [Runs -> Clones]
  <1>1. \A r : \A s \in {"queued", "running", "done", "failed", "lost"} :
           [clone EXCEPT ![r].state = s] \in [Runs -> Clones]
    BY DEF Clones
  <1>2. Retry(w) => clone' \in [Runs -> Clones]
    <2> SUFFICES ASSUME Retry(w) PROVE clone' \in [Runs -> Clones]
      OBVIOUS
    <2>1. \A c \in Clones :
            (IF c.retries >= MaxRetries THEN [c EXCEPT !.state = "failed"]
             ELSE [state |-> "queued", retries |-> c.retries + 1]) \in Clones
      BY ContractRunsAssumption DEF Clones
    <2> QED  BY <2>1 DEF Retry
  <1>3. ASSUME NEW s \in {"queued", "done", "failed"}, EndClone(w, s)
        PROVE  clone' \in [Runs -> Clones]
    <2>1. clone' = [clone EXCEPT ![proc[w].run].state = s]
      BY <1>3 DEF EndClone
    <2> QED  BY <1>1, <2>1
  <1>4. \A r : \A s \in {"queued", "running", "lost"} :
           [clone EXCEPT ![r].state = s] \in [Runs -> Clones]
    BY <1>1
  <1> QED  BY <1>2, <1>3, <1>4

-----------------------------------------------------------------------------
(* The invariant holds at first *)

LEMMA InitInv == Init => Inv
  <1> SUFFICES ASSUME Init PROVE Inv
    OBVIOUS
  <1> USE ContractRunsAssumption
  <1>1. RowsSound
    <2>1. PICK first \in FirstRuns :
             row = [r \in Runs |-> IF r > 1 THEN NoRow ELSE
                CASE first = "none" -> NoRow
                  [] first = "in_use" -> InUse
                  [] first = "last_try" -> LastTry
                  [] first = "taken_out" -> TakenOut]
      BY DEF Init
    <2>2. first \in {"none", "in_use", "last_try", "taken_out"}
      OBVIOUS
    <2>3. \A r \in Runs : row[r] \in {NoRow, InUse, LastTry, TakenOut}
      BY <2>1, <2>2
    <2>4. \A r \in Runs : Sound(row[r])
      BY <2>3, NoRowSound, FirstRowsSound
    <2> QED  BY <2>1, <2>4 DEF RowsSound, Sound
  <1>2. HandlersGood
    BY IdleGood DEF Init, HandlersGood, GoodHandler
  <1>3. edx \in [Runs -> Dates \cup {Absent}]
    BY DateTypes DEF Init, TakenOut, Dates
  <1>4. clone \in [Runs -> Clones]
    BY DEF Init, Clones
  <1>5. count \in Counts
    BY DEF Init, Counts
  <1> QED  BY <1>1, <1>2, <1>3, <1>4, <1>5 DEF Init, Inv, Shape

-----------------------------------------------------------------------------
(* Creating a run *)

LEMMA CreateProgramContractRunsInv ==
  ASSUME Inv, NEW w \in Workers, CreateProgramContractRuns(w)
  PROVE  Inv'
  <1> USE DEF Inv
  <1>1. HandlersGood'
    <2>1. GoodHandler([Idle EXCEPT !.pc = "exists", !.opts = {"task"}])
      BY CreatingGood
    <2> QED  BY <2>1, HandlerStep DEF CreateProgramContractRuns, Start
  <1>2. RowsSound'
    BY RowsKept DEF CreateProgramContractRuns, others
  <1>3. Shape'
    BY CountTypes DEF Shape, CreateProgramContractRuns, others
  <1> QED  BY <1>1, <1>2, <1>3

LEMMA CreateCommandInv ==
  ASSUME Inv, NEW w \in Workers, NEW opts \in SUBSET Options, CreateCommand(w, opts)
  PROVE  Inv'
  <1> USE DEF Inv
  <1>1. HandlersGood'
    <2>1. GoodHandler([Idle EXCEPT !.pc = "key", !.opts = opts])
      BY CreatingGood
    <2> QED  BY <2>1, HandlerStep DEF CreateCommand, Start
  <1>2. RowsSound'
    BY RowsKept DEF CreateCommand, others
  <1>3. Shape'
    BY CountTypes DEF Shape, CreateCommand, others
  <1> QED  BY <1>1, <1>2, <1>3

LEMMA CheckExistsInv ==
  ASSUME Inv, NEW w \in Workers, CheckExists(w)
  PROVE  Inv'
  <1> USE DEF Inv
  <1>1. HandlersGood'
    <2>1. Done(w) \/ Goto(w, "key")
      BY DEF CheckExists
    <2> QED  BY <2>1, DoneStep, GotoStep DEF Labels
  <1>2. RowsSound'
    BY RowsKept DEF CheckExists, others
  <1>3. Shape'
    BY DEF Shape, CheckExists, others
  <1> QED  BY <1>1, <1>2, <1>3

LEMMA ChooseKeyInv ==
  ASSUME Inv, NEW w \in Workers, ChooseKey(w)
  PROVE  Inv'
  <1> USE DEF Inv
  <1>1. HandlersGood'
    <2>1. CASE Done(w)
      BY <2>1, DoneStep
    <2>2. CASE /\ Created # Runs
               /\ proc' = [proc EXCEPT ![w].run = CreateContractRunKey,
                                       ![w].pc = "insert"]
      <3> DEFINE h == [proc[w] EXCEPT !.run = CreateContractRunKey, !.pc = "insert"]
      <3>1. CreateContractRunKey \in 0..MaxRuns
        BY <2>2, KeyIsARun, ContractRunsAssumption DEF Runs
      <3>2. GoodHandler(h)
        BY <3>1 DEF HandlersGood, GoodHandler, Handler, Labels
      <3>3. proc' = [proc EXCEPT ![w] = h]
        BY <2>2 DEF HandlersGood, Handler
      <3> QED  BY <3>2, <3>3, HandlerStep
    <2> QED  BY <2>1, <2>2 DEF ChooseKey
  <1>2. RowsSound'
    BY RowsKept DEF ChooseKey, others
  <1>3. Shape'
    BY DEF Shape, ChooseKey, others
  <1> QED  BY <1>1, <1>2, <1>3

LEMMA InsertRunInv ==
  ASSUME Inv, NEW w \in Workers, NEW from \in ContractDates, InsertRun(w, from)
  PROVE  Inv'
  <1> USE DEF Inv
  <1>1. HandlersGood'
    <2>1. Done(w) \/ Goto(w, "queue")
      BY DEF InsertRun
    <2> QED  BY <2>1, DoneStep, GotoStep DEF Labels
  <1>2. RowsSound'
    <2> DEFINE new == [live |-> TRUE, contract |-> "contract",
                      dates |-> [from |-> from, closed |-> FALSE]]
    <2>1. Sound(new)
      BY DateTypes DEF Sound, Rows, Row
    <2>2. row' = row \/ row' = [row EXCEPT ![proc[w].run] = new]
      BY DEF InsertRun
    <2> QED  BY <2>1, <2>2, RowsKept, RowStep
  <1>3. Shape'
    BY DEF Shape, InsertRun, others
  <1> QED  BY <1>1, <1>2, <1>3

LEMMA QueueCloneInv ==
  ASSUME Inv, NEW w \in Workers, QueueClone(w)
  PROVE  Inv'
  <1> USE DEF Inv
  <1>1. HandlersGood'
    BY DoneStep DEF QueueClone
  <1>2. RowsSound'
    BY RowsKept DEF QueueClone, others
  <1>3. Shape'
    BY CloneTypes DEF Shape, QueueClone, others
  <1> QED  BY <1>1, <1>2, <1>3

LEMMA StartCloneInv ==
  ASSUME Inv, NEW w \in Workers, NEW r \in Runs, StartClone(w, r)
  PROVE  Inv'
  <1> USE DEF Inv
  <1>1. HandlersGood'
    <2>1. GoodHandler([Idle EXCEPT !.pc = "check", !.run = r, !.inst = row[r]])
      BY LoadedGood DEF Labels
    <2> QED  BY <2>1, HandlerStep DEF StartClone, Start
  <1>2. RowsSound'
    BY RowsKept DEF StartClone, others
  <1>3. Shape'
    BY CloneTypes DEF Shape, StartClone, others
  <1> QED  BY <1>1, <1>2, <1>3

LEMMA CloneCheckInv ==
  ASSUME Inv, NEW w \in Workers, NEW a \in Answers, CloneCheck(w, a)
  PROVE  Inv'
  <1> USE DEF Inv
  <1>1. HandlersGood'
    <2>1. Done(w) \/ Goto(w, "clone")
      BY DEF CloneCheck, EndClone, Retry
    <2> QED  BY <2>1, DoneStep, GotoStep DEF Labels
  <1>2. RowsSound'
    BY RowsKept DEF CloneCheck, others
  <1>3. Shape'
    <2>1. clone' \in [Runs -> Clones]
      BY CloneTypes DEF Shape, CloneCheck
    <2>2. count' \in Counts
      BY CountTypes DEF Shape, CloneCheck
    <2>3. edx' \in [Runs -> Dates \cup {Absent}]
      BY DEF Shape, CloneCheck
    <2> QED  BY <2>1, <2>2, <2>3 DEF Shape, CloneCheck
  <1> QED  BY <1>1, <1>2, <1>3

LEMMA CloneCallInv ==
  ASSUME Inv, NEW w \in Workers, NEW a \in Answers, CloneCall(w, a)
  PROVE  Inv'
  <1> USE DEF Inv
  <1>1. HandlersGood'
    <2>1. Done(w) \/ Goto(w, "fix")
      BY DEF CloneCall, EndClone, Retry
    <2> QED  BY <2>1, DoneStep, GotoStep DEF Labels
  <1>2. RowsSound'
    BY RowsKept DEF CloneCall, others
  <1>3. Shape'
    <2>1. clone' \in [Runs -> Clones]
      BY CloneTypes DEF Shape, CloneCall
    <2>2. count' \in Counts
      BY CountTypes DEF Shape, CloneCall
    <2>3. edx' \in [Runs -> Dates \cup {Absent}]
      BY DateTypes DEF Shape, CloneCall
    <2> QED  BY <2>1, <2>2, <2>3 DEF Shape, CloneCall
  <1> QED  BY <1>1, <1>2, <1>3

LEMMA CloneFixInv ==
  ASSUME Inv, NEW w \in Workers, NEW a \in Answers, CloneFix(w, a)
  PROVE  Inv'
  <1> USE DEF Inv
  <1>1. HandlersGood'
    <2>1. Done(w)
      BY DEF CloneFix, EndClone, Retry
    <2> QED  BY <2>1, DoneStep
  <1>2. RowsSound'
    BY RowsKept DEF CloneFix, others
  <1>3. Shape'
    <2>1. clone' \in [Runs -> Clones]
      BY CloneTypes DEF Shape, CloneFix
    <2>2. count' \in Counts
      BY CountTypes DEF Shape, CloneFix
    <2>3. edx' \in [Runs -> Dates \cup {Absent}]
      <3>1. proc[w].inst.dates \in Dates \cup {Absent}
        BY InstanceDates DEF HandlersGood, GoodHandler
      <3> QED  BY <3>1, PushType DEF Shape, CloneFix
    <2> QED  BY <2>1, <2>2, <2>3 DEF Shape, CloneFix
  <1> QED  BY <1>1, <1>2, <1>3

-----------------------------------------------------------------------------
(* Copying the dates of edX *)

LEMMA StartSyncInv ==
  ASSUME Inv, NEW w \in Workers, NEW r \in Runs, StartSync(w, r)
  PROVE  Inv'
  <1> USE DEF Inv
  <1>1. HandlersGood'
    <2>1. row[r] \in Row
      BY InstanceUpdates, DateTypes DEF StartSync, RowsSound
    <2>2. GoodHandler([Idle EXCEPT !.pc = "fetch", !.run = r, !.inst = row[r]])
      BY <2>1, LoadedGood DEF Labels
    <2> QED  BY <2>2, HandlerStep DEF StartSync, Start
  <1>2. RowsSound'
    BY RowsKept DEF StartSync, others
  <1>3. Shape'
    BY DEF Shape, StartSync, others
  <1> QED  BY <1>1, <1>2, <1>3

LEMMA SyncCommandInv ==
  ASSUME Inv, NEW w \in Workers, NEW r \in Runs, SyncCommand(w, r)
  PROVE  Inv'
  <1> USE DEF Inv
  <1>1. HandlersGood'
    <2>1. row[r] \in Row
      BY InstanceUpdates, DateTypes DEF SyncCommand, Exists, RowsSound, Sound, Rows
    <2>2. GoodHandler([Idle EXCEPT !.pc = "fetch", !.run = r, !.inst = row[r]])
      BY <2>1, LoadedGood DEF Labels
    <2> QED  BY <2>2, HandlerStep DEF SyncCommand, Start
  <1>2. RowsSound'
    BY RowsKept DEF SyncCommand, others
  <1>3. Shape'
    BY CountTypes DEF Shape, SyncCommand, others
  <1> QED  BY <1>1, <1>2, <1>3

LEMMA SyncFetchInv ==
  ASSUME Inv, NEW w \in Workers, SyncFetch(w)
  PROVE  Inv'
  <1> USE DEF Inv
  <1>1. HandlersGood'
    <2> DEFINE now == edx[proc[w].run]
              h == [proc[w] EXCEPT !.pc = "sync", !.dates = now]
    <2>1. CASE Done(w)
      BY <2>1, DoneStep
    <2>2. CASE now # Absent /\ proc' = [proc EXCEPT ![w].pc = "sync", ![w].dates = now]
      <3>1. proc[w].run \in Runs
        BY DEF SyncFetch, HandlersGood, GoodHandler
      <3>2. now \in Dates
        BY <2>2, <3>1 DEF Shape
      <3>3. GoodHandler(h)
        BY <3>2 DEF SyncFetch, HandlersGood, GoodHandler, Handler, Labels
      <3>4. proc' = [proc EXCEPT ![w] = h]
        BY <2>2 DEF HandlersGood, Handler
      <3> QED  BY <3>3, <3>4, HandlerStep
    <2> QED  BY <2>1, <2>2 DEF SyncFetch
  <1>2. RowsSound'
    BY RowsKept DEF SyncFetch, others
  <1>3. Shape'
    BY DEF Shape, SyncFetch, others
  <1> QED  BY <1>1, <1>2, <1>3

LEMMA SyncFetchFailsInv ==
  ASSUME Inv, NEW w \in Workers, SyncFetchFails(w)
  PROVE  Inv'
  <1> USE DEF Inv
  <1>1. HandlersGood'
    BY DoneStep DEF SyncFetchFails
  <1>2. RowsSound'
    BY RowsKept DEF SyncFetchFails, others
  <1>3. Shape'
    BY CountTypes DEF Shape, SyncFetchFails, others
  <1> QED  BY <1>1, <1>2, <1>3

LEMMA SyncSaveInv ==
  ASSUME Inv, NEW w \in Workers, SyncSave(w)
  PROVE  Inv'
  <1> USE DEF Inv
  <1>1. HandlersGood'
    BY DoneStep DEF SyncSave
  <1>2. RowsSound'
    <2> DEFINE x == [proc[w].inst EXCEPT !.dates = proc[w].dates]
    <2>1. Sound(x)
      BY InstanceUpdates DEF SyncSave, HandlersGood, GoodHandler
    <2> QED  BY <2>1, RowsKept, SaveStep DEF SyncSave
  <1>3. Shape'
    BY DEF Shape, SyncSave, Save, others
  <1> QED  BY <1>1, <1>2, <1>3

-----------------------------------------------------------------------------
(* Retiring a run *)

LEMMA RetireCommandInv ==
  ASSUME Inv, NEW w \in Workers, NEW r \in Runs, NEW opts \in SUBSET Options,
         RetireCommand(w, r, opts)
  PROVE  Inv'
  <1> USE DEF Inv
  <1>1. HandlersGood'
    <2>1. PICK l \in {"retire", "push"} :
             proc' = [proc EXCEPT ![w] = [Idle EXCEPT !.run = r, !.inst = row[r],
                                                      !.opts = opts, !.pc = l]]
      BY DEF RetireCommand, Start
    <2>2. GoodHandler([Idle EXCEPT !.run = r, !.inst = row[r], !.opts = opts, !.pc = l])
      BY LoadedGoodLast DEF Labels
    <2> QED  BY <2>1, <2>2, HandlerStep
  <1>2. RowsSound'
    BY RowsKept DEF RetireCommand, others
  <1>3. Shape'
    BY CountTypes DEF Shape, RetireCommand, others
  <1> QED  BY <1>1, <1>2, <1>3

LEMMA RetirePushInv ==
  ASSUME Inv, NEW w \in Workers, NEW a \in Answers, RetirePush(w, a)
  PROVE  Inv'
  <1> USE DEF Inv
  <1>1. HandlersGood'
    <2>1. Done(w) \/ Goto(w, "retire")
      BY DEF RetirePush
    <2> QED  BY <2>1, DoneStep, GotoStep DEF Labels
  <1>2. RowsSound'
    BY RowsKept DEF RetirePush, others
  <1>3. Shape'
    <2>1. count' \in Counts
      BY CountTypes DEF Shape, RetirePush
    <2>2. edx' \in [Runs -> Dates \cup {Absent}]
      BY DateTypes, PushType DEF Shape, RetirePush
    <2>3. settled' \subseteq Runs
      <3>1. proc[w].run \in Runs \/ settled' = settled
        BY DEF RetirePush, HandlersGood, GoodHandler
      <3> QED  BY <3>1 DEF Shape, RetirePush
    <2> QED  BY <2>1, <2>2, <2>3 DEF Shape, RetirePush
  <1> QED  BY <1>1, <1>2, <1>3

LEMMA RetireSaveInv ==
  ASSUME Inv, NEW w \in Workers, RetireSave(w)
  PROVE  Inv'
  <1> USE DEF Inv
  <1>1. HandlersGood'
    <2> DEFINE x == [proc[w].inst EXCEPT !.live = FALSE, !.dates = Past]
    <2>1. Sound(x) /\ ~x.live
      BY RetiredSound DEF HandlersGood, GoodHandler
    <2>2. GoodHandler([proc[w] EXCEPT !.inst = x, !.pc = "move"])
      BY <2>1, InstanceGood DEF HandlersGood
    <2>3. proc' = [proc EXCEPT ![w] = [proc[w] EXCEPT !.inst = x, !.pc = "move"]]
      BY DEF RetireSave, HandlersGood, Handler
    <2> QED  BY <2>2, <2>3, HandlerStep
  <1>2. RowsSound'
    <2> DEFINE x == [proc[w].inst EXCEPT !.live = FALSE, !.dates = Past]
    <2>1. Sound(x)
      BY RetiredSound DEF HandlersGood, GoodHandler
    <2> QED  BY <2>1, SaveStep DEF RetireSave
  <1>3. Shape'
    BY DEF Shape, RetireSave, Save, others
  <1> QED  BY <1>1, <1>2, <1>3

LEMMA MoveRunToRetirementContractInv ==
  ASSUME Inv, NEW w \in Workers, MoveRunToRetirementContract(w)
  PROVE  Inv'
  <1> USE DEF Inv
  <1>1. HandlersGood'
    BY DoneStep DEF MoveRunToRetirementContract
  <1>2. RowsSound'
    <2> DEFINE x == [proc[w].inst EXCEPT !.contract = "holding"]
    <2>1. CASE UNCHANGED row
      BY <2>1, RowsKept
    <2>2. CASE proc[w].inst.contract = "contract" /\ Save(w, x)
      <3>1. Sound(proc[w].inst) /\ ~proc[w].inst.live
        BY DEF MoveRunToRetirementContract, HandlersGood, GoodHandler
      <3>2. Sound(x)
        BY <2>2, <3>1, InstanceUpdates, DateTypes
      <3> QED  BY <2>2, <3>2, SaveStep
    <2> QED  BY <2>1, <2>2 DEF MoveRunToRetirementContract
  <1>3. Shape'
    BY DEF Shape, MoveRunToRetirementContract, Save, others
  <1> QED  BY <1>1, <1>2, <1>3

-----------------------------------------------------------------------------
(* Removing and adding a run *)

LEMMA RemoveCommandInv ==
  ASSUME Inv, NEW w \in Workers, NEW r \in Runs, NEW opts \in SUBSET Options,
         RemoveCommand(w, r, opts)
  PROVE  Inv'
  <1> USE DEF Inv
  <1>1. HandlersGood'
    <2>1. row[r] \in Row
      BY DEF RemoveCommand, Exists, RowsSound, Sound, Rows
    <2>2. GoodHandler([Idle EXCEPT !.pc = "remove", !.run = r, !.inst = row[r],
                                   !.opts = opts])
      BY <2>1, LoadedGood DEF Labels
    <2> QED  BY <2>2, HandlerStep DEF RemoveCommand, Start
  <1>2. RowsSound'
    BY RowsKept DEF RemoveCommand, others
  <1>3. Shape'
    BY CountTypes DEF Shape, RemoveCommand, others
  <1> QED  BY <1>1, <1>2, <1>3

LEMMA RemoveSaveInv ==
  ASSUME Inv, NEW w \in Workers, RemoveSave(w)
  PROVE  Inv'
  <1> USE DEF Inv
  <1>1. HandlersGood'
    <2> DEFINE inst == proc[w].inst
              detach == "enrolled" \notin proc[w].opts /\ inst.contract = "contract"
              x == [live |-> FALSE, dates |-> [inst.dates EXCEPT !.closed = TRUE],
                    contract |-> IF detach THEN "none" ELSE inst.contract]
    <2>1. Sound(x) /\ ~x.live
      <3>1. inst \in Row
        BY DEF RemoveSave, HandlersGood, GoodHandler
      <3>2. (IF detach THEN "none" ELSE inst.contract) \in {"none", inst.contract}
        OBVIOUS
      <3> QED  BY <3>1, <3>2, RemovedSound
    <2>2. GoodHandler([proc[w] EXCEPT !.inst = x, !.pc = "close"])
      BY <2>1, InstanceGood DEF HandlersGood
    <2>3. proc' = [proc EXCEPT ![w] = [proc[w] EXCEPT !.inst = x, !.pc = "close"]]
      BY DEF RemoveSave, HandlersGood, Handler
    <2> QED  BY <2>2, <2>3, HandlerStep
  <1>2. RowsSound'
    <2> DEFINE inst == proc[w].inst
              detach == "enrolled" \notin proc[w].opts /\ inst.contract = "contract"
              x == [live |-> FALSE, dates |-> [inst.dates EXCEPT !.closed = TRUE],
                    contract |-> IF detach THEN "none" ELSE inst.contract]
    <2>1. Sound(x) /\ ~x.live
      <3>1. inst \in Row
        BY DEF RemoveSave, HandlersGood, GoodHandler
      <3>2. (IF detach THEN "none" ELSE inst.contract) \in {"none", inst.contract}
        OBVIOUS
      <3> QED  BY <3>1, <3>2, RemovedSound
    <2> QED  BY <2>1, SaveStep DEF RemoveSave
  <1>3. Shape'
    BY DEF Shape, RemoveSave, Save, others
  <1> QED  BY <1>1, <1>2, <1>3

LEMMA RemovePushInv ==
  ASSUME Inv, NEW w \in Workers, NEW a \in Answers, RemovePush(w, a)
  PROVE  Inv'
  <1> USE DEF Inv
  <1>1. HandlersGood'
    BY DoneStep DEF RemovePush
  <1>2. RowsSound'
    BY RowsKept DEF RemovePush, others
  <1>3. Shape'
    <2>1. count' \in Counts
      BY CountTypes DEF Shape, RemovePush
    <2>2. edx' \in [Runs -> Dates \cup {Absent}]
      <3>1. proc[w].inst.dates \in Dates \cup {Absent}
        BY InstanceDates DEF HandlersGood, GoodHandler
      <3> QED  BY <3>1, PushType DEF Shape, RemovePush
    <2> QED  BY <2>1, <2>2 DEF Shape, RemovePush, others
  <1> QED  BY <1>1, <1>2, <1>3

LEMMA AddCommandInv ==
  ASSUME Inv, NEW w \in Workers, NEW r \in Runs, NEW opts \in SUBSET Options,
         AddCommand(w, r, opts)
  PROVE  Inv'
  <1> USE DEF Inv
  <1>1. HandlersGood'
    <2>1. row[r] \in Row
      BY InstanceUpdates, DateTypes DEF AddCommand, Exists, RowsSound, Sound, Rows
    <2>2. GoodHandler([Idle EXCEPT !.pc = "add", !.run = r, !.inst = row[r]])
      BY <2>1, LoadedGood DEF Labels
    <2> QED  BY <2>2, HandlerStep DEF AddCommand, Start
  <1>2. RowsSound'
    BY RowsKept DEF AddCommand, others
  <1>3. Shape'
    BY CountTypes DEF Shape, AddCommand, others
  <1> QED  BY <1>1, <1>2, <1>3

LEMMA AddSaveInv ==
  ASSUME Inv, NEW w \in Workers, AddSave(w)
  PROVE  Inv'
  <1> USE DEF Inv
  <1>1. HandlersGood'
    BY DoneStep DEF AddSave
  <1>2. RowsSound'
    <2> DEFINE x == [proc[w].inst EXCEPT !.contract = "contract"]
    <2>1. Sound(x)
      BY InstanceUpdates, DateTypes DEF AddSave, HandlersGood, GoodHandler
    <2> QED  BY <2>1, SaveStep DEF AddSave
  <1>3. Shape'
    BY DEF Shape, AddSave, Save, others
  <1> QED  BY <1>1, <1>2, <1>3

-----------------------------------------------------------------------------
(* Faults *)

LEMMA CrashInv ==
  ASSUME Inv, NEW w \in Workers, Crash(w)
  PROVE  Inv'
  <1> USE DEF Inv
  <1>1. HandlersGood'
    BY DoneStep DEF Crash
  <1>2. RowsSound'
    BY RowsKept DEF Crash, others
  <1>3. Shape'
    <2>1. clone' \in [Runs -> Clones]
      <3>1. CASE UNCHANGED clone
        BY <3>1 DEF Shape
      <3>2. CASE \E state \in {"queued", "lost"} :
                   clone' = [clone EXCEPT ![proc[w].run].state = state]
        <4>1. PICK state \in {"queued", "lost"} :
                 clone' = [clone EXCEPT ![proc[w].run].state = state]
          BY <3>2
        <4>2. clone \in [Runs -> Clones]
          BY DEF Shape
        <4>3. \A r : [clone EXCEPT ![r].state = state] \in [Runs -> Clones]
          BY <4>2, CloneTypes
        <4> QED  BY <4>1, <4>3
      <3> QED  BY <3>1, <3>2 DEF Crash
    <2> QED  BY <2>1, CountTypes DEF Shape, Crash
  <1> QED  BY <1>1, <1>2, <1>3

LEMMA StepInv ==
  ASSUME Inv, NEW w \in Workers, Step(w)
  PROVE  Inv'
  BY CheckExistsInv, ChooseKeyInv, QueueCloneInv, InsertRunInv,
     CloneCheckInv, CloneCallInv, CloneFixInv, SyncFetchInv, SyncFetchFailsInv,
     SyncSaveInv, RetirePushInv, RemovePushInv, RetireSaveInv,
     MoveRunToRetirementContractInv, RemoveSaveInv, AddSaveInv
  DEF Step

LEMMA BeginInv ==
  ASSUME Inv, NEW w \in Workers, Begin(w)
  PROVE  Inv'
  <1>1. CASE CreateProgramContractRuns(w)
    BY <1>1, CreateProgramContractRunsInv
  <1>2. ASSUME NEW opts \in SUBSET (Options \cap {"no_reruns", "skip_edx"}),
               CreateCommand(w, opts)
        PROVE  Inv'
    BY <1>2, CreateCommandInv
  <1>3. ASSUME NEW r \in Runs, StartClone(w, r) \/ StartSync(w, r) \/ SyncCommand(w, r)
        PROVE  Inv'
    BY <1>3, StartCloneInv, StartSyncInv, SyncCommandInv
  <1>4. ASSUME NEW r \in Runs, NEW opts \in SUBSET Options,
               RetireCommand(w, r, opts) \/ RemoveCommand(w, r, opts)
                 \/ AddCommand(w, r, opts)
        PROVE  Inv'
    BY <1>4, RetireCommandInv, RemoveCommandInv, AddCommandInv
  <1>5. \A o : SUBSET (Options \cap o) \subseteq SUBSET Options
    OBVIOUS
  <1> QED  BY <1>1, <1>2, <1>3, <1>4, <1>5 DEF Begin

LEMMA NextInv == Inv /\ [Next]_vars => Inv'
  <1> SUFFICES ASSUME Inv, [Next]_vars PROVE Inv'
    OBVIOUS
  <1>1. ASSUME NEW w \in Workers, Begin(w) \/ Step(w) \/ Crash(w)
        PROVE  Inv'
    BY <1>1, BeginInv, StepInv, CrashInv
  <1>2. CASE UNCHANGED vars
    BY <1>2 DEF vars, Inv, Shape, RowsSound, HandlersGood
  <1> QED  BY <1>1, <1>2 DEF Next

\* Rows, edX, tasks and handlers keep their shape, no clone task is retried more
\* often than max_retries, and every key that create_contract_run_key computes
\* is one that is free to use.
THEOREM ContractRunTypes == Spec => []TypeOK
  BY InitInv, NextInv, InvImplies, PTL DEF Spec

\* A run is never live outside of its contract, however many handlers with stale
\* instances save them, in whatever order, and wherever they die.
THEOREM LiveRunsHaveContract == Spec => []LiveOnlyUnderContract
  BY InitInv, NextInv, InvImplies, PTL DEF Spec

-----------------------------------------------------------------------------
(* Why there are several runs                                              *)

\* Handlers that are going to save the run they have in hand.
Savers == {"fetch", "sync", "push", "retire", "move", "remove", "add"}

Saves(w) == proc[w].pc \in Savers

\* A handler saves a run that is there, and only the task looks for one.
Held ==
    \A w \in Workers :
        /\ Saves(w) => /\ proc[w].run \in Runs /\ Exists(proc[w].run)
                       /\ proc[w].inst \in Row
        /\ proc[w].pc = "exists" => "task" \in proc[w].opts

\* Runs outside of the contract, or that a stale instance may take out.
Out == {r \in Runs :
          /\ Exists(r)
          /\ \/ row[r].contract # "contract"
             \/ \E w \in Workers : /\ Saves(w) /\ proc[w].run = r
                                   /\ proc[w].inst.contract # "contract"}

\* Workers that will create a run; those of them that a command started; and
\* the tasks of programs that will create one or look whether there is one.
Creators == {w \in Workers : proc[w].pc \in {"key", "insert"}}
Commanded == {w \in Creators : "task" \notin proc[w].opts}
Tasks == {w \in Workers : TaskUnderWay(w)}

\* Every run and every worker about to create one has its cause, but for one;
\* so has every task that may come to that once no run is left in the contract.
RunsCaused == Cardinality(Created) + Cardinality(Creators) <= 1 + causes
TasksCaused ==
    /\ Cardinality(Out) + Cardinality(Commanded) <= causes
    /\ Cardinality(Out) + Cardinality(Commanded) + Cardinality(Tasks) <= 1 + causes

Causes == Held /\ RunsCaused /\ TasksCaused

\* Counting sets that change by one element.
LEMMA NoMore ==
  ASSUME NEW S, IsFiniteSet(S), NEW T \in SUBSET S
  PROVE  IsFiniteSet(T) /\ Cardinality(T) <= Cardinality(S) /\ Cardinality(T) \in Nat
  BY FS_Subset, FS_CardinalityType

LEMMA OneMore ==
  ASSUME NEW S, IsFiniteSet(S), NEW x, NEW T \in SUBSET (S \cup {x})
  PROVE  Cardinality(T) <= Cardinality(S) + 1
  <1>1. /\ IsFiniteSet(S \cup {x})
        /\ \/ Cardinality(S \cup {x}) = Cardinality(S)
           \/ Cardinality(S \cup {x}) = Cardinality(S) + 1
    BY FS_AddElement
  <1>2. Cardinality(T) <= Cardinality(S \cup {x}) /\ Cardinality(T) \in Nat
    BY <1>1, NoMore
  <1>3. Cardinality(S) \in Nat
    BY FS_CardinalityType
  <1> QED  BY <1>1, <1>2, <1>3

LEMMA OneLess ==
  ASSUME NEW S, IsFiniteSet(S), NEW x \in S, NEW T \in SUBSET (S \ {x})
  PROVE  Cardinality(T) <= Cardinality(S) - 1
  <1>1. IsFiniteSet(S \ {x}) /\ Cardinality(S \ {x}) = Cardinality(S) - 1
    BY FS_RemoveElement
  <1> QED  BY <1>1, NoMore

LEMMA CountedSets ==
  /\ IsFiniteSet(Runs) /\ IsFiniteSet(Workers)
  /\ Created \in SUBSET Runs /\ Created' \in SUBSET Runs
  /\ Out \in SUBSET Created /\ Out' \in SUBSET Runs
  /\ Creators \in SUBSET Workers /\ Creators' \in SUBSET Workers
  /\ Commanded \in SUBSET Creators /\ Commanded' \in SUBSET Creators'
  /\ Tasks \in SUBSET Workers /\ Tasks' \in SUBSET Workers
  <1>1. IsFiniteSet(Runs)
    BY RunsFinite
  <1>2. IsFiniteSet(Workers)
    BY ContractRunsAssumption
  <1> QED  BY <1>1, <1>2 DEF Created, Out, Creators, Commanded, Tasks, Exists

LEMMA CountedSetsFinite ==
  /\ IsFiniteSet(Created) /\ IsFiniteSet(Out) /\ IsFiniteSet(Creators)
  /\ IsFiniteSet(Commanded) /\ IsFiniteSet(Tasks)
  /\ Cardinality(Created) \in Nat /\ Cardinality(Out) \in Nat
  /\ Cardinality(Creators) \in Nat /\ Cardinality(Commanded) \in Nat
  /\ Cardinality(Tasks) \in Nat
  <1>1. IsFiniteSet(Created) /\ IsFiniteSet(Out)
    BY CountedSets, NoMore
  <1>2. IsFiniteSet(Creators) /\ IsFiniteSet(Commanded) /\ IsFiniteSet(Tasks)
    BY CountedSets, NoMore
  <1> QED  BY <1>1, <1>2, FS_CardinalityType

LEMMA CountedSetsFiniteNext ==
  /\ IsFiniteSet(Created') /\ IsFiniteSet(Out') /\ IsFiniteSet(Creators')
  /\ IsFiniteSet(Commanded') /\ IsFiniteSet(Tasks')
  /\ Cardinality(Created') \in Nat /\ Cardinality(Out') \in Nat
  /\ Cardinality(Creators') \in Nat /\ Cardinality(Commanded') \in Nat
  /\ Cardinality(Tasks') \in Nat
  <1>1. IsFiniteSet(Created') /\ IsFiniteSet(Out')
    BY CountedSets, NoMore
  <1>2. IsFiniteSet(Creators') /\ IsFiniteSet(Commanded') /\ IsFiniteSet(Tasks')
    BY CountedSets, NoMore
  <1> QED  BY <1>1, <1>2, FS_CardinalityType

-----------------------------------------------------------------------------
(* What a step of a worker does to the sets that are counted *)

\* The handler h that replaces the one of w starts nothing new and takes nothing
\* out of the contract but what is in G.
Quiet(w, h, G) ==
    /\ h.pc # "exists"
    /\ h.pc \in {"key", "insert"} =>
          /\ proc[w].pc \in {"key", "insert"}
          /\ h.opts = proc[w].opts
    /\ h.pc \in Savers =>
          /\ h.run \in Runs /\ Exists(h.run) /\ h.inst \in Row
          /\ h.inst.contract # "contract" => h.run \in G

QuietRows(G) ==
    \A r \in Runs : /\ row'[r] # NoRow <=> row[r] # NoRow
                    /\ row'[r] # NoRow /\ row'[r].contract # "contract" => r \in G

LEMMA QuietStep ==
  ASSUME Inv, Held, NEW w \in Workers, NEW h, NEW G, Out \subseteq G,
         proc' = [proc EXCEPT ![w] = h], Quiet(w, h, G), QuietRows(G)
  PROVE  /\ Held'
         /\ Created' = Created /\ Out' \subseteq G
         /\ Creators' \subseteq Creators /\ Commanded' \subseteq Commanded
         /\ Tasks' \subseteq Tasks
  <1>1. proc' \in [Workers -> {proc[v] : v \in Workers} \cup {h}]
        /\ \A v \in Workers : proc'[v] = IF v = w THEN h ELSE proc[v]
    BY DEF Inv, HandlersGood
  <1>2. Created' = Created
    BY DEF Created, Exists, QuietRows
  <1>3. Held'
    <2> SUFFICES ASSUME NEW v \in Workers
                 PROVE  /\ Saves(v)' => /\ proc'[v].run \in Runs
                                        /\ row'[proc'[v].run] # NoRow
                                        /\ proc'[v].inst \in Row
                        /\ proc'[v].pc = "exists" => "task" \in proc'[v].opts
      BY DEF Held, Exists
    <2>1. CASE v = w
      BY <1>1, <2>1 DEF Saves, Quiet, QuietRows, Exists
    <2>2. CASE v # w
      <3>1. proc'[v] = proc[v]
        BY <1>1, <2>2
      <3> QED  BY <3>1 DEF Saves, Held, QuietRows, Exists
    <2> QED  BY <2>1, <2>2
  <1>4. Out' \subseteq G
    <2> SUFFICES ASSUME NEW r \in Runs, row'[r] # NoRow,
                        \/ row'[r].contract # "contract"
                        \/ \E v \in Workers : /\ Saves(v)' /\ proc'[v].run = r
                                              /\ proc'[v].inst.contract # "contract"
                 PROVE  r \in G
      BY DEF Out, Exists
    <2>1. CASE row'[r].contract # "contract"
      BY <2>1 DEF QuietRows
    <2>2. ASSUME NEW v \in Workers, Saves(v)', proc'[v].run = r,
                 proc'[v].inst.contract # "contract"
          PROVE  r \in G
      <3>1. CASE v = w
        BY <1>1, <2>2, <3>1 DEF Saves, Quiet
      <3>2. CASE v # w
        <4>1. proc'[v] = proc[v]
          BY <1>1, <3>2
        <4>2. Saves(v) /\ Exists(r)
          BY <4>1, <2>2 DEF Saves, QuietRows, Exists
        <4> QED  BY <4>1, <4>2, <2>2 DEF Out
      <3> QED  BY <3>1, <3>2
    <2> QED  BY <2>1, <2>2
  <1>5. Creators' \subseteq Creators
    BY <1>1 DEF Creators, Quiet
  <1>6. Commanded' \subseteq Commanded
    BY <1>1 DEF Creators, Commanded, Quiet
  <1>7. Tasks' \subseteq Tasks
    BY <1>1 DEF Tasks, TaskUnderWay, Quiet
  <1> QED  BY <1>2, <1>3, <1>4, <1>5, <1>6, <1>7

LEMMA NothingCaused ==
  ASSUME Inv, Inv', Causes, Held', Created' = Created, Out' \subseteq Out,
         Creators' \subseteq Creators, Commanded' \subseteq Commanded,
         Tasks' \subseteq Tasks, UNCHANGED causes
  PROVE  Causes'
  <1>1. Shape /\ Shape' /\ causes \in Nat
    BY DEF Inv, Shape
  <1>3. Cardinality(Creators') <= Cardinality(Creators)
    BY <1>1, CountedSetsFinite, NoMore
  <1>4. Cardinality(Out') <= Cardinality(Out)
    BY <1>1, CountedSetsFinite, NoMore
  <1>5. Cardinality(Commanded') <= Cardinality(Commanded)
    BY <1>1, CountedSetsFinite, NoMore
  <1>6. Cardinality(Tasks') <= Cardinality(Tasks)
    BY CountedSetsFinite, NoMore
  <1>7. RunsCaused'
    BY <1>1, <1>3, CountedSetsFinite, CountedSetsFiniteNext DEF Causes, RunsCaused
  <1>8. TasksCaused'
    BY <1>1, <1>4, <1>5, <1>6, CountedSetsFinite, CountedSetsFiniteNext
    DEF Causes, TasksCaused
  <1> QED  BY <1>7, <1>8 DEF Causes

LEMMA OneTakenOut ==
  ASSUME Inv, Inv', Causes, Held', NEW r, Created' = Created,
         Out' \subseteq Out \cup {r}, Creators' \subseteq Creators,
         Commanded' \subseteq Commanded, Tasks' \subseteq Tasks,
         causes' = causes + 1
  PROVE  Causes'
  <1>1. Shape /\ Shape' /\ causes \in Nat
    BY DEF Inv, Shape
  <1>3. Cardinality(Creators') <= Cardinality(Creators)
    BY <1>1, CountedSetsFinite, NoMore
  <1>4. Cardinality(Out') <= Cardinality(Out) + 1
    BY <1>1, CountedSetsFinite, OneMore
  <1>5. Cardinality(Commanded') <= Cardinality(Commanded)
    BY <1>1, CountedSetsFinite, NoMore
  <1>6. Cardinality(Tasks') <= Cardinality(Tasks)
    BY CountedSetsFinite, NoMore
  <1>7. RunsCaused'
    BY <1>1, <1>3, CountedSetsFinite, CountedSetsFiniteNext DEF Causes, RunsCaused
  <1>8. TasksCaused'
    BY <1>1, <1>4, <1>5, <1>6, CountedSetsFinite, CountedSetsFiniteNext
    DEF Causes, TasksCaused
  <1> QED  BY <1>7, <1>8 DEF Causes

LEMMA QuietCauses ==
  ASSUME Inv, Inv', Causes, NEW w \in Workers, NEW h,
         proc' = [proc EXCEPT ![w] = h], Quiet(w, h, Out), QuietRows(Out),
         UNCHANGED causes
  PROVE  Causes'
  <1>1. /\ Held' /\ Created' = Created /\ Out' \subseteq Out
        /\ Creators' \subseteq Creators /\ Commanded' \subseteq Commanded
        /\ Tasks' \subseteq Tasks
    BY QuietStep DEF Causes
  <1> QED  BY <1>1, NothingCaused

LEMMA RowsQuiet == RowsSound /\ UNCHANGED row => QuietRows(Out)
  BY DEF QuietRows, Out, Exists

\* A handler that ends, or goes on without creating or saving a run.
Elsewhere == Labels \ (Savers \cup {"idle", "exists", "key", "insert"})

LEMMA DoneQuiet ==
  ASSUME NEW w \in Workers, NEW G
  PROVE  Quiet(w, Idle, G)
  BY DEF Quiet, Idle, Savers

LEMMA DoneCauses ==
  ASSUME Inv, Inv', Causes, NEW w \in Workers, Done(w), UNCHANGED <<row, causes>>
  PROVE  Causes'
  <1>1. QuietRows(Out)
    BY RowsQuiet DEF Inv
  <1> QED  BY <1>1, DoneQuiet, QuietCauses DEF Done

LEMMA GotoCauses ==
  ASSUME Inv, Inv', Causes, NEW w \in Workers, NEW l \in Elsewhere,
         proc[w].pc # "idle", Goto(w, l), UNCHANGED <<row, causes>>
  PROVE  Causes'
  <1> DEFINE h == [proc[w] EXCEPT !.pc = l]
  <1>1. h.pc = l /\ h.opts = proc[w].opts /\ proc' = [proc EXCEPT ![w] = h]
    BY DEF Goto, Inv, HandlersGood, Handler
  <1>2. Quiet(w, h, Out)
    <2> HIDE DEF h
    <2> QED  BY <1>1 DEF Quiet, Elsewhere
  <1>3. QuietRows(Out)
    BY RowsQuiet DEF Inv
  <1> QED  BY <1>1, <1>2, <1>3, QuietCauses

\* A handler that loads its run from the row.
LEMMA LoadCauses ==
  ASSUME Inv, Inv', Causes, NEW w \in Workers, NEW r \in Runs, Exists(r), NEW h,
         h.pc \in Labels \ {"idle", "exists", "key", "insert"}, h.run = r,
         h.inst = row[r], "task" \notin h.opts,
         proc' = [proc EXCEPT ![w] = h], UNCHANGED <<row, causes>>
  PROVE  Causes'
  <1>1. row[r] \in Row
    BY DEF Inv, RowsSound, Rows, Exists
  <1>2. row[r].contract # "contract" => r \in Out
    BY DEF Out
  <1>3. Quiet(w, h, Out)
    BY <1>1, <1>2 DEF Quiet
  <1>4. QuietRows(Out)
    BY RowsQuiet DEF Inv
  <1> QED  BY <1>3, <1>4, QuietCauses

-----------------------------------------------------------------------------
(* Handlers that create runs *)

LEMMA CreateProgramContractRunsCaused ==
  ASSUME Inv, Inv', Causes, NEW w \in Workers, CreateProgramContractRuns(w)
  PROVE  Causes'
  <1>1. PICK h : /\ h = [Idle EXCEPT !.pc = "exists", !.opts = {"task"}]
                 /\ proc' = [proc EXCEPT ![w] = h]
    BY DEF CreateProgramContractRuns, Start
  <1>2. h.pc = "exists" /\ h.opts = {"task"}
    BY <1>1 DEF Idle
  <1>3. \A v \in Workers : proc'[v] = IF v = w THEN h ELSE proc[v]
    BY <1>1 DEF Inv, HandlersGood
  <1>4. /\ row' = row
        /\ causes' = IF \E x \in Workers : TaskUnderWay(x) THEN causes + 1 ELSE causes
    BY DEF CreateProgramContractRuns
  <1>5. Held'
    BY <1>2, <1>3, <1>4 DEF Causes, Held, Saves, Savers, Exists
  <1>6. Created' = Created /\ Out' \subseteq Out
    BY <1>2, <1>3, <1>4 DEF Created, Out, Exists, Saves, Savers
  <1>7. Creators' \subseteq Creators /\ Commanded' \subseteq Commanded
    BY <1>2, <1>3 DEF Creators, Commanded
  <1>8. Tasks' \subseteq Tasks \cup {w}
    BY <1>3 DEF Tasks, TaskUnderWay
  <1>9. causes \in Nat
    BY DEF Inv, Shape
  <1>10. /\ Cardinality(Creators') <= Cardinality(Creators)
         /\ Cardinality(Out') <= Cardinality(Out)
         /\ Cardinality(Commanded') <= Cardinality(Commanded)
    BY <1>6, <1>7, CountedSetsFinite, NoMore
  <1>11. Cardinality(Tasks') <= Cardinality(Tasks) + 1
    BY <1>8, CountedSetsFinite, OneMore
  <1>12. causes' \in {causes, causes + 1} /\ (causes' = causes => Cardinality(Tasks) = 0)
    <2>1. CASE \E x \in Workers : TaskUnderWay(x)
      BY <1>4, <1>9, <2>1
    <2>2. CASE ~\E x \in Workers : TaskUnderWay(x)
      <3>1. Tasks = {}
        BY <2>2 DEF Tasks
      <3> QED  BY <1>4, <2>2, <3>1, FS_EmptySet
    <2> QED  BY <2>1, <2>2
  <1>13. RunsCaused'
    BY <1>6, <1>9, <1>10, <1>12, CountedSetsFinite, CountedSetsFiniteNext
    DEF Causes, RunsCaused
  <1>14. TasksCaused'
    BY <1>9, <1>10, <1>11, <1>12, CountedSetsFinite, CountedSetsFiniteNext
    DEF Causes, TasksCaused
  <1> QED  BY <1>5, <1>13, <1>14 DEF Causes

LEMMA CreateCommandCaused ==
  ASSUME Inv, Inv', Causes, NEW w \in Workers, NEW opts \in SUBSET Options,
         CreateCommand(w, opts)
  PROVE  Causes'
  <1>1. PICK h : /\ h = [Idle EXCEPT !.pc = "key", !.opts = opts]
                 /\ proc' = [proc EXCEPT ![w] = h]
    BY DEF CreateCommand, Start
  <1>2. h.pc = "key" /\ h.opts = opts /\ "task" \notin opts
    BY <1>1, ContractRunsAssumption DEF Idle, AllOptions
  <1>3. \A v \in Workers : proc'[v] = IF v = w THEN h ELSE proc[v]
    BY <1>1 DEF Inv, HandlersGood
  <1>4. row' = row /\ causes' = causes + 1
    BY DEF CreateCommand
  <1>5. Held'
    BY <1>2, <1>3, <1>4 DEF Causes, Held, Saves, Savers, Exists
  <1>6. Created' = Created /\ Out' \subseteq Out
    BY <1>2, <1>3, <1>4 DEF Created, Out, Exists, Saves, Savers
  <1>7. Creators' \subseteq Creators \cup {w} /\ Commanded' \subseteq Commanded \cup {w}
    BY <1>2, <1>3 DEF Creators, Commanded
  <1>8. Tasks' \subseteq Tasks
    BY <1>2, <1>3, <1>4 DEF Tasks, TaskUnderWay
  <1>9. Shape /\ Shape' /\ causes \in Nat
    BY DEF Inv, Shape
  <1>10. /\ Cardinality(Creators') <= Cardinality(Creators) + 1
         /\ Cardinality(Commanded') <= Cardinality(Commanded) + 1
    BY <1>7, <1>9, CountedSetsFinite, OneMore
  <1>11. /\ Cardinality(Out') <= Cardinality(Out)
         /\ Cardinality(Tasks') <= Cardinality(Tasks)
    BY <1>6, <1>8, <1>9, CountedSetsFinite, NoMore
  <1>12. RunsCaused'
    BY <1>4, <1>6, <1>9, <1>10, CountedSetsFinite, CountedSetsFiniteNext
    DEF Causes, RunsCaused
  <1>13. TasksCaused'
    BY <1>4, <1>9, <1>10, <1>11, CountedSetsFinite, CountedSetsFiniteNext
    DEF Causes, TasksCaused
  <1> QED  BY <1>5, <1>12, <1>13 DEF Causes

\* The task goes on to create a run only if none is in the contract.  Then every
\* run there is has been taken out, and has its cause as such.
LEMMA CheckExistsCaused ==
  ASSUME Inv, Inv', Causes, NEW w \in Workers, CheckExists(w)
  PROVE  Causes'
  <1>1. CASE HasContractRun
    <2>1. Done(w) /\ UNCHANGED <<row, causes>>
      BY <1>1 DEF CheckExists, others
    <2> QED  BY <2>1, DoneCauses
  <1>2. CASE ~HasContractRun
    <2>1. PICK h : /\ h = [proc[w] EXCEPT !.pc = "key"]
                   /\ proc' = [proc EXCEPT ![w] = h]
      BY <1>2 DEF CheckExists, Goto, Inv, HandlersGood
    <2>2. h.pc = "key" /\ h.opts = proc[w].opts /\ proc[w].pc = "exists"
      BY <2>1 DEF CheckExists, Inv, HandlersGood, Handler
    <2>3. \A v \in Workers : proc'[v] = IF v = w THEN h ELSE proc[v]
      BY <2>1 DEF Inv, HandlersGood
    <2>4. row' = row /\ causes' = causes
      BY DEF CheckExists, others
    <2>5. "task" \in proc[w].opts
      BY <2>2 DEF Causes, Held
    <2>6. Held'
      BY <2>2, <2>3, <2>4 DEF Causes, Held, Saves, Savers, Exists
    <2>7. Created' = Created /\ Out' \subseteq Out
      BY <2>2, <2>3, <2>4 DEF Created, Out, Exists, Saves, Savers
    <2>8. Commanded' \subseteq Commanded /\ Creators' \subseteq Commanded \cup Tasks
      BY <2>2, <2>3, <2>5 DEF Creators, Commanded, Tasks, TaskUnderWay
    <2>9. Tasks' \subseteq Tasks
      BY <2>2, <2>3, <2>4, <2>5 DEF Tasks, TaskUnderWay
    <2>10. Shape /\ Shape' /\ causes \in Nat
      BY DEF Inv, Shape
    <2>11. Created \subseteq Out
      BY <1>2 DEF HasContractRun, Created, Out, Exists
    <2>12. Cardinality(Creators') <= Cardinality(Commanded) + Cardinality(Tasks)
      <3>1. Creators' \in SUBSET (Commanded \cup Tasks)
        BY <2>8
      <3>2. IsFiniteSet(Commanded \cup Tasks)
        BY <2>10, CountedSetsFinite, FS_Union
      <3>3. Cardinality(Commanded \cup Tasks) =
               Cardinality(Commanded) + Cardinality(Tasks)
               - Cardinality(Commanded \cap Tasks)
        BY <2>10, CountedSetsFinite, FS_Union
      <3>4. Cardinality(Commanded \cap Tasks) \in Nat
        <4>1. (Commanded \cap Tasks) \in SUBSET Commanded
          OBVIOUS
        <4> QED  BY <4>1, <2>10, CountedSetsFinite, NoMore
      <3>5. Cardinality(Creators') <= Cardinality(Commanded \cup Tasks)
        BY <3>1, <3>2, NoMore
      <3> QED  BY <3>3, <3>4, <3>5, <2>10, CountedSetsFinite, CountedSetsFiniteNext
    <2>13. Cardinality(Created') <= Cardinality(Out)
      BY <2>7, <2>10, <2>11, CountedSetsFinite, NoMore
    <2>14. RunsCaused'
      BY <2>4, <2>10, <2>12, <2>13, CountedSetsFinite, CountedSetsFiniteNext
      DEF Causes, RunsCaused, TasksCaused
    <2>15. /\ Cardinality(Out') <= Cardinality(Out)
           /\ Cardinality(Commanded') <= Cardinality(Commanded)
           /\ Cardinality(Tasks') <= Cardinality(Tasks)
      BY <2>7, <2>8, <2>9, <2>10, CountedSetsFinite, NoMore
    <2>16. TasksCaused'
      BY <2>4, <2>10, <2>15, CountedSetsFinite, CountedSetsFiniteNext
      DEF Causes, TasksCaused
    <2> QED  BY <2>6, <2>14, <2>16 DEF Causes
  <1> QED  BY <1>1, <1>2

LEMMA ChooseKeyCaused ==
  ASSUME Inv, Inv', Causes, NEW w \in Workers, ChooseKey(w)
  PROVE  Causes'
  <1>1. /\ proc[w].pc = "key" /\ UNCHANGED <<row, causes>>
        /\ \/ Done(w)
           \/ proc' = [proc EXCEPT ![w].run = CreateContractRunKey, ![w].pc = "insert"]
    BY DEF ChooseKey, others
  <1>2. CASE Done(w)
    BY <1>1, <1>2, DoneCauses
  <1>3. CASE proc' = [proc EXCEPT ![w].run = CreateContractRunKey, ![w].pc = "insert"]
    <2>1. PICK h : /\ h = [proc[w] EXCEPT !.run = CreateContractRunKey, !.pc = "insert"]
                   /\ proc' = [proc EXCEPT ![w] = h]
      BY <1>3 DEF Inv, HandlersGood, Handler
    <2>2. h.pc = "insert" /\ h.opts = proc[w].opts
      BY <2>1 DEF Inv, HandlersGood, Handler
    <2>3. Quiet(w, h, Out)
      BY <1>1, <2>2 DEF Quiet, Savers
    <2>4. QuietRows(Out)
      BY <1>1, RowsQuiet DEF Inv
    <2> QED  BY <1>1, <2>1, <2>3, <2>4, QuietCauses
  <1> QED  BY <1>1, <1>2, <1>3

\* A run takes the place of the worker that was to create it.
LEMMA InsertRunCaused ==
  ASSUME Inv, Inv', Causes, NEW w \in Workers, NEW from \in ContractDates,
         InsertRun(w, from)
  PROVE  Causes'
  <1>1. PICK h \in {Idle, [proc[w] EXCEPT !.pc = "queue"]} : proc' = [proc EXCEPT ![w] = h]
    <2>1. CASE Done(w)
      BY <2>1 DEF Done
    <2>2. CASE Goto(w, "queue")
      BY <2>2 DEF Goto, Inv, HandlersGood
    <2> QED  BY <2>1, <2>2 DEF InsertRun
  <1>0. h.pc \in {"idle", "queue"}
    BY DEF Idle, Inv, HandlersGood, Handler
  <1>2. proc[w].pc = "insert" /\ UNCHANGED causes
    BY DEF InsertRun, others
  <1>3. CASE Exists(proc[w].run)
    <2>1. row' = row
      BY <1>3 DEF InsertRun
    <2>2. QuietRows(Out)
      BY <2>1, RowsQuiet DEF Inv
    <2>3. Quiet(w, h, Out)
      BY <1>0 DEF Quiet, Savers
    <2> QED  BY <1>1, <1>2, <2>2, <2>3, QuietCauses
  <1>4. CASE ~Exists(proc[w].run)
    <2>1. PICK r, x : /\ r = proc[w].run /\ x.contract = "contract"
                      /\ row' = [row EXCEPT ![r] = x]
      BY <1>4 DEF InsertRun
    <2>3. h.pc \in {"idle", "queue"}
      BY <1>0
    <2>4. \A v \in Workers : proc'[v] = IF v = w THEN h ELSE proc[v]
      BY <1>1 DEF Inv, HandlersGood
    <2>5. row[r] = NoRow
      BY <1>4, <2>1 DEF Exists
    <2>6. \A q \in Runs : row'[q] = IF q = r THEN x ELSE row[q]
      BY <2>1 DEF Inv, RowsSound
    <2>7. \A v \in Workers : Saves(v)' => v # w /\ Saves(v) /\ proc[v].run # r
      BY <2>3, <2>4, <2>5 DEF Causes, Held, Saves, Savers, Exists
    <2>8. Held'
      <3> SUFFICES ASSUME NEW v \in Workers
                   PROVE  /\ Saves(v)' => /\ proc'[v].run \in Runs
                                          /\ row'[proc'[v].run] # NoRow
                                          /\ proc'[v].inst \in Row
                          /\ proc'[v].pc = "exists" => "task" \in proc'[v].opts
        BY DEF Held, Exists
      <3>1. CASE v = w
        BY <2>3, <2>4, <3>1 DEF Saves, Savers
      <3>2. CASE v # w
        <4>1. proc'[v] = proc[v]
          BY <2>4, <3>2
        <4> QED  BY <2>6, <2>7, <4>1 DEF Causes, Held, Exists
      <3> QED  BY <3>1, <3>2
    <2>9. Created' \subseteq Created \cup {r}
      BY <2>6 DEF Created, Exists
    <2>10. Out' \subseteq Out
      <3> SUFFICES ASSUME NEW q \in Runs, row'[q] # NoRow,
                          \/ row'[q].contract # "contract"
                          \/ \E v \in Workers : /\ Saves(v)' /\ proc'[v].run = q
                                                /\ proc'[v].inst.contract # "contract"
                   PROVE  q \in Out
        BY DEF Out, Exists
      <3>1. CASE row'[q].contract # "contract"
        BY <2>1, <2>6, <3>1 DEF Out, Exists
      <3>2. ASSUME NEW v \in Workers, Saves(v)', proc'[v].run = q,
                   proc'[v].inst.contract # "contract"
            PROVE  q \in Out
        <4>1. v # w /\ Saves(v) /\ proc[v].run # r
          BY <2>7, <3>2
        <4>2. proc'[v] = proc[v]
          BY <2>4, <4>1
        <4>3. Exists(q)
          BY <2>6, <3>2, <4>1, <4>2 DEF Exists
        <4> QED  BY <3>2, <4>1, <4>2, <4>3 DEF Out
      <3> QED  BY <3>1, <3>2
    <2>11. Creators' \subseteq Creators \ {w} /\ w \in Creators
      BY <1>2, <2>3, <2>4 DEF Creators
    <2>12. Commanded' \subseteq Commanded
      BY <2>3, <2>4 DEF Creators, Commanded
    <2>13. Tasks' \subseteq Tasks
      BY <1>2, <2>3, <2>4 DEF Tasks, TaskUnderWay
    <2>14. Shape /\ Shape' /\ causes \in Nat
      BY DEF Inv, Shape
    <2>15. Cardinality(Created') <= Cardinality(Created) + 1
      BY <2>9, <2>14, CountedSetsFinite, OneMore
    <2>16. Cardinality(Creators') <= Cardinality(Creators) - 1
      BY <2>11, <2>14, CountedSetsFinite, OneLess
    <2>17. /\ Cardinality(Out') <= Cardinality(Out)
           /\ Cardinality(Commanded') <= Cardinality(Commanded)
           /\ Cardinality(Tasks') <= Cardinality(Tasks)
      BY <2>10, <2>12, <2>13, <2>14, CountedSetsFinite, NoMore
    <2>18. RunsCaused'
      BY <1>2, <2>14, <2>15, <2>16, CountedSetsFinite, CountedSetsFiniteNext
      DEF Causes, RunsCaused
    <2>19. TasksCaused'
      BY <1>2, <2>14, <2>17, CountedSetsFinite, CountedSetsFiniteNext
      DEF Causes, TasksCaused
    <2> QED  BY <2>8, <2>18, <2>19 DEF Causes
  <1> QED  BY <1>3, <1>4

LEMMA QueueCloneCaused ==
  ASSUME Inv, Inv', Causes, NEW w \in Workers, QueueClone(w)
  PROVE  Causes'
  BY DoneCauses DEF QueueClone

-----------------------------------------------------------------------------
(* Handlers that clone, sync, retire, remove and add runs *)

\* A handler saves a run that is there.
LEMMA SaveQuiet ==
  ASSUME Inv, Causes, NEW w \in Workers, Saves(w), NEW x \in Row, NEW G, Out \subseteq G,
         x.contract # "contract" => proc[w].run \in G, Save(w, x)
  PROVE  QuietRows(G)
  <1>1. PICK r \in Runs : r = proc[w].run /\ row[r] # NoRow
    BY DEF Causes, Held, Exists
  <1>2. \A q \in Runs : row'[q] = IF q = r THEN x ELSE row[q]
    BY <1>1 DEF Save, Inv, RowsSound
  <1>3. x # NoRow
    BY DateTypes DEF Row, NoRow
  <1>4. \A q \in Runs : row[q] # NoRow /\ row[q].contract # "contract" => q \in G
    BY DEF Out, Exists
  <1> QED  BY <1>1, <1>2, <1>3, <1>4 DEF QuietRows

\* What a handler has in hand and is not in the contract may take its run out.
LEMMA InHand ==
  ASSUME Causes, NEW w \in Workers, Saves(w)
  PROVE  /\ proc[w].run \in Runs /\ Exists(proc[w].run) /\ proc[w].inst \in Row
         /\ proc[w].inst.contract # "contract" => proc[w].run \in Out
  BY DEF Causes, Held, Out

LEMMA StartCloneCaused ==
  ASSUME Inv, Inv', Causes, NEW w \in Workers, NEW r \in Runs, StartClone(w, r)
  PROVE  Causes'
  <1>1. PICK h : /\ h = [Idle EXCEPT !.pc = "check", !.run = r, !.inst = row[r]]
                 /\ proc' = [proc EXCEPT ![w] = h]
    BY DEF StartClone, Start
  <1>2. h.pc = "check" /\ h.opts = {}
    BY <1>1 DEF Idle
  <1>3. Quiet(w, h, Out)
    BY <1>2 DEF Quiet, Savers
  <1>4. QuietRows(Out) /\ UNCHANGED causes
    BY RowsQuiet DEF Inv, StartClone
  <1> QED  BY <1>1, <1>3, <1>4, QuietCauses

LEMMA CloneStepsCaused ==
  ASSUME Inv, Inv', Causes, NEW w \in Workers, NEW a \in Answers,
         CloneCheck(w, a) \/ CloneCall(w, a) \/ CloneFix(w, a)
  PROVE  Causes'
  <1>1. UNCHANGED <<row, causes>> /\ proc[w].pc # "idle"
    BY DEF CloneCheck, CloneCall, CloneFix
  <1>2. Done(w) \/ Goto(w, "clone") \/ Goto(w, "fix")
    BY DEF CloneCheck, CloneCall, CloneFix, EndClone, Retry
  <1>3. "clone" \in Elsewhere /\ "fix" \in Elsewhere
    BY DEF Elsewhere, Labels, Savers
  <1> QED  BY <1>1, <1>2, <1>3, DoneCauses, GotoCauses

LEMMA StartSyncCaused ==
  ASSUME Inv, Inv', Causes, NEW w \in Workers, NEW r \in Runs,
         StartSync(w, r) \/ SyncCommand(w, r)
  PROVE  Causes'
  <1>1. PICK h : /\ h = [Idle EXCEPT !.pc = "fetch", !.run = r, !.inst = row[r]]
                 /\ proc' = [proc EXCEPT ![w] = h]
    BY DEF StartSync, SyncCommand, Start
  <1>2. h.pc = "fetch" /\ h.run = r /\ h.inst = row[r] /\ h.opts = {}
    BY <1>1 DEF Idle
  <1>3. Exists(r)
    BY NoRowSound DEF StartSync, SyncCommand, Exists
  <1>4. UNCHANGED <<row, causes>>
    BY DEF StartSync, SyncCommand, others
  <1>5. h.pc \in Labels \ {"idle", "exists", "key", "insert"} /\ "task" \notin h.opts
    BY <1>2 DEF Labels
  <1> QED  BY <1>1, <1>2, <1>3, <1>4, <1>5, LoadCauses

LEMMA SyncFetchCaused ==
  ASSUME Inv, Inv', Causes, NEW w \in Workers, SyncFetch(w) \/ SyncFetchFails(w)
  PROVE  Causes'
  <1>1. proc[w].pc = "fetch" /\ UNCHANGED <<row, causes>>
    BY DEF SyncFetch, SyncFetchFails, others
  <1>2. CASE Done(w)
    BY <1>1, <1>2, DoneCauses
  <1>3. CASE proc' = [proc EXCEPT ![w].pc = "sync", ![w].dates = edx[proc[w].run]]
    <2>1. PICK h : /\ h = [proc[w] EXCEPT !.pc = "sync", !.dates = edx[proc[w].run]]
                   /\ proc' = [proc EXCEPT ![w] = h]
      BY <1>3 DEF Inv, HandlersGood, Handler
    <2>2. /\ h.pc = "sync" /\ h.run = proc[w].run /\ h.inst = proc[w].inst
          /\ h.opts = proc[w].opts
      BY <2>1 DEF Inv, HandlersGood, Handler
    <2>3. Saves(w)
      BY <1>1 DEF Saves, Savers
    <2>4. Quiet(w, h, Out)
      BY <1>1, <2>2, <2>3, InHand DEF Quiet
    <2>5. QuietRows(Out)
      BY <1>1, RowsQuiet DEF Inv
    <2> QED  BY <1>1, <2>1, <2>4, <2>5, QuietCauses
  <1> QED  BY <1>2, <1>3 DEF SyncFetch, SyncFetchFails

LEMMA SyncSaveCaused ==
  ASSUME Inv, Inv', Causes, NEW w \in Workers, SyncSave(w)
  PROVE  Causes'
  <1>1. /\ proc[w].pc = "sync" /\ UNCHANGED causes
        /\ proc' = [proc EXCEPT ![w] = Idle]
    BY DEF SyncSave, Done, others
  <1>2. Saves(w) /\ proc[w].dates \in Dates
    BY <1>1 DEF Saves, Savers, Inv, HandlersGood, GoodHandler
  <1>3. QuietRows(Out)
    <2>1. CASE UNCHANGED row
      BY <2>1, RowsQuiet DEF Inv
    <2>2. CASE Save(w, [proc[w].inst EXCEPT !.dates = proc[w].dates])
      <3>1. PICK x : x = [proc[w].inst EXCEPT !.dates = proc[w].dates]
        OBVIOUS
      <3>2. x \in Row /\ x.contract = proc[w].inst.contract
        BY <3>1, <1>2, InHand DEF Row
      <3> QED  BY <2>2, <3>1, <3>2, <1>2, InHand, SaveQuiet
    <2> QED  BY <2>1, <2>2 DEF SyncSave
  <1> QED  BY <1>1, <1>3, DoneQuiet, QuietCauses

LEMMA CommandCaused ==
  ASSUME Inv, Inv', Causes, NEW w \in Workers, NEW r \in Runs, NEW opts \in SUBSET Options,
         RetireCommand(w, r, opts) \/ RemoveCommand(w, r, opts) \/ AddCommand(w, r, opts)
  PROVE  Causes'
  <1>1. "task" \notin opts
    BY ContractRunsAssumption DEF AllOptions
  <1>2. UNCHANGED <<row, causes>> /\ Exists(r)
    BY DEF RetireCommand, RemoveCommand, AddCommand, others
  <1>3. PICK h : /\ proc' = [proc EXCEPT ![w] = h]
                 /\ h.pc \in {"retire", "push", "remove", "add"}
                 /\ h.run = r /\ h.inst = row[r] /\ "task" \notin h.opts
    <2>1. CASE RetireCommand(w, r, opts)
      <3> DEFINE g(l) == [Idle EXCEPT !.run = r, !.inst = row[r], !.opts = opts, !.pc = l]
      <3>1. PICK l \in {"retire", "push"} : proc' = [proc EXCEPT ![w] = g(l)]
        BY <2>1 DEF RetireCommand, Start
      <3>2. g(l).pc = l /\ g(l).run = r /\ g(l).inst = row[r] /\ g(l).opts = opts
        BY DEF Idle
      <3> QED  BY <1>1, <3>1, <3>2
    <2>2. CASE RemoveCommand(w, r, opts)
      <3> DEFINE g == [Idle EXCEPT !.pc = "remove", !.run = r, !.inst = row[r], !.opts = opts]
      <3>1. proc' = [proc EXCEPT ![w] = g]
        BY <2>2 DEF RemoveCommand, Start
      <3>2. g.pc = "remove" /\ g.run = r /\ g.inst = row[r] /\ g.opts = opts
        BY DEF Idle
      <3> QED  BY <1>1, <3>1, <3>2
    <2>3. CASE AddCommand(w, r, opts)
      <3> DEFINE g == [Idle EXCEPT !.pc = "add", !.run = r, !.inst = row[r]]
      <3>1. proc' = [proc EXCEPT ![w] = g]
        BY <2>3 DEF AddCommand, Start
      <3>2. g.pc = "add" /\ g.run = r /\ g.inst = row[r] /\ g.opts = {}
        BY DEF Idle
      <3> QED  BY <3>1, <3>2
    <2> QED  BY <2>1, <2>2, <2>3
  <1>4. h.pc \in Labels \ {"idle", "exists", "key", "insert"}
    BY <1>3 DEF Labels
  <1> QED  BY <1>2, <1>3, <1>4, LoadCauses

LEMMA RetirePushCaused ==
  ASSUME Inv, Inv', Causes, NEW w \in Workers, NEW a \in Answers, RetirePush(w, a)
  PROVE  Causes'
  <1>1. proc[w].pc = "push" /\ UNCHANGED <<row, causes>>
    BY DEF RetirePush
  <1>2. CASE Done(w)
    BY <1>1, <1>2, DoneCauses
  <1>3. CASE Goto(w, "retire")
    <2>1. PICK h : h = [proc[w] EXCEPT !.pc = "retire"] /\ proc' = [proc EXCEPT ![w] = h]
      BY <1>3 DEF Goto, Inv, HandlersGood
    <2>2. /\ h.pc = "retire" /\ h.run = proc[w].run /\ h.inst = proc[w].inst
          /\ h.opts = proc[w].opts
      BY <2>1 DEF Inv, HandlersGood, Handler
    <2>3. Saves(w)
      BY <1>1 DEF Saves, Savers
    <2>4. Quiet(w, h, Out)
      BY <1>1, <2>2, <2>3, InHand DEF Quiet
    <2>5. QuietRows(Out)
      BY <1>1, RowsQuiet DEF Inv
    <2> QED  BY <1>1, <2>1, <2>4, <2>5, QuietCauses
  <1> QED  BY <1>2, <1>3 DEF RetirePush

LEMMA RetireSaveCaused ==
  ASSUME Inv, Inv', Causes, NEW w \in Workers, RetireSave(w)
  PROVE  Causes'
  <1>1. PICK x : /\ x = [proc[w].inst EXCEPT !.live = FALSE, !.dates = Past]
                 /\ Save(w, x)
                 /\ proc' = [proc EXCEPT ![w].inst = x, ![w].pc = "move"]
    BY DEF RetireSave
  <1>2. proc[w].pc = "retire" /\ UNCHANGED causes
    BY DEF RetireSave, others
  <1>3. Saves(w)
    BY <1>2 DEF Saves, Savers
  <1>4. x \in Row /\ x.contract = proc[w].inst.contract
    BY <1>1, <1>3, InHand, DateTypes DEF Row
  <1>5. PICK h : /\ h = [proc[w] EXCEPT !.inst = x, !.pc = "move"]
                 /\ proc' = [proc EXCEPT ![w] = h]
    BY <1>1 DEF Inv, HandlersGood, Handler
  <1>6. /\ h.pc = "move" /\ h.run = proc[w].run /\ h.inst = x
        /\ h.opts = proc[w].opts
    BY <1>5 DEF Inv, HandlersGood, Handler
  <1>7. Quiet(w, h, Out)
    BY <1>2, <1>3, <1>4, <1>6, InHand DEF Quiet
  <1>8. QuietRows(Out)
    BY <1>1, <1>3, <1>4, InHand, SaveQuiet
  <1> QED  BY <1>2, <1>5, <1>7, <1>8, QuietCauses

LEMMA MoveRunToRetirementContractCaused ==
  ASSUME Inv, Inv', Causes, NEW w \in Workers, MoveRunToRetirementContract(w)
  PROVE  Causes'
  <1>1. /\ proc[w].pc = "move" /\ Done(w)
        /\ proc' = [proc EXCEPT ![w] = Idle]
    BY DEF MoveRunToRetirementContract, Done
  <1>2. Saves(w)
    BY <1>1 DEF Saves, Savers
  <1>3. CASE UNCHANGED <<row, causes>>
    BY <1>1, <1>3, DoneCauses
  <1>4. CASE /\ Save(w, [proc[w].inst EXCEPT !.contract = "holding"])
             /\ causes' = causes + 1
    <2> DEFINE G == Out \cup {proc[w].run}
    <2>1. PICK x : x = [proc[w].inst EXCEPT !.contract = "holding"]
      OBVIOUS
    <2>2. x \in Row
      BY <2>1, <1>2, InHand DEF Row
    <2>3. QuietRows(G)
      BY <1>2, <1>4, <2>1, <2>2, SaveQuiet
    <2>4. /\ Held' /\ Created' = Created /\ Out' \subseteq G
          /\ Creators' \subseteq Creators /\ Commanded' \subseteq Commanded
          /\ Tasks' \subseteq Tasks
      BY <1>1, <2>3, DoneQuiet, QuietStep DEF Causes
    <2> QED  BY <1>1, <1>4, <2>4, OneTakenOut
  <1> QED  BY <1>3, <1>4 DEF MoveRunToRetirementContract

LEMMA RemoveSaveCaused ==
  ASSUME Inv, Inv', Causes, NEW w \in Workers, RemoveSave(w)
  PROVE  Causes'
  <1> DEFINE detach == "enrolled" \notin proc[w].opts /\ proc[w].inst.contract = "contract"
  <1>1. PICK x :
          /\ x = [live |-> FALSE, dates |-> [proc[w].inst.dates EXCEPT !.closed = TRUE],
                  contract |-> IF detach THEN "none" ELSE proc[w].inst.contract]
          /\ Save(w, x)
          /\ proc' = [proc EXCEPT ![w].inst = x, ![w].pc = "close"]
          /\ causes' = IF detach THEN causes + 1 ELSE causes
    BY DEF RemoveSave
  <1> HIDE DEF detach
  <1>2. proc[w].pc = "remove"
    BY DEF RemoveSave
  <1>3. Saves(w)
    BY <1>2 DEF Saves, Savers
  <1>4. x \in Row /\ (~detach => x.contract = proc[w].inst.contract)
    BY <1>1, <1>3, InHand DEF Row, Dates
  <1>5. PICK h : /\ h = [proc[w] EXCEPT !.inst = x, !.pc = "close"]
                 /\ proc' = [proc EXCEPT ![w] = h]
    BY <1>1 DEF Inv, HandlersGood, Handler
  <1>6. h.pc = "close" /\ h.opts = proc[w].opts
    BY <1>5 DEF Inv, HandlersGood, Handler
  <1>7. \A G : Quiet(w, h, G)
    BY <1>2, <1>6 DEF Quiet, Savers
  <1>8. CASE detach
    <2> DEFINE G == Out \cup {proc[w].run}
    <2>1. QuietRows(G)
      BY <1>1, <1>3, <1>4, SaveQuiet
    <2>2. /\ Held' /\ Created' = Created /\ Out' \subseteq G
          /\ Creators' \subseteq Creators /\ Commanded' \subseteq Commanded
          /\ Tasks' \subseteq Tasks
      BY <1>5, <1>7, <2>1, QuietStep DEF Causes
    <2> QED  BY <1>1, <1>2, <1>8, <2>2, OneTakenOut
  <1>9. CASE ~detach
    <2>1. QuietRows(Out)
      BY <1>1, <1>3, <1>4, <1>9, InHand, SaveQuiet
    <2> QED  BY <1>1, <1>2, <1>5, <1>7, <1>9, <2>1, QuietCauses
  <1> QED  BY <1>1, <1>8, <1>9

LEMMA RemovePushCaused ==
  ASSUME Inv, Inv', Causes, NEW w \in Workers, NEW a \in Answers, RemovePush(w, a)
  PROVE  Causes'
  BY DoneCauses DEF RemovePush, others

LEMMA AddSaveCaused ==
  ASSUME Inv, Inv', Causes, NEW w \in Workers, AddSave(w)
  PROVE  Causes'
  <1>1. /\ proc[w].pc = "add" /\ UNCHANGED causes
        /\ proc' = [proc EXCEPT ![w] = Idle]
    BY DEF AddSave, Done, others
  <1>2. Saves(w)
    BY <1>1 DEF Saves, Savers
  <1>3. PICK x : /\ x = [proc[w].inst EXCEPT !.contract = "contract"]
                 /\ Save(w, x)
    BY DEF AddSave
  <1>4. x \in Row /\ x.contract = "contract"
    BY <1>2, <1>3, InHand DEF Row
  <1>5. QuietRows(Out)
    BY <1>2, <1>3, <1>4, SaveQuiet
  <1> QED  BY <1>1, <1>5, DoneQuiet, QuietCauses

-----------------------------------------------------------------------------
(* Faults, and every step *)

LEMMA CrashCaused ==
  ASSUME Inv, Inv', Causes, NEW w \in Workers, Crash(w)
  PROVE  Causes'
  BY DoneCauses DEF Crash

LEMMA InitCauses == Init => Causes
  <1> SUFFICES ASSUME Init PROVE Causes
    OBVIOUS
  <1>1. PICK first \in FirstRuns :
           /\ row = [r \in Runs |-> IF r > 1 THEN NoRow ELSE
                CASE first = "none" -> NoRow
                  [] first = "in_use" -> InUse
                  [] first = "last_try" -> LastTry
                  [] first = "taken_out" -> TakenOut]
           /\ causes = IF first = "taken_out" THEN 1 ELSE 0
    BY DEF Init
  <1>2. /\ first \in {"none", "in_use", "last_try", "taken_out"} /\ causes \in 0..1
        /\ \A w \in Workers : proc[w] = Idle
    BY <1>1, ContractRunsAssumption DEF Init
  <1>3. Held
    BY <1>2 DEF Held, Saves, Savers, Idle
  <1>4. Creators = {} /\ Commanded = {} /\ Tasks = {}
    BY <1>2 DEF Creators, Commanded, Tasks, TaskUnderWay, Idle
  <1>5. Created \subseteq {1}
    BY <1>1, ContractRunsAssumption DEF Created, Exists, Runs
  <1>6. causes = 0 => Out = {}
    <2> SUFFICES ASSUME causes = 0, NEW r \in Runs, row[r] # NoRow
                 PROVE  /\ row[r].contract = "contract"
                        /\ \A w \in Workers : ~Saves(w)
      BY DEF Out, Exists
    <2>1. row[r] \in {NoRow, InUse, LastTry}
      BY <1>1, <1>2
    <2>2. InUse.contract = "contract" /\ LastTry.contract = "contract"
      BY DEF InUse, LastTry
    <2> QED  BY <1>2, <2>1, <2>2 DEF Saves, Savers, Idle
  <1>7. /\ Cardinality({}) = 0 /\ Cardinality({1}) = 1
        /\ IsFiniteSet({1})
    BY FS_EmptySet, FS_Singleton
  <1>8. Cardinality(Created) <= 1 /\ Cardinality(Created) \in Nat
    BY <1>5, <1>7, NoMore
  <1>9. Cardinality(Out) <= 1 /\ Cardinality(Out) \in Nat
    <2>1. Out \in SUBSET {1}
      BY <1>5, CountedSets
    <2> QED  BY <2>1, <1>7, NoMore
  <1>10. RunsCaused
    BY <1>2, <1>4, <1>7, <1>8 DEF RunsCaused
  <1>11. TasksCaused
    <2>1. Cardinality(Commanded) = 0 /\ Cardinality(Tasks) = 0
      BY <1>4, <1>7
    <2>2. Cardinality(Out) <= causes
      <3>1. CASE causes = 0
        BY <1>6, <1>7, <3>1
      <3>2. CASE causes = 1
        BY <1>9, <3>2
      <3> QED  BY <1>2, <3>1, <3>2
    <2> QED  BY <1>2, <1>9, <2>1, <2>2 DEF TasksCaused
  <1> QED  BY <1>3, <1>10, <1>11 DEF Causes

LEMMA StepCaused ==
  ASSUME Inv, Inv', Causes, NEW w \in Workers, Step(w)
  PROVE  Causes'
  <1>1. ASSUME NEW a \in Answers, CloneCheck(w, a) \/ CloneCall(w, a) \/ CloneFix(w, a)
        PROVE  Causes'
    BY <1>1, CloneStepsCaused
  <1>2. ASSUME NEW a \in Answers, RetirePush(w, a) \/ RemovePush(w, a)
        PROVE  Causes'
    BY <1>2, RetirePushCaused, RemovePushCaused
  <1> QED  BY <1>1, <1>2, CheckExistsCaused, ChooseKeyCaused, QueueCloneCaused,
              InsertRunCaused, SyncFetchCaused, SyncSaveCaused,
              RetireSaveCaused, MoveRunToRetirementContractCaused, RemoveSaveCaused,
              AddSaveCaused
           DEF Step

LEMMA BeginCaused ==
  ASSUME Inv, Inv', Causes, NEW w \in Workers, Begin(w)
  PROVE  Causes'
  <1>1. CASE CreateProgramContractRuns(w)
    BY <1>1, CreateProgramContractRunsCaused
  <1>2. ASSUME NEW opts \in SUBSET (Options \cap {"no_reruns", "skip_edx"}),
               CreateCommand(w, opts)
        PROVE  Causes'
    BY <1>2, CreateCommandCaused
  <1>3. ASSUME NEW r \in Runs, StartClone(w, r) \/ StartSync(w, r) \/ SyncCommand(w, r)
        PROVE  Causes'
    BY <1>3, StartCloneCaused, StartSyncCaused
  <1>4. ASSUME NEW r \in Runs, NEW opts \in SUBSET Options,
               RetireCommand(w, r, opts) \/ RemoveCommand(w, r, opts)
                 \/ AddCommand(w, r, opts)
        PROVE  Causes'
    BY <1>4, CommandCaused
  <1>5. \A o : SUBSET (Options \cap o) \subseteq SUBSET Options
    OBVIOUS
  <1> QED  BY <1>1, <1>2, <1>3, <1>4, <1>5 DEF Begin

LEMMA NextCauses == Inv /\ Inv' /\ Causes /\ [Next]_vars => Causes'
  <1> SUFFICES ASSUME Inv, Inv', Causes, [Next]_vars PROVE Causes'
    OBVIOUS
  <1>1. ASSUME NEW w \in Workers, Begin(w) \/ Step(w) \/ Crash(w)
        PROVE  Causes'
    BY <1>1, BeginCaused, StepCaused, CrashCaused
  <1>2. CASE UNCHANGED vars
    <2>1. Created' = Created /\ Creators' = Creators /\ causes' = causes
      BY <1>2 DEF vars, Created, Exists, Creators
    <2>2. Out' = Out /\ Commanded' = Commanded /\ Tasks' = Tasks
      BY <1>2 DEF vars, Out, Exists, Saves, Creators, Commanded, Tasks, TaskUnderWay
    <2>3. Held'
      BY <1>2 DEF vars, Causes, Held, Saves, Exists
    <2> QED  BY <2>1, <2>2, <2>3 DEF Causes, RunsCaused, TasksCaused
  <1> QED  BY <1>1, <1>2 DEF Next

LEMMA CausesImply == Inv /\ Causes => RunsHaveCauses
  <1> SUFFICES ASSUME Inv, Causes PROVE RunsHaveCauses
    OBVIOUS
  <1>1. Shape /\ causes \in Nat
    BY DEF Inv, Shape
  <1> QED  BY <1>1, CountedSetsFinite DEF Causes, RunsCaused, RunsHaveCauses

\* create_program_contract_runs gives a course a second run in a contract only
\* when staff asked for one, the first was taken out, or two tasks were under
\* way at once, which no lock prevents; whoever dies, and whatever stale instance
\* is saved between the check and the insert.
THEOREM RunsAreCaused == Spec => []RunsHaveCauses
  BY InitInv, NextInv, InitCauses, NextCauses, CausesImply, PTL DEF Spec
=============================================================================
