---------------------------- MODULE HubspotSync ----------------------------
(***************************************************************************)
(* The HubSpot deal of one order (hubspot_sync/tasks.py, task_helpers.py,  *)
(* sync_deal_with_hubspot_targeted in api.py) and the rate limiter that    *)
(* all workers share (hubspot_sync/rate_limiter.py).                       *)
(*                                                                         *)
(* Some handlers queue a task after they have changed the order; refunds   *)
(* through the API, Stripe's expiry and cancellation do not, nor does any  *)
(* handler for some purchasers or when the broker fails.  A task takes the *)
(* order's lock, reads the order, looks the deal up by name and by id,     *)
(* updates or creates it, makes sure of the contact, looks up or creates   *)
(* the line item and links it to the deal; each request first books a slot *)
(* with the limiter and sleeps until it comes.  Tasks are retried when the *)
(* lock is taken or HubSpot answers 429, and given up after MaxRetries.    *)
(* The lock is in Redis, which all workers share.                          *)
(*                                                                         *)
(* The order has one line.  Products and contacts are shared by all orders *)
(* and left out, but for the contact that cannot be made sure of.          *)
(*                                                                         *)
(* Time is relative: a slot's score counts the ticks until its time comes, *)
(* and a tick moves every score one down.  The order is the number of its  *)
(* changes, a deal the number it shows.                                    *)
(***************************************************************************)
EXTENDS Integers, Sequences, FiniteSetsExt

CONSTANTS
    Workers, NoWorker,
    MinDelay,       \* HUBSPOT_TASK_DELAY
    Window,         \* the sliding window
    MaxRequests,    \* slots in a window
    Lifetime,       \* how long the limiter's key outlives the last booking
    MaxRetries,     \* retries of a task
    MaxChanges,     \* bound on changes of the order
    MaxErrors,      \* bound on searches that fail
    MaxFaults       \* bound on other failures and on locks that expire early

ASSUME HubspotSyncAssumption ==
    /\ NoWorker \notin Workers /\ IsFiniteSet(Workers)
    /\ {MinDelay, Window, MaxRequests} \subseteq Nat \ {0}
    /\ MinDelay <= Window
    /\ {Lifetime, MaxRetries, MaxChanges, MaxErrors, MaxFaults} \subseteq Nat

VARIABLES
    slots,      \* the sorted set: scores of the bookings
    ttl,        \* ticks until the limiter's key expires
    latest,     \* the last slot ever booked, as far as it still matters
    order,      \* the order's state
    announced,  \* history: its newest state that a task was queued for
    queue,      \* queued tasks by the number of times they were retried
    lock,       \* who holds the order's lock
    task,       \* what each worker is doing
    deals,      \* the order's deals in HubSpot
    items,      \* how many line items HubSpot has for the order's line
    links,      \* which of them belongs to which deal
    mapped,     \* the deal the local HubspotObject names, 0 for none
    bad         \* failures so far: searches, faults, early expiries; lost tasks

limiter == <<slots, ttl, latest>>
sales == <<order, announced>>
lines == <<items, links>>
vars == <<slots, ttl, latest, order, announced, queue, lock, task, deals, items, links, mapped, bad>>

Idle == [pc |-> "idle", stage |-> "byname", body |-> 0, deal |-> 0, item |-> 0,
         at |-> 0, tries |-> 0]
Running(w) == task[w].pc # "idle"

Init ==
    /\ slots = {} /\ ttl = 0 /\ latest = -MinDelay
    /\ order = 0 /\ announced = 0
    /\ queue = [k \in 0 .. MaxRetries |-> 0]
    /\ lock = NoWorker
    /\ task = [w \in Workers |-> Idle]
    /\ deals = <<>> /\ items = 0 /\ links = {} /\ mapped = 0
    /\ bad = [errors |-> 0, faults |-> 0, overlaps |-> 0, lost |-> FALSE]

-----------------------------------------------------------------------------
(* The rate limiter *)

BookedNoSpacing(kept) ==
    IF Cardinality(kept) < MaxRequests THEN 0
    ELSE Max({Min(kept) + Window, 0})

\* The slot for a request made now (the Lua script).
Booked(kept) ==
    IF kept = {} THEN 0
    ELSE IF Cardinality(kept) < MaxRequests THEN Max({0, Max(kept) + MinDelay})
    ELSE Max({Min(kept) + Window, Max(kept) + MinDelay, 0})

\* Book a slot and begin to sleep.
Claim(w) ==
    LET kept == {s \in slots : s > -Window}
        slot == Booked(kept)
    IN  /\ task[w].pc = "claim"
        /\ slots' = kept \cup {slot}
        /\ ttl' = Lifetime
        /\ latest' = Max({latest, slot})
        /\ task' = [task EXCEPT ![w].pc = "wait", ![w].at = slot]
        /\ UNCHANGED <<sales, queue, lock, deals, lines, mapped, bad>>

\* Time passes; the key expires, and with it the bookings.
Tick ==
    /\ \/ slots # {} \/ ttl > 0 \/ latest > -MinDelay
       \/ \E w \in Workers : task[w].at > 0
    /\ ttl' = Max({ttl - 1, 0})
    /\ slots' = IF ttl <= 1 THEN {} ELSE {s - 1 : s \in {r \in slots : r > -Window}}
    /\ latest' = Max({latest - 1, -MinDelay})
    /\ task' = [w \in Workers |-> [task[w] EXCEPT !.at = Max({@ - 1, 0})]]
    /\ UNCHANGED <<sales, queue, lock, deals, lines, mapped, bad>>

-----------------------------------------------------------------------------
(* Tasks *)

Enqueue(q, k) == [q EXCEPT ![k] = @ + 1]

\* An order is saved; that alone queues nothing.
ChangeOrder ==
    /\ order < MaxChanges
    /\ order' = order + 1
    /\ UNCHANGED <<limiter, announced, queue, lock, task, deals, lines, mapped, bad>>

\* A handler that has saved the order goes on to queue a task, unless the
\* purchaser is in a contract or a program with the course, or the broker
\* fails.  (A checkout may queue one again for an order that did not change;
\* such a task does what a task delivered twice does.)
SyncHubspotDeal ==
    /\ announced < order
    /\ announced' = order
    /\ queue' = Enqueue(queue, 0)
    /\ UNCHANGED <<limiter, order, lock, task, deals, lines, mapped, bad>>

\* A worker starts a task: it takes the lock and reads the order.
Begin(w, k) ==
    /\ ~Running(w)
    /\ queue[k] > 0
    /\ lock = NoWorker
    /\ lock' = w
    /\ queue' = [queue EXCEPT ![k] = @ - 1]
    /\ task' = [task EXCEPT ![w] = [Idle EXCEPT !.pc = "claim", !.body = order, !.tries = k]]
    /\ UNCHANGED <<limiter, sales, deals, lines, mapped, bad>>

RetriedNever(q, k) == q

\* What becomes of a task to be retried: queued again, or given up.
Retried(q, k) == IF k < MaxRetries THEN Enqueue(q, k + 1) ELSE q
GivenUp(k) == k = MaxRetries

\* The lock is taken: BlockingIOError.
Blocked(w, k) ==
    /\ ~Running(w)
    /\ queue[k] > 0
    /\ lock # NoWorker
    /\ queue' = Retried([queue EXCEPT ![k] = @ - 1], k)
    /\ bad' = [bad EXCEPT !.lost = @ \/ GivenUp(k)]
    /\ UNCHANGED <<limiter, sales, lock, task, deals, lines, mapped>>

Woken(w, stage) ==
    task[w].pc = "wait" /\ task[w].stage = stage /\ task[w].at = 0

\* The next request; the sleep comes first.
GoOn(w, stage, deal) ==
    task' = [task EXCEPT ![w].pc = "claim", ![w].stage = stage, ![w].deal = deal]

AfterNameWrite == "write"

\* Where the lookup by name leads when it finds no deal.
AfterName == "byid"

\* A search by name, then by id: any deal of the order is an answer.
SearchFinds(w) ==
    /\ Woken(w, "byname") \/ Woken(w, "byid")
    /\ \E d \in DOMAIN deals : GoOn(w, "write", d)
    /\ UNCHANGED <<limiter, sales, queue, lock, deals, lines, mapped, bad>>

NextStage(w) == IF task[w].stage = "byname" THEN AfterName ELSE "write"

SearchFindsNone(w) ==
    /\ Woken(w, "byname") \/ Woken(w, "byid")
    /\ deals = <<>>
    /\ GoOn(w, NextStage(w), 0)
    /\ UNCHANGED <<limiter, sales, queue, lock, deals, lines, mapped, bad>>

\* The search fails: logged, and taken for "no such deal".
SearchFails(w) ==
    /\ Woken(w, "byname") \/ Woken(w, "byid")
    /\ bad.errors < MaxErrors
    /\ bad' = [bad EXCEPT !.errors = @ + 1]
    /\ GoOn(w, NextStage(w), 0)
    /\ UNCHANGED <<limiter, sales, queue, lock, deals, lines, mapped>>

\* The deals after the task's write.
Written(w) ==
    IF task[w].deal = 0 THEN Append(deals, task[w].body)
    ELSE [deals EXCEPT ![task[w].deal] = task[w].body]

UpdateDeal(w) ==
    /\ Woken(w, "write")
    /\ task[w].deal # 0
    /\ deals' = Written(w)
    /\ GoOn(w, "contact", task[w].deal)
    /\ UNCHANGED <<limiter, sales, queue, lock, lines, mapped, bad>>

CreateDeal(w) ==
    /\ Woken(w, "write")
    /\ task[w].deal = 0
    /\ deals' = Written(w)
    /\ GoOn(w, "contact", Len(deals) + 1)
    /\ UNCHANGED <<limiter, sales, queue, lock, lines, mapped, bad>>

\* The contact is there or has been created, and is associated with the deal.
EnsureContact(w) ==
    /\ Woken(w, "contact")
    /\ GoOn(w, "line", task[w].deal)
    /\ UNCHANGED <<limiter, sales, queue, lock, deals, lines, mapped, bad>>

\* The line item, by the id of the line; then the link to the deal.
GoOnWith(w, stage, item) ==
    task' = [task EXCEPT ![w].pc = "claim", ![w].stage = stage, ![w].item = item]

FindLineItem(w) ==
    /\ Woken(w, "line")
    /\ IF items = 0 THEN GoOnWith(w, "item", 0)
       ELSE \E i \in 1 .. items : GoOnWith(w, "link", i)
    /\ UNCHANGED <<limiter, sales, queue, lock, deals, lines, mapped, bad>>

CreateLineItem(w) ==
    /\ Woken(w, "item")
    /\ items' = items + 1
    /\ GoOnWith(w, "link", items + 1)
    /\ UNCHANGED <<limiter, sales, queue, lock, deals, links, mapped, bad>>

LinkLineItem(w) ==
    /\ Woken(w, "link")
    /\ links' = links \cup {<<task[w].item, task[w].deal>>}
    /\ task' = [task EXCEPT ![w].pc = "map"]
    /\ UNCHANGED <<limiter, sales, queue, lock, deals, items, mapped, bad>>

\* Like a search, a link that fails is passed over.
LineRequestFails(w) ==
    /\ Woken(w, "line") \/ Woken(w, "link")
    /\ bad.errors < MaxErrors
    /\ bad' = [bad EXCEPT !.errors = @ + 1]
    /\ IF task[w].stage = "line" THEN GoOnWith(w, "item", 0)
       ELSE task' = [task EXCEPT ![w].pc = "map"]
    /\ UNCHANGED <<limiter, sales, queue, lock, deals, lines, mapped>>

\* A lock is released only by the task that holds it.
Released(w) == IF lock = w THEN NoWorker ELSE lock
Stop(w) == lock' = Released(w) /\ task' = [task EXCEPT ![w] = Idle]

\* HubspotObject.update_or_create ends the task.
SaveMapping(w) ==
    /\ task[w].pc = "map"
    /\ mapped' = task[w].deal
    /\ Stop(w)
    /\ UNCHANGED <<limiter, sales, queue, deals, lines, bad>>

Fault == bad.faults < MaxFaults

\* HubSpot answers 429: the task is retried.
TooManyRequests(w) ==
    /\ task[w].pc = "wait" /\ task[w].at = 0 /\ task[w].stage # "link"
    /\ Fault
    /\ queue' = Retried(queue, task[w].tries)
    /\ bad' = [bad EXCEPT !.faults = @ + 1, !.lost = @ \/ GivenUp(task[w].tries)]
    /\ Stop(w)
    /\ UNCHANGED <<limiter, sales, deals, lines, mapped>>

\* The contact can neither be found nor created: the task ends here.
NoContact(w) ==
    /\ Woken(w, "contact")
    /\ Fault
    /\ bad' = [bad EXCEPT !.faults = @ + 1, !.lost = TRUE]
    /\ Stop(w)
    /\ UNCHANGED <<limiter, sales, queue, deals, lines, mapped>>

\* A write fails, or its answer is lost: such a task is not retried.
WriteFails(w) ==
    /\ \/ Woken(w, "write") /\ deals' \in {deals, Written(w)} /\ UNCHANGED items
       \/ Woken(w, "item") /\ items' \in {items, items + 1} /\ UNCHANGED deals
    /\ Fault
    /\ bad' = [bad EXCEPT !.faults = @ + 1, !.lost = TRUE]
    /\ Stop(w)
    /\ UNCHANGED <<limiter, sales, queue, links, mapped>>

\* A worker dies and the lock stays.  With the whole process the message goes
\* unacknowledged and is delivered again; when only the pool's child dies,
\* celery acknowledges it (task_reject_on_worker_lost is off).
Crash(w) ==
    /\ Running(w)
    /\ Fault
    /\ task' = [task EXCEPT ![w] = Idle]
    /\ \E lost \in BOOLEAN :
          /\ queue' = IF lost THEN queue ELSE Enqueue(queue, task[w].tries)
          /\ bad' = [bad EXCEPT !.faults = @ + 1, !.lost = @ \/ lost]
    /\ UNCHANGED <<limiter, sales, lock, deals, lines, mapped>>

\* The lock's 10 seconds pass: its task is dead, or slow.
LockExpires ==
    /\ lock # NoWorker
    /\ IF Running(lock)
       THEN Fault /\ bad' = [bad EXCEPT !.faults = @ + 1, !.overlaps = @ + 1]
       ELSE UNCHANGED bad
    /\ lock' = NoWorker
    /\ UNCHANGED <<limiter, sales, queue, task, deals, lines, mapped>>

-----------------------------------------------------------------------------
Step(w) ==
    \/ Claim(w) \/ SearchFinds(w) \/ SearchFindsNone(w)
    \/ UpdateDeal(w) \/ CreateDeal(w) \/ EnsureContact(w)
    \/ FindLineItem(w) \/ CreateLineItem(w) \/ LinkLineItem(w) \/ SaveMapping(w)

Start(w) == \E k \in 0 .. MaxRetries : Begin(w, k) \/ Blocked(w, k)

Next ==
    \/ \E w \in Workers :
          \/ Step(w) \/ Start(w) \/ SearchFails(w) \/ LineRequestFails(w)
          \/ TooManyRequests(w) \/ NoContact(w) \/ WriteFails(w) \/ Crash(w)
    \/ Tick \/ ChangeOrder \/ SyncHubspotDeal \/ LockExpires

Spec == Init /\ [][Next]_vars

\* Time passes, workers go on, queued tasks are started, and locks expire.
FairSpec ==
    /\ Spec
    /\ WF_vars(Tick)
    /\ \A w \in Workers : WF_vars(Step(w))
    /\ \A k \in 0 .. MaxRetries : SF_vars(\E w \in Workers : Begin(w, k))
    /\ WF_vars(LockExpires)

-----------------------------------------------------------------------------
(* Properties *)

\* Whatever workers ask for slots at the same time, every booking comes at
\* least MinDelay after all earlier ones, although old bookings are cleaned
\* up and the limiter's key expires: HubSpot's limit is kept as long as the
\* workers are few enough for their bookings to pass within Lifetime.
SlotsSpaced ==
    [][\A w \in Workers :
          task[w].pc = "claim" /\ task'[w].pc = "wait" => task'[w].at >= latest + MinDelay]_vars

\* An order has a second deal only if both searches of a task failed, and its
\* line a second item only if one did, or a lock expired under a task that
\* went on: retries, redeliveries and lost answers alone make no duplicates.
DuplicatesHaveCauses ==
    /\ Len(deals) <= 1 + (bad.errors \div 2) + bad.overlaps
    /\ items <= 1 + bad.errors + bad.overlaps

\* Unless a task is lost, a search fails or the lock expires under it, HubSpot
\* ends up with one deal that has its line item and is the one that the local
\* record names, and that shows the newest state a task was queued for, or a
\* later one: retries never put an older state last.
Undisturbed == bad.errors = 0 /\ bad.overlaps = 0 /\ ~bad.lost
LastStateArrives ==
    <>[](Undisturbed /\ announced # 0 =>
            /\ Len(deals) = 1 /\ deals[1] \in announced .. order
            /\ items = 1 /\ links = {<<1, 1>>} /\ mapped = 1)
=============================================================================
