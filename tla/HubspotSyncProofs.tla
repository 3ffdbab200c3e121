------------------------- MODULE HubspotSyncProofs -------------------------
(***************************************************************************)
(* The safety properties of HubspotSync, for any number of workers,        *)
(* changes, retries and failures.                                          *)
(*                                                                         *)
(* Duplicates: a task that holds the lock creates a second deal only after *)
(* both its searches failed, and every task that runs beside the holder of *)
(* the lock was put there by an early expiry; so what each running task    *)
(* may still create is paid for in advance by the failures so far.         *)
(*                                                                         *)
(* Spacing: while the last booking matters the limiter's key is there, for *)
(* it lies no further ahead than one MinDelay for each task that may be    *)
(* waiting and each booking a dead worker left.                            *)
(***************************************************************************)
EXTENDS HubspotSync, FiniteSetTheorems, SequenceTheorems, WellFoundedInduction, TLAPS

Stages == {"byname", "byid", "write", "contact", "line", "item", "link"}
TaskState == [pc: {"idle", "claim", "wait", "map"}, stage: Stages, body: Nat, deal: Nat,
              item: Nat, at: Nat, tries: Nat]
Failures == [errors: Nat, faults: Nat, overlaps: Nat, lost: BOOLEAN]

\* Shape of the state, without the bounds of the model.
Shape ==
    /\ order \in Nat
    /\ lock \in Workers \cup {NoWorker}
    /\ task \in [Workers -> TaskState]
    /\ \A w \in Workers : task[w].pc # "wait" => task[w].at = 0
    /\ deals \in Seq(Nat) /\ items \in Nat
    /\ bad \in Failures
    /\ bad.overlaps <= bad.faults /\ bad.faults <= MaxFaults

\* The limiter's bookings; the last one is remembered.
Bookings ==
    /\ slots \in SUBSET Int /\ IsFiniteSet(slots)
    /\ ttl \in Nat
    /\ latest \in Int /\ latest >= -MinDelay
    /\ \A s \in slots : s <= latest

\* Tasks that run beside the holder of the lock.
Overlapping == {w \in Workers : Running(w) /\ lock # w}
OverlapsCounted == Cardinality(Overlapping) <= bad.overlaps

\* A task that may still create a deal, or a line item; and how many failures
\* the holder of the lock has met on its way there (two make a deal).
MayDeal(s) == s.stage \in {"byname", "byid"} \/ (s.stage = "write" /\ s.deal = 0)
MayItem(s) == s.stage # "link"
DealDebt(s) ==
    IF s.pc = "idle" THEN 0
    ELSE IF s.stage = "byid" THEN 1
    ELSE IF s.stage = "write" /\ s.deal = 0 THEN 2 ELSE 0
ItemDebt(s) == IF s.pc # "idle" /\ s.stage = "item" THEN 1 ELSE 0

DealMakers == {w \in Overlapping : MayDeal(task[w])}
ItemMakers == {w \in Overlapping : MayItem(task[w])}
HolderDeal == IF lock = NoWorker THEN 0 ELSE DealDebt(task[lock])
HolderItem == IF lock = NoWorker THEN 0 ELSE ItemDebt(task[lock])

\* n things are paid for, with those that m tasks beside the holder and the
\* holder itself may still create: k failed searches, or an overlap, for each
\* but the first.
Paid(k, n, debt, m, f) == k * n + debt + k * m <= k + f.errors + k * f.overlaps
DealsCounted ==
    Len(deals) > 0 => Paid(2, Len(deals), HolderDeal, Cardinality(DealMakers), bad)
ItemsCounted ==
    items > 0 => Paid(1, items, HolderItem, Cardinality(ItemMakers), bad)

IInv ==
    /\ Shape
    /\ Bookings
    /\ OverlapsCounted
    /\ DealsCounted
    /\ ItemsCounted

-----------------------------------------------------------------------------
(* Counting workers *)

LEMMA WorkerSets ==
  ASSUME NEW S \in SUBSET Workers, NEW T \in SUBSET S
  PROVE  /\ IsFiniteSet(S) /\ IsFiniteSet(T)
         /\ Cardinality(S) \in Nat /\ Cardinality(T) \in Nat
         /\ Cardinality(T) <= Cardinality(S)
<1>1. IsFiniteSet(S)
  BY HubspotSyncAssumption, FS_Subset
<1>2. IsFiniteSet(T) /\ Cardinality(T) <= Cardinality(S)
  BY <1>1, FS_Subset
<1> QED
  BY <1>1, <1>2, FS_CardinalityType

LEMMA WithoutOne ==
  ASSUME NEW S \in SUBSET Workers, NEW w \in S, NEW T \in SUBSET (S \ {w})
  PROVE  Cardinality(T) + 1 <= Cardinality(S)
<1>1. IsFiniteSet(S) /\ Cardinality(S) \in Nat
  BY WorkerSets
<1>2. Cardinality(S \ {w}) = Cardinality(S) - 1
  BY <1>1, FS_RemoveElement
<1>3. S \ {w} \in SUBSET Workers
  OBVIOUS
<1>4. Cardinality(T) <= Cardinality(S \ {w}) /\ Cardinality(T) \in Nat
  BY <1>3, WorkerSets
<1> QED
  BY <1>1, <1>2, <1>4

LEMMA WithOne ==
  ASSUME NEW S \in SUBSET Workers, NEW w \in Workers, NEW T \in SUBSET (S \cup {w})
  PROVE  Cardinality(T) <= Cardinality(S) + 1
<1>1. IsFiniteSet(S) /\ Cardinality(S) \in Nat
  BY WorkerSets
<1>2. Cardinality(S \cup {w}) <= Cardinality(S) + 1 /\ Cardinality(S \cup {w}) \in Nat
  BY <1>1, FS_AddElement, WorkerSets
<1>3. Cardinality(T) <= Cardinality(S \cup {w}) /\ Cardinality(T) \in Nat
  BY WorkerSets
<1> QED
  BY <1>1, <1>2, <1>3

LEMMA Counts ==
  ASSUME Shape
  PROVE  /\ Overlapping \in SUBSET Workers
         /\ DealMakers \in SUBSET Overlapping /\ ItemMakers \in SUBSET Overlapping
         /\ Cardinality(Overlapping) \in Nat
         /\ Cardinality(DealMakers) \in Nat /\ Cardinality(ItemMakers) \in Nat
         /\ Cardinality(DealMakers) <= Cardinality(Overlapping)
         /\ Cardinality(ItemMakers) <= Cardinality(Overlapping)
         /\ HolderDeal \in Nat /\ HolderDeal <= 2 /\ HolderItem \in Nat /\ HolderItem <= 1
         /\ Len(deals) \in Nat /\ items \in Nat
         /\ bad.errors \in Nat /\ bad.overlaps \in Nat /\ bad.faults \in Nat
<1>1. /\ Overlapping \in SUBSET Workers
      /\ DealMakers \in SUBSET Overlapping /\ ItemMakers \in SUBSET Overlapping
  BY DEF Overlapping, DealMakers, ItemMakers
<1>2. HolderDeal \in Nat /\ HolderDeal <= 2 /\ HolderItem \in Nat /\ HolderItem <= 1
  BY DEF HolderDeal, HolderItem, DealDebt, ItemDebt
<1>3. /\ Len(deals) \in Nat /\ items \in Nat
      /\ bad.errors \in Nat /\ bad.overlaps \in Nat /\ bad.faults \in Nat
  BY DEF Shape, Failures
<1> QED
  BY <1>1, <1>2, <1>3, WorkerSets

-----------------------------------------------------------------------------
(* A step of one task *)

\* The running task of worker w goes on as s, or ends.
Becomes(w, s) == task' = [task EXCEPT ![w] = s]
Moves(w, s) ==
    /\ w \in Workers /\ Running(w)
    /\ s \in TaskState /\ (s.pc # "wait" => s.at = 0)
    /\ Becomes(w, s)
    /\ \/ lock' = lock
       \/ lock = w /\ lock' = NoWorker /\ s.pc = "idle"
    /\ bad' \in Failures /\ bad'.overlaps = bad.overlaps /\ bad'.errors >= bad.errors
    /\ bad.faults <= bad'.faults /\ bad'.faults <= MaxFaults

NoDeal(w, s) ==
    /\ deals' \in Seq(Nat) /\ Len(deals') = Len(deals)
    /\ s.pc # "idle" /\ MayDeal(s) => MayDeal(task[w])
    /\ Len(deals) > 0 => DealDebt(s) <= DealDebt(task[w]) + bad'.errors - bad.errors
NewDeal(w, s) ==
    /\ deals' \in Seq(Nat) /\ Len(deals') = Len(deals) + 1
    /\ task[w].stage = "write" /\ task[w].deal = 0
    /\ s.pc = "idle" \/ s.stage = "contact"
NoItem(w, s) ==
    /\ items' = items
    /\ s.pc # "idle" /\ MayItem(s) => MayItem(task[w])
    /\ items > 0 => ItemDebt(s) <= ItemDebt(task[w]) + bad'.errors - bad.errors
NewItem(w, s) ==
    /\ items' = items + 1
    /\ task[w].stage = "item"
    /\ s.pc = "idle" \/ s.stage = "link"

LEMMA MovesShape ==
  ASSUME Shape, NEW w, NEW s, Moves(w, s), order' = order, deals' \in Seq(Nat), items' \in Nat
  PROVE  Shape'
<1>1. task' \in [Workers -> TaskState] /\ task'[w] = s
      /\ \A x \in Workers : x # w => task'[x] = task[x]
  BY DEF Moves, Becomes, Shape
<1>2. \A x \in Workers : task'[x].pc # "wait" => task'[x].at = 0
  BY <1>1 DEF Moves, Shape
<1>3. lock' \in Workers \cup {NoWorker} /\ bad' \in Failures
      /\ bad'.overlaps <= bad'.faults /\ bad'.faults <= MaxFaults
  BY HubspotSyncAssumption DEF Moves, Shape, Failures
<1> QED
  BY <1>1, <1>2, <1>3 DEF Shape

LEMMA MovesOverlaps ==
  ASSUME Shape, NEW w, NEW s, Moves(w, s)
  PROVE  /\ Overlapping' \in SUBSET Overlapping
         /\ w \in Overlapping' => w \in Overlapping /\ s.pc # "idle"
         /\ task'[w] = s /\ \A x \in Workers : x # w => task'[x] = task[x]
         /\ OverlapsCounted => OverlapsCounted'
<1>1. task'[w] = s /\ \A x \in Workers : x # w => task'[x] = task[x]
  BY DEF Moves, Becomes, Shape
<1>2. ASSUME NEW x \in Overlapping'
      PROVE  x \in Overlapping /\ (x = w => s.pc # "idle")
  BY <1>1, <1>2, HubspotSyncAssumption DEF Moves, Overlapping, Running
<1>3. Overlapping' \in SUBSET Overlapping
  BY <1>2
<1>4. Cardinality(Overlapping') <= Cardinality(Overlapping)
      /\ Cardinality(Overlapping') \in Nat /\ Cardinality(Overlapping) \in Nat
  BY <1>3, Counts, WorkerSets
<1>5. bad'.overlaps = bad.overlaps /\ bad.overlaps \in Nat
  BY DEF Moves, Shape, Failures
<1>6. OverlapsCounted => OverlapsCounted'
  BY <1>4, <1>5 DEF OverlapsCounted
<1> QED
  BY <1>1, <1>2, <1>3, <1>6

\* What failed in a step pays for what the tasks may do next.
LEMMA StillPaid ==
  ASSUME NEW k \in {1, 2}, NEW n \in Nat, NEW d \in Nat, NEW m \in Nat,
         NEW e \in Nat, NEW c \in Nat, NEW f \in Failures, NEW g \in Failures,
         Paid(k, n, d, m, f), c <= m, e <= d + g.errors - f.errors,
         g.overlaps = f.overlaps
  PROVE  Paid(k, n, e, c, g)
BY DEF Paid, Failures

\* One more: by the holder of the lock, or by a task beside it.
LEMMA OneMorePaid ==
  ASSUME NEW k \in {1, 2}, NEW n \in Nat, NEW d \in Nat, NEW m \in Nat,
         NEW e \in Nat, NEW c \in Nat, NEW f \in Failures, NEW g \in Failures,
         n > 0 => Paid(k, n, d, m, f), m <= f.overlaps, d <= k,
         g.overlaps = f.overlaps, g.errors >= f.errors,
         \/ d = k /\ e = 0 /\ c <= m
         \/ e = d /\ c + 1 <= m
  PROVE  Paid(k, n + 1, e, c, g)
<1>1. CASE k = 1
  BY <1>1 DEF Paid, Failures
<1>2. CASE k = 2
  BY <1>2 DEF Paid, Failures
<1> QED
  BY <1>1, <1>2

LEMMA DealsKept ==
  ASSUME Shape, DealsCounted, NEW w, NEW s, Moves(w, s), NoDeal(w, s)
  PROVE  DealsCounted'
<1>0. /\ Cardinality(DealMakers) \in Nat /\ HolderDeal \in Nat /\ Len(deals) \in Nat
      /\ bad \in Failures /\ bad' \in Failures
  BY Counts DEF Shape, Moves
<1>1. ASSUME NEW x \in DealMakers' PROVE x \in DealMakers
  BY <1>1, MovesOverlaps DEF DealMakers, NoDeal, Overlapping, MayDeal
<1>2. /\ Cardinality(DealMakers') <= Cardinality(DealMakers)
      /\ Cardinality(DealMakers') \in Nat
  <2>1. DealMakers' \in SUBSET DealMakers /\ DealMakers \in SUBSET Workers
    BY <1>1, Counts
  <2> QED
    BY <2>1, WorkerSets
<1>3. SUFFICES ASSUME Len(deals) > 0
               PROVE  Paid(2, Len(deals), HolderDeal', Cardinality(DealMakers'), bad')
  BY DEF DealsCounted, NoDeal, Paid
<1>4. HolderDeal' <= HolderDeal + bad'.errors - bad.errors /\ HolderDeal' \in Nat
  <2>1. bad'.errors \in Nat /\ bad.errors \in Nat /\ bad'.errors >= bad.errors
    BY DEF Moves, Failures, Shape
  <2>2. DealDebt(s) <= DealDebt(task[w]) + bad'.errors - bad.errors
    BY <1>3 DEF NoDeal
  <2>3. CASE lock' = NoWorker
    BY <1>0, <2>1, <2>3 DEF HolderDeal
  <2>4. CASE lock' # NoWorker /\ lock' = w
    <3>1. lock = w /\ lock' = w /\ w # NoWorker /\ task'[w] = s
      BY <2>4, MovesOverlaps DEF Moves
    <3>2. HolderDeal = DealDebt(task[w])
      BY <3>1 DEF HolderDeal
    <3>3. HolderDeal' = DealDebt(s)
      BY <3>1 DEF HolderDeal, DealDebt
    <3> QED
      BY <2>2, <3>2, <3>3 DEF DealDebt
  <2>5. CASE lock' # NoWorker /\ lock' # w
    <3>1. lock' = lock /\ task'[lock] = task[lock]
      BY <2>5, MovesOverlaps DEF Moves, Shape
    <3>2. HolderDeal' = HolderDeal
      BY <3>1 DEF HolderDeal, DealDebt
    <3> QED
      BY <1>0, <2>1, <3>2
  <2> QED
    BY <2>3, <2>4, <2>5
<1>5. Paid(2, Len(deals), HolderDeal, Cardinality(DealMakers), bad)
  BY <1>3 DEF DealsCounted
<1>6. bad'.overlaps = bad.overlaps
  BY DEF Moves
<1> QED
  BY <1>0, <1>2, <1>4, <1>5, <1>6, StillPaid

LEMMA DealMade ==
  ASSUME Shape, OverlapsCounted, DealsCounted, NEW w, NEW s, Moves(w, s), NewDeal(w, s)
  PROVE  DealsCounted'
<1>0. /\ Cardinality(DealMakers) \in Nat /\ Len(deals) \in Nat
      /\ HolderDeal \in Nat /\ HolderDeal <= 2
      /\ bad \in Failures /\ bad' \in Failures
  BY Counts DEF Shape, Moves
<1>1. ASSUME NEW x \in DealMakers' PROVE x \in DealMakers \ {w}
  BY <1>1, MovesOverlaps DEF DealMakers, NewDeal, Overlapping, MayDeal
<1>2. /\ DealMakers' \in SUBSET (DealMakers \ {w}) /\ DealMakers \in SUBSET Workers
      /\ DealMakers' \in SUBSET DealMakers
  BY <1>1, Counts
<1>3. /\ Cardinality(DealMakers') <= Cardinality(DealMakers)
      /\ Cardinality(DealMakers') \in Nat
  BY <1>2, WorkerSets
<1>4. Cardinality(DealMakers) <= bad.overlaps
  BY Counts DEF OverlapsCounted
<1>5. bad'.overlaps = bad.overlaps /\ bad'.errors >= bad.errors
  BY DEF Moves
<1>6. Len(deals) > 0 => Paid(2, Len(deals), HolderDeal, Cardinality(DealMakers), bad)
  BY DEF DealsCounted
<1>7. \/ HolderDeal = 2 /\ HolderDeal' = 0
      \/ HolderDeal' = HolderDeal /\ Cardinality(DealMakers') + 1 <= Cardinality(DealMakers)
  <2>1. CASE lock = w
    <3>1. HolderDeal = 2
      BY <2>1, HubspotSyncAssumption DEF HolderDeal, DealDebt, NewDeal, Moves, Running
    <3>2. lock' = NoWorker \/ (lock' = w /\ task'[w] = s /\ (s.pc = "idle" \/ s.stage = "contact"))
      BY <2>1, MovesOverlaps DEF Moves, NewDeal
    <3>3. HolderDeal' = 0
      BY <3>2 DEF HolderDeal, DealDebt
    <3> QED
      BY <3>1, <3>3
  <2>2. CASE lock # w
    <3>1. w \in DealMakers
      BY <2>2 DEF DealMakers, Overlapping, NewDeal, Moves, MayDeal
    <3>2. Cardinality(DealMakers') + 1 <= Cardinality(DealMakers)
      BY <1>2, <3>1, WithoutOne
    <3>3. lock' = lock /\ (lock # NoWorker => task'[lock] = task[lock])
      BY <2>2, MovesOverlaps DEF Moves, Shape
    <3>4. HolderDeal' = HolderDeal
      BY <3>3 DEF HolderDeal, DealDebt
    <3> QED
      BY <3>2, <3>4
  <2> QED
    BY <2>1, <2>2
<1>8. HolderDeal' \in Nat
  BY <1>0, <1>7
<1>9. Paid(2, Len(deals) + 1, HolderDeal', Cardinality(DealMakers'), bad')
  BY <1>0, <1>3, <1>4, <1>5, <1>6, <1>7, <1>8, OneMorePaid
<1>10. Len(deals') = Len(deals) + 1
  BY DEF NewDeal
<1> QED
  BY <1>9, <1>10 DEF DealsCounted, Paid

LEMMA ItemsKept ==
  ASSUME Shape, ItemsCounted, NEW w, NEW s, Moves(w, s), NoItem(w, s)
  PROVE  ItemsCounted'
<1>0. /\ Cardinality(ItemMakers) \in Nat /\ HolderItem \in Nat /\ items \in Nat
      /\ bad \in Failures /\ bad' \in Failures
  BY Counts DEF Shape, Moves
<1>1. ASSUME NEW x \in ItemMakers' PROVE x \in ItemMakers
  BY <1>1, MovesOverlaps DEF ItemMakers, NoItem, Overlapping, MayItem
<1>2. /\ Cardinality(ItemMakers') <= Cardinality(ItemMakers)
      /\ Cardinality(ItemMakers') \in Nat
  <2>1. ItemMakers' \in SUBSET ItemMakers /\ ItemMakers \in SUBSET Workers
    BY <1>1, Counts
  <2> QED
    BY <2>1, WorkerSets
<1>3. SUFFICES ASSUME items > 0
               PROVE  Paid(1, items, HolderItem', Cardinality(ItemMakers'), bad')
  BY DEF ItemsCounted, NoItem, Paid
<1>4. HolderItem' <= HolderItem + bad'.errors - bad.errors /\ HolderItem' \in Nat
  <2>1. bad'.errors \in Nat /\ bad.errors \in Nat /\ bad'.errors >= bad.errors
    BY DEF Moves, Failures, Shape
  <2>2. ItemDebt(s) <= ItemDebt(task[w]) + bad'.errors - bad.errors
    BY <1>3 DEF NoItem
  <2>3. CASE lock' = NoWorker
    BY <1>0, <2>1, <2>3 DEF HolderItem
  <2>4. CASE lock' # NoWorker /\ lock' = w
    <3>1. lock = w /\ lock' = w /\ w # NoWorker /\ task'[w] = s
      BY <2>4, MovesOverlaps DEF Moves
    <3>2. HolderItem = ItemDebt(task[w])
      BY <3>1 DEF HolderItem
    <3>3. HolderItem' = ItemDebt(s)
      BY <3>1 DEF HolderItem, ItemDebt
    <3> QED
      BY <2>2, <3>2, <3>3 DEF ItemDebt
  <2>5. CASE lock' # NoWorker /\ lock' # w
    <3>1. lock' = lock /\ task'[lock] = task[lock]
      BY <2>5, MovesOverlaps DEF Moves, Shape
    <3>2. HolderItem' = HolderItem
      BY <3>1 DEF HolderItem, ItemDebt
    <3> QED
      BY <1>0, <2>1, <3>2
  <2> QED
    BY <2>3, <2>4, <2>5
<1>5. Paid(1, items, HolderItem, Cardinality(ItemMakers), bad)
  BY <1>3 DEF ItemsCounted
<1>6. bad'.overlaps = bad.overlaps
  BY DEF Moves
<1> QED
  BY <1>0, <1>2, <1>4, <1>5, <1>6, StillPaid

LEMMA ItemMade ==
  ASSUME Shape, OverlapsCounted, ItemsCounted, NEW w, NEW s, Moves(w, s), NewItem(w, s)
  PROVE  ItemsCounted'
<1>0. /\ Cardinality(ItemMakers) \in Nat /\ items \in Nat
      /\ HolderItem \in Nat /\ HolderItem <= 1
      /\ bad \in Failures /\ bad' \in Failures
  BY Counts DEF Shape, Moves
<1>1. ASSUME NEW x \in ItemMakers' PROVE x \in ItemMakers \ {w}
  BY <1>1, MovesOverlaps DEF ItemMakers, NewItem, Overlapping, MayItem
<1>2. /\ ItemMakers' \in SUBSET (ItemMakers \ {w}) /\ ItemMakers \in SUBSET Workers
      /\ ItemMakers' \in SUBSET ItemMakers
  BY <1>1, Counts
<1>3. /\ Cardinality(ItemMakers') <= Cardinality(ItemMakers)
      /\ Cardinality(ItemMakers') \in Nat
  BY <1>2, WorkerSets
<1>4. Cardinality(ItemMakers) <= bad.overlaps
  BY Counts DEF OverlapsCounted
<1>5. bad'.overlaps = bad.overlaps /\ bad'.errors >= bad.errors
  BY DEF Moves
<1>6. items > 0 => Paid(1, items, HolderItem, Cardinality(ItemMakers), bad)
  BY DEF ItemsCounted
<1>7. \/ HolderItem = 1 /\ HolderItem' = 0
      \/ HolderItem' = HolderItem /\ Cardinality(ItemMakers') + 1 <= Cardinality(ItemMakers)
  <2>1. CASE lock = w
    <3>1. HolderItem = 1
      BY <2>1, HubspotSyncAssumption DEF HolderItem, ItemDebt, NewItem, Moves, Running
    <3>2. lock' = NoWorker \/ (lock' = w /\ task'[w] = s /\ (s.pc = "idle" \/ s.stage = "link"))
      BY <2>1, MovesOverlaps DEF Moves, NewItem
    <3>3. HolderItem' = 0
      BY <3>2 DEF HolderItem, ItemDebt
    <3> QED
      BY <3>1, <3>3
  <2>2. CASE lock # w
    <3>1. w \in ItemMakers
      BY <2>2 DEF ItemMakers, Overlapping, NewItem, Moves, MayItem
    <3>2. Cardinality(ItemMakers') + 1 <= Cardinality(ItemMakers)
      BY <1>2, <3>1, WithoutOne
    <3>3. lock' = lock /\ (lock # NoWorker => task'[lock] = task[lock])
      BY <2>2, MovesOverlaps DEF Moves, Shape
    <3>4. HolderItem' = HolderItem
      BY <3>3 DEF HolderItem, ItemDebt
    <3> QED
      BY <3>2, <3>4
  <2> QED
    BY <2>1, <2>2
<1>8. HolderItem' \in Nat
  BY <1>0, <1>7
<1>9. Paid(1, items + 1, HolderItem', Cardinality(ItemMakers'), bad')
  BY <1>0, <1>3, <1>4, <1>5, <1>6, <1>7, <1>8, OneMorePaid
<1>10. items' = items + 1
  BY DEF NewItem
<1> QED
  BY <1>9, <1>10 DEF ItemsCounted, Paid

LEMMA MovesInv ==
  ASSUME IInv, NEW w, NEW s, Moves(w, s), order' = order, Bookings',
         NoDeal(w, s) \/ NewDeal(w, s), NoItem(w, s) \/ NewItem(w, s)
  PROVE  IInv'
<1>1. Shape'
  <2>1. deals' \in Seq(Nat) /\ items' \in Nat
    BY DEF NoDeal, NewDeal, NoItem, NewItem, IInv, Shape
  <2> QED
    BY <2>1, MovesShape DEF IInv
<1>2. OverlapsCounted'
  BY MovesOverlaps DEF IInv
<1>3. DealsCounted'
  BY DealsKept, DealMade DEF IInv
<1>4. ItemsCounted'
  BY ItemsKept, ItemMade DEF IInv
<1> QED
  BY <1>1, <1>2, <1>3, <1>4 DEF IInv

\* The task of a worker and the failures, for reference.
LEMMA TaskFacts ==
  ASSUME IInv, NEW w \in Workers
  PROVE  /\ task \in [Workers -> TaskState] /\ task[w] \in TaskState
         /\ task[w].deal \in Nat /\ task[w].item \in Nat /\ task[w].at \in Nat
         /\ task[w].body \in Nat /\ task[w].tries \in Nat /\ task[w].stage \in Stages
         /\ (task[w].pc # "wait" => task[w].at = 0)
         /\ bad \in Failures /\ bad.errors \in Nat /\ bad.faults \in Nat
         /\ bad.overlaps \in Nat /\ bad.lost \in BOOLEAN
         /\ bad.faults <= MaxFaults /\ MaxFaults \in Nat
         /\ deals \in Seq(Nat) /\ Len(deals) \in Nat /\ items \in Nat /\ order \in Nat
<1>1. /\ task \in [Workers -> TaskState] /\ task[w] \in TaskState
      /\ task[w].deal \in Nat /\ task[w].item \in Nat /\ task[w].at \in Nat
      /\ task[w].body \in Nat /\ task[w].tries \in Nat /\ task[w].stage \in Stages
      /\ (task[w].pc # "wait" => task[w].at = 0)
  BY DEF IInv, Shape, TaskState
<1>2. /\ bad \in Failures /\ bad.errors \in Nat /\ bad.faults \in Nat
      /\ bad.overlaps \in Nat
  BY DEF IInv, Shape, Failures
<1>3. bad.lost \in BOOLEAN
  BY <1>2 DEF Failures
<1>4. bad.faults <= MaxFaults /\ MaxFaults \in Nat
  BY HubspotSyncAssumption DEF IInv, Shape
<1>5. deals \in Seq(Nat) /\ Len(deals) \in Nat /\ items \in Nat /\ order \in Nat
  BY DEF IInv, Shape
<1> QED
  BY <1>1, <1>2, <1>3, <1>4, <1>5

LEMMA BookingsKept ==
  ASSUME Bookings, UNCHANGED limiter
  PROVE  Bookings'
BY DEF Bookings, limiter, sales

\* The task of w at the next request.
On(w, pc, st, d, i) == [task[w] EXCEPT !.pc = pc, !.stage = st, !.deal = d, !.item = i]

LEMMA GoesOn ==
  ASSUME IInv, NEW w \in Workers, Running(w), task[w].at = 0,
         NEW pc \in {"claim", "map"}, NEW st \in Stages, NEW d \in Nat, NEW i \in Nat,
         NEW s, s = On(w, pc, st, d, i), Becomes(w, s),
         lock' = lock, bad' \in Failures, bad'.overlaps = bad.overlaps,
         bad'.errors >= bad.errors, bad'.faults = bad.faults
  PROVE  /\ Moves(w, s)
         /\ s.pc = pc /\ s.stage = st /\ s.deal = d /\ s.item = i /\ s.at = 0
<1>1. s \in TaskState /\ s.pc = pc /\ s.stage = st /\ s.deal = d /\ s.item = i /\ s.at = 0
  BY TaskFacts DEF TaskState, On
<1> QED
  BY <1>1, TaskFacts DEF Moves, Failures

LEMMA ErrorFacts ==
  ASSUME IInv, bad' \in {bad, [bad EXCEPT !.errors = @ + 1]}
  PROVE  /\ bad' \in Failures /\ bad'.overlaps = bad.overlaps /\ bad'.faults = bad.faults
         /\ bad'.errors >= bad.errors
         /\ bad' = [bad EXCEPT !.errors = @ + 1] => bad'.errors = bad.errors + 1
<1>1. bad \in Failures
  BY DEF IInv, Shape
<1> QED
  BY <1>1 DEF Failures

\* The next request of a task that was woken at stage `from`.
LEMMA RequestDone ==
  ASSUME IInv, NEW w \in Workers, NEW from \in Stages, Woken(w, from),
         NEW pc \in {"claim", "map"}, NEW st \in Stages, NEW d \in Nat, NEW i \in Nat,
         Becomes(w, On(w, pc, st, d, i)),
         bad' \in {bad, [bad EXCEPT !.errors = @ + 1]}, UNCHANGED <<limiter, order, lock>>,
         deals' \in Seq(Nat),
         \/ /\ Len(deals') = Len(deals)
            /\ \/ from \in {"byname", "byid"}
               \/ st \notin {"byname", "byid", "write"}
            /\ Len(deals) > 0 =>
                 \/ st \notin {"byid", "write"}
                 \/ st = "write" /\ d # 0
                 \/ /\ bad' # bad
                    /\ <<from, st>> \in {<<"byname", "byid">>, <<"byid", "write">>}
         \/ Len(deals') = Len(deals) + 1 /\ from = "write" /\ task[w].deal = 0 /\ st = "contact",
         \/ items' = items /\ (st = "link" \/ from # "link")
            /\ (items > 0 => st # "item" \/ bad' # bad)
         \/ items' = items + 1 /\ from = "item" /\ st = "link"
  PROVE  IInv'
<1>1. PICK s : s = On(w, pc, st, d, i) /\ Becomes(w, s)
  OBVIOUS
<1>2. /\ Running(w) /\ task[w].at = 0 /\ task[w].stage = from /\ task[w].pc = "wait"
      /\ lock' = lock /\ order' = order /\ UNCHANGED limiter
  BY DEF Woken, Running
<1>3. /\ bad' \in Failures /\ bad'.errors >= bad.errors /\ bad'.overlaps = bad.overlaps
      /\ bad'.faults = bad.faults
      /\ bad' # bad => bad'.errors = bad.errors + 1
  BY ErrorFacts
<1>4. Moves(w, s) /\ s.pc = pc /\ s.stage = st /\ s.deal = d
  BY <1>1, <1>2, <1>3, GoesOn
<1>5. bad.errors \in Nat /\ bad'.errors \in Nat
  BY <1>3 DEF IInv, Shape, Failures
<1>6. NoDeal(w, s) \/ NewDeal(w, s)
  <2>1. CASE Len(deals') = Len(deals) + 1 /\ from = "write" /\ task[w].deal = 0 /\ st = "contact"
    BY <1>2, <1>4, <2>1 DEF NewDeal
  <2>2. CASE /\ Len(deals') = Len(deals)
             /\ \/ from \in {"byname", "byid"}
                \/ st \notin {"byname", "byid", "write"}
             /\ Len(deals) > 0 =>
                  \/ st \notin {"byid", "write"}
                  \/ st = "write" /\ d # 0
                  \/ /\ bad' # bad
                     /\ <<from, st>> \in {<<"byname", "byid">>, <<"byid", "write">>}
    <3>1. MayDeal(s) => MayDeal(task[w])
      BY <1>2, <1>4, <2>2 DEF MayDeal
    <3>2. ASSUME Len(deals) > 0
          PROVE  DealDebt(s) <= DealDebt(task[w]) + bad'.errors - bad.errors
      <4>1. CASE st \notin {"byid", "write"} \/ (st = "write" /\ d # 0)
        <5>1. DealDebt(s) = 0 /\ DealDebt(task[w]) \in Nat
          BY <1>4, <4>1 DEF DealDebt
        <5> QED
          BY <1>3, <1>5, <5>1
      <4>2. CASE bad' # bad /\ from = "byname" /\ st = "byid"
        <5>1. DealDebt(s) = 1 /\ DealDebt(task[w]) = 0
          BY <1>2, <1>4, <4>2 DEF DealDebt
        <5> QED
          BY <1>3, <1>5, <4>2, <5>1
      <4>3. CASE bad' # bad /\ from = "byid" /\ st = "write"
        <5>1. DealDebt(s) <= 2 /\ DealDebt(s) \in Nat /\ DealDebt(task[w]) = 1
          BY <1>2, <1>4, <4>3 DEF DealDebt
        <5> QED
          BY <1>3, <1>5, <4>3, <5>1
      <4> QED
        BY <2>2, <3>2, <4>1, <4>2, <4>3
    <3> QED
      BY <2>2, <3>1, <3>2 DEF NoDeal
  <2> QED
    BY <2>1, <2>2
<1>7. NoItem(w, s) \/ NewItem(w, s)
  <2>1. CASE items' = items + 1 /\ from = "item" /\ st = "link"
    BY <1>2, <1>4, <2>1 DEF NewItem
  <2>2. CASE items' = items /\ (st = "link" \/ from # "link")
             /\ (items > 0 => st # "item" \/ bad' # bad)
    <3>1. MayItem(s) => MayItem(task[w])
      BY <1>2, <1>4, <2>2 DEF MayItem
    <3>2. /\ ItemDebt(s) \in Nat /\ ItemDebt(s) <= 1 /\ ItemDebt(task[w]) \in Nat
          /\ st # "item" => ItemDebt(s) = 0
      BY <1>4 DEF ItemDebt
    <3>3. items > 0 => ItemDebt(s) <= ItemDebt(task[w]) + bad'.errors - bad.errors
      BY <1>3, <1>5, <2>2, <3>2
    <3> QED
      BY <2>2, <3>1, <3>3 DEF NoItem
  <2> QED
    BY <2>1, <2>2
<1> QED
  BY <1>2, <1>4, <1>6, <1>7, MovesInv, BookingsKept DEF IInv

-----------------------------------------------------------------------------
(* The requests of a task *)

LEMMA GoOnStep ==
  ASSUME IInv, NEW w \in Workers, NEW st \in Stages, NEW d \in Nat, GoOn(w, st, d)
  PROVE  /\ Becomes(w, On(w, "claim", st, d, task[w].item))
         /\ task[w].item \in Nat
BY TaskFacts DEF GoOn, Becomes, On, TaskState

LEMMA GoOnWithStep ==
  ASSUME IInv, NEW w \in Workers, NEW st \in Stages, NEW i \in Nat, GoOnWith(w, st, i)
  PROVE  /\ Becomes(w, On(w, "claim", st, task[w].deal, i))
         /\ task[w].deal \in Nat
BY TaskFacts DEF GoOnWith, Becomes, On, TaskState

LEMMA SearchInv ==
  ASSUME IInv, NEW w \in Workers,
         SearchFinds(w) \/ SearchFindsNone(w) \/ SearchFails(w)
  PROVE  IInv'
<1>1. PICK from \in {"byname", "byid"} : Woken(w, from)
  BY DEF SearchFinds, SearchFindsNone, SearchFails
<1>2. /\ UNCHANGED <<limiter, order, lock>> /\ deals' = deals /\ items' = items
      /\ task[w].stage = from /\ from \in Stages /\ "write" \in Stages /\ "byid" \in Stages
      /\ from # "link"
  BY <1>1 DEF SearchFinds, SearchFindsNone, SearchFails, Woken, lines, limiter, sales, Stages
<1>3. deals' \in Seq(Nat)
  BY <1>2, TaskFacts
<1>4. CASE SearchFinds(w)
  <2>1. PICK d \in DOMAIN deals : GoOn(w, "write", d)
    BY <1>4 DEF SearchFinds
  <2>2. d \in Nat /\ d # 0
    BY TaskFacts
  <2>3. /\ Becomes(w, On(w, "claim", "write", d, task[w].item))
        /\ task[w].item \in Nat
    BY <1>2, <2>1, <2>2, GoOnStep
  <2>4. bad' \in {bad, [bad EXCEPT !.errors = @ + 1]}
    BY <1>4 DEF SearchFinds
  <2> QED
    BY <1>1, <1>2, <1>3, <2>2, <2>3, <2>4, RequestDone
<1>5. CASE SearchFindsNone(w) \/ SearchFails(w)
  <2>1. PICK st : st = IF from = "byname" THEN "byid" ELSE "write"
    OBVIOUS
  <2>2. GoOn(w, st, 0) /\ st \in Stages /\ st # "item"
    BY <1>2, <1>5, <2>1 DEF SearchFindsNone, SearchFails, NextStage, AfterName
  <2>3. /\ Becomes(w, On(w, "claim", st, 0, task[w].item))
        /\ task[w].item \in Nat
    BY <2>2, GoOnStep
  <2>4. <<from, st>> \in {<<"byname", "byid">>, <<"byid", "write">>}
    BY <1>1, <2>1
  <2>5. /\ bad' \in {bad, [bad EXCEPT !.errors = @ + 1]}
        /\ Len(deals) > 0 => bad' # bad
    <3>1. CASE SearchFindsNone(w)
      BY <3>1 DEF SearchFindsNone
    <3>2. CASE SearchFails(w)
      <4>1. bad' = [bad EXCEPT !.errors = @ + 1]
        BY <3>2 DEF SearchFails
      <4>2. bad'.errors = bad.errors + 1 /\ bad.errors \in Nat
        BY <4>1, ErrorFacts, TaskFacts
      <4>3. bad' # bad
        BY <4>2
      <4> QED
        BY <4>1, <4>3
    <3> QED
      BY <1>5, <3>1, <3>2
  <2> QED
    BY <1>1, <1>2, <1>3, <2>2, <2>3, <2>4, <2>5, RequestDone
<1> QED
  BY <1>4, <1>5

LEMMA WrittenFacts ==
  ASSUME IInv, NEW w \in Workers
  PROVE  /\ Written(w) \in Seq(Nat)
         /\ task[w].deal = 0 => Len(Written(w)) = Len(deals) + 1
         /\ task[w].deal # 0 => Len(Written(w)) = Len(deals)
<1>1. deals \in Seq(Nat) /\ task[w].body \in Nat
  BY TaskFacts
<1>2. CASE task[w].deal = 0
  BY <1>1, <1>2 DEF Written
<1>3. CASE task[w].deal # 0
  <2>1. PICK d, b : d = task[w].deal /\ b = task[w].body
    OBVIOUS
  <2>2. Written(w) = [deals EXCEPT ![d] = b]
    BY <1>3, <2>1 DEF Written
  <2>3. CASE d \in 1 .. Len(deals)
    <3>1. b \in Nat
      BY <1>1, <2>1
    <3>2. [deals EXCEPT ![d] = b] \in Seq(Nat) /\ Len([deals EXCEPT ![d] = b]) = Len(deals)
      BY <1>1, <2>3, <3>1, ExceptSeq
    <3> QED
      BY <1>3, <2>2, <3>2
  <2>4. CASE d \notin 1 .. Len(deals)
    <3>1. DOMAIN deals = 1 .. Len(deals) /\ deals = [k \in DOMAIN deals |-> deals[k]]
      BY <1>1
    <3>2. [deals EXCEPT ![d] = b] = deals
      BY <2>4, <3>1
    <3> QED
      BY <1>1, <1>3, <2>2, <3>2
  <2> QED
    BY <2>3, <2>4
<1> QED
  BY <1>2, <1>3

LEMMA DealInv ==
  ASSUME IInv, NEW w \in Workers, UpdateDeal(w) \/ CreateDeal(w) \/ EnsureContact(w)
  PROVE  IInv'
<1>1. "write" \in Stages /\ "contact" \in Stages /\ "line" \in Stages
  BY DEF Stages
<1>2. /\ UNCHANGED <<limiter, order, lock>> /\ items' = items
      /\ bad' \in {bad, [bad EXCEPT !.errors = @ + 1]}
  BY DEF UpdateDeal, CreateDeal, EnsureContact, limiter, sales, lines
<1>3. CASE UpdateDeal(w) \/ CreateDeal(w)
  <2>1. PICK d : d = IF task[w].deal = 0 THEN Len(deals) + 1 ELSE task[w].deal
    OBVIOUS
  <2>2. GoOn(w, "contact", d) /\ d \in Nat /\ Woken(w, "write") /\ deals' = Written(w)
    BY <1>3, <2>1, TaskFacts DEF UpdateDeal, CreateDeal
  <2>3. Becomes(w, On(w, "claim", "contact", d, task[w].item)) /\ task[w].item \in Nat
    BY <1>1, <2>2, GoOnStep
  <2>4. /\ deals' \in Seq(Nat)
        /\ \/ Len(deals') = Len(deals)
           \/ Len(deals') = Len(deals) + 1 /\ task[w].deal = 0
    BY <2>2, WrittenFacts
  <2> QED
    BY <1>1, <1>2, <2>2, <2>3, <2>4, RequestDone
<1>4. CASE EnsureContact(w)
  <2>1. GoOn(w, "line", task[w].deal) /\ task[w].deal \in Nat /\ Woken(w, "contact")
        /\ deals' = deals /\ deals \in Seq(Nat)
    BY <1>4, TaskFacts DEF EnsureContact
  <2>2. Becomes(w, On(w, "claim", "line", task[w].deal, task[w].item)) /\ task[w].item \in Nat
    BY <1>1, <2>1, GoOnStep
  <2> QED
    BY <1>1, <1>2, <2>1, <2>2, RequestDone
<1> QED
  BY <1>3, <1>4

LEMMA LineInv ==
  ASSUME IInv, NEW w \in Workers,
         FindLineItem(w) \/ CreateLineItem(w) \/ LinkLineItem(w) \/ LineRequestFails(w)
  PROVE  IInv'
<1>1. "line" \in Stages /\ "item" \in Stages /\ "link" \in Stages
  BY DEF Stages
<1>2. /\ UNCHANGED <<limiter, order, lock>> /\ deals' = deals /\ deals' \in Seq(Nat)
      /\ task[w].deal \in Nat /\ task[w].item \in Nat /\ items \in Nat
  BY TaskFacts DEF FindLineItem, CreateLineItem, LinkLineItem, LineRequestFails, limiter, sales, lines
<1>3. CASE FindLineItem(w)
  <2>1. Woken(w, "line") /\ items' = items /\ bad' = bad
    BY <1>3 DEF FindLineItem, lines
  <2>2. CASE items = 0 /\ GoOnWith(w, "item", 0)
    <3>1. Becomes(w, On(w, "claim", "item", task[w].deal, 0))
      BY <1>1, <2>2, GoOnWithStep
    <3> QED
      BY <1>1, <1>2, <2>1, <2>2, <3>1, RequestDone
  <2>3. ASSUME NEW i \in 1 .. items, GoOnWith(w, "link", i)
        PROVE  IInv'
    <3>1. i \in Nat
      BY <1>2
    <3>2. Becomes(w, On(w, "claim", "link", task[w].deal, i))
      BY <1>1, <2>3, <3>1, GoOnWithStep
    <3> QED
      BY <1>1, <1>2, <2>1, <3>1, <3>2, RequestDone
  <2> QED
    BY <1>3, <2>2, <2>3 DEF FindLineItem
<1>4. CASE CreateLineItem(w)
  <2>1. Woken(w, "item") /\ items' = items + 1 /\ bad' = bad /\ GoOnWith(w, "link", items + 1)
    BY <1>4 DEF CreateLineItem
  <2>2. Becomes(w, On(w, "claim", "link", task[w].deal, items + 1)) /\ items + 1 \in Nat
    BY <1>1, <1>2, <2>1, GoOnWithStep
  <2> QED
    BY <1>1, <1>2, <2>1, <2>2, RequestDone
<1>5. ASSUME Woken(w, "link"), task' = [task EXCEPT ![w].pc = "map"], items' = items,
             bad' \in {bad, [bad EXCEPT !.errors = @ + 1]}
      PROVE  IInv'
  <2>1. Becomes(w, On(w, "map", "link", task[w].deal, task[w].item))
    BY <1>5, TaskFacts DEF Becomes, On, TaskState, Woken
  <2> QED
    BY <1>1, <1>2, <1>5, <2>1, RequestDone
<1>6. CASE LinkLineItem(w)
  BY <1>5, <1>6 DEF LinkLineItem
<1>7. CASE LineRequestFails(w)
  <2>1. bad' = [bad EXCEPT !.errors = @ + 1] /\ items' = items
    BY <1>7 DEF LineRequestFails, lines
  <2>2. CASE Woken(w, "line")
    <3>1. GoOnWith(w, "item", 0)
      BY <1>7, <2>2 DEF LineRequestFails, Woken
    <3>2. Becomes(w, On(w, "claim", "item", task[w].deal, 0))
      BY <1>1, <3>1, GoOnWithStep
    <3>3. bad' # bad
      <4>1. bad'.errors = bad.errors + 1 /\ bad.errors \in Nat
        BY <2>1, ErrorFacts, TaskFacts
      <4> QED
        BY <4>1
    <3> QED
      BY <1>1, <1>2, <2>1, <2>2, <3>2, <3>3, RequestDone
  <2>3. CASE Woken(w, "link")
    <3>1. task' = [task EXCEPT ![w].pc = "map"]
      BY <1>7, <2>3 DEF LineRequestFails, Woken
    <3> QED
      BY <1>5, <2>1, <2>3, <3>1
  <2> QED
    BY <1>7, <2>2, <2>3 DEF LineRequestFails
<1> QED
  BY <1>3, <1>4, <1>6, <1>7

-----------------------------------------------------------------------------
(* The end of a task *)

LEMMA EndInv ==
  ASSUME IInv, NEW w \in Workers, Running(w), task' = [task EXCEPT ![w] = Idle],
         lock' \in {lock, Released(w)}, bad' \in Failures,
         bad'.overlaps = bad.overlaps, bad'.errors = bad.errors,
         bad.faults <= bad'.faults, bad'.faults <= MaxFaults,
         UNCHANGED <<limiter, order>>, deals' \in Seq(Nat),
         \/ Len(deals') = Len(deals)
         \/ Len(deals') = Len(deals) + 1 /\ task[w].stage = "write" /\ task[w].deal = 0,
         items' = items \/ (items' = items + 1 /\ task[w].stage = "item")
  PROVE  IInv'
<1>1. PICK s : s = Idle /\ Becomes(w, s)
  BY DEF Becomes
<1>2. s \in TaskState /\ s.pc = "idle" /\ s.at = 0
  BY <1>1 DEF Idle, TaskState, Stages
<1>3. Moves(w, s)
  BY <1>1, <1>2, TaskFacts DEF Moves, Released
<1>4. DealDebt(s) = 0 /\ ItemDebt(s) = 0
  BY <1>2 DEF DealDebt, ItemDebt
<1>5. DealDebt(task[w]) \in Nat /\ ItemDebt(task[w]) \in Nat /\ bad.errors \in Nat
  BY TaskFacts DEF DealDebt, ItemDebt
<1>6. NoDeal(w, s) \/ NewDeal(w, s)
  BY <1>2, <1>4, <1>5 DEF NoDeal, NewDeal
<1>7. NoItem(w, s) \/ NewItem(w, s)
  BY <1>2, <1>4, <1>5 DEF NoItem, NewItem
<1>8. order' = order /\ Bookings'
  BY BookingsKept DEF IInv
<1> QED
  BY <1>3, <1>6, <1>7, <1>8, MovesInv

LEMMA FaultFacts ==
  ASSUME IInv, Fault, bad' \in {[bad EXCEPT !.faults = @ + 1, !.lost = TRUE],
                                [bad EXCEPT !.faults = @ + 1, !.lost = FALSE]}
  PROVE  /\ bad' \in Failures /\ bad'.overlaps = bad.overlaps /\ bad'.errors = bad.errors
         /\ bad'.faults = bad.faults + 1 /\ bad'.faults \in Nat
         /\ bad.faults <= bad'.faults /\ bad'.faults <= MaxFaults
<1>1. bad \in Failures /\ bad.faults \in Nat /\ MaxFaults \in Nat
  BY HubspotSyncAssumption DEF IInv, Shape, Failures
<1>2. /\ bad' \in Failures /\ bad'.overlaps = bad.overlaps /\ bad'.errors = bad.errors
      /\ bad'.faults = bad.faults + 1
  <2>1. CASE bad' = [bad EXCEPT !.faults = @ + 1, !.lost = TRUE]
    <3>1. bad' = [errors |-> bad.errors, faults |-> bad.faults + 1, overlaps |-> bad.overlaps,
                  lost |-> TRUE]
      BY <1>1, <2>1, Zenon DEF Failures
    <3> QED
      BY <1>1, <3>1 DEF Failures
  <2>2. CASE bad' = [bad EXCEPT !.faults = @ + 1, !.lost = FALSE]
    <3>1. bad' = [errors |-> bad.errors, faults |-> bad.faults + 1, overlaps |-> bad.overlaps,
                  lost |-> FALSE]
      BY <1>1, <2>2, Zenon DEF Failures
    <3> QED
      BY <1>1, <3>1 DEF Failures
  <2> QED
    BY <2>1, <2>2
<1> QED
  BY <1>1, <1>2 DEF Fault

\* What a task that ends adds to the failures.
LEMMA EndsFailures ==
  ASSUME IInv, NEW w \in Workers,
         SaveMapping(w) \/ TooManyRequests(w) \/ NoContact(w) \/ WriteFails(w) \/ Crash(w)
  PROVE  /\ bad' \in Failures /\ bad'.overlaps = bad.overlaps /\ bad'.errors = bad.errors
         /\ bad'.faults \in Nat /\ bad.faults <= bad'.faults /\ bad'.faults <= MaxFaults
<1>1. CASE SaveMapping(w)
  BY <1>1, TaskFacts DEF SaveMapping
<1>2. CASE TooManyRequests(w)
  <2>1. /\ Fault
        /\ bad' = [bad EXCEPT !.faults = @ + 1, !.lost = @ \/ GivenUp(task[w].tries)]
    BY <1>2 DEF TooManyRequests
  <2>2. CASE bad.lost \/ GivenUp(task[w].tries)
    <3>1. (bad.lost \/ GivenUp(task[w].tries)) = TRUE
      BY <2>2
    <3> QED
      BY <2>1, <3>1, FaultFacts
  <2>3. CASE ~(bad.lost \/ GivenUp(task[w].tries))
    <3>1. (bad.lost \/ GivenUp(task[w].tries)) = FALSE
      BY <2>3
    <3> QED
      BY <2>1, <3>1, FaultFacts
  <2> QED
    BY <2>2, <2>3
<1>3. CASE NoContact(w) \/ WriteFails(w)
  <2>1. Fault /\ bad' = [bad EXCEPT !.faults = @ + 1, !.lost = TRUE]
    BY <1>3 DEF NoContact, WriteFails
  <2> QED
    BY <2>1, FaultFacts
<1>4. CASE Crash(w)
  <2>1. PICK lost \in BOOLEAN :
          Fault /\ bad' = [bad EXCEPT !.faults = @ + 1, !.lost = @ \/ lost]
    BY <1>4 DEF Crash
  <2>2. CASE bad.lost \/ lost
    <3>1. (bad.lost \/ lost) = TRUE
      BY <2>2
    <3> QED
      BY <2>1, <3>1, FaultFacts
  <2>3. CASE ~(bad.lost \/ lost)
    <3>1. (bad.lost \/ lost) = FALSE
      BY <2>3
    <3> QED
      BY <2>1, <3>1, FaultFacts
  <2> QED
    BY <2>2, <2>3
<1> QED
  BY <1>1, <1>2, <1>3, <1>4

LEMMA EndsInv ==
  ASSUME IInv, NEW w \in Workers,
         SaveMapping(w) \/ TooManyRequests(w) \/ NoContact(w) \/ WriteFails(w) \/ Crash(w)
  PROVE  IInv'
<1>1. /\ Running(w) /\ task' = [task EXCEPT ![w] = Idle] /\ lock' \in {lock, Released(w)}
      /\ UNCHANGED <<limiter, order>>
  BY DEF SaveMapping, TooManyRequests, NoContact, WriteFails, Crash, Stop, Running, Woken, limiter, sales
<1>2. /\ bad' \in Failures /\ bad'.overlaps = bad.overlaps /\ bad'.errors = bad.errors
      /\ bad.faults <= bad'.faults /\ bad'.faults <= MaxFaults
  BY EndsFailures
<1>3. CASE ~WriteFails(w)
  <2>1. deals' = deals /\ items' = items
    BY <1>3 DEF SaveMapping, TooManyRequests, NoContact, Crash, lines
  <2> QED
    BY <1>1, <1>2, <2>1, TaskFacts, EndInv
<1>4. CASE WriteFails(w)
  <2>1. CASE Woken(w, "write") /\ deals' \in {deals, Written(w)} /\ UNCHANGED items
    <3>1. /\ deals' \in Seq(Nat)
          /\ \/ Len(deals') = Len(deals)
             \/ Len(deals') = Len(deals) + 1 /\ task[w].stage = "write" /\ task[w].deal = 0
      BY <2>1, WrittenFacts, TaskFacts DEF Woken
    <3> QED
      BY <1>1, <1>2, <2>1, <3>1, EndInv
  <2>2. CASE Woken(w, "item") /\ items' \in {items, items + 1} /\ UNCHANGED deals
    <3>1. deals' \in Seq(Nat) /\ Len(deals') = Len(deals) /\ task[w].stage = "item"
      BY <2>2, TaskFacts DEF Woken
    <3> QED
      BY <1>1, <1>2, <2>2, <3>1, EndInv
  <2> QED
    BY <1>4, <2>1, <2>2 DEF WriteFails
<1> QED
  BY <1>3, <1>4

-----------------------------------------------------------------------------
(* Starting a task; changes from outside; the lock expires *)

\* What the counting of deals and items looks at.
LEMMA CountsKept ==
  ASSUME IInv, UNCHANGED <<deals, items>>, Overlapping' = Overlapping,
         \A w \in Overlapping : MayDeal(task'[w]) = MayDeal(task[w])
                                /\ MayItem(task'[w]) = MayItem(task[w]),
         HolderDeal' = HolderDeal, HolderItem' = HolderItem,
         bad'.errors = bad.errors, bad'.overlaps = bad.overlaps
  PROVE  OverlapsCounted' /\ DealsCounted' /\ ItemsCounted'
<1>1. DealMakers' = DealMakers /\ ItemMakers' = ItemMakers
  BY DEF DealMakers, ItemMakers, MayDeal, MayItem
<1> QED
  BY <1>1 DEF IInv, OverlapsCounted, DealsCounted, ItemsCounted, Paid

LEMMA BeginInv ==
  ASSUME IInv, NEW w \in Workers, NEW k \in 0 .. MaxRetries, Begin(w, k)
  PROVE  IInv'
<1>1. PICK s : s = [Idle EXCEPT !.pc = "claim", !.body = order, !.tries = k]
  OBVIOUS
<1>2. /\ ~Running(w) /\ lock = NoWorker /\ lock' = w /\ task' = [task EXCEPT ![w] = s]
      /\ UNCHANGED <<limiter, order, deals, items, bad>>
  BY <1>1 DEF Begin, limiter, sales, lines
<1>3. /\ s \in TaskState /\ s.pc = "claim" /\ s.at = 0 /\ s.stage = "byname"
  <2>1. k \in Nat /\ order \in Nat
    BY TaskFacts, HubspotSyncAssumption
  <2> QED
    BY <1>1, <2>1 DEF Idle, TaskState, Stages
<1>4. task'[w] = s /\ \A x \in Workers : x # w => task'[x] = task[x]
  BY <1>2, TaskFacts
<1>5. Shape'
  BY <1>2, <1>3, <1>4, TaskFacts DEF IInv, Shape
<1>6. w \notin Overlapping
  BY <1>2 DEF Overlapping
<1>7. Overlapping' = Overlapping
  BY <1>2, <1>4, HubspotSyncAssumption DEF Overlapping, Running
<1>8. HolderDeal = 0 /\ HolderItem = 0 /\ HolderDeal' = 0 /\ HolderItem' = 0
  BY <1>2, <1>3, <1>4, HubspotSyncAssumption DEF HolderDeal, HolderItem, DealDebt, ItemDebt
<1>9. \A x \in Overlapping : x \in Workers /\ x # w
  BY <1>6 DEF Overlapping
<1>10. OverlapsCounted' /\ DealsCounted' /\ ItemsCounted'
  BY <1>2, <1>4, <1>7, <1>8, <1>9, CountsKept
<1> QED
  BY <1>2, <1>5, <1>10, BookingsKept DEF IInv

LEMMA OutsideInv ==
  ASSUME IInv,
         ChangeOrder \/ SyncHubspotDeal \/ \E w \in Workers, k \in 0 .. MaxRetries : Blocked(w, k)
  PROVE  IInv'
<1>1. UNCHANGED <<limiter, lock, task, deals, items>>
  BY DEF ChangeOrder, SyncHubspotDeal, Blocked, limiter, sales, lines
<1>2. order' \in Nat /\ bad' \in Failures /\ bad'.errors = bad.errors
      /\ bad'.overlaps = bad.overlaps /\ bad'.faults = bad.faults
  <2>1. CASE ChangeOrder \/ SyncHubspotDeal
    BY <2>1 DEF ChangeOrder, SyncHubspotDeal, IInv, Shape
  <2>2. ASSUME NEW w \in Workers, NEW k \in 0 .. MaxRetries, Blocked(w, k)
        PROVE  /\ order' \in Nat /\ bad' \in Failures /\ bad'.errors = bad.errors
               /\ bad'.overlaps = bad.overlaps /\ bad'.faults = bad.faults
    <3>1. order' = order /\ bad' = [bad EXCEPT !.lost = @ \/ GivenUp(k)]
      BY <2>2 DEF Blocked, sales
    <3>2. bad \in Failures /\ order \in Nat
      BY DEF IInv, Shape
    <3>3. bad' = [errors |-> bad.errors, faults |-> bad.faults, overlaps |-> bad.overlaps,
                  lost |-> bad.lost \/ GivenUp(k)]
      BY <3>1, <3>2, Zenon DEF Failures
    <3>4. bad'.errors = bad.errors /\ bad'.overlaps = bad.overlaps /\ bad'.faults = bad.faults
      BY <3>3
    <3>5. (bad.lost \/ GivenUp(k)) \in BOOLEAN
      OBVIOUS
    <3>6. bad' \in Failures
      BY <3>2, <3>3, <3>5, Zenon DEF Failures
    <3> QED
      BY <3>1, <3>2, <3>4, <3>6
  <2> QED
    BY <2>1, <2>2
<1>3. Shape'
  BY <1>1, <1>2 DEF IInv, Shape
<1>4. OverlapsCounted' /\ DealsCounted' /\ ItemsCounted'
  <2>1. Overlapping' = Overlapping /\ HolderDeal' = HolderDeal /\ HolderItem' = HolderItem
    BY <1>1 DEF Overlapping, Running, HolderDeal, HolderItem, DealDebt, ItemDebt
  <2> QED
    BY <1>1, <1>2, <2>1, CountsKept
<1> QED
  BY <1>1, <1>3, <1>4, BookingsKept DEF IInv

\* An overlap pays for what the task that lost its lock may create.
LEMMA OverlapPaid ==
  ASSUME NEW k \in {1, 2}, NEW n \in Nat, NEW d \in Nat, NEW m \in Nat, NEW c \in Nat,
         NEW f \in Failures, NEW g \in Failures, Paid(k, n, d, m, f), c <= m + 1,
         g.overlaps = f.overlaps + 1, g.errors = f.errors
  PROVE  Paid(k, n, 0, c, g)
<1>1. CASE k = 1
  BY <1>1 DEF Paid, Failures
<1>2. CASE k = 2
  BY <1>2 DEF Paid, Failures
<1> QED
  BY <1>1, <1>2

LEMMA LockExpiresInv ==
  ASSUME IInv, LockExpires
  PROVE  IInv'
<1>1. /\ lock \in Workers /\ lock' = NoWorker /\ task' = task
      /\ UNCHANGED <<limiter, order, deals, items>>
  BY DEF LockExpires, limiter, sales, lines, IInv, Shape
<1>2. HolderDeal' = 0 /\ HolderItem' = 0
  BY <1>1 DEF HolderDeal, HolderItem
<1>3. Overlapping' = {w \in Workers : Running(w)}
  BY <1>1, HubspotSyncAssumption DEF Overlapping, Running
<1>4. CASE ~Running(lock)
  <2>1. bad' = bad
    BY <1>4 DEF LockExpires
  <2>2. Overlapping' = Overlapping
    BY <1>3, <1>4 DEF Overlapping
  <2>3. HolderDeal = 0 /\ HolderItem = 0
    BY <1>4 DEF HolderDeal, HolderItem, DealDebt, ItemDebt, Running
  <2>4. OverlapsCounted' /\ DealsCounted' /\ ItemsCounted'
    BY <1>1, <1>2, <2>1, <2>2, <2>3, CountsKept
  <2>5. Shape'
    BY <1>1, <2>1 DEF IInv, Shape
  <2> QED
    BY <1>1, <2>4, <2>5, BookingsKept DEF IInv
<1>5. CASE Running(lock)
  <2>1. Fault /\ bad' = [bad EXCEPT !.faults = @ + 1, !.overlaps = @ + 1]
    BY <1>5 DEF LockExpires
  <2>2. /\ bad \in Failures /\ bad.overlaps <= bad.faults /\ bad.faults \in Nat
        /\ MaxFaults \in Nat /\ bad.overlaps \in Nat
    BY <1>1, TaskFacts DEF IInv, Shape
  <2>3. /\ bad' \in Failures /\ bad'.errors = bad.errors
        /\ bad'.overlaps = bad.overlaps + 1 /\ bad'.faults = bad.faults + 1
    <3>1. bad' = [errors |-> bad.errors, faults |-> bad.faults + 1,
                  overlaps |-> bad.overlaps + 1, lost |-> bad.lost]
      BY <2>1, <2>2, Zenon DEF Failures
    <3>2. bad.lost \in BOOLEAN /\ bad.errors \in Nat
      BY <1>1, TaskFacts
    <3>3. bad'.errors = bad.errors /\ bad'.overlaps = bad.overlaps + 1
          /\ bad'.faults = bad.faults + 1
      BY <3>1
    <3>4. bad.faults + 1 \in Nat /\ bad.overlaps + 1 \in Nat
      BY <2>2
    <3>5. bad' \in Failures
      BY <3>1, <3>2, <3>4, Zenon DEF Failures
    <3> QED
      BY <3>3, <3>5
  <2>4. Shape'
    BY <1>1, <2>1, <2>2, <2>3 DEF IInv, Shape, Fault
  <2>5. /\ Overlapping' \in SUBSET (Overlapping \cup {lock})
        /\ DealMakers' \in SUBSET (DealMakers \cup {lock})
        /\ ItemMakers' \in SUBSET (ItemMakers \cup {lock})
    BY <1>1, <1>3 DEF Overlapping, DealMakers, ItemMakers, MayDeal, MayItem
  <2>6. /\ Overlapping \in SUBSET Workers /\ DealMakers \in SUBSET Workers
        /\ ItemMakers \in SUBSET Workers
        /\ Cardinality(Overlapping) \in Nat /\ Cardinality(DealMakers) \in Nat
        /\ Cardinality(ItemMakers) \in Nat /\ HolderDeal \in Nat /\ HolderItem \in Nat
        /\ Len(deals) \in Nat /\ items \in Nat
    BY Counts DEF IInv
  <2>7. /\ Cardinality(Overlapping') <= Cardinality(Overlapping) + 1
        /\ Cardinality(DealMakers') <= Cardinality(DealMakers) + 1
        /\ Cardinality(ItemMakers') <= Cardinality(ItemMakers) + 1
    BY <1>1, <2>5, <2>6, WithOne
  <2>8. /\ Cardinality(Overlapping') \in Nat /\ Cardinality(DealMakers') \in Nat
        /\ Cardinality(ItemMakers') \in Nat
    <3>1. /\ Overlapping' \in SUBSET Workers /\ DealMakers' \in SUBSET Workers
          /\ ItemMakers' \in SUBSET Workers
      BY <1>1, <2>5, <2>6
    <3> QED
      BY <3>1, WorkerSets
  <2>9. OverlapsCounted'
    BY <2>2, <2>3, <2>6, <2>7, <2>8 DEF IInv, OverlapsCounted
  <2>10. Len(deals) > 0 => Paid(2, Len(deals), 0, Cardinality(DealMakers'), bad')
    BY <2>2, <2>3, <2>6, <2>7, <2>8, OverlapPaid DEF IInv, DealsCounted
  <2>11. items > 0 => Paid(1, items, 0, Cardinality(ItemMakers'), bad')
    BY <2>2, <2>3, <2>6, <2>7, <2>8, OverlapPaid DEF IInv, ItemsCounted
  <2>12. DealsCounted' /\ ItemsCounted'
    BY <1>1, <1>2, <2>10, <2>11 DEF DealsCounted, ItemsCounted, Paid
  <2> QED
    BY <1>1, <2>4, <2>9, <2>12, BookingsKept DEF IInv
<1> QED
  BY <1>4, <1>5

-----------------------------------------------------------------------------
(* The limiter *)

LEMMA MaxOfTwo ==
  ASSUME NEW a \in Int, NEW b \in Int
  PROVE  /\ Max({a, b}) = (IF a >= b THEN a ELSE b) /\ Max({a, b}) \in Int
         /\ Max({a, b}) >= a /\ Max({a, b}) >= b
<1>1. CASE a >= b
  <2>1. \A x \in {a, b} : (\A y \in {a, b} : x >= y) <=> x = a
    BY <1>1
  <2>2. Max({a, b}) = a
    BY <2>1 DEF Max
  <2> QED
    BY <1>1, <2>2
<1>2. CASE ~(a >= b)
  <2>1. \A x \in {a, b} : (\A y \in {a, b} : x >= y) <=> x = b
    BY <1>2
  <2>2. Max({a, b}) = b
    BY <2>1 DEF Max
  <2> QED
    BY <1>2, <2>2
<1> QED
  BY <1>1, <1>2

LEMMA MaxOfThree ==
  ASSUME NEW a \in Int, NEW b \in Int, NEW c \in Int
  PROVE  /\ Max({a, b, c}) \in {a, b, c}
         /\ Max({a, b, c}) >= a /\ Max({a, b, c}) >= b /\ Max({a, b, c}) >= c
<1>1. \E x \in {a, b, c} : \A y \in {a, b, c} : x >= y
  <2>1. CASE a >= b /\ a >= c
    BY <2>1
  <2>2. CASE b >= a /\ b >= c
    BY <2>2
  <2>3. CASE c >= a /\ c >= b
    BY <2>3
  <2> QED
    BY <2>1, <2>2, <2>3
<1>2. Max({a, b, c}) \in {a, b, c} /\ \A y \in {a, b, c} : Max({a, b, c}) >= y
  BY <1>1 DEF Max
<1> QED
  BY <1>2

\* The smallest natural number of a set.
LEMMA SmallestNat ==
  ASSUME NEW T \in SUBSET Nat, T # {}
  PROVE  \E x \in T : \A y \in T : x <= y
<1>1. PICK x \in T : \A y \in T : ~(<<y, x>> \in OpToRel(<, Nat))
  BY NatLessThanWellFounded, WFMin
<1>2. \A y, z \in Nat : y < z => <<y, z>> \in OpToRel(<, Nat)
  BY DEF OpToRel
<1>3. ASSUME NEW y \in T PROVE x <= y
  <2>1. x \in Nat /\ y \in Nat
    OBVIOUS
  <2>2. ~(y < x)
    BY <1>1, <1>2, <2>1, Zenon
  <2> QED
    BY <2>1, <2>2
<1> QED
  BY <1>3

\* The first and the last of some bookings.
LEMMA Ends ==
  ASSUME NEW S \in SUBSET Int, S # {}, NEW lo \in Int, NEW hi \in Int,
         \A x \in S : lo <= x /\ x <= hi
  PROVE  /\ Min(S) \in S /\ \A y \in S : Min(S) <= y
         /\ Max(S) \in S /\ \A y \in S : Max(S) >= y
<1>1. \E x \in S : \A y \in S : x <= y
  <2>1. PICK T : T = {x - lo : x \in S}
    OBVIOUS
  <2>2. T \in SUBSET Nat /\ T # {}
    <3>1. \A x \in S : x - lo \in Nat
      OBVIOUS
    <3>2. PICK x \in S : TRUE
      OBVIOUS
    <3>3. x - lo \in T
      BY <2>1, <3>2
    <3> QED
      BY <2>1, <3>1, <3>3
  <2>3. PICK t \in T : \A u \in T : t <= u
    BY <2>2, SmallestNat
  <2>4. PICK x \in S : t = x - lo
    BY <2>1
  <2>5. ASSUME NEW y \in S PROVE x <= y
    <3>1. y - lo \in T
      BY <2>1
    <3>2. x - lo <= y - lo /\ x \in Int /\ y \in Int
      BY <2>3, <2>4, <3>1
    <3> QED
      BY <3>2
  <2> QED
    BY <2>5
<1>2. \E x \in S : \A y \in S : x >= y
  <2>1. PICK T : T = {hi - x : x \in S}
    OBVIOUS
  <2>2. T \in SUBSET Nat /\ T # {}
    <3>1. \A x \in S : hi - x \in Nat
      OBVIOUS
    <3>2. PICK x \in S : TRUE
      OBVIOUS
    <3>3. hi - x \in T
      BY <2>1, <3>2
    <3> QED
      BY <2>1, <3>1, <3>3
  <2>3. PICK t \in T : \A u \in T : t <= u
    BY <2>2, SmallestNat
  <2>4. PICK x \in S : t = hi - x
    BY <2>1
  <2>5. ASSUME NEW y \in S PROVE x >= y
    <3>1. hi - y \in T
      BY <2>1
    <3>2. hi - x <= hi - y /\ x \in Int /\ y \in Int
      BY <2>3, <2>4, <3>1
    <3> QED
      BY <3>2
  <2> QED
    BY <2>5
<1>3. Min(S) \in S /\ \A y \in S : Min(S) <= y
  BY <1>1 DEF Min
<1>4. Max(S) \in S /\ \A y \in S : Max(S) >= y
  BY <1>2 DEF Max
<1> QED
  BY <1>3, <1>4

\* The constants of the limiter.
LEMMA Delays ==
  /\ MinDelay \in Nat /\ MinDelay > 0 /\ Window \in Nat /\ Window > 0
  /\ MaxRequests \in Nat /\ MaxRequests > 0 /\ MinDelay <= Window
  /\ Lifetime \in Nat
BY HubspotSyncAssumption

Kept == {s \in slots : s > -Window}

\* A slot is not in the past, comes MinDelay after every booking there is, and
\* no later than it must.
LEMMA BookedFacts ==
  ASSUME Bookings
  PROVE  /\ Booked(Kept) \in Nat
         /\ \A s \in Kept : Booked(Kept) >= s + MinDelay
         /\ \/ Booked(Kept) = 0
            \/ Booked(Kept) <= latest + MinDelay
            \/ /\ Cardinality(Kept) >= MaxRequests
               /\ \E m \in Kept : Booked(Kept) = m + Window /\ \A s \in Kept : m <= s
<1>1. CASE Kept = {}
  BY <1>1 DEF Booked
<1>2. CASE Kept # {}
  <2>1. /\ Kept \in SUBSET Int /\ latest \in Int /\ -Window \in Int
        /\ \A s \in Kept : -Window <= s /\ s <= latest
    <3>1. slots \in SUBSET Int /\ latest \in Int /\ \A s \in slots : s <= latest
      BY DEF Bookings
    <3>2. -Window \in Int
      BY Delays
    <3>3. ASSUME NEW s \in Kept PROVE s \in Int /\ -Window <= s /\ s <= latest
      <4>1. s \in slots /\ s > -Window
        BY DEF Kept
      <4> QED
        BY <3>1, <3>2, <4>1
    <3> QED
      BY <3>1, <3>2, <3>3
  <2>2. PICK m, M : m = Min(Kept) /\ M = Max(Kept)
    OBVIOUS
  <2>3. /\ m \in Kept /\ \A s \in Kept : m <= s
        /\ M \in Kept /\ \A s \in Kept : M >= s
    BY <1>2, <2>1, <2>2, Ends
  <2>4. /\ m \in Int /\ M \in Int /\ latest \in Int /\ M <= latest
        /\ \A s \in Kept : s \in Int
    BY <2>1, <2>3
  <2>5. CASE Cardinality(Kept) < MaxRequests
    <3>1. PICK x, b : x = Booked(Kept) /\ b = M + MinDelay
      OBVIOUS
    <3>2. x = Max({0, b})
      BY <1>2, <2>2, <2>5, <3>1 DEF Booked
    <3>3. b \in Int /\ 0 \in Int
      BY <2>4, <3>1, Delays
    <3>4. x = (IF 0 >= b THEN 0 ELSE b) /\ x \in Int /\ x >= 0 /\ x >= b
      BY <3>2, <3>3, MaxOfTwo
    <3>5. \A s \in Kept : x >= s + MinDelay
      BY <2>3, <2>4, <3>1, <3>3, <3>4, Delays
    <3>6. x \in Nat /\ (x = 0 \/ x <= latest + MinDelay)
      BY <2>4, <3>1, <3>3, <3>4, Delays
    <3> QED
      BY <3>1, <3>5, <3>6
  <2>6. CASE ~(Cardinality(Kept) < MaxRequests)
    <3>1. Booked(Kept) = Max({m + Window, M + MinDelay, 0})
      BY <1>2, <2>2, <2>6 DEF Booked
    <3>2. PICK a, b : a = m + Window /\ b = M + MinDelay
      OBVIOUS
    <3>3. a \in Int /\ b \in Int
      BY <2>4, <3>2, Delays
    <3>4. PICK x : x = Booked(Kept)
      OBVIOUS
    <3>5. x \in {a, b, 0} /\ x >= a /\ x >= b /\ x >= 0
      BY <3>1, <3>2, <3>3, <3>4, MaxOfThree
    <3>6. x \in Nat /\ \A s \in Kept : x >= s + MinDelay
      BY <2>3, <2>4, <3>2, <3>3, <3>5, Delays
    <3>7. Cardinality(Kept) >= MaxRequests
      <4>1. IsFiniteSet(Kept)
        BY FS_Subset DEF Bookings, Kept
      <4>2. Cardinality(Kept) \in Nat
        BY <4>1, FS_CardinalityType
      <4> QED
        BY <2>6, <4>2, Delays
    <3>8. x = 0 \/ x <= latest + MinDelay \/ x = m + Window
      BY <2>4, <3>2, <3>3, <3>5, Delays
    <3> QED
      BY <2>3, <3>4, <3>6, <3>7, <3>8
  <2> QED
    BY <2>5, <2>6
<1> QED
  BY <1>1, <1>2

LEMMA ClaimFacts ==
  ASSUME IInv, NEW w \in Workers, Claim(w), NEW slot, slot = Booked(Kept)
  PROVE  /\ slot \in Nat /\ slots' = Kept \cup {slot} /\ ttl' = Lifetime
         /\ latest' = (IF latest >= slot THEN latest ELSE slot) /\ latest' \in Int
         /\ latest' >= latest /\ latest' >= slot
         /\ task[w].pc = "claim" /\ task[w].at = 0 /\ task'[w].pc = "wait" /\ task'[w].at = slot
         /\ \A x \in Workers : x # w => task'[x] = task[x]
         /\ UNCHANGED <<order, lock, deals, items, bad>>
         /\ Becomes(w, [task[w] EXCEPT !.pc = "wait", !.at = slot])
<1>1. slot \in Nat /\ latest \in Int
  BY BookedFacts DEF IInv, Bookings
<1>2. latest' = Max({latest, slot}) /\ slots' = Kept \cup {slot} /\ ttl' = Lifetime
  BY DEF Claim, Kept
<1>3. /\ latest' = (IF latest >= slot THEN latest ELSE slot) /\ latest' \in Int
      /\ latest' >= latest /\ latest' >= slot
  <2>1. slot \in Int
    BY <1>1
  <2> QED
    BY <1>1, <1>2, <2>1, MaxOfTwo
<1>4. task' = [task EXCEPT ![w].pc = "wait", ![w].at = slot]
  BY DEF Claim, Kept
<1>5. task'[w].pc = "wait" /\ task'[w].at = slot /\ \A x \in Workers : x # w => task'[x] = task[x]
  BY <1>4, TaskFacts DEF TaskState
<1>6. Becomes(w, [task[w] EXCEPT !.pc = "wait", !.at = slot])
  BY <1>4, TaskFacts DEF TaskState, Becomes
<1>7. task[w].pc = "claim" /\ UNCHANGED <<order, lock, deals, items, bad>>
  BY DEF Claim, lines, sales
<1>8. task[w].at = 0
  BY <1>7, TaskFacts
<1> QED
  BY <1>1, <1>2, <1>3, <1>5, <1>6, <1>7, <1>8

LEMMA ClaimInv ==
  ASSUME IInv, NEW w \in Workers, Claim(w)
  PROVE  IInv'
<1>1. PICK slot : slot = Booked(Kept)
  OBVIOUS
<1>2. Bookings'
  <2>1. /\ slot \in Nat /\ slots' = Kept \cup {slot} /\ ttl' = Lifetime
        /\ latest' \in Int /\ latest' >= latest /\ latest' >= slot
    BY <1>1, ClaimFacts
  <2>2. IsFiniteSet(Kept) /\ Kept \in SUBSET Int
    BY FS_Subset DEF IInv, Bookings, Kept
  <2>3. IsFiniteSet(slots') /\ slots' \in SUBSET Int
    <3>1. IsFiniteSet(Kept \cup {slot})
      BY <2>2, FS_AddElement
    <3>2. slot \in Int
      BY <2>1
    <3> QED
      BY <2>1, <2>2, <3>1, <3>2
  <2>4. latest \in Int /\ latest >= -MinDelay /\ \A s \in Kept : s <= latest
    BY DEF IInv, Bookings, Kept
  <2>5. latest' >= -MinDelay
    BY <2>1, <2>4, Delays
  <2>6. \A s \in slots' : s <= latest'
    BY <2>1, <2>2, <2>4
  <2>7. ttl' \in Nat
    BY <2>1, Delays
  <2> QED
    BY <2>1, <2>3, <2>5, <2>6, <2>7 DEF Bookings
<1>3. PICK s : s = [task[w] EXCEPT !.pc = "wait", !.at = slot]
  OBVIOUS
<1>4. /\ Becomes(w, s) /\ slot \in Nat /\ task[w].pc = "claim" /\ lock' = lock
      /\ order' = order /\ deals' = deals /\ items' = items /\ bad' = bad
  BY <1>1, <1>3, ClaimFacts
<1>5. /\ s \in TaskState /\ s.pc = "wait" /\ s.stage = task[w].stage
      /\ s.deal = task[w].deal
  BY <1>3, <1>4, TaskFacts DEF TaskState
<1>6. Moves(w, s)
  BY <1>4, <1>5, TaskFacts DEF Moves, Running
<1>7. DealDebt(s) = DealDebt(task[w]) /\ ItemDebt(s) = ItemDebt(task[w])
      /\ DealDebt(s) \in Nat /\ ItemDebt(s) \in Nat
  BY <1>4, <1>5 DEF DealDebt, ItemDebt
<1>8. NoDeal(w, s) /\ NoItem(w, s)
  BY <1>4, <1>5, <1>7, TaskFacts DEF NoDeal, NoItem, MayDeal, MayItem
<1> QED
  BY <1>2, <1>4, <1>6, <1>8, MovesInv

\* A tick moves every score one down.
Down(S) == {s - 1 : s \in S}

LEMMA DownFinite ==
  ASSUME NEW S \in SUBSET Int, IsFiniteSet(S)
  PROVE  /\ Down(S) \in SUBSET Int /\ IsFiniteSet(Down(S))
         /\ Cardinality(Down(S)) <= Cardinality(S)
<1>1. PICK f : f = [s \in S |-> s - 1]
  OBVIOUS
<1>2. f \in Surjection(S, Down(S))
  BY <1>1 DEF Surjection, Down
<1>3. \A s \in S : s - 1 \in Int
  OBVIOUS
<1> QED
  BY <1>2, <1>3, FS_Surjection DEF Down

LEMMA TickFacts ==
  ASSUME IInv, Tick
  PROVE  /\ ttl' = (IF ttl = 0 THEN 0 ELSE ttl - 1)
         /\ slots' = (IF ttl <= 1 THEN {} ELSE Down(Kept))
         /\ latest' = (IF latest = -MinDelay THEN latest ELSE latest - 1)
         /\ task' \in [Workers -> TaskState]
         /\ \A w \in Workers :
               /\ task'[w].at = (IF task[w].at = 0 THEN 0 ELSE task[w].at - 1)
               /\ task'[w].pc = task[w].pc /\ task'[w].stage = task[w].stage
               /\ task'[w].deal = task[w].deal
         /\ UNCHANGED <<order, lock, deals, items, bad>>
<1>1. ttl \in Nat /\ latest \in Int /\ latest >= -MinDelay
  BY DEF IInv, Bookings
<1>2. ttl' = (IF ttl = 0 THEN 0 ELSE ttl - 1)
  <2>1. ttl - 1 \in Int /\ 0 \in Int /\ ttl' = Max({ttl - 1, 0})
    BY <1>1 DEF Tick
  <2>2. ttl' = IF ttl - 1 >= 0 THEN ttl - 1 ELSE 0
    BY <2>1, MaxOfTwo
  <2> QED
    BY <1>1, <2>2
<1>3. latest' = (IF latest = -MinDelay THEN latest ELSE latest - 1)
  <2>1. latest - 1 \in Int /\ -MinDelay \in Int /\ latest' = Max({latest - 1, -MinDelay})
    BY <1>1, Delays DEF Tick
  <2>2. latest' = IF latest - 1 >= -MinDelay THEN latest - 1 ELSE -MinDelay
    BY <2>1, MaxOfTwo
  <2> QED
    BY <1>1, <2>1, <2>2
<1>4. ASSUME NEW w \in Workers
      PROVE  /\ task'[w] \in TaskState
             /\ task'[w].at = (IF task[w].at = 0 THEN 0 ELSE task[w].at - 1)
             /\ task'[w].pc = task[w].pc /\ task'[w].stage = task[w].stage
             /\ task'[w].deal = task[w].deal
  <2>1. PICK a : a = Max({task[w].at - 1, 0})
    OBVIOUS
  <2>2. task'[w] = [task[w] EXCEPT !.at = a]
    BY <2>1 DEF Tick
  <2>3. task[w].at \in Nat /\ task[w].at - 1 \in Int /\ 0 \in Int
    BY TaskFacts
  <2>4. a = IF task[w].at - 1 >= 0 THEN task[w].at - 1 ELSE 0
    BY <2>1, <2>3, MaxOfTwo
  <2>5. a = (IF task[w].at = 0 THEN 0 ELSE task[w].at - 1) /\ a \in Nat
    BY <2>3, <2>4
  <2>6. task[w] \in TaskState
    BY TaskFacts
  <2> QED
    BY <2>2, <2>5, <2>6 DEF TaskState
<1>5. task' \in [Workers -> TaskState]
  <2>1. task' = [w \in Workers |-> task'[w]]
    BY DEF Tick
  <2> QED
    BY <1>4, <2>1
<1>6. UNCHANGED <<order, lock, deals, items, bad>>
  BY DEF Tick, lines, sales
<1>7. slots' = (IF ttl <= 1 THEN {} ELSE Down(Kept))
  BY DEF Tick, Down, Kept
<1> QED
  BY <1>2, <1>3, <1>4, <1>5, <1>6, <1>7

LEMMA TickInv ==
  ASSUME IInv, Tick
  PROVE  IInv'
<1>1. Shape'
  <2>1. \A w \in Workers : task'[w].pc # "wait" => task'[w].at = 0
    BY TickFacts, TaskFacts
  <2>2. task' \in [Workers -> TaskState] /\ UNCHANGED <<order, lock, deals, items, bad>>
    BY TickFacts
  <2> QED
    BY <2>1, <2>2 DEF IInv, Shape
<1>2. Bookings'
  <2>1. /\ slots \in SUBSET Int /\ IsFiniteSet(slots) /\ ttl \in Nat
        /\ latest \in Int /\ latest >= -MinDelay /\ \A s \in slots : s <= latest
    BY DEF IInv, Bookings
  <2>2. /\ ttl' = (IF ttl = 0 THEN 0 ELSE ttl - 1)
        /\ slots' = (IF ttl <= 1 THEN {} ELSE Down(Kept))
        /\ latest' = (IF latest = -MinDelay THEN latest ELSE latest - 1)
    BY TickFacts
  <2>3. latest' \in Int /\ latest' >= -MinDelay /\ latest' >= latest - 1 /\ ttl' \in Nat
    BY <2>1, <2>2, Delays
  <2>4. Kept \in SUBSET Int /\ IsFiniteSet(Kept) /\ \A s \in Kept : s <= latest
    BY <2>1, FS_Subset DEF Kept
  <2>5. IsFiniteSet(slots') /\ slots' \in SUBSET Int
    BY <2>2, <2>4, DownFinite, FS_EmptySet
  <2>6. ASSUME NEW s \in slots' PROVE s <= latest'
    <3>1. PICK r \in Kept : s = r - 1
      BY <2>2, <2>6 DEF Down
    <3> QED
      BY <2>1, <2>3, <2>4, <3>1
  <2> QED
    BY <2>3, <2>5, <2>6 DEF Bookings
<1>3. Overlapping' = Overlapping
  BY TickFacts DEF Overlapping, Running
<1>4. HolderDeal' = HolderDeal /\ HolderItem' = HolderItem
  <2>1. lock' = lock /\ lock \in Workers \cup {NoWorker}
    BY TickFacts DEF IInv, Shape
  <2> QED
    BY <2>1, TickFacts DEF HolderDeal, HolderItem, DealDebt, ItemDebt
<1>5. \A w \in Overlapping : MayDeal(task'[w]) = MayDeal(task[w])
                             /\ MayItem(task'[w]) = MayItem(task[w])
  BY TickFacts DEF MayDeal, MayItem, Overlapping
<1>6. UNCHANGED <<deals, items>> /\ bad' = bad
  BY TickFacts
<1> QED
  BY <1>1, <1>2, <1>3, <1>4, <1>5, <1>6, CountsKept DEF IInv

-----------------------------------------------------------------------------
(* Duplicates *)

LEMMA InitInv == Init => IInv
<1>1. SUFFICES ASSUME Init PROVE IInv
  OBVIOUS
<1>2. Idle \in TaskState /\ Idle.at = 0 /\ Idle.pc = "idle"
  BY DEF Idle, TaskState, Stages
<1>3. bad = [errors |-> 0, faults |-> 0, overlaps |-> 0, lost |-> FALSE] /\ MaxFaults \in Nat
  BY <1>1, HubspotSyncAssumption DEF Init
<1>4. bad \in Failures /\ bad.errors = 0 /\ bad.faults = 0 /\ bad.overlaps = 0
  BY <1>3 DEF Failures
<1>5. task = [w \in Workers |-> Idle] /\ lock = NoWorker /\ order = 0
      /\ deals = <<>> /\ items = 0
  BY <1>1 DEF Init
<1>6. Shape
  BY <1>2, <1>3, <1>4, <1>5 DEF Shape
<1>7. Bookings
  BY <1>1, Delays, FS_EmptySet DEF Init, Bookings
<1>8. Overlapping = {}
  BY <1>2, <1>5 DEF Overlapping, Running
<1>9. OverlapsCounted
  BY <1>4, <1>8, FS_EmptySet DEF OverlapsCounted
<1>10. Len(deals) = 0
  BY <1>5
<1> QED
  BY <1>5, <1>6, <1>7, <1>9, <1>10 DEF IInv, DealsCounted, ItemsCounted

LEMMA NextInv ==
  ASSUME IInv, [Next]_vars
  PROVE  IInv'
<1>1. ASSUME NEW w \in Workers,
             \/ Step(w) \/ Start(w) \/ SearchFails(w) \/ LineRequestFails(w)
             \/ TooManyRequests(w) \/ NoContact(w) \/ WriteFails(w) \/ Crash(w)
      PROVE  IInv'
  <2>1. CASE Step(w)
    BY <2>1, ClaimInv, SearchInv, DealInv, LineInv, EndsInv DEF Step
  <2>2. CASE Start(w)
    BY <2>2, BeginInv, OutsideInv DEF Start
  <2>3. CASE SearchFails(w) \/ LineRequestFails(w)
    BY <2>3, SearchInv, LineInv
  <2>4. CASE TooManyRequests(w) \/ NoContact(w) \/ WriteFails(w) \/ Crash(w)
    BY <2>4, EndsInv
  <2> QED
    BY <1>1, <2>1, <2>2, <2>3, <2>4
<1>2. CASE Tick \/ ChangeOrder \/ SyncHubspotDeal \/ LockExpires
  BY <1>2, TickInv, OutsideInv, LockExpiresInv
<1>3. CASE UNCHANGED vars
  <2>1. UNCHANGED <<limiter, order, lock, task, deals, items, bad>>
    BY <1>3 DEF vars, limiter, sales
  <2>2. Shape'
    BY <2>1 DEF IInv, Shape
  <2>3. Overlapping' = Overlapping /\ HolderDeal' = HolderDeal /\ HolderItem' = HolderItem
    BY <2>1 DEF Overlapping, Running, HolderDeal, HolderItem, DealDebt, ItemDebt
  <2>4. OverlapsCounted' /\ DealsCounted' /\ ItemsCounted'
    BY <2>1, <2>3, CountsKept
  <2> QED
    BY <2>1, <2>2, <2>4, BookingsKept DEF IInv
<1> QED
  BY <1>1, <1>2, <1>3 DEF Next

LEMMA InvariantHolds == Spec => []IInv
<1>1. Init => IInv
  BY InitInv
<1>2. IInv /\ [Next]_vars => IInv'
  BY NextInv
<1> QED
  BY <1>1, <1>2, PTL DEF Spec

\* The first is free, and each other cost two failed searches, or an overlap.
LEMMA PaidTwice ==
  ASSUME NEW n \in Nat, NEW d \in Nat, NEW m \in Nat, NEW f \in Failures, Paid(2, n, d, m, f)
  PROVE  n <= 1 + (f.errors \div 2) + f.overlaps
BY DEF Paid, Failures
LEMMA PaidOnce ==
  ASSUME NEW n \in Nat, NEW d \in Nat, NEW m \in Nat, NEW f \in Failures, Paid(1, n, d, m, f)
  PROVE  n <= 1 + f.errors + f.overlaps
BY DEF Paid, Failures

\* HubSpot has a second deal of an order only if both searches of a task
\* failed (taken for "no such deal" by the code), and a second line item only
\* if one did, or if the lock expired under a task that went on: retries,
\* redeliveries and lost answers alone make no duplicates.
THEOREM DuplicatesAreCaused == Spec => []DuplicatesHaveCauses
<1>1. IInv => DuplicatesHaveCauses
  <2>1. SUFFICES ASSUME IInv PROVE DuplicatesHaveCauses
    OBVIOUS
  <2>2. /\ Len(deals) \in Nat /\ items \in Nat /\ bad \in Failures
        /\ HolderDeal \in Nat /\ HolderItem \in Nat
        /\ Cardinality(DealMakers) \in Nat /\ Cardinality(ItemMakers) \in Nat
    BY <2>1, Counts DEF IInv, Shape
  <2>3. bad.errors \in Nat /\ bad.overlaps \in Nat
    BY <2>2 DEF Failures
  <2>4. Len(deals) <= 1 + (bad.errors \div 2) + bad.overlaps
    <3>1. CASE Len(deals) > 0
      BY <2>1, <2>2, <3>1, PaidTwice DEF IInv, DealsCounted
    <3>2. CASE Len(deals) = 0
      BY <2>3, <3>2
    <3> QED
      BY <2>2, <3>1, <3>2
  <2>5. items <= 1 + bad.errors + bad.overlaps
    <3>1. CASE items > 0
      BY <2>1, <2>2, <3>1, PaidOnce DEF IInv, ItemsCounted
    <3>2. CASE items = 0
      BY <2>3, <3>2
    <3> QED
      BY <2>2, <3>1, <3>2
  <2> QED
    BY <2>4, <2>5 DEF DuplicatesHaveCauses
<1> QED
  BY <1>1, InvariantHolds, PTL

-----------------------------------------------------------------------------
(* Spacing *)

\* The limiter never needs to look further than MinDelay past the last booking
\* (the window is full only when it lies a window ahead), and the bookings
\* that one task and MaxFaults others leave pass before the key expires.
BookingsPass ==
    /\ Window <= MinDelay * MaxRequests
    /\ MinDelay * (MaxFaults + 2) <= Lifetime

\* n delays; the bookings after s; the workers asleep for more than t.
Span(n) == MinDelay * n
Above(s) == {t \in slots : t > s}
Ahead(t) == {w \in Workers : task[w].at > t}

\* While it matters the last booking is there, and so is the key.
LatestBooked ==
    latest > -MinDelay => latest \in slots /\ latest + MinDelay <= ttl
\* Every booking came MinDelay after the one before.
Spread == \A s \in slots : latest - s >= Span(Cardinality(Above(s)))
\* The bookings that lie ahead belong to tasks, or were left by dead workers.
BookedAhead ==
    \A t \in Nat : latest - t <= Span(Cardinality(Ahead(t)) + (bad.faults - bad.overlaps))

Spaced == LatestBooked /\ Spread /\ BookedAhead

LEMMA Spans ==
  ASSUME NEW n \in Nat
  PROVE  /\ Span(n) \in Nat /\ Span(0) = 0 /\ Span(n + 1) = Span(n) + MinDelay
         /\ \A m \in Nat : n <= m => Span(n) <= Span(m)
<1>1. Span(n) \in Nat /\ Span(0) = 0 /\ Span(n + 1) = Span(n) + MinDelay
  BY Delays DEF Span
<1>2. ASSUME NEW m \in Nat, n <= m PROVE Span(n) <= Span(m)
  <2>1. MinDelay * (m - n) >= 0 /\ MinDelay * m = MinDelay * n + MinDelay * (m - n)
    BY <1>2, Delays
  <2> QED
    BY <1>2, <2>1, Delays DEF Span
<1> QED
  BY <1>1, <1>2

\* The bookings after one of them, and the sleeping workers, are finitely many.
LEMMA SpacedCounts ==
  ASSUME IInv
  PROVE  /\ \A s : /\ Above(s) \in SUBSET slots /\ IsFiniteSet(Above(s))
                   /\ Cardinality(Above(s)) \in Nat
         /\ \A t : /\ Ahead(t) \in SUBSET Workers /\ IsFiniteSet(Ahead(t))
                   /\ Cardinality(Ahead(t)) \in Nat
         /\ bad.faults - bad.overlaps \in Nat
         /\ latest \in Int /\ latest >= -MinDelay /\ slots \in SUBSET Int
         /\ \A s \in slots : s <= latest
<1>1. \A s : Above(s) \in SUBSET slots
  BY DEF Above
<1>2. \A t : Ahead(t) \in SUBSET Workers
  BY DEF Ahead
<1>3. /\ latest \in Int /\ latest >= -MinDelay /\ slots \in SUBSET Int /\ IsFiniteSet(slots)
      /\ \A s \in slots : s <= latest
  BY DEF IInv, Bookings
<1>4. ASSUME NEW s PROVE IsFiniteSet(Above(s)) /\ Cardinality(Above(s)) \in Nat
  BY <1>1, <1>3, FS_Subset, FS_CardinalityType
<1>5. ASSUME NEW t PROVE IsFiniteSet(Ahead(t)) /\ Cardinality(Ahead(t)) \in Nat
  BY <1>2, WorkerSets
<1>6. bad.faults - bad.overlaps \in Nat
  BY DEF IInv, Shape, Failures
<1> QED
  BY <1>1, <1>2, <1>3, <1>4, <1>5, <1>6

\* No more tasks sleep than run: the one that holds the lock, and the others.
LEMMA RunnersFew ==
  ASSUME IInv, NEW S \in SUBSET Workers, \A w \in S : Running(w)
  PROVE  Cardinality(S) <= bad.overlaps + 1
<1>1. S \in SUBSET (Overlapping \cup {lock})
  BY DEF Overlapping
<1>2. /\ Overlapping \in SUBSET Workers /\ Cardinality(Overlapping) \in Nat
      /\ Cardinality(Overlapping) <= bad.overlaps /\ bad.overlaps \in Nat
      /\ lock \in Workers \cup {NoWorker}
  BY Counts DEF IInv, OverlapsCounted, Shape
<1>3. Cardinality(S) \in Nat
  BY WorkerSets
<1>4. CASE lock \in Workers
  BY <1>1, <1>2, <1>3, <1>4, WithOne
<1>5. CASE lock = NoWorker
  <2>1. S \in SUBSET Overlapping
    BY <1>1, <1>5, HubspotSyncAssumption
  <2> QED
    BY <1>2, <1>3, <2>1, WorkerSets
<1> QED
  BY <1>2, <1>4, <1>5

\* When a slot is claimed it comes MinDelay after the last one, or at once.
LEMMA NextSlot ==
  ASSUME BookingsPass, IInv, Spaced
  PROVE  /\ Booked(Kept) >= latest + MinDelay
         /\ Booked(Kept) = 0 \/ Booked(Kept) <= latest + MinDelay
<1>1. PICK slot : slot = Booked(Kept)
  OBVIOUS
<1>2. /\ slot \in Nat /\ \A s \in Kept : slot >= s + MinDelay
      /\ \/ slot = 0 \/ slot <= latest + MinDelay
         \/ /\ Cardinality(Kept) >= MaxRequests
            /\ \E m \in Kept : slot = m + Window /\ \A s \in Kept : m <= s
  BY <1>1, BookedFacts DEF IInv
<1>3. latest \in Int /\ latest >= -MinDelay /\ slots \in SUBSET Int
  BY SpacedCounts
<1>4. slot >= latest + MinDelay
  <2>1. CASE latest = -MinDelay
    BY <1>2, <2>1, Delays
  <2>2. CASE latest > -MinDelay
    <3>1. latest \in slots
      BY <2>2 DEF Spaced, LatestBooked
    <3>2. latest > -Window
      BY <1>3, <2>2, Delays
    <3> QED
      BY <1>2, <3>1, <3>2 DEF Kept
  <2> QED
    BY <1>3, <2>1, <2>2, Delays
<1>5. ASSUME Cardinality(Kept) >= MaxRequests, NEW m \in Kept, slot = m + Window,
             \A s \in Kept : m <= s
      PROVE  slot <= latest + MinDelay
  <2>1. PICK n : n = Cardinality(Above(m))
    OBVIOUS
  <2>2. m \in slots /\ m \in Int /\ n \in Nat /\ IsFiniteSet(Above(m))
    BY <1>3, <2>1, SpacedCounts DEF Kept
  <2>3. n + 1 >= MaxRequests
    <3>1. Kept \in SUBSET slots /\ IsFiniteSet(slots)
      BY DEF Kept, IInv, Bookings
    <3>2. IsFiniteSet(Kept)
      BY <3>1, FS_Subset
    <3>3. Cardinality(Kept \ {m}) = Cardinality(Kept) - 1 /\ Cardinality(Kept) \in Nat
          /\ IsFiniteSet(Kept \ {m})
      BY <3>2, FS_RemoveElement, FS_CardinalityType
    <3>4. Kept \ {m} \in SUBSET Above(m)
      BY <1>3, <1>5, <3>1 DEF Above
    <3>5. Cardinality(Kept \ {m}) <= n
      BY <2>1, <2>2, <3>4, FS_Subset
    <3> QED
      BY <1>5, <2>2, <3>3, <3>5, Delays
  <2>4. latest - m >= Span(n)
    BY <2>1, <2>2 DEF Spaced, Spread
  <2>5. Span(MaxRequests) <= Span(n) + MinDelay /\ Span(n) \in Nat /\ Span(MaxRequests) \in Nat
    <3>1. n + 1 \in Nat /\ MaxRequests \in Nat
      BY <2>2, Delays
    <3>2. Span(MaxRequests) <= Span(n + 1)
      BY <2>3, <3>1, Spans
    <3>3. Span(n + 1) = Span(n) + MinDelay /\ Span(n) \in Nat /\ Span(MaxRequests) \in Nat
      BY <2>2, <3>1, Spans
    <3> QED
      BY <3>2, <3>3
  <2>6. Window <= Span(MaxRequests)
    BY DEF BookingsPass, Span
  <2> QED
    BY <1>3, <1>5, <2>2, <2>4, <2>5, <2>6, Delays
<1> QED
  BY <1>1, <1>2, <1>4, <1>5

LEMMA ClaimSpaced ==
  ASSUME BookingsPass, IInv, Spaced, NEW w \in Workers, Claim(w)
  PROVE  Spaced'
<1>1. PICK slot : slot = Booked(Kept)
  OBVIOUS
<1>2. /\ slot \in Nat /\ slots' = Kept \cup {slot} /\ ttl' = Lifetime
      /\ latest' = (IF latest >= slot THEN latest ELSE slot)
      /\ task[w].pc = "claim" /\ task[w].at = 0 /\ task'[w].at = slot
      /\ \A x \in Workers : x # w => task'[x] = task[x]
      /\ bad' = bad
  BY <1>1, ClaimFacts
<1>3. slot >= latest + MinDelay /\ (slot = 0 \/ slot <= latest + MinDelay)
  BY <1>1, NextSlot
<1>4. /\ latest \in Int /\ MinDelay \in Nat /\ MinDelay > 0
      /\ Kept \in SUBSET Int /\ Kept \in SUBSET slots /\ \A s \in Kept : s <= latest
  BY SpacedCounts, Delays DEF Kept
<1>5. latest' = slot /\ slot > latest
  BY <1>2, <1>3, <1>4
<1>6. PICK k \in Nat : k = bad.faults - bad.overlaps
  BY SpacedCounts
<1>7. LatestBooked'
  <2>1. PICK n \in Nat : n = Cardinality(Ahead(0))
    BY SpacedCounts
  <2>2. n + k <= MaxFaults /\ MaxFaults \in Nat
    <3>1. Ahead(0) \cup {w} \in SUBSET Workers /\ w \notin Ahead(0) /\ IsFiniteSet(Ahead(0))
      <4>1. Ahead(0) \in SUBSET Workers /\ IsFiniteSet(Ahead(0))
        BY SpacedCounts
      <4>2. w \notin Ahead(0)
        BY <1>2 DEF Ahead
      <4> QED
        BY <4>1, <4>2
    <3>2. \A x \in Ahead(0) \cup {w} : Running(x)
      BY <1>2, TaskFacts DEF Ahead, Running
    <3>3. Cardinality(Ahead(0) \cup {w}) = n + 1
      BY <2>1, <3>1, FS_AddElement
    <3>4. Cardinality(Ahead(0) \cup {w}) <= bad.overlaps + 1
      BY <3>1, <3>2, RunnersFew
    <3>5. bad.overlaps \in Nat /\ bad.faults \in Nat /\ bad.faults <= MaxFaults /\ MaxFaults \in Nat
      BY HubspotSyncAssumption DEF IInv, Shape, Failures
    <3> QED
      BY <1>6, <2>1, <3>3, <3>4, <3>5
  <2>3. latest <= Span(n + k)
    <3>1. latest - 0 <= Span(n + k)
      BY <1>6, <2>1 DEF Spaced, BookedAhead
    <3> QED
      BY <1>4, <3>1
  <2>4. /\ Span(MaxFaults + 2) = Span(MaxFaults) + MinDelay + MinDelay
        /\ Span(n + k) <= Span(MaxFaults) /\ Span(MaxFaults) \in Nat /\ Span(n + k) \in Nat
    <3>1. MaxFaults + 1 \in Nat /\ n + k \in Nat /\ MaxFaults + 2 = (MaxFaults + 1) + 1
      BY <2>2
    <3>2. /\ Span((MaxFaults + 1) + 1) = Span(MaxFaults + 1) + MinDelay
          /\ Span(MaxFaults + 1) = Span(MaxFaults) + MinDelay
          /\ Span(n + k) \in Nat /\ Span(MaxFaults) \in Nat
      BY <2>2, <3>1, Spans
    <3>3. Span(n + k) <= Span(MaxFaults)
      BY <2>2, <3>1, Spans
    <3> QED
      BY <3>1, <3>2, <3>3
  <2>5. Span(MaxFaults + 2) <= Lifetime
    BY DEF BookingsPass, Span
  <2>6. slot + MinDelay <= Lifetime
    BY <1>2, <1>3, <1>4, <2>3, <2>4, <2>5, Delays
  <2> QED
    BY <1>2, <1>5, <2>6 DEF LatestBooked
<1>8. Spread'
  <2>1. SUFFICES ASSUME NEW s \in slots'
                 PROVE  slot - s >= Span(Cardinality({t \in slots' : t > s}))
    BY <1>5 DEF Spread, Above, Span
  <2>2. CASE s = slot
    <3>1. ASSUME NEW t \in slots' PROVE ~(t > s)
      <4>1. t = slot \/ (t \in Int /\ t <= latest)
        BY <1>2, <1>4
      <4> QED
        BY <1>2, <1>4, <1>5, <2>2, <4>1
    <3>2. Cardinality({t \in slots' : t > s}) = 0
      <4>1. {t \in slots' : t > s} = {}
        BY <3>1
      <4> QED
        BY <4>1, FS_EmptySet
    <3> QED
      BY <1>2, <2>2, <3>2, Spans
  <2>3. CASE s \in Kept
    <3>1. PICK n \in Nat : n = Cardinality(Above(s))
      BY SpacedCounts
    <3>2. IsFiniteSet(Above(s)) /\ s \in slots /\ s \in Int
      BY <1>4, <2>3, SpacedCounts
    <3>3. /\ Cardinality(Above(s) \cup {slot}) <= n + 1 /\ IsFiniteSet(Above(s) \cup {slot})
      BY <3>1, <3>2, FS_AddElement
    <3>4. {t \in slots' : t > s} \in SUBSET (Above(s) \cup {slot})
      BY <1>2, <1>4 DEF Above
    <3>5. PICK m : m = Cardinality({t \in slots' : t > s})
      OBVIOUS
    <3>6. m \in Nat /\ m <= n + 1
      <4>1. IsFiniteSet({t \in slots' : t > s})
            /\ Cardinality({t \in slots' : t > s}) <= Cardinality(Above(s) \cup {slot})
        BY <3>3, <3>4, FS_Subset
      <4>2. m \in Nat /\ Cardinality(Above(s) \cup {slot}) \in Nat
        BY <3>3, <3>5, <4>1, FS_CardinalityType
      <4> QED
        BY <3>1, <3>3, <3>5, <4>1, <4>2
    <3>7. latest - s >= Span(n)
      BY <3>1, <3>2 DEF Spaced, Spread
    <3>8. Span(m) <= Span(n + 1) /\ Span(n + 1) = Span(n) + MinDelay
          /\ Span(n) \in Nat /\ Span(m) \in Nat
      <4>1. n + 1 \in Nat
        OBVIOUS
      <4> QED
        BY <3>6, <4>1, Spans
    <3> QED
      BY <1>2, <1>3, <1>4, <3>2, <3>5, <3>7, <3>8
  <2> QED
    BY <1>2, <2>1, <2>2, <2>3
<1>9. BookedAhead'
  <2>1. SUFFICES ASSUME NEW t \in Nat
                 PROVE  slot - t <= Span(Cardinality({x \in Workers : task'[x].at > t}) + k)
    BY <1>2, <1>5, <1>6 DEF BookedAhead, Ahead, Span
  <2>2. PICK n \in Nat : n = Cardinality(Ahead(t))
    BY SpacedCounts
  <2>3. PICK m : m = Cardinality({x \in Workers : task'[x].at > t})
    OBVIOUS
  <2>4. m \in Nat
    BY <2>3, WorkerSets
  <2>5. CASE slot <= t
    <3>1. m + k \in Nat
      BY <2>4
    <3>2. Span(m + k) \in Nat
      BY <3>1, Spans
    <3> QED
      BY <1>2, <2>3, <2>5, <3>2
  <2>6. CASE slot > t
    <3>1. {x \in Workers : task'[x].at > t} = Ahead(t) \cup {w} /\ w \notin Ahead(t)
      BY <1>2, <2>6 DEF Ahead
    <3>2. m = n + 1
      BY <2>2, <2>3, <3>1, SpacedCounts, FS_AddElement
    <3>3. Span(m + k) = Span(n + k) + MinDelay /\ Span(n + k) \in Nat
      <4>1. n + k \in Nat /\ m + k = (n + k) + 1
        BY <3>2
      <4> QED
        BY <4>1, Spans
    <3>4. latest - t <= Span(n + k)
      BY <1>6, <2>2 DEF Spaced, BookedAhead
    <3> QED
      BY <1>2, <1>3, <1>4, <2>3, <2>6, <3>3, <3>4
  <2> QED
    BY <1>2, <2>5, <2>6
<1> QED
  BY <1>7, <1>8, <1>9 DEF Spaced

LEMMA TickSpaced ==
  ASSUME IInv, Spaced, Tick
  PROVE  Spaced'
<1>1. /\ ttl' = (IF ttl = 0 THEN 0 ELSE ttl - 1) /\ ttl \in Nat
      /\ slots' = (IF ttl <= 1 THEN {} ELSE Down(Kept))
      /\ latest' = (IF latest = -MinDelay THEN latest ELSE latest - 1)
      /\ bad' = bad
  BY TickFacts DEF IInv, Bookings
<1>2. /\ latest \in Int /\ latest >= -MinDelay /\ MinDelay \in Nat /\ MinDelay > 0
      /\ Window \in Nat /\ MinDelay <= Window
      /\ Kept \in SUBSET Int /\ Kept \in SUBSET slots
  BY SpacedCounts, Delays DEF Kept
<1>3. LatestBooked'
  <2>1. SUFFICES ASSUME latest' > -MinDelay
                 PROVE  latest' \in slots' /\ latest' + MinDelay <= ttl'
    BY DEF LatestBooked
  <2>2. latest' = latest - 1 /\ latest - 1 > -MinDelay
    BY <1>1, <1>2, <2>1
  <2>3. latest \in slots /\ latest + MinDelay <= ttl
    BY <1>2, <2>2 DEF Spaced, LatestBooked
  <2>4. ttl > 1 /\ latest > -Window
    BY <1>1, <1>2, <2>2, <2>3
  <2>5. latest - 1 \in Down(Kept)
    BY <2>3, <2>4 DEF Kept, Down
  <2> QED
    BY <1>1, <1>2, <2>2, <2>3, <2>4, <2>5
<1>4. Spread'
  <2>1. SUFFICES ASSUME NEW s \in slots'
                 PROVE  latest' - s >= Span(Cardinality({t \in slots' : t > s}))
    BY DEF Spread, Above, Span
  <2>2. slots' = Down(Kept)
    BY <1>1, <2>1
  <2>3. PICK r \in Kept : s = r - 1
    BY <2>1, <2>2 DEF Down
  <2>4. PICK n \in Nat : n = Cardinality(Above(r))
    BY SpacedCounts
  <2>5. Above(r) \in SUBSET Int /\ IsFiniteSet(Above(r)) /\ r \in slots /\ r \in Int
    BY <1>2, SpacedCounts
  <2>6. {t \in slots' : t > s} \in SUBSET Down(Above(r))
    <3>1. ASSUME NEW t \in slots', t > s PROVE t \in Down(Above(r))
      <4>1. PICK q \in Kept : t = q - 1
        BY <2>2, <3>1 DEF Down
      <4>2. q \in slots /\ q \in Int
        BY <1>2, <4>1
      <4>3. q \in Above(r)
        BY <2>3, <2>5, <3>1, <4>1, <4>2 DEF Above
      <4> QED
        BY <4>1, <4>3 DEF Down
    <3> QED
      BY <3>1
  <2>7. PICK m : m = Cardinality({t \in slots' : t > s})
    OBVIOUS
  <2>8. m \in Nat /\ m <= n
    <3>1. IsFiniteSet(Down(Above(r))) /\ Cardinality(Down(Above(r))) <= n
      BY <2>4, <2>5, DownFinite
    <3>2. IsFiniteSet({t \in slots' : t > s}) /\ m <= Cardinality(Down(Above(r)))
      BY <2>6, <2>7, <3>1, FS_Subset
    <3>3. m \in Nat /\ Cardinality(Down(Above(r))) \in Nat
      BY <2>7, <3>1, <3>2, FS_CardinalityType
    <3> QED
      BY <2>4, <3>1, <3>2, <3>3
  <2>9. latest - r >= Span(n)
    BY <2>4, <2>5 DEF Spaced, Spread
  <2>10. Span(m) <= Span(n) /\ Span(m) \in Nat /\ Span(n) \in Nat
    BY <2>8, Spans
  <2>11. latest' \in Int /\ latest' >= latest - 1
    BY <1>1, <1>2
  <2> QED
    BY <1>2, <2>3, <2>5, <2>7, <2>9, <2>10, <2>11
<1>5. BookedAhead'
  <2>1. PICK k \in Nat : k = bad.faults - bad.overlaps
    BY SpacedCounts
  <2>2. SUFFICES ASSUME NEW t \in Nat
                 PROVE  latest' - t <= Span(Cardinality({x \in Workers : task'[x].at > t}) + k)
    BY <1>1, <2>1 DEF BookedAhead, Ahead, Span
  <2>3. PICK n \in Nat : n = Cardinality(Ahead(t + 1))
    BY SpacedCounts
  <2>4. {x \in Workers : task'[x].at > t} = Ahead(t + 1)
    <3>1. ASSUME NEW x \in Workers PROVE task'[x].at > t <=> task[x].at > t + 1
      <4>1. task'[x].at = (IF task[x].at = 0 THEN 0 ELSE task[x].at - 1) /\ task[x].at \in Nat
        BY TickFacts, TaskFacts
      <4> QED
        BY <4>1
    <3> QED
      BY <3>1 DEF Ahead
  <2>5. latest - (t + 1) <= Span(n + k)
    <3>1. t + 1 \in Nat
      OBVIOUS
    <3> QED
      BY <2>1, <2>3, <3>1 DEF Spaced, BookedAhead
  <2>6. Span(n + k) \in Nat
    <3>1. n + k \in Nat
      OBVIOUS
    <3> QED
      BY <3>1, Spans
  <2>7. latest' - t <= Span(n + k)
    BY <1>1, <1>2, <2>5, <2>6
  <2> QED
    BY <2>3, <2>4, <2>7
<1> QED
  BY <1>3, <1>4, <1>5 DEF Spaced

\* Nobody begins to sleep or wakes; or one worker dies and leaves its booking.
AllQuiet ==
    /\ \A w \in Workers : task'[w].at = task[w].at
    /\ bad'.faults - bad'.overlaps >= bad.faults - bad.overlaps
OneDies ==
    /\ \E w \in Workers : \A x \in Workers : x # w => task'[x].at = task[x].at
    /\ bad'.faults - bad'.overlaps >= bad.faults - bad.overlaps + 1
NoneBooks == \A w \in Workers : task[w].pc = "claim" => task'[w].pc # "wait"

LEMMA QuietSpaced ==
  ASSUME IInv, Spaced, UNCHANGED limiter, bad'.faults - bad'.overlaps \in Nat,
         AllQuiet \/ OneDies
  PROVE  Spaced'
<1>1. UNCHANGED <<slots, ttl, latest>>
  BY DEF limiter, sales
<1>2. LatestBooked' /\ Spread'
  BY <1>1 DEF Spaced, LatestBooked, Spread, Above, Span
<1>3. PICK k \in Nat, j \in Nat : k = bad.faults - bad.overlaps /\ j = bad'.faults - bad'.overlaps
  BY SpacedCounts
<1>4. BookedAhead'
  <2>1. SUFFICES ASSUME NEW t \in Nat
                 PROVE  latest - t <= Span(Cardinality({x \in Workers : task'[x].at > t}) + j)
    BY <1>1, <1>3 DEF BookedAhead, Ahead, Span
  <2>2. PICK n \in Nat : n = Cardinality(Ahead(t))
    BY SpacedCounts
  <2>3. PICK S \in SUBSET Workers : S = {x \in Workers : task'[x].at > t}
    OBVIOUS
  <2>4. PICK m \in Nat : m = Cardinality(S)
    BY WorkerSets
  <2>5. n + k <= m + j
    <3>1. CASE AllQuiet
      <4>1. S = Ahead(t) /\ k <= j
        BY <1>3, <2>3, <3>1 DEF AllQuiet, Ahead
      <4> QED
        BY <2>2, <2>4, <4>1
    <3>2. CASE OneDies
      <4>1. PICK w \in Workers : \A x \in Workers : x # w => task'[x].at = task[x].at
        BY <3>2 DEF OneDies
      <4>2. Ahead(t) \in SUBSET (S \cup {w})
        BY <2>3, <4>1 DEF Ahead
      <4>3. n <= m + 1
        BY <2>2, <2>4, <4>2, WithOne
      <4>4. k + 1 <= j
        BY <1>3, <3>2 DEF OneDies
      <4> QED
        BY <4>3, <4>4
    <3> QED
      BY <3>1, <3>2
  <2>6. latest - t <= Span(n + k) /\ latest \in Int
    BY <1>3, <2>2, SpacedCounts DEF Spaced, BookedAhead
  <2>7. Span(n + k) <= Span(m + j) /\ Span(n + k) \in Nat /\ Span(m + j) \in Nat
    <3>1. n + k \in Nat /\ m + j \in Nat
      OBVIOUS
    <3> QED
      BY <2>5, <3>1, Spans
  <2>8. latest - t <= Span(m + j)
    BY <2>6, <2>7
  <2> QED
    BY <2>3, <2>4, <2>8
<1> QED
  BY <1>2, <1>4 DEF Spaced

\* A task goes on to its next request: it neither sleeps nor wakes.
LEMMA NextRequest ==
  ASSUME IInv, NEW w \in Workers, NEW pc \in {"claim", "map"}, NEW st, NEW d, NEW i,
         Becomes(w, On(w, pc, st, d, i)), bad' \in {bad, [bad EXCEPT !.errors = @ + 1]}
  PROVE  AllQuiet /\ NoneBooks
<1>1. task'[w].at = task[w].at /\ task'[w].pc = pc
  BY TaskFacts DEF Becomes, On, TaskState
<1>2. \A x \in Workers : x # w => task'[x] = task[x]
  BY TaskFacts DEF Becomes
<1>3. bad'.faults = bad.faults /\ bad'.overlaps = bad.overlaps
      /\ bad.faults \in Nat /\ bad.overlaps \in Nat
  BY ErrorFacts, TaskFacts
<1> QED
  BY <1>1, <1>2, <1>3 DEF AllQuiet, NoneBooks

LEMMA SearchQuiet ==
  ASSUME IInv, NEW w \in Workers,
         SearchFinds(w) \/ SearchFindsNone(w) \/ SearchFails(w)
         \/ UpdateDeal(w) \/ CreateDeal(w) \/ EnsureContact(w)
  PROVE  AllQuiet /\ NoneBooks /\ UNCHANGED limiter
<1>1. UNCHANGED limiter /\ bad' \in {bad, [bad EXCEPT !.errors = @ + 1]}
  BY DEF SearchFinds, SearchFindsNone, SearchFails, UpdateDeal, CreateDeal, EnsureContact, limiter, sales
<1>2. PICK st \in Stages, d \in Nat : GoOn(w, st, d)
  <2>1. /\ "byid" \in Stages /\ "write" \in Stages /\ "contact" \in Stages /\ "line" \in Stages
        /\ 0 \in Nat /\ task[w].deal \in Nat /\ Len(deals) + 1 \in Nat
        /\ \A d \in DOMAIN deals : d \in Nat
    BY TaskFacts DEF Stages
  <2>2. CASE SearchFinds(w)
    BY <2>1, <2>2 DEF SearchFinds
  <2>3. CASE SearchFindsNone(w) \/ SearchFails(w)
    BY <2>1, <2>3 DEF SearchFindsNone, SearchFails, NextStage, AfterName
  <2>4. CASE UpdateDeal(w) \/ CreateDeal(w) \/ EnsureContact(w)
    BY <2>1, <2>4 DEF UpdateDeal, CreateDeal, EnsureContact
  <2> QED
    BY <2>2, <2>3, <2>4
<1>3. Becomes(w, On(w, "claim", st, d, task[w].item))
  BY <1>2, GoOnStep
<1> QED
  BY <1>1, <1>3, NextRequest

LEMMA LineQuiet ==
  ASSUME IInv, NEW w \in Workers,
         FindLineItem(w) \/ CreateLineItem(w) \/ LinkLineItem(w) \/ LineRequestFails(w)
  PROVE  AllQuiet /\ NoneBooks /\ UNCHANGED limiter
<1>1. UNCHANGED limiter /\ bad' \in {bad, [bad EXCEPT !.errors = @ + 1]}
  BY DEF FindLineItem, CreateLineItem, LinkLineItem, LineRequestFails, limiter, sales
<1>2. ASSUME NEW st \in Stages, NEW i \in Nat, GoOnWith(w, st, i)
      PROVE  AllQuiet /\ NoneBooks
  <2>1. Becomes(w, On(w, "claim", st, task[w].deal, i))
    BY <1>2, GoOnWithStep
  <2> QED
    BY <1>1, <2>1, NextRequest
<1>3. ASSUME task' = [task EXCEPT ![w].pc = "map"]
      PROVE  AllQuiet /\ NoneBooks
  <2>1. Becomes(w, On(w, "map", task[w].stage, task[w].deal, task[w].item))
    BY <1>3, TaskFacts DEF Becomes, On, TaskState
  <2> QED
    BY <1>1, <2>1, NextRequest
<1>4. \/ task' = [task EXCEPT ![w].pc = "map"]
      \/ \E st \in Stages, i \in Nat : GoOnWith(w, st, i)
  <2>1. /\ "item" \in Stages /\ "link" \in Stages /\ items \in Nat
        /\ \A i \in 1 .. items : i \in Nat
    BY TaskFacts DEF Stages
  <2> QED
    BY <2>1 DEF FindLineItem, CreateLineItem, LinkLineItem, LineRequestFails
<1> QED
  BY <1>1, <1>2, <1>3, <1>4

\* A task that ends was awake, unless its worker died.
LEMMA EndsQuiet ==
  ASSUME IInv, NEW w \in Workers,
         SaveMapping(w) \/ TooManyRequests(w) \/ NoContact(w) \/ WriteFails(w) \/ Crash(w)
  PROVE  (AllQuiet \/ OneDies) /\ NoneBooks /\ UNCHANGED limiter
<1>1. task' = [task EXCEPT ![w] = Idle] /\ UNCHANGED limiter
  BY DEF SaveMapping, TooManyRequests, NoContact, WriteFails, Crash, Stop, limiter, sales
<1>2. /\ task'[w].at = 0 /\ task'[w].pc = "idle"
      /\ \A x \in Workers : x # w => task'[x] = task[x]
  BY <1>1, TaskFacts DEF Idle
<1>3. NoneBooks
  BY <1>2 DEF NoneBooks
<1>4. bad.faults \in Nat /\ bad.overlaps \in Nat
  BY TaskFacts
<1>5. CASE ~Crash(w)
  <2>1. task[w].at = 0
    BY <1>5, TaskFacts DEF SaveMapping, TooManyRequests, NoContact, WriteFails, Woken
  <2>2. bad'.overlaps = bad.overlaps /\ bad'.faults >= bad.faults /\ bad'.faults \in Nat
    BY <1>5, EndsFailures
  <2> QED
    BY <1>1, <1>2, <1>3, <1>4, <2>1, <2>2 DEF AllQuiet
<1>6. CASE Crash(w)
  <2>1. PICK lost \in BOOLEAN : bad' = [bad EXCEPT !.faults = @ + 1, !.lost = @ \/ lost]
    BY <1>6 DEF Crash
  <2>2. bad'.faults = bad.faults + 1 /\ bad'.overlaps = bad.overlaps
    BY <2>1, TaskFacts DEF Failures
  <2> QED
    BY <1>1, <1>2, <1>3, <1>4, <2>2 DEF OneDies
<1> QED
  BY <1>5, <1>6

LEMMA OutsideQuiet ==
  ASSUME IInv,
         \/ ChangeOrder \/ SyncHubspotDeal \/ LockExpires \/ UNCHANGED vars
         \/ \E w \in Workers, k \in 0 .. MaxRetries : Begin(w, k) \/ Blocked(w, k)
  PROVE  AllQuiet /\ NoneBooks /\ UNCHANGED limiter
<1>1. UNCHANGED limiter
  BY DEF ChangeOrder, SyncHubspotDeal, LockExpires, Begin, Blocked, vars, limiter, sales
<1>2. bad \in Failures /\ bad.faults \in Nat /\ bad.overlaps \in Nat
  BY DEF IInv, Shape, Failures
<1>3. ASSUME task' = task, bad'.faults - bad'.overlaps = bad.faults - bad.overlaps
      PROVE  AllQuiet /\ NoneBooks
  BY <1>2, <1>3 DEF AllQuiet, NoneBooks
<1>4. CASE ChangeOrder \/ SyncHubspotDeal \/ UNCHANGED vars
  BY <1>1, <1>3, <1>4 DEF ChangeOrder, SyncHubspotDeal, vars
<1>5. CASE LockExpires
  <2>1. task' = task /\ bad' \in {bad, [bad EXCEPT !.faults = @ + 1, !.overlaps = @ + 1]}
    BY <1>5 DEF LockExpires
  <2>2. CASE bad' = [bad EXCEPT !.faults = @ + 1, !.overlaps = @ + 1]
    <3>1. bad'.faults = bad.faults + 1 /\ bad'.overlaps = bad.overlaps + 1
      BY <1>2, <2>2 DEF Failures
    <3> QED
      BY <1>1, <1>2, <1>3, <2>1, <3>1
  <2> QED
    BY <1>1, <1>3, <2>1, <2>2
<1>6. ASSUME NEW w \in Workers, NEW k \in 0 .. MaxRetries, Blocked(w, k)
      PROVE  AllQuiet /\ NoneBooks
  <2>1. task' = task /\ bad' = [bad EXCEPT !.lost = @ \/ GivenUp(k)]
    BY <1>6 DEF Blocked
  <2>2. bad' = [errors |-> bad.errors, faults |-> bad.faults, overlaps |-> bad.overlaps,
                lost |-> bad.lost \/ GivenUp(k)]
    BY <1>2, <2>1, Zenon DEF Failures
  <2>3. bad'.faults = bad.faults /\ bad'.overlaps = bad.overlaps
    BY <2>2
  <2> QED
    BY <1>3, <2>1, <2>3
<1>7. ASSUME NEW w \in Workers, NEW k \in 0 .. MaxRetries, Begin(w, k)
      PROVE  AllQuiet /\ NoneBooks
  <2>1. PICK s : s = [Idle EXCEPT !.pc = "claim", !.body = order, !.tries = k]
    OBVIOUS
  <2>2. task' = [task EXCEPT ![w] = s] /\ bad' = bad /\ task[w].pc = "idle"
    BY <1>7, <2>1 DEF Begin, Running
  <2>3. s.at = 0 /\ s.pc = "claim"
    BY <2>1 DEF Idle
  <2>4. task'[w] = s /\ task[w].at = 0 /\ \A x \in Workers : x # w => task'[x] = task[x]
    BY <2>2, TaskFacts
  <2> QED
    BY <1>2, <2>2, <2>3, <2>4 DEF AllQuiet, NoneBooks
<1> QED
  BY <1>1, <1>4, <1>5, <1>6, <1>7

\* Every step but a claim and a tick leaves the bookings alone.
LEMMA OtherQuiet ==
  ASSUME IInv, [Next]_vars, ~Tick, \A w \in Workers : ~Claim(w)
  PROVE  (AllQuiet \/ OneDies) /\ NoneBooks /\ UNCHANGED limiter
<1>1. ASSUME NEW w \in Workers, Step(w) \/ Start(w)
      PROVE  (AllQuiet \/ OneDies) /\ NoneBooks /\ UNCHANGED limiter
  <2>1. CASE Step(w)
    BY <2>1, SearchQuiet, LineQuiet, EndsQuiet DEF Step
  <2>2. CASE Start(w)
    BY <2>2, OutsideQuiet DEF Start
  <2> QED
    BY <1>1, <2>1, <2>2
<1>2. ASSUME NEW w \in Workers,
             \/ SearchFails(w) \/ LineRequestFails(w)
             \/ TooManyRequests(w) \/ NoContact(w) \/ WriteFails(w) \/ Crash(w)
      PROVE  (AllQuiet \/ OneDies) /\ NoneBooks /\ UNCHANGED limiter
  BY <1>2, SearchQuiet, LineQuiet, EndsQuiet
<1>3. CASE ChangeOrder \/ SyncHubspotDeal \/ LockExpires \/ UNCHANGED vars
  BY <1>3, OutsideQuiet
<1> QED
  BY <1>1, <1>2, <1>3 DEF Next

LEMMA InitSpaced == Init => Spaced
<1>1. SUFFICES ASSUME Init PROVE Spaced
  OBVIOUS
<1>2. slots = {} /\ latest = -MinDelay /\ MinDelay \in Nat
  BY <1>1, Delays DEF Init
<1>3. IInv
  BY <1>1, InitInv
<1>4. ASSUME NEW t \in Nat
      PROVE  latest - t <= Span(Cardinality(Ahead(t)) + (bad.faults - bad.overlaps))
  <2>1. PICK m \in Nat : m = Cardinality(Ahead(t)) + (bad.faults - bad.overlaps)
    BY <1>3, SpacedCounts
  <2>2. Span(m) \in Nat
    BY Spans
  <2> QED
    BY <1>2, <2>1, <2>2
<1> QED
  BY <1>2, <1>4 DEF Spaced, LatestBooked, Spread, BookedAhead

LEMMA NextSpaced ==
  ASSUME BookingsPass, IInv, Spaced, [Next]_vars
  PROVE  Spaced'
<1>1. CASE Tick
  BY <1>1, TickSpaced
<1>2. CASE \E w \in Workers : Claim(w)
  BY <1>2, ClaimSpaced
<1>3. CASE ~Tick /\ \A w \in Workers : ~Claim(w)
  <2>1. (AllQuiet \/ OneDies) /\ UNCHANGED limiter
    BY <1>3, OtherQuiet
  <2>2. bad'.faults - bad'.overlaps \in Nat
    BY NextInv DEF IInv, Shape, Failures
  <2> QED
    BY <2>1, <2>2, QuietSpaced
<1> QED
  BY <1>1, <1>2, <1>3

\* A step in which a worker books a slot books it MinDelay after the last one.
LEMMA StepSpaced ==
  ASSUME BookingsPass, IInv, Spaced, [Next]_vars, NEW w \in Workers,
         task[w].pc = "claim", task'[w].pc = "wait"
  PROVE  task'[w].at >= latest + MinDelay
<1>1. ~Tick
  BY TickFacts
<1>2. \A x \in Workers : Claim(x) => x = w
  <2>1. ASSUME NEW x \in Workers, Claim(x), x # w PROVE FALSE
    <3>1. PICK slot : slot = Booked(Kept)
      OBVIOUS
    <3>2. task'[w] = task[w]
      BY <2>1, <3>1, ClaimFacts
    <3> QED
      BY <3>2
  <2> QED
    BY <2>1
<1>3. CASE Claim(w)
  <2>1. PICK slot : slot = Booked(Kept)
    OBVIOUS
  <2>2. task'[w].at = slot
    BY <1>3, <2>1, ClaimFacts
  <2> QED
    BY <2>1, <2>2, NextSlot
<1>4. CASE ~Claim(w)
  BY <1>1, <1>2, <1>4, OtherQuiet DEF NoneBooks
<1> QED
  BY <1>3, <1>4

\* Whatever workers ask the limiter for slots at the same time, and although
\* the script cleans up old bookings and the key expires, every booking comes
\* at least MinDelay after all earlier ones, as long as the bookings that can
\* be ahead pass before the key expires.
THEOREM BookingsSpaced == BookingsPass => (Spec => SlotsSpaced)
<1>1. SUFFICES ASSUME BookingsPass PROVE Spec => SlotsSpaced
  OBVIOUS
<1>2. Init => Spaced
  BY InitSpaced
<1>3. BookingsPass /\ IInv /\ Spaced /\ [Next]_vars => Spaced'
  BY NextSpaced
<1>4. BookingsPass /\ IInv /\ Spaced /\ [Next]_vars =>
        [\A w \in Workers :
            task[w].pc = "claim" /\ task'[w].pc = "wait" => task'[w].at >= latest + MinDelay]_vars
  BY StepSpaced
<1> QED
  BY <1>1, <1>2, <1>3, <1>4, InvariantHolds, PTL DEF Spec, SlotsSpaced
=============================================================================
