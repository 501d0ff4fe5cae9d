---------------------- MODULE PriorityScheduler_proofs ----------------------
(***************************************************************************)
(* Proofs about the scheduler, for any number of priorities, items,        *)
(* processor tasks and stop() calls, and any capacity of the queues.       *)
(***************************************************************************)
EXTENDS PriorityScheduler, SequenceTheorems, WellFoundedInduction, TLAPS

USE SchedulerConstants DEF SchedulerConstants

(* A nonempty set of natural numbers has a least element. *)
LEMMA LeastNatural ==
    ASSUME NEW S, S \subseteq Nat, S # {}
    PROVE  \E m \in S : \A n \in S : m <= n
<1>1. PICK m \in S : \A n \in S : <<n, m>> \notin OpToRel(<, Nat)
  BY NatLessThanWellFounded, WFMin
<1>2. \A n \in S : ~(n < m)
  BY <1>1 DEF OpToRel
<1>3. QED
  BY <1>2

(* When some queue has an item, get_next() selects one that has, and no      *)
(* better one has an item.                                                   *)
LEMMA BestProperties ==
    ASSUME NonEmpty # {}
    PROVE  /\ Best \in NonEmpty
           /\ Best \in Priority
           /\ \A q \in NonEmpty : Best <= q
<1>1. NonEmpty \subseteq Nat /\ NonEmpty \subseteq Priority
  BY DEF NonEmpty, Priority
<1>2. \E p \in NonEmpty : \A q \in NonEmpty : p <= q
  BY <1>1, LeastNatural
<1>3. QED
  BY <1>1, <1>2 DEF Best

(* The loop head leaves the task somewhere in run(), with a valid selection. *)
LEMMA LoopHeadType ==
    ASSUME SchedTypeOK, NEW t \in Proc, NEW run \in BOOLEAN, LoopHead(t, run)
    PROVE  /\ pc' \in [Proc -> PC]
           /\ sel' \in [Proc -> Priority]
<1>1. CASE ~run
  BY <1>1 DEF LoopHead, SchedTypeOK, PC
<1>2. CASE run /\ NonEmpty # {}
  BY <1>2, BestProperties DEF LoopHead, SchedTypeOK, PC
<1>3. CASE run /\ NonEmpty = {}
  BY <1>3 DEF LoopHead, SchedTypeOK, PC
<1>4. QED
  BY <1>1, <1>2, <1>3

(* A task holds an item exactly while it delivers it. *)
HandInDelivery == \A t \in Proc : pc[t] = "deliver" <=> hand[t] # None

TypeInv == SchedTypeOK /\ HandInDelivery

LEMMA TypeInvInit == SchedInit => TypeInv
<1> SUFFICES ASSUME SchedInit PROVE TypeInv
  OBVIOUS
<1>1. 0 \in Priority
  BY DEF Priority
<1>2. <<>> \in Seq(Item) /\ Len(<<>>) = 0
  BY EmptySeq
<1>3. SchedTypeOK
  <2>1. queues \in [Priority -> Seq(Item)] /\ \A p \in Priority : Len(queues[p]) = 0
    BY <1>2 DEF SchedInit
  <2>2. pc \in [Proc -> PC] /\ sel \in [Proc -> Priority]
    BY <1>1 DEF SchedInit, PC
  <2>3. \A p \in Priority : Len(queues[p]) <= MaxQueueSize
    BY <2>1
  <2>4. QED
    BY <2>1, <2>2, <2>3 DEF SchedInit, SchedTypeOK
<1>4. HandInDelivery
  BY DEF SchedInit, HandInDelivery
<1>5. QED
  BY <1>3, <1>4 DEF TypeInv

LEMMA TypeInvNext == TypeInv /\ [SchedNext]_schedVars => TypeInv'
<1> SUFFICES ASSUME SchedTypeOK, HandInDelivery, [SchedNext]_schedVars
             PROVE  SchedTypeOK' /\ HandInDelivery'
  BY DEF TypeInv
<1>1. ASSUME NEW i \in Item, Enqueue(i) PROVE SchedTypeOK' /\ HandInDelivery'
  <2>1. /\ queues[PrioOf[i]] \in Seq(Item)
        /\ Append(queues[PrioOf[i]], i) \in Seq(Item)
        /\ Len(Append(queues[PrioOf[i]], i)) = Len(queues[PrioOf[i]]) + 1
        /\ Len(queues[PrioOf[i]]) \in Nat
    BY AppendProperties, LenProperties DEF SchedTypeOK
  <2>2. queues' \in [Priority -> Seq(Item)]
    BY <1>1, <2>1 DEF Enqueue, SchedTypeOK
  <2>3. \A p \in Priority : Len(queues'[p]) <= MaxQueueSize
    BY <1>1, <2>1 DEF Enqueue, HasRoom, SchedTypeOK
  <2>4. QED
    BY <1>1, <2>2, <2>3 DEF Enqueue, SchedTypeOK, HandInDelivery
<1>2. CASE StartProcessor
  BY <1>2 DEF StartProcessor, SchedTypeOK, HandInDelivery, PC
<1>3. ASSUME NEW t \in Proc, Begin(t) PROVE SchedTypeOK' /\ HandInDelivery'
  <2>1. pc' \in [Proc -> PC] /\ sel' \in [Proc -> Priority]
    BY <1>3, LoopHeadType DEF Begin
  <2>2. SchedTypeOK'
    BY <1>3, <2>1 DEF Begin, SchedTypeOK
  <2>3. QED
    BY <1>3, <2>2 DEF Begin, LoopHead, SchedTypeOK, HandInDelivery
<1>4. ASSUME NEW t \in Proc, Wake(t) PROVE SchedTypeOK' /\ HandInDelivery'
  <2>1. pc' \in [Proc -> PC] /\ sel' \in [Proc -> Priority]
    BY <1>4, LoopHeadType DEF Wake, SchedTypeOK
  <2>2. SchedTypeOK'
    BY <1>4, <2>1 DEF Wake, SchedTypeOK
  <2>3. QED
    BY <1>4, <2>2 DEF Wake, LoopHead, SchedTypeOK, HandInDelivery
<1>5. ASSUME NEW t \in Proc, Take(t) PROVE SchedTypeOK' /\ HandInDelivery'
  <2>1. /\ sel[t] \in Priority
        /\ Len(queues[sel[t]]) \in Nat
        /\ Head(queues[sel[t]]) \in Item
        /\ Tail(queues[sel[t]]) \in Seq(Item)
        /\ Len(Tail(queues[sel[t]])) = Len(queues[sel[t]]) - 1
    BY <1>5, HeadTailProperties, LenProperties DEF Take, SchedTypeOK
  <2>2. queues' \in [Priority -> Seq(Item)]
    BY <1>5, <2>1 DEF Take, SchedTypeOK
  <2>3. \A p \in Priority : Len(queues'[p]) <= MaxQueueSize
    BY <1>5, <2>1 DEF Take, SchedTypeOK
  <2>4. overtaken' \in [Item -> Nat]
    BY <1>5 DEF Take, SchedTypeOK
  <2>5. /\ hand' \in [Proc -> Item \cup {None}]
        /\ pc' \in [Proc -> PC]
        /\ cancel' \in [Proc -> BOOLEAN]
    BY <1>5, <2>1 DEF Take, SchedTypeOK, PC
  <2>6. SchedTypeOK'
    BY <1>5, <2>2, <2>3, <2>4, <2>5 DEF Take, SchedTypeOK
  <2>7. HandInDelivery'
    BY <1>5, <2>1 DEF Take, SchedTypeOK, HandInDelivery
  <2>8. QED
    BY <2>6, <2>7
<1>6. ASSUME NEW t \in Proc, Finish(t) PROVE SchedTypeOK' /\ HandInDelivery'
  <2>1. pc' \in [Proc -> PC] /\ sel' \in [Proc -> Priority]
    BY <1>6, LoopHeadType DEF Finish, SchedTypeOK
  <2>2. handled' \subseteq Item
    BY <1>6 DEF Finish, SchedTypeOK, HandInDelivery
  <2>3. SchedTypeOK'
    BY <1>6, <2>1, <2>2 DEF Finish, SchedTypeOK
  <2>4. QED
    BY <1>6, <2>3 DEF Finish, LoopHead, SchedTypeOK, HandInDelivery
<1>7. ASSUME NEW t \in Proc, Cancelled(t) PROVE SchedTypeOK' /\ HandInDelivery'
  BY <1>7 DEF Cancelled, SchedTypeOK, HandInDelivery, PC
<1>8. ASSUME NEW s \in Stopper, Stop(s) PROVE SchedTypeOK' /\ HandInDelivery'
  BY <1>8 DEF Stop, SchedTypeOK, HandInDelivery, Live
<1>9. ASSUME NEW s \in Stopper, StopReturns(s) PROVE SchedTypeOK' /\ HandInDelivery'
  BY <1>9 DEF StopReturns, SchedTypeOK, HandInDelivery
<1>10. CASE UNCHANGED schedVars
  BY <1>10 DEF schedVars, SchedTypeOK, HandInDelivery
<1>11. ASSUME NEW S \in SUBSET Item, Renew(S) PROVE SchedTypeOK' /\ HandInDelivery'
  BY <1>11 DEF Renew, SchedTypeOK, HandInDelivery
<1>12. QED
  BY <1>1, <1>2, <1>3, <1>4, <1>5, <1>6, <1>7, <1>8, <1>9, <1>10, <1>11
  DEF SchedNext, SchedStep, ProcessorStep

(* The scheduler's variables keep their types, and no queue grows beyond     *)
(* MaxQueueSize.                                                             *)
THEOREM SchedTypeCorrect == SchedSpec => []SchedTypeOK
<1>1. TypeInv => SchedTypeOK
  BY DEF TypeInv
<1>2. QED
  BY <1>1, TypeInvInit, TypeInvNext, PTL DEF SchedSpec

----------------------------------------------------------------------------

(* What the order of delivery rests on.  An item sits in the queue of its    *)
(* priority.  One that has been overtaken was accepted.  And while an item   *)
(* that has been overtaken waits, no task holds a selection worse than it:   *)
(* a selection made after the item came in is at least as good.              *)
QueuesByPriority ==
    \A p \in Priority : \A n \in 1..Len(queues[p]) : PrioOf[queues[p][n]] = p
OvertakenAccepted == \A i \in Item : overtaken[i] > 0 => i \in Accepted
StaleSelectionOnce ==
    \A i \in Queued, t \in Proc :
        overtaken[i] = 1 /\ pc[t] = "take" => sel[t] <= PrioOf[i]

OrderInv ==
    /\ OneLiveProcessor
    /\ SelectionStands
    /\ QueuesByPriority
    /\ OvertakenAccepted
    /\ OvertakenAtMostOnce
    /\ StaleSelectionOnce

LEMMA OrderInvInit == SchedInit => OrderInv
<1> SUFFICES ASSUME SchedInit PROVE OrderInv
  OBVIOUS
<1>1. \A p \in Priority : Len(queues[p]) = 0
  BY EmptySeq DEF SchedInit
<1>2. QueuesByPriority
  BY <1>1 DEF QueuesByPriority
<1>3. OneLiveProcessor /\ SelectionStands
  BY DEF SchedInit, OneLiveProcessor, SelectionStands, Live
<1>4. OvertakenAccepted /\ OvertakenAtMostOnce /\ StaleSelectionOnce
  BY DEF SchedInit, OvertakenAccepted, OvertakenAtMostOnce, StaleSelectionOnce
<1>5. QED
  BY <1>2, <1>3, <1>4 DEF OrderInv

LEMMA QueuedDef ==
    ASSUME NEW i
    PROVE  i \in Queued <=> \E p \in Priority : \E n \in 1..Len(queues[p]) : queues[p][n] = i
  BY DEF Queued, InQueue

LEMMA QueuedItems ==
    ASSUME SchedTypeOK
    PROVE  \A i \in Queued : i \in Item
<1> SUFFICES ASSUME NEW p \in Priority, NEW n \in 1..Len(queues[p])
             PROVE  queues[p][n] \in Item
  BY DEF Queued, InQueue
<1>1. queues[p] \in Seq(Item)
  BY DEF SchedTypeOK
<1>2. QED
  BY <1>1, ElementOfSeq

(* The queues after a put, and after a take, item by item. *)
LEMMA EnqueueQueued ==
    ASSUME SchedTypeOK, NEW i \in Item, Enqueue(i)
    PROVE  /\ \A p \in Priority \ {PrioOf[i]} : queues'[p] = queues[p]
           /\ Len(queues'[PrioOf[i]]) = Len(queues[PrioOf[i]]) + 1
           /\ Len(queues[PrioOf[i]]) \in Nat
           /\ \A n \in 1..Len(queues[PrioOf[i]]) :
                queues'[PrioOf[i]][n] = queues[PrioOf[i]][n]
           /\ queues'[PrioOf[i]][Len(queues[PrioOf[i]]) + 1] = i
           /\ Queued' = Queued \cup {i}
<1>1. /\ queues[PrioOf[i]] \in Seq(Item)
      /\ queues'[PrioOf[i]] = Append(queues[PrioOf[i]], i)
      /\ \A p \in Priority \ {PrioOf[i]} : queues'[p] = queues[p]
  BY DEF Enqueue, SchedTypeOK
<1>2. /\ Len(queues'[PrioOf[i]]) = Len(queues[PrioOf[i]]) + 1
      /\ Len(queues[PrioOf[i]]) \in Nat
      /\ \A n \in 1..Len(queues[PrioOf[i]]) :
           queues'[PrioOf[i]][n] = queues[PrioOf[i]][n]
      /\ queues'[PrioOf[i]][Len(queues[PrioOf[i]]) + 1] = i
  BY <1>1, AppendProperties, LenProperties
<1>3. InQueue(PrioOf[i])' = InQueue(PrioOf[i]) \cup {i}
  BY <1>2 DEF InQueue
<1>4. \A p \in Priority \ {PrioOf[i]} : InQueue(p)' = InQueue(p)
  BY <1>1 DEF InQueue
<1>5. Queued' = Queued \cup {i}
  BY <1>3, <1>4 DEF Queued
<1>6. QED
  BY <1>1, <1>2, <1>5

LEMMA TakeQueued ==
    ASSUME SchedTypeOK, NEW t \in Proc, Take(t)
    PROVE  /\ sel[t] \in Priority
           /\ \A p \in Priority \ {sel[t]} : queues'[p] = queues[p]
           /\ Len(queues[sel[t]]) \in Nat \ {0}
           /\ Len(queues'[sel[t]]) = Len(queues[sel[t]]) - 1
           /\ \A n \in 1..Len(queues'[sel[t]]) : queues'[sel[t]][n] = queues[sel[t]][n + 1]
           /\ hand'[t] = queues[sel[t]][1]
           /\ Queued' \subseteq Queued
           /\ Queued \subseteq Queued' \cup {hand'[t]}
<1>1. /\ sel[t] \in Priority
      /\ queues[sel[t]] \in Seq(Item)
      /\ queues[sel[t]] # <<>>
      /\ queues'[sel[t]] = Tail(queues[sel[t]])
      /\ \A p \in Priority \ {sel[t]} : queues'[p] = queues[p]
      /\ hand'[t] = Head(queues[sel[t]])
      /\ sel' = sel
  BY DEF Take, SchedTypeOK
<1>2. /\ Len(queues[sel[t]]) \in Nat \ {0}
      /\ Len(queues'[sel[t]]) = Len(queues[sel[t]]) - 1
      /\ \A n \in 1..Len(queues'[sel[t]]) : queues'[sel[t]][n] = queues[sel[t]][n + 1]
  BY <1>1, HeadTailProperties, EmptySeq
<1>3. hand'[t] = queues[sel[t]][1]
  BY <1>1
<1>4. InQueue(sel[t])' \subseteq InQueue(sel[t])
  <2> SUFFICES ASSUME NEW n \in 1..Len(queues'[sel[t]])
               PROVE  queues'[sel[t]][n] \in InQueue(sel[t])
    BY <1>1 DEF InQueue
  <2>1. n + 1 \in 1..Len(queues[sel[t]])
    BY <1>2
  <2>2. QED
    BY <1>2, <2>1 DEF InQueue
<1>5. InQueue(sel[t]) \subseteq InQueue(sel[t])' \cup {hand'[t]}
  <2> SUFFICES ASSUME NEW n \in 1..Len(queues[sel[t]]), n # 1
               PROVE  queues[sel[t]][n] \in InQueue(sel[t])'
    BY <1>3 DEF InQueue
  <2>1. n - 1 \in 1..Len(queues'[sel[t]]) /\ (n - 1) + 1 = n
    BY <1>2
  <2>2. queues'[sel[t]][n - 1] = queues[sel[t]][n]
    BY <1>2, <2>1
  <2>3. QED
    BY <1>1, <2>1, <2>2 DEF InQueue
<1>6. \A p \in Priority \ {sel[t]} : InQueue(p)' = InQueue(p)
  BY <1>1 DEF InQueue
<1>7. Queued' \subseteq Queued /\ Queued \subseteq Queued' \cup {hand'[t]}
  <2>1. \A p \in Priority : InQueue(p)' \subseteq InQueue(p)
    BY <1>1, <1>4, <1>6
  <2>2. \A p \in Priority : InQueue(p) \subseteq InQueue(p)' \cup {hand'[t]}
    BY <1>1, <1>5, <1>6
  <2>3. QED
    BY <2>1, <2>2 DEF Queued
<1>8. QED
  BY <1>1, <1>2, <1>3, <1>7

(* An accepted item stays accepted, until it is renewed. *)
LEMMA AcceptedGrows ==
    ASSUME SchedTypeOK, HandInDelivery, [SchedStep]_schedVars
    PROVE  Accepted \subseteq Accepted'
<1>1. ASSUME NEW i \in Item, Enqueue(i) PROVE Accepted \subseteq Accepted'
  <2>1. Queued \subseteq Queued'
    BY <1>1, EnqueueQueued
  <2>2. QED
    BY <1>1, <2>1 DEF Enqueue, Accepted, InHand
<1>2. ASSUME NEW t \in Proc, Take(t) PROVE Accepted \subseteq Accepted'
  <2>1. Queued \subseteq Queued' \cup {hand'[t]} /\ hand'[t] \in Item
    <3>1. queues[sel[t]] \in Seq(Item) /\ queues[sel[t]] # <<>>
      BY <1>2 DEF Take, SchedTypeOK
    <3>2. hand'[t] = Head(queues[sel[t]])
      BY <1>2 DEF Take, SchedTypeOK
    <3>3. QED
      BY <1>2, <3>1, <3>2, TakeQueued, HeadTailProperties
  <2>2. InHand' = InHand \cup {hand'[t]}
    BY <1>2, <2>1 DEF Take, InHand, SchedTypeOK, HandInDelivery
  <2>3. QED
    BY <1>2, <2>1, <2>2 DEF Take, Accepted
<1>3. ASSUME NEW t \in Proc, Finish(t) PROVE Accepted \subseteq Accepted'
  <2>1. Queued' = Queued
    BY <1>3 DEF Finish, Queued, InQueue
  <2>2. InHand \subseteq InHand' \cup {hand[t]}
    BY <1>3 DEF Finish, InHand, SchedTypeOK
  <2>3. QED
    BY <1>3, <2>1, <2>2 DEF Finish, Accepted
<1>4. ASSUME NEW t \in Proc, Cancelled(t) PROVE Accepted \subseteq Accepted'
  <2>1. Queued' = Queued
    BY <1>4 DEF Cancelled, Queued, InQueue
  <2>2. InHand \subseteq InHand' \cup ({hand[t]} \ {None})
    BY <1>4 DEF Cancelled, InHand, SchedTypeOK
  <2>3. QED
    BY <1>4, <2>1, <2>2 DEF Cancelled, Accepted
<1>5. ASSUME UNCHANGED <<queues, hand, handled, lost>> PROVE Accepted \subseteq Accepted'
  BY <1>5 DEF Accepted, Queued, InQueue, InHand
<1>6. QED
  BY <1>1, <1>2, <1>3, <1>4, <1>5 DEF SchedStep, ProcessorStep, StartProcessor,
     Begin, Wake, Stop, StopReturns, schedVars

(* What is renewed is not accepted any more; the rest stays as it is.        *)
LEMMA RenewForgets ==
    ASSUME NEW S \in SUBSET Item, Renew(S)
    PROVE  Accepted' = Accepted \ S /\ Queued' = Queued /\ InHand' = InHand
  BY DEF Renew, Accepted, Queued, InQueue, InHand

(* A put makes its own item accepted, and the processor makes none.          *)
LEMMA EnqueueAccepts ==
    ASSUME SchedTypeOK, NEW i \in Item, Enqueue(i)
    PROVE  Accepted' = Accepted \cup {i}
<1>1. Queued' = Queued \cup {i}
  BY EnqueueQueued
<1>2. InHand' = InHand /\ handled' = handled /\ lost' = lost
  BY DEF Enqueue, InHand
<1>3. QED
  BY <1>1, <1>2 DEF Accepted

LEMMA ProcessorAcceptsNone ==
    ASSUME SchedTypeOK, HandInDelivery, NEW t \in Proc, ProcessorStep(t)
    PROVE  Accepted' \subseteq Accepted
<1>1. CASE Begin(t) \/ Wake(t)
  <2>1. UNCHANGED <<queues, hand, handled, lost>>
    BY <1>1 DEF Begin, Wake
  <2>2. Queued' = Queued /\ InHand' = InHand
    BY <2>1 DEF Queued, InQueue, InHand
  <2>3. QED
    BY <2>1, <2>2 DEF Accepted
<1>2. CASE Take(t)
  <2>1. Queued' \subseteq Queued /\ hand'[t] \in Queued
    <3>1. Queued' \subseteq Queued
      BY <1>2, TakeQueued
    <3>2. hand'[t] = queues[sel[t]][1] /\ 1 \in 1..Len(queues[sel[t]]) /\ sel[t] \in Priority
      BY <1>2, TakeQueued
    <3>3. hand'[t] \in InQueue(sel[t])
      BY <3>2 DEF InQueue
    <3>4. QED
      BY <3>1, <3>2, <3>3 DEF Queued
  <2>2. InHand' \subseteq InHand \cup {hand'[t]}
    BY <1>2 DEF Take, InHand, SchedTypeOK
  <2>3. QED
    BY <1>2, <2>1, <2>2 DEF Take, Accepted
<1>3. CASE Finish(t) \/ Cancelled(t)
  <2>1. Queued' = Queued
    BY <1>3 DEF Finish, Cancelled, Queued, InQueue
  <2>2. InHand' \subseteq InHand /\ {hand[t]} \ {None} \subseteq InHand
    BY <1>3 DEF Finish, Cancelled, InHand, SchedTypeOK
  <2>3. handled' \cup lost' \subseteq handled \cup lost \cup ({hand[t]} \ {None})
    BY <1>3 DEF Finish, Cancelled, HandInDelivery
  <2>4. QED
    BY <2>1, <2>2, <2>3 DEF Accepted
<1>4. QED
  BY <1>1, <1>2, <1>3 DEF ProcessorStep

(* A selection just made is at least as good as every item that waits. *)
LEMMA SelectionIsBest ==
    ASSUME SchedTypeOK, QueuesByPriority, NonEmpty # {}
    PROVE  /\ queues[Best] # <<>>
           /\ \A i \in Queued : Best <= PrioOf[i]
<1>1. queues[Best] # <<>>
  BY BestProperties DEF NonEmpty
<1>2. ASSUME NEW i \in Queued PROVE Best <= PrioOf[i]
  <2>1. PICK p \in Priority : \E n \in 1..Len(queues[p]) : queues[p][n] = i
    BY QueuedDef
  <2>2. queues[p] # <<>>
    <3> SUFFICES ASSUME queues[p] = <<>> PROVE FALSE
      OBVIOUS
    <3>1. Len(queues[p]) = 0
      BY EmptySeq
    <3>2. QED
      BY <2>1, <3>1
  <2>3. PrioOf[i] = p
    BY <2>1 DEF QueuesByPriority
  <2>4. QED
    BY <2>2, <2>3, BestProperties DEF NonEmpty
<1>3. QED
  BY <1>1, <1>2

(* The parts of OrderInv that speak of selections, after a loop head: the    *)
(* task t that goes round is the only one alive, so no other has one.        *)
LEMMA LoopHeadOrder ==
    ASSUME SchedTypeOK, OrderInv, NEW t \in Proc, NEW run \in BOOLEAN,
           Live(t), LoopHead(t, run),
           UNCHANGED <<queues, processorTask, overtaken>>
    PROVE  OneLiveProcessor' /\ SelectionStands' /\ StaleSelectionOnce'
<1>1. OneLiveProcessor'
  BY DEF OrderInv, OneLiveProcessor, LoopHead, Live, SchedTypeOK
<1>2. \A u \in Proc : pc'[u] = "take" => u = t /\ NonEmpty # {} /\ sel'[u] = Best
  <2>1. \A u \in Proc \ {t} : pc'[u] = pc[u] /\ pc[u] # "take"
    BY DEF OrderInv, OneLiveProcessor, LoopHead, Live, SchedTypeOK
  <2>2. pc'[t] = "take" => NonEmpty # {} /\ sel'[t] = Best
    BY DEF LoopHead, SchedTypeOK
  <2>3. QED
    BY <2>1, <2>2
<1>3. SelectionStands'
  BY <1>2, SelectionIsBest DEF SelectionStands, OrderInv
<1>4. Queued' = Queued
  BY DEF Queued, InQueue
<1>5. StaleSelectionOnce'
  BY <1>2, <1>4, SelectionIsBest DEF StaleSelectionOnce, OrderInv
<1>6. QED
  BY <1>1, <1>3, <1>5

(* Every step preserves what the order of delivery rests on. *)
LEMMA OrderInvStep == TypeInv /\ OrderInv /\ [SchedStep]_schedVars => OrderInv'
<1> SUFFICES ASSUME SchedTypeOK, HandInDelivery, OrderInv, [SchedStep]_schedVars
             PROVE  OrderInv'
  BY DEF TypeInv
<1> USE DEF OrderInv
<1>a. ASSUME UNCHANGED <<queues, overtaken>>
      PROVE  QueuesByPriority' /\ OvertakenAccepted' /\ OvertakenAtMostOnce'
  BY <1>a, AcceptedGrows
  DEF QueuesByPriority, OvertakenAccepted, OvertakenAtMostOnce
<1>b. ASSUME UNCHANGED <<queues, overtaken, processorTask, sel>>,
             \A u \in Proc : pc'[u] = "take" => pc[u] = "take",
             \A u \in Proc : Live(u)' => Live(u)
      PROVE  OrderInv'
  <2>1. Queued' = Queued
    BY <1>b DEF Queued, InQueue
  <2>2. OneLiveProcessor' /\ SelectionStands' /\ StaleSelectionOnce'
    BY <1>b, <2>1 DEF OneLiveProcessor, SelectionStands, StaleSelectionOnce
  <2>3. QED
    BY <1>a, <1>b, <2>2
<1>1. ASSUME NEW i \in Item, Enqueue(i) PROVE OrderInv'
  <2>1. OneLiveProcessor'
    BY <1>1 DEF Enqueue, OneLiveProcessor, Live
  <2>2. SelectionStands'
    <3> SUFFICES ASSUME NEW t \in Proc, pc[t] = "take" PROVE queues'[sel[t]] # <<>>
      BY <1>1 DEF Enqueue, SelectionStands
    <3>1. sel[t] \in Priority /\ queues[sel[t]] # <<>>
      BY DEF SelectionStands, SchedTypeOK
    <3>2. queues'[PrioOf[i]] # <<>>
      <4>1. queues[PrioOf[i]] \in Seq(Item)
        BY DEF SchedTypeOK
      <4>2. queues'[PrioOf[i]] = Append(queues[PrioOf[i]], i)
        BY <1>1 DEF Enqueue, SchedTypeOK
      <4>3. QED
        BY <4>1, <4>2, AppendProperties
    <3>3. QED
      BY <1>1, <3>1, <3>2 DEF Enqueue, SchedTypeOK
  <2>3. QueuesByPriority'
    BY <1>1, EnqueueQueued DEF QueuesByPriority
  <2>4. OvertakenAccepted' /\ OvertakenAtMostOnce'
    BY <1>1, AcceptedGrows DEF Enqueue, OvertakenAccepted, OvertakenAtMostOnce
  <2>5. overtaken[i] # 1
    BY <1>1 DEF Enqueue, OvertakenAccepted
  <2>6. StaleSelectionOnce'
    <3>1. Queued' = Queued \cup {i}
      BY <1>1, EnqueueQueued
    <3>2. QED
      BY <1>1, <2>5, <3>1 DEF Enqueue, StaleSelectionOnce
  <2>7. QED
    BY <2>1, <2>2, <2>3, <2>4, <2>6
<1>2. CASE StartProcessor
  <2>1. OneLiveProcessor'
    BY <1>2 DEF StartProcessor, OneLiveProcessor, Live, SchedTypeOK
  <2>2. Queued' = Queued
    BY <1>2 DEF StartProcessor, Queued, InQueue
  <2>3. SelectionStands' /\ StaleSelectionOnce'
    BY <1>2, <2>2 DEF StartProcessor, SelectionStands, StaleSelectionOnce, SchedTypeOK
  <2>4. QED
    BY <1>2, <1>a, <2>1, <2>3 DEF StartProcessor
<1>3. ASSUME NEW t \in Proc, Begin(t) \/ Wake(t) \/ Finish(t) PROVE OrderInv'
  <2>1. Live(t) /\ UNCHANGED <<queues, processorTask, overtaken>>
    BY <1>3 DEF Begin, Wake, Finish, Live
  <2>2. \E run \in BOOLEAN : LoopHead(t, run)
    BY <1>3 DEF Begin, Wake, Finish, SchedTypeOK
  <2>3. OneLiveProcessor' /\ SelectionStands' /\ StaleSelectionOnce'
    BY <2>1, <2>2, LoopHeadOrder
  <2>4. QED
    BY <1>a, <2>1, <2>3
<1>4. ASSUME NEW t \in Proc, Take(t) PROVE OrderInv'
  <2>1. \A u \in Proc : pc'[u] # "take"
    BY <1>4 DEF Take, OneLiveProcessor, Live, SchedTypeOK
  <2>2. OneLiveProcessor'
    BY <1>4 DEF Take, OneLiveProcessor, Live, SchedTypeOK
  <2>3. SelectionStands' /\ StaleSelectionOnce'
    BY <2>1 DEF SelectionStands, StaleSelectionOnce
  <2>4. QueuesByPriority'
    <3> SUFFICES ASSUME NEW p \in Priority, NEW n \in 1..Len(queues'[p])
                 PROVE  PrioOf[queues'[p][n]] = p
      BY DEF QueuesByPriority
    <3>1. CASE p # sel[t]
      BY <1>4, <3>1, TakeQueued DEF QueuesByPriority
    <3>2. CASE p = sel[t]
      <4>1. n + 1 \in 1..Len(queues[p]) /\ queues'[p][n] = queues[p][n + 1]
        BY <1>4, <3>2, TakeQueued
      <4>2. QED
        BY <4>1 DEF QueuesByPriority
    <3>3. QED
      BY <3>1, <3>2
  <2>5. ASSUME NEW i \in Item, overtaken'[i] # overtaken[i]
        PROVE  i \in Queued /\ overtaken[i] = 0 /\ overtaken'[i] = 1
    <3>1. i \in Queued /\ PrioOf[i] < sel[t] /\ overtaken'[i] = overtaken[i] + 1
      BY <1>4, <2>5 DEF Take
    <3>2. overtaken[i] # 1
      BY <1>4, <3>1 DEF Take, StaleSelectionOnce, SchedTypeOK, Priority
    <3>3. overtaken[i] \in Nat /\ overtaken[i] <= 1
      BY DEF SchedTypeOK, OvertakenAtMostOnce
    <3>4. QED
      BY <3>1, <3>2, <3>3
  <2>6. OvertakenAtMostOnce'
    BY <2>5 DEF OvertakenAtMostOnce
  <2>7. OvertakenAccepted'
    BY <2>5, AcceptedGrows DEF OvertakenAccepted, Accepted
  <2>8. QED
    BY <2>2, <2>3, <2>4, <2>6, <2>7
<1>5. ASSUME NEW t \in Proc, Cancelled(t) PROVE OrderInv'
  BY <1>5, <1>b DEF Cancelled, Live, SchedTypeOK
<1>6. ASSUME NEW s \in Stopper, Stop(s) \/ StopReturns(s) PROVE OrderInv'
  BY <1>6, <1>b DEF Stop, StopReturns, Live
<1>7. CASE UNCHANGED schedVars
  BY <1>7, <1>b DEF schedVars, Live
<1>8. QED
  BY <1>1, <1>2, <1>3, <1>4, <1>5, <1>6, <1>7 DEF SchedStep, ProcessorStep

LEMMA OrderInvNext == TypeInv /\ OrderInv /\ [SchedNext]_schedVars => OrderInv'
<1> SUFFICES ASSUME SchedTypeOK, OrderInv, NEW S \in SUBSET Item, Renew(S)
             PROVE  OrderInv'
  BY OrderInvStep DEF TypeInv, SchedNext
<1> USE DEF OrderInv
<1>1. /\ UNCHANGED <<queues, processorTask, pc, sel>>
      /\ overtaken' = [i \in Item |-> IF i \in S THEN 0 ELSE overtaken[i]]
  BY DEF Renew
<1>2. Accepted' = Accepted \ S /\ Queued' = Queued
  BY RenewForgets
<1>3. OneLiveProcessor' /\ SelectionStands' /\ QueuesByPriority'
  BY <1>1 DEF OneLiveProcessor, SelectionStands, QueuesByPriority, Live
<1>4. OvertakenAccepted' /\ OvertakenAtMostOnce'
  BY <1>1, <1>2 DEF OvertakenAccepted, OvertakenAtMostOnce
<1>5. \A i \in Queued : i \in Item
  BY QueuedItems
<1>6. StaleSelectionOnce'
  BY <1>1, <1>2, <1>5 DEF StaleSelectionOnce
<1>7. QED
  BY <1>3, <1>4, <1>6

LEMMA SchedInductive == SchedSpec => [](TypeInv /\ OrderInv)
  BY TypeInvInit, TypeInvNext, OrderInvInit, OrderInvNext, PTL DEF SchedSpec

(* However start() and stop() interleave, there is one live processor at     *)
(* most.                                                                     *)
THEOREM OneProcessor == SchedSpec => []OneLiveProcessor
<1>1. OrderInv => OneLiveProcessor
  BY DEF OrderInv
<1>2. QED
  BY <1>1, SchedInductive, PTL

(* The queue selected by get_next() is never empty at the take: the take     *)
(* cannot run into the timeout of wait_for().                                *)
THEOREM SelectionNeverStaleEmpty == SchedSpec => []SelectionStands
<1>1. OrderInv => SelectionStands
  BY DEF OrderInv
<1>2. QED
  BY <1>1, SchedInductive, PTL

(* While an item waits in its queue, at most one item of a lower priority is *)
(* taken before it, however many queues there are and however long they may  *)
(* become.                                                                   *)
THEOREM StrictPriorityButForOne == SchedSpec => []OvertakenAtMostOnce
<1>1. OrderInv => OvertakenAtMostOnce
  BY DEF OrderInv
<1>2. QED
  BY <1>1, SchedInductive, PTL

----------------------------------------------------------------------------

LEMMA DeliveredOnceInit == SchedInit => DeliveredOnce
<1> SUFFICES ASSUME SchedInit PROVE DeliveredOnce
  OBVIOUS
<1>1. \A p \in Priority : Len(queues[p]) = 0
  BY EmptySeq DEF SchedInit
<1>2. Queued = {}
  BY <1>1 DEF Queued, InQueue
<1>3. InHand = {} /\ handled = {} /\ lost = {}
  BY DEF SchedInit, InHand
<1>4. QED
  BY <1>1, <1>2, <1>3 DEF DeliveredOnce

(* No place of a queue holds an item that another place holds. *)
PlacesDiffer ==
    \A p, q \in Priority :
      \A m \in 1..Len(queues[p]), n \in 1..Len(queues[q]) :
        queues[p][m] = queues[q][n] => p = q /\ m = n

LEMMA DeliveredOnceNext ==
    TypeInv /\ OneLiveProcessor /\ DeliveredOnce /\ [SchedNext]_schedVars => DeliveredOnce'
<1> SUFFICES ASSUME SchedTypeOK, HandInDelivery, OneLiveProcessor, DeliveredOnce,
                    [SchedNext]_schedVars
             PROVE  DeliveredOnce'
  BY DEF TypeInv
<1>a. ASSUME UNCHANGED <<queues, hand, handled, lost>> PROVE DeliveredOnce'
  <2>1. Queued' = Queued /\ InHand' = InHand
    BY <1>a DEF Queued, InQueue, InHand
  <2>2. QED
    BY <1>a, <2>1 DEF DeliveredOnce
<1>b. ASSUME UNCHANGED queues,
             (InHand \cup handled \cup lost)' = InHand \cup handled \cup lost,
             InHand' \cap (handled \cup lost)' = {}, (handled \cap lost)' = {}
      PROVE  DeliveredOnce'
  BY <1>b DEF DeliveredOnce, Queued, InQueue
<1>1. ASSUME NEW i \in Item, Enqueue(i) PROVE DeliveredOnce'
  <2>1. i \notin Queued /\ i \notin InHand \cup handled \cup lost
    BY <1>1 DEF Enqueue, Accepted
  <2>2. /\ InHand' = InHand /\ handled' = handled /\ lost' = lost
        /\ Queued' = Queued \cup {i}
    <3>1. InHand' = InHand /\ handled' = handled /\ lost' = lost
      BY <1>1 DEF Enqueue, InHand
    <3>2. Queued' = Queued \cup {i}
      BY <1>1, EnqueueQueued
    <3>3. QED
      BY <3>1, <3>2
  <2>3. PlacesDiffer'
    <3> SUFFICES ASSUME NEW p \in Priority, NEW q \in Priority,
                        NEW m \in 1..Len(queues'[p]), NEW n \in 1..Len(queues'[q]),
                        queues'[p][m] = queues'[q][n]
                 PROVE  p = q /\ m = n
      BY DEF PlacesDiffer
    <3> DEFINE Old(r, k) == k \in 1..Len(queues[r])
               New(r, k) == r = PrioOf[i] /\ k = Len(queues[r]) + 1
    <3>1. ASSUME NEW r \in Priority, NEW k \in 1..Len(queues'[r])
          PROVE  \/ Old(r, k) /\ queues'[r][k] = queues[r][k]
                 \/ New(r, k) /\ queues'[r][k] = i
      <4>1. CASE r # PrioOf[i]
        BY <1>1, <4>1, EnqueueQueued
      <4>2. CASE r = PrioOf[i]
        BY <1>1, <4>2, EnqueueQueued
      <4>3. QED
        BY <4>1, <4>2
    <3>2. /\ Old(p, m) => queues[p][m] # i
          /\ Old(q, n) => queues[q][n] # i
      BY <2>1, QueuedDef
    <3>3. Old(p, m) /\ Old(q, n) /\ queues[p][m] = queues[q][n] => p = q /\ m = n
      BY DEF DeliveredOnce
    <3>4. QED
      BY <3>1, <3>2, <3>3
  <2>4. QED
    BY <2>1, <2>2, <2>3 DEF DeliveredOnce, PlacesDiffer
<1>2. ASSUME NEW t \in Proc, Take(t) PROVE DeliveredOnce'
  <2> DEFINE x == hand'[t]
  <2>1. x \in Queued
    BY <1>2, TakeQueued, QueuedDef
  <2>2. InHand' = InHand \cup {x} /\ UNCHANGED <<handled, lost>>
    <3>1. queues[sel[t]] \in Seq(Item) /\ queues[sel[t]] # <<>> /\ x = Head(queues[sel[t]])
      BY <1>2 DEF Take, SchedTypeOK
    <3>2. x \in Item
      BY <3>1, HeadTailProperties
    <3>3. QED
      BY <1>2, <3>2 DEF Take, InHand, SchedTypeOK, HandInDelivery
  <2> DEFINE From(p, m) == IF p = sel[t] THEN m + 1 ELSE m
  <2>3. ASSUME NEW p \in Priority, NEW m \in 1..Len(queues'[p])
        PROVE  /\ From(p, m) \in 1..Len(queues[p])
               /\ queues'[p][m] = queues[p][From(p, m)]
               /\ p = sel[t] => From(p, m) # 1
    BY <1>2, TakeQueued
  <2>4. PlacesDiffer'
    <3> SUFFICES ASSUME NEW p \in Priority, NEW q \in Priority,
                        NEW m \in 1..Len(queues'[p]), NEW n \in 1..Len(queues'[q]),
                        queues'[p][m] = queues'[q][n]
                 PROVE  p = q /\ m = n
      BY DEF PlacesDiffer
    <3>1. /\ From(p, m) \in 1..Len(queues[p]) /\ From(q, n) \in 1..Len(queues[q])
          /\ queues[p][From(p, m)] = queues[q][From(q, n)]
      BY <2>3
    <3> HIDE DEF From
    <3>2. p = q /\ From(p, m) = From(q, n)
      BY <3>1 DEF DeliveredOnce
    <3>3. QED
      BY <3>2 DEF From
  <2>5. x \notin Queued'
    <3> SUFFICES ASSUME x \in Queued' PROVE FALSE
      OBVIOUS
    <3>1. PICK p \in Priority : \E m \in 1..Len(queues'[p]) : queues'[p][m] = x
      BY DEF Queued, InQueue
    <3>2. PICK m \in 1..Len(queues'[p]) : queues'[p][m] = x
      BY <3>1
    <3>3. queues[p][From(p, m)] = queues[sel[t]][1] /\ From(p, m) \in 1..Len(queues[p])
      BY <1>2, <2>3, <3>2, TakeQueued
    <3>4. sel[t] \in Priority /\ 1 \in 1..Len(queues[sel[t]])
      BY <1>2, TakeQueued
    <3>5. p = sel[t] /\ From(p, m) = 1
      BY <3>3, <3>4 DEF DeliveredOnce
    <3>6. QED
      BY <2>3, <3>5
  <2>6. Queued' \subseteq Queued
    BY <1>2, TakeQueued
  <2>7. QED
    BY <2>1, <2>2, <2>4, <2>5, <2>6 DEF DeliveredOnce, PlacesDiffer
<1>3. ASSUME NEW t \in Proc, Finish(t) PROVE DeliveredOnce'
  <2>1. \A u \in Proc \ {t} : hand[u] = None
    BY <1>3 DEF Finish, OneLiveProcessor, Live, HandInDelivery
  <2>2. hand[t] # None /\ hand' = [hand EXCEPT ![t] = None]
    BY <1>3 DEF Finish, HandInDelivery
  <2>3. InHand = {hand[t]} /\ InHand' = {}
    BY <2>1, <2>2 DEF InHand, SchedTypeOK
  <2>4. QED
    BY <1>3, <1>b, <2>3 DEF Finish, DeliveredOnce
<1>4. ASSUME NEW t \in Proc, Cancelled(t) PROVE DeliveredOnce'
  <2>1. \A u \in Proc \ {t} : hand[u] = None
    BY <1>4 DEF Cancelled, OneLiveProcessor, Live, HandInDelivery
  <2>2. InHand = {hand[t]} \ {None} /\ InHand' = {}
    BY <1>4, <2>1 DEF Cancelled, InHand, SchedTypeOK
  <2>3. QED
    BY <1>4, <1>b, <2>2 DEF Cancelled, DeliveredOnce
<1>5. ASSUME NEW S \in SUBSET Item, Renew(S) PROVE DeliveredOnce'
  <2>1. Queued' = Queued /\ InHand' = InHand
    BY <1>5, RenewForgets
  <2>2. handled' \subseteq handled /\ lost' \subseteq lost /\ queues' = queues
    BY <1>5 DEF Renew
  <2>3. QED
    BY <2>1, <2>2 DEF DeliveredOnce
<1>6. QED
  BY <1>a, <1>1, <1>2, <1>3, <1>4, <1>5 DEF SchedNext, SchedStep, ProcessorStep, StartProcessor,
     Begin, Wake, Stop, StopReturns, schedVars

(* An accepted item is in one place only, and is delivered once at most,     *)
(* through any number of stops and restarts of the processor.                *)
THEOREM DeliveredAtMostOnce == SchedSpec => []DeliveredOnce
<1>1. OrderInv => OneLiveProcessor
  BY DEF OrderInv
<1>2. QED
  BY <1>1, TypeInvInit, TypeInvNext, OrderInvInit, OrderInvNext, DeliveredOnceInit,
     DeliveredOnceNext, PTL DEF SchedSpec

----------------------------------------------------------------------------

(* A pending CancelledError has a stop() that waits for its task. *)
CancelHasStop ==
    \A t \in Proc : cancel[t] =>
        /\ Live(t)
        /\ \E s \in Stopper : stopping[s] = t

LEMMA CancelHasStopNext == TypeInv /\ CancelHasStop /\ [SchedNext]_schedVars => CancelHasStop'
<1> SUFFICES ASSUME SchedTypeOK, CancelHasStop, [SchedNext]_schedVars PROVE CancelHasStop'
  BY DEF TypeInv
<1>1. ASSUME NEW t \in Proc, Begin(t) \/ Wake(t) \/ Finish(t) PROVE CancelHasStop'
  BY <1>1 DEF Begin, Wake, Finish, LoopHead, CancelHasStop, Live, SchedTypeOK
<1>2. ASSUME NEW t \in Proc, Take(t) \/ Cancelled(t) PROVE CancelHasStop'
  BY <1>2 DEF Take, Cancelled, CancelHasStop, Live, SchedTypeOK
<1>3. ASSUME NEW s \in Stopper, Stop(s) PROVE CancelHasStop'
  BY <1>3 DEF Stop, CancelHasStop, Live, SchedTypeOK
<1>4. ASSUME NEW s \in Stopper, StopReturns(s) PROVE CancelHasStop'
  BY <1>4 DEF StopReturns, CancelHasStop, Live, SchedTypeOK
<1>5. CASE StartProcessor
  BY <1>5 DEF StartProcessor, CancelHasStop, Live, SchedTypeOK
<1>6. ASSUME UNCHANGED <<pc, cancel, stopping>> PROVE CancelHasStop'
  BY <1>6 DEF CancelHasStop, Live
<1>7. QED
  BY <1>1, <1>2, <1>3, <1>4, <1>5, <1>6 DEF SchedNext, SchedStep, ProcessorStep, Enqueue,
     Renew, schedVars

(* An item is lost only while a stop() awaits the processor that holds it.   *)
THEOREM ItemsLostOnlyToStop == SchedSpec => LostOnlyToStop
<1> DEFINE ToStop == \E s \in Stopper : stopping[s] # None /\ hand[stopping[s]] # None
<1>1. SchedInit => CancelHasStop
  BY DEF SchedInit, CancelHasStop
<1>2. TypeInv /\ CancelHasStop /\ [SchedNext]_schedVars => [~(lost' \subseteq lost) => ToStop]_schedVars
  <2> SUFFICES ASSUME SchedTypeOK, CancelHasStop, [SchedNext]_schedVars, ~(lost' \subseteq lost)
               PROVE  ToStop
    BY DEF TypeInv
  <2>1. PICK t \in Proc : Cancelled(t)
    BY DEF SchedNext, SchedStep, ProcessorStep, Enqueue, StartProcessor, Begin, Wake, Take,
           Finish, Stop, StopReturns, Renew, schedVars
  <2>2. hand[t] # None
    BY <2>1 DEF Cancelled
  <2>3. QED
    BY <2>1, <2>2 DEF Cancelled, CancelHasStop
<1>3. QED
  BY <1>1, <1>2, TypeInvInit, TypeInvNext, CancelHasStopNext, PTL
  DEF SchedSpec, LostOnlyToStop

----------------------------------------------------------------------------

(* With one live processor, only it holds an item or a selection. *)
LEMMA OnlyLive ==
    ASSUME TypeInv, OneLiveProcessor, NEW t \in Proc, Live(t)
    PROVE  \A u \in Proc \ {t} : hand[u] = None /\ pc[u] # "take"
  BY DEF TypeInv, HandInDelivery, OneLiveProcessor, Live

(* What task t holds and has selected is all there is. *)
LEMMA OneHand ==
    ASSUME NEW h \in [Proc -> Item \cup {None}], NEW t \in Proc,
           \A u \in Proc \ {t} : h[u] = None
    PROVE  {h[u] : u \in Proc} \ {None} = {h[t]} \ {None}
  OBVIOUS

LEMMA OneSelection ==
    ASSUME NEW f \in [Proc -> PC], NEW g \in [Proc -> Priority], NEW t \in Proc,
           \A u \in Proc \ {t} : f[u] # "take"
    PROVE  {g[v] : v \in {u \in Proc : f[u] = "take"}} = IF f[t] = "take" THEN {g[t]} ELSE {}
  OBVIOUS

(* The queue selected at the loop head is the best one. *)
LEMMA LoopHeadChooses ==
    ASSUME TypeInv, OneLiveProcessor, NEW t \in Proc, Live(t), NEW run \in BOOLEAN,
           LoopHead(t, run), UNCHANGED queues
    PROVE  Selected' = {} \/ Channel!Chooses
<1>1. \A u \in Proc \ {t} : pc[u] # "take"
  BY OnlyLive
<1>2. pc' \in [Proc -> PC] /\ sel' \in [Proc -> Priority]
  BY LoopHeadType DEF TypeInv
<1>3. \A u \in Proc \ {t} : pc'[u] # "take"
  BY <1>1 DEF LoopHead, TypeInv, SchedTypeOK
<1>4. Selected' = IF pc'[t] = "take" THEN {sel'[t]} ELSE {}
  BY <1>2, <1>3, OneSelection DEF Selected
<1>5. CASE run /\ NonEmpty # {}
  <2>1. Selected' = {Best}
    BY <1>4, <1>5 DEF LoopHead, TypeInv, SchedTypeOK
  <2>2. Best \in Priority /\ queues[Best] # <<>>
    BY <1>5, BestProperties DEF NonEmpty
  <2>3. \A q \in Priority : q < Best => queues[q] = <<>>
    BY <1>5, <2>2, BestProperties DEF NonEmpty, Priority
  <2>4. QED
    BY <2>1, <2>2, <2>3 DEF Channel!Chooses, Channel!IsBest, Priority
<1>6. CASE ~(run /\ NonEmpty # {})
  BY <1>4, <1>6 DEF LoopHead, TypeInv, SchedTypeOK
<1>7. QED
  BY <1>5, <1>6

LEMMA ChannelInit == SchedInit => Channel!Init
  BY DEF SchedInit, Channel!Init, Priority, InHand, Selected

(* Each step of the scheduler is a step of the channel or invisible to it.   *)
LEMMA ChannelNext ==
    TypeInv /\ OrderInv /\ [SchedNext]_schedVars => [Channel!Next]_(Channel!vars)
<1> SUFFICES ASSUME TypeInv, OrderInv, [SchedNext]_schedVars
             PROVE  Channel!Next \/ UNCHANGED Channel!vars
  OBVIOUS
<1>o. SchedTypeOK /\ OneLiveProcessor
  BY DEF TypeInv, OrderInv
<1>h. ASSUME UNCHANGED hand PROVE InHand' = InHand
  BY <1>h DEF InHand
<1>s. ASSUME UNCHANGED <<pc, sel>> PROVE Selected' = Selected
  BY <1>s DEF Selected
<1>1. ASSUME NEW i \in Item, Enqueue(i) PROVE Channel!Next
  <2>1. Channel!Known \subseteq Accepted
    BY DEF Channel!Known, Channel!AnyWaiting, Channel!Waiting, Accepted, Queued, InQueue, Priority
  <2>2. InHand' = InHand /\ Selected' = Selected
    BY <1>1, <1>h, <1>s DEF Enqueue
  <2>3. Channel!Arrive(i)
    BY <1>1, <2>1, <2>2 DEF Enqueue, Channel!Arrive
  <2>4. QED
    BY <2>3 DEF Channel!Next
<1>2. ASSUME NEW t \in Proc, Take(t) PROVE Channel!Next
  <2> DEFINE p == sel[t]
  <2>1. /\ p \in Priority
        /\ Live(t)
        /\ hand' = [hand EXCEPT ![t] = Head(queues[p])]
        /\ Head(queues[p]) \in Item
    BY <1>2, <1>o, HeadTailProperties DEF Take, SchedTypeOK, Live
  <2>2. \A u \in Proc \ {t} : hand[u] = None /\ pc[u] # "take"
    BY <1>o, <2>1, OnlyLive
  <2>3. InHand' = {Head(queues[p])}
    <3>1. /\ hand' \in [Proc -> Item \cup {None}]
          /\ hand'[t] = Head(queues[p])
          /\ \A u \in Proc \ {t} : hand'[u] = None
      BY <1>o, <2>1, <2>2 DEF SchedTypeOK
    <3>2. QED
      BY <2>1, <3>1, OneHand DEF InHand
  <2>4. Selected = {p} /\ Selected' = {}
    BY <1>2, <1>o, <2>2 DEF Take, Selected, SchedTypeOK
  <2>5. Channel!Serve(p)
    BY <1>2, <2>3, <2>4 DEF Take, Channel!Serve
  <2>6. QED
    BY <2>1, <2>5 DEF Channel!Next, Priority
<1>3. ASSUME NEW t \in Proc, Begin(t) \/ Wake(t) PROVE Channel!Next \/ UNCHANGED Channel!vars
  <2>1. /\ Live(t) /\ hand[t] = None /\ pc[t] # "take"
        /\ UNCHANGED <<queues, hand, handled, lost>>
        /\ \E run \in BOOLEAN : LoopHead(t, run)
    BY <1>3, <1>o DEF Begin, Wake, Live, TypeInv, HandInDelivery, SchedTypeOK
  <2>2. \A u \in Proc : hand[u] = None /\ pc[u] # "take"
    BY <1>o, <2>1, OnlyLive
  <2>3. InHand = {} /\ InHand' = InHand /\ Selected = {}
    BY <1>h, <2>1, <2>2 DEF InHand, Selected
  <2>4. Selected' = {} \/ Channel!Chooses
    BY <1>o, <2>1, LoopHeadChooses
  <2>5. QED
    BY <2>1, <2>3, <2>4 DEF Channel!Next, Channel!Choose, Channel!vars
<1>4. ASSUME NEW t \in Proc, Finish(t) PROVE Channel!Next
  <2>1. /\ Live(t) /\ hand[t] # None /\ pc[t] # "take"
        /\ hand' = [hand EXCEPT ![t] = None]
        /\ \E run \in BOOLEAN : LoopHead(t, run)
        /\ UNCHANGED <<queues, lost>>
    BY <1>4, <1>o DEF Finish, Live, TypeInv, HandInDelivery, SchedTypeOK
  <2>2. \A u \in Proc \ {t} : hand[u] = None /\ pc[u] # "take"
    BY <1>o, <2>1, OnlyLive
  <2>3. InHand = {hand[t]} /\ InHand' = {} /\ Selected = {}
    BY <1>o, <2>1, <2>2 DEF InHand, Selected, SchedTypeOK
  <2>4. Selected' = {} \/ Channel!Chooses
    BY <1>o, <2>1, LoopHeadChooses
  <2>5. QED
    BY <1>4, <2>1, <2>3, <2>4 DEF Finish, Channel!Next, Channel!Complete
<1>5. ASSUME NEW t \in Proc, Cancelled(t) PROVE Channel!Next \/ UNCHANGED Channel!vars
  <2>1. /\ Live(t) /\ pc[t] # "take"
        /\ hand' = [hand EXCEPT ![t] = None]
        /\ pc' = [pc EXCEPT ![t] = "done"]
    BY <1>5 DEF Cancelled, Live
  <2>2. \A u \in Proc \ {t} : hand[u] = None /\ pc[u] # "take"
    BY <1>o, <2>1, OnlyLive
  <2>3. InHand = {hand[t]} \ {None} /\ InHand' = {} /\ Selected = {} /\ Selected' = {}
    BY <1>o, <2>1, <2>2 DEF InHand, Selected, SchedTypeOK
  <2>4. CASE hand[t] = None
    BY <1>5, <2>3, <2>4 DEF Cancelled, Channel!vars
  <2>5. CASE hand[t] # None
    BY <1>5, <2>3, <2>5 DEF Cancelled, Channel!Drop, Channel!Next
  <2>6. QED
    BY <2>4, <2>5
<1>6. ASSUME StartProcessor PROVE UNCHANGED Channel!vars
  <2>1. Selected' = Selected
    BY <1>6, <1>o DEF StartProcessor, Selected, SchedTypeOK
  <2>2. QED
    BY <1>6, <1>h, <2>1 DEF StartProcessor, Channel!vars
<1>7. ASSUME UNCHANGED <<queues, pc, sel, hand, handled, lost>> PROVE UNCHANGED Channel!vars
  BY <1>7, <1>s, <1>h DEF Channel!vars
<1>8. ASSUME NEW S \in SUBSET Item, Renew(S) PROVE Channel!Next
  <2> DEFINE through == S \cap (handled \cup lost)
  <2>1. InHand' = InHand /\ Selected' = Selected /\ UNCHANGED queues
    BY <1>8, <1>h, <1>s DEF Renew
  <2>2. handled' = handled \ through /\ lost' = lost \ through
    BY <1>8 DEF Renew
  <2>3. Channel!Renew(through)
    BY <2>1, <2>2 DEF Channel!Renew
  <2>4. through \in SUBSET (handled \cup lost)
    OBVIOUS
  <2> HIDE DEF through
  <2>5. QED
    BY <2>3, <2>4 DEF Channel!Next
<1>9. QED
  BY <1>1, <1>2, <1>3, <1>4, <1>5, <1>6, <1>7, <1>8 DEF SchedNext, SchedStep, ProcessorStep, Stop,
     StopReturns, schedVars

(* Through any starts, stops and cancellations, the scheduler is a priority  *)
(* channel with one server.                                                  *)
THEOREM SchedulerIsChannel == SchedSpec => ImplementsChannel
  BY ChannelInit, ChannelNext, SchedInductive, PTL DEF SchedSpec, ImplementsChannel, Channel!Spec

=============================================================================
