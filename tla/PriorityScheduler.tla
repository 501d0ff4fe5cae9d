------------------------- MODULE PriorityScheduler -------------------------
(***************************************************************************)
(* The priority scheduler of core/scheduler.py: one bounded FIFO queue per *)
(* priority and one background task, run(), that takes the head of the     *)
(* best nonempty queue, awaits the delivery callback and loops.            *)
(*                                                                         *)
(* An action is a stretch of code between two awaits of the asyncio event  *)
(* loop.  get_next() selects a queue in one stretch, and the inner task    *)
(* that wait_for() creates takes the item in a later one: other coroutines *)
(* may put items in between.                                               *)
(***************************************************************************)
EXTENDS Naturals, Sequences

CONSTANTS Item,          (* the events that can be handed to the scheduler      *)
          Lowest,        (* priorities are 0 (P0_SECURITY) .. Lowest            *)
          PrioOf,        (* the priority of an item                             *)
          MaxQueueSize,  (* capacity of each queue                              *)
          Proc,          (* asyncio.Task objects available for run()            *)
          Stopper,       (* coroutines that may call stop()                     *)
          None           (* no item, no task                                    *)

Priority == 0..Lowest

ASSUME SchedulerConstants ==
    /\ Lowest \in Nat
    /\ PrioOf \in [Item -> Priority]
    /\ MaxQueueSize \in Nat \ {0}
    /\ None \notin Item
    /\ None \notin Proc

VARIABLES
    queues,         (* [Priority -> Seq(Item)], the asyncio queues              *)
    running,        (* the _running flag                                        *)
    processorTask,  (* _processor_task: the last task created, or None          *)
    pc,             (* where each task is in run()                              *)
    sel,            (* the queue a task selected in get_next()                  *)
    hand,           (* the item a task is delivering, or None                   *)
    cancel,         (* a CancelledError is pending for the task                 *)
    stopping,       (* the task a stop() call is awaiting, or None              *)
    handled,        (* ghost: items whose delivery callback returned            *)
    lost,           (* ghost: items whose delivery was cancelled                *)
    overtaken       (* ghost: how often an item saw a worse one taken first     *)

schedVars == <<queues, running, processorTask, pc, sel, hand, cancel, stopping,
               handled, lost, overtaken>>

(* "new": not created yet; "created": create_task() was called, run() has   *)
(* not begun; "idle": in the sleep of an empty scan; "take": get_next() has *)
(* chosen a queue and awaits its head; "deliver": in the delivery callback. *)
PC == {"new", "created", "idle", "take", "deliver", "done"}

(* The task has been created and its coroutine has not ended. *)
Live(t) == pc[t] \notin {"new", "done"}

InQueue(p) == {queues[p][n] : n \in 1..Len(queues[p])}
Queued == UNION {InQueue(p) : p \in Priority}
InHand == {hand[t] : t \in Proc} \ {None}
Accepted == Queued \cup InHand \cup handled \cup lost

(* Mutants: get_next() does not test empty(); it looks at the first queue only. *)
NonEmptyUntested == Priority
NonEmptyFirstOnly == {p \in {0} : queues[p] # <<>>}

NonEmpty == {p \in Priority : queues[p] # <<>>}

(* Mutant: the scan runs from the lowest priority up. *)
BestReversed == CHOOSE p \in NonEmpty : \A q \in NonEmpty : q <= p

(* get_next() scans the queues from P0 down. *)
Best == CHOOSE p \in NonEmpty : \A q \in NonEmpty : p <= q

SchedInit ==
    /\ queues = [p \in Priority |-> <<>>]
    /\ running = FALSE
    /\ processorTask = None
    /\ pc = [t \in Proc |-> "new"]
    /\ sel = [t \in Proc |-> 0]
    /\ hand = [t \in Proc |-> None]
    /\ cancel = [t \in Proc |-> FALSE]
    /\ stopping = [s \in Stopper |-> None]
    /\ handled = {}
    /\ lost = {}
    /\ overtaken = [i \in Item |-> 0]

----------------------------------------------------------------------------

HasRoom(i) == Len(queues[PrioOf[i]]) < MaxQueueSize

(* enqueue(): put() waits while the queue is full, so the item goes in when *)
(* there is room.  One of its shape is under way at a time.  The preemption *)
(* that follows the put of a P0 item is modelled in TaskPreemption.         *)
Enqueue(i) ==
    /\ i \notin Accepted
    /\ HasRoom(i)
    /\ queues' = [queues EXCEPT ![PrioOf[i]] = Append(@, i)]
    /\ UNCHANGED <<running, processorTask, pc, sel, hand, cancel, stopping,
                   handled, lost, overtaken>>

(* Mutant: each start creates a processor. *)
StartAnother ==
    /\ \E t \in Proc :
         /\ pc[t] = "new"
         /\ processorTask' = t
         /\ pc' = [pc EXCEPT ![t] = "created"]
    /\ UNCHANGED <<queues, running, sel, hand, cancel, stopping, handled, lost,
                   overtaken>>

(* start_background_processor(): a new task unless the last one is live. *)
StartProcessor ==
    /\ processorTask # None => pc[processorTask] = "done"
    /\ \E t \in Proc :
         /\ pc[t] = "new"
         /\ processorTask' = t
         /\ pc' = [pc EXCEPT ![t] = "created"]
    /\ UNCHANGED <<queues, running, sel, hand, cancel, stopping, handled, lost,
                   overtaken>>

(* The head of the loop in run(), from the test of _running to the first    *)
(* await: leave, select the best queue, or sleep when all are empty.        *)
LoopHead(t, run) ==
    \/ /\ ~run
       /\ pc' = [pc EXCEPT ![t] = "done"]
       /\ UNCHANGED sel
    \/ /\ run
       /\ NonEmpty # {}
       /\ pc' = [pc EXCEPT ![t] = "take"]
       /\ sel' = [sel EXCEPT ![t] = Best]
    \/ /\ run
       /\ NonEmpty = {}
       /\ pc' = [pc EXCEPT ![t] = "idle"]
       /\ UNCHANGED sel

(* The first step of run(). *)
Begin(t) ==
    /\ pc[t] = "created"
    /\ ~cancel[t]
    /\ running' = TRUE
    /\ LoopHead(t, TRUE)
    /\ UNCHANGED <<queues, processorTask, hand, cancel, stopping, handled, lost,
                   overtaken>>

(* The sleep of an empty scan ends. *)
Wake(t) ==
    /\ pc[t] = "idle"
    /\ ~cancel[t]
    /\ LoopHead(t, running)
    /\ UNCHANGED <<queues, running, processorTask, hand, cancel, stopping,
                   handled, lost, overtaken>>

(* Mutant: the item is looked at and stays in the queue. *)
TakeWithoutRemoving(t) ==
    /\ pc[t] = "take"
    /\ queues[sel[t]] # <<>>
    /\ hand' = [hand EXCEPT ![t] = Head(queues[sel[t]])]
    /\ pc' = [pc EXCEPT ![t] = "deliver"]
    /\ cancel' = [cancel EXCEPT ![t] = FALSE]
    /\ UNCHANGED <<queues, running, processorTask, sel, stopping, handled, lost,
                   overtaken>>

(* The inner task of wait_for() takes the head of the selected queue and    *)
(* run() enters the delivery callback.  A CancelledError that arrived after *)
(* the selection finds the inner task finished: wait_for() returns the item *)
(* and the cancellation is gone.                                            *)
Take(t) ==
    /\ pc[t] = "take"
    /\ queues[sel[t]] # <<>>
    /\ hand' = [hand EXCEPT ![t] = Head(queues[sel[t]])]
    /\ queues' = [queues EXCEPT ![sel[t]] = Tail(@)]
    /\ pc' = [pc EXCEPT ![t] = "deliver"]
    /\ cancel' = [cancel EXCEPT ![t] = FALSE]
    /\ overtaken' = [i \in Item |->
                       IF i \in Queued /\ PrioOf[i] < sel[t]
                       THEN overtaken[i] + 1 ELSE overtaken[i]]
    /\ UNCHANGED <<running, processorTask, sel, stopping, handled, lost>>

(* The delivery callback returned (or raised an Exception, which run() logs) *)
(* and run() goes round.  A callback that caught the CancelledError itself   *)
(* has used it up.                                                           *)
Finish(t) ==
    /\ pc[t] = "deliver"
    /\ handled' = handled \cup {hand[t]}
    /\ hand' = [hand EXCEPT ![t] = None]
    /\ cancel' = [cancel EXCEPT ![t] = FALSE]
    /\ LoopHead(t, running)
    /\ UNCHANGED <<queues, running, processorTask, stopping, lost, overtaken>>

(* Mutant: something else than a stop() cancels the task. *)
CancelledUnasked(t) ==
    /\ pc[t] \in {"created", "idle", "deliver"}
    /\ pc' = [pc EXCEPT ![t] = "done"]
    /\ cancel' = [cancel EXCEPT ![t] = FALSE]
    /\ hand' = [hand EXCEPT ![t] = None]
    /\ lost' = lost \cup ({hand[t]} \ {None})
    /\ UNCHANGED <<queues, running, processorTask, sel, stopping, handled,
                   overtaken>>

(* CancelledError is raised at the await run() is suspended in: before its   *)
(* first step the body never runs, in the sleep or in the callback the loop  *)
(* breaks.  The item in hand goes with it.                                   *)
Cancelled(t) ==
    /\ pc[t] \in {"created", "idle", "deliver"}
    /\ cancel[t]
    /\ pc' = [pc EXCEPT ![t] = "done"]
    /\ cancel' = [cancel EXCEPT ![t] = FALSE]
    /\ hand' = [hand EXCEPT ![t] = None]
    /\ lost' = lost \cup ({hand[t]} \ {None})
    /\ UNCHANGED <<queues, running, processorTask, sel, stopping, handled,
                   overtaken>>

(* Mutant: stop() relies on the cancellation and leaves _running up. *)
StopByCancelOnly(s) ==
    /\ stopping[s] = None
    /\ processorTask # None
    /\ stopping' = [stopping EXCEPT ![s] = processorTask]
    /\ cancel' = [cancel EXCEPT ![processorTask] = Live(processorTask)]
    /\ UNCHANGED <<queues, running, processorTask, pc, sel, hand, handled, lost,
                   overtaken>>

(* stop(), up to its await of the processor.  Before the first start there   *)
(* is no task to cancel and _running is already False.                       *)
Stop(s) ==
    /\ stopping[s] = None
    /\ running' = FALSE
    /\ processorTask # None
    /\ stopping' = [stopping EXCEPT ![s] = processorTask]
    /\ cancel' = [cancel EXCEPT ![processorTask] = Live(processorTask)]
    /\ UNCHANGED <<queues, processorTask, pc, sel, hand, handled, lost, overtaken>>

(* The awaited processor has ended and stop() returns. *)
StopReturns(s) ==
    /\ stopping[s] # None
    /\ pc[stopping[s]] = "done"
    /\ stopping' = [stopping EXCEPT ![s] = None]
    /\ UNCHANGED <<queues, running, processorTask, pc, sel, hand, cancel, handled,
                   lost, overtaken>>

(* An item stands for the events of one shape, one at a time: when those of  *)
(* S are through, or have not begun, the next of their shape may come.  No   *)
(* code runs in this step.                                                   *)
Renew(S) ==
    /\ S \cap (Queued \cup InHand) = {}
    /\ handled' = handled \ S
    /\ lost' = lost \ S
    /\ overtaken' = [i \in Item |-> IF i \in S THEN 0 ELSE overtaken[i]]
    /\ UNCHANGED <<queues, running, processorTask, pc, sel, hand, cancel, stopping>>

ProcessorStep(t) == Begin(t) \/ Wake(t) \/ Take(t) \/ Finish(t) \/ Cancelled(t)

SchedStep ==
    \/ \E i \in Item : Enqueue(i)
    \/ StartProcessor
    \/ \E t \in Proc : ProcessorStep(t)
    \/ \E s \in Stopper : Stop(s) \/ StopReturns(s)

SchedNext == SchedStep \/ \E S \in SUBSET Item : Renew(S)

SchedSpec == SchedInit /\ [][SchedNext]_schedVars

----------------------------------------------------------------------------

(* The types of the scheduler's variables, and the capacity of each queue. *)
SchedTypeOK ==
    /\ queues \in [Priority -> Seq(Item)]
    /\ \A p \in Priority : Len(queues[p]) <= MaxQueueSize
    /\ running \in BOOLEAN
    /\ processorTask \in Proc \cup {None}
    /\ pc \in [Proc -> PC]
    /\ sel \in [Proc -> Priority]
    /\ hand \in [Proc -> Item \cup {None}]
    /\ cancel \in [Proc -> BOOLEAN]
    /\ stopping \in [Stopper -> Proc \cup {None}]
    /\ handled \subseteq Item
    /\ lost \subseteq Item
    /\ overtaken \in [Item -> Nat]

(* However start() and stop() calls interleave, the scheduler never has two  *)
(* live processors: the only task that may be live is _processor_task, so    *)
(* events are delivered one at a time.                                       *)
OneLiveProcessor ==
    \A t \in Proc : Live(t) => t = processorTask

(* The queue that get_next() selected still has an item when the inner task  *)
(* of wait_for() runs, so the take never runs into its timeout: nothing else *)
(* removes items, because there is one processor.                            *)
SelectionStands ==
    \A t \in Proc : pc[t] = "take" => queues[sel[t]] # <<>>

(* Strict priority holds up to one stale selection: while an item waits in   *)
(* its queue, at most one item of a lower priority is taken before it.       *)
OvertakenAtMostOnce ==
    \A i \in Item : overtaken[i] <= 1

(* An accepted event is in one place only: it is never both queued and       *)
(* delivered, nor delivered twice, nor delivered after having been lost.     *)
DeliveredOnce ==
    /\ Queued \cap (InHand \cup handled \cup lost) = {}
    /\ InHand \cap (handled \cup lost) = {}
    /\ handled \cap lost = {}
    /\ \A p, q \in Priority :
         \A m \in 1..Len(queues[p]), n \in 1..Len(queues[q]) :
           queues[p][m] = queues[q][n] => p = q /\ m = n

(* The queue that a task has selected and not yet taken from. *)
Selected == {sel[t] : t \in {u \in Proc : pc[u] = "take"}}

Channel == INSTANCE PriorityChannel
           WITH line <- queues, choice <- Selected, serving <- InHand,
                served <- handled, dropped <- lost

(* Whatever its tasks do, whoever starts and stops it, the scheduler is a    *)
(* priority channel with one server: arrivals, choices, services,            *)
(* completions and drops happen as PriorityChannel allows and every other    *)
(* step is invisible.                                                        *)
ImplementsChannel == Channel!Spec

(* An event leaves the scheduler undelivered only while a stop() is awaiting *)
(* the processor that held it.                                               *)
LostOnlyToStop ==
    [][~(lost' \subseteq lost) =>
         \E s \in Stopper : stopping[s] # None /\ hand[stopping[s]] # None]_schedVars

=============================================================================
