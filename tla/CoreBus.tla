------------------------------ MODULE CoreBus ------------------------------
(***************************************************************************)
(* The event plane: CoreBus of core/bus.py composed with the scheduler and *)
(* the admission rules.  publish() runs from its first line to the put in  *)
(* the scheduler's queue without giving up the event loop, and waits only  *)
(* when that queue is full.  The scheduler's processor hands each item to  *)
(* _deliver_to_subscribers(), which awaits the callbacks one by one; a     *)
(* callback may itself publish.                                            *)
(***************************************************************************)
EXTENDS PriorityScheduler, TrustEnforcer

CONSTANTS Event,        (* the events that modules publish                       *)
          Recurring,    (* those of which another may follow when one is through *)
          ViolationOf,  (* the security.violation item about a rejected event    *)
          Source,       (* event.source                                          *)
          Emitter,      (* authenticated_emitter of the publish() call           *)
          Validator,    (* what the schema registry holds for an item's type and *)
                        (* says of its payload: "none", "accepts", "rejects"     *)
          Heavy,        (* events with a payload the blob manager may refuse     *)
          Subscriber,   (* callbacks                                             *)
          Subscribers,  (* the callbacks registered for an item's type, in order *)
          Reaction,     (* the event a callback publishes when it runs, or None  *)
          Registered,   (* the trust levels of the modules registered at start   *)
          Registration  (* the register_module() calls that may come: <<m, l>>   *)

ASSUME BusConstants ==
    /\ Event \subseteq Item
    /\ Recurring \subseteq Event
    /\ None \notin Event
    /\ ViolationOf \in [Event -> Item \ Event]
    /\ \A e \in Event : PrioOf[ViolationOf[e]] = 0
    /\ \A e, f \in Event : ViolationOf[e] = ViolationOf[f] => e = f
    /\ Source \in [Event -> Module]
    /\ Emitter \in [Event -> Module \cup {Unnamed}]
    /\ Validator \in [Item -> {"none", "accepts", "rejects"}]
    /\ Heavy \subseteq Event
    /\ Subscribers \in [Item -> Seq(Subscriber)]
    /\ Reaction \in [Subscriber -> Event \cup {None}]
    /\ DOMAIN Registered \subseteq Module
    /\ \A m \in DOMAIN Registered : Registered[m] \in TrustLevel
    /\ Registration \subseteq Module \X TrustLevel

VARIABLES
    outcome,  (* what publish() made of an event: "new", "accepted", "rejected", *)
              (* "raised" when the report of the rejection was itself rejected,  *)
              (* "abandoned" when it was cancelled while it waited for room      *)
    pending,  (* the item a publish() call is waiting to put, or None             *)
    cursor,   (* how many callbacks a processor has started for its item          *)
    waits,    (* the event whose put the callback in progress waits for, or None  *)
    got       (* ghost: how often each callback was called with an item           *)

Outcome == {"new", "accepted", "rejected", "raised", "abandoned"}

busVars == <<manifests, outcome, pending, cursor, waits, got>>
vars == <<schedVars, busVars>>

Init ==
    /\ SchedInit
    /\ manifests = Registered
    /\ outcome = [e \in Event |-> "new"]
    /\ pending = [e \in Event |-> None]
    /\ cursor = [t \in Proc |-> 0]
    /\ waits = [t \in Proc |-> None]
    /\ got = [s \in Subscriber |-> [i \in Item |-> 0]]

----------------------------------------------------------------------------

(* replace_large_payloads() may raise PermissionError for a heavy payload;   *)
(* which one depends on the quota, which BlobManager keeps.                  *)
Accepts(e, refused) ==
    /\ SchemaOK(Validator[e])
    /\ ValidateEvent(Source[e], Emitter[e], PrioOf[e])
    /\ ~refused

(* Mutant: a payload that is refused is not reported. *)
ToPutSilently(e, refused) ==
    IF Accepts(e, refused) THEN e
    ELSE IF ~refused /\ ViolationPasses(Validator[ViolationOf[e]]) THEN ViolationOf[e]
    ELSE None

(* How publish() ends.  A violation that is itself rejected is reported by   *)
(* another one, without end, until Python raises RecursionError.             *)
Verdict(e, refused) ==
    IF Accepts(e, refused) THEN "accepted"
    ELSE IF ViolationPasses(Validator[ViolationOf[e]]) THEN "rejected"
    ELSE "raised"

(* What a publish() call leaves to put: the event, the violation that its    *)
(* rejection publishes, or nothing.                                          *)
ToPut(e, refused) ==
    IF Accepts(e, refused) THEN e
    ELSE IF ViolationPasses(Validator[ViolationOf[e]]) THEN ViolationOf[e]
    ELSE None

(* Mutant: a full queue drops the event. *)
PublishOrDrop(e, refused) ==
    /\ outcome[e] = "new"
    /\ refused => e \in Heavy
    /\ outcome' = [outcome EXCEPT ![e] = Verdict(e, refused)]
    /\ LET i == ToPut(e, refused)
       IN  \/ i # None /\ Enqueue(i)
           \/ i # None /\ ~HasRoom(i) /\ UNCHANGED schedVars
           \/ i = None /\ UNCHANGED schedVars
    /\ UNCHANGED pending

(* publish(e) up to its put, which waits if the queue is full. *)
Publish(e, refused) ==
    /\ outcome[e] = "new"
    /\ refused => e \in Heavy
    /\ outcome' = [outcome EXCEPT ![e] = Verdict(e, refused)]
    /\ LET i == ToPut(e, refused)
       IN  \/ /\ i # None
              /\ Enqueue(i)
              /\ UNCHANGED pending
           \/ /\ i # None
              /\ ~HasRoom(i)
              /\ pending' = [pending EXCEPT ![e] = i]
              /\ UNCHANGED schedVars
           \/ /\ i = None
              /\ UNCHANGED <<schedVars, pending>>

Reactions == {Reaction[s] : s \in Subscriber} \ {None}

(* A module publishes. *)
ModulePublishes(e) ==
    /\ e \notin Reactions
    /\ \E refused \in BOOLEAN : Publish(e, refused)
    /\ UNCHANGED <<manifests, cursor, waits, got>>

(* An event of the same shape may follow, when all of e is through. *)
RenewEvent(e) ==
    /\ outcome[e] # "new"
    /\ pending[e] = None
    /\ Renew({e, ViolationOf[e]})
    /\ outcome' = [outcome EXCEPT ![e] = "new"]
    /\ got' = [s \in Subscriber |->
                 [i \in Item |-> IF i \in {e, ViolationOf[e]} THEN 0 ELSE got[s][i]]]
    /\ UNCHANGED <<manifests, pending, cursor, waits>>

(* A waiting put goes through. *)
PutResumes(e) ==
    /\ pending[e] # None
    /\ Enqueue(pending[e])
    /\ pending' = [pending EXCEPT ![e] = None]
    /\ waits' = [t \in Proc |-> IF waits[t] = e THEN None ELSE waits[t]]
    /\ UNCHANGED <<manifests, outcome, cursor, got>>

(* kernel.register_module(), as far as the enforcer is concerned. *)
Register(m, level) ==
    /\ <<m, level>> \in Registration
    /\ RegisterModule(m, level)
    /\ UNCHANGED <<schedVars, outcome, pending, cursor, waits, got>>

----------------------------------------------------------------------------

BusStart == StartProcessor /\ UNCHANGED busVars

(* Between the take of an item and its first callback only the inner task of *)
(* wait_for() gives way; a stop() there is swallowed as one before the take. *)
BusStop(s) ==
    /\ \A t \in Proc : pc[t] = "deliver" => cursor[t] > 0
    /\ Stop(s)
    /\ UNCHANGED busVars

BusStopReturns(s) == StopReturns(s) /\ UNCHANGED busVars

BusBegin(t) == (Begin(t) \/ Wake(t)) /\ UNCHANGED busVars

BusTake(t) ==
    /\ Take(t)
    /\ cursor' = [cursor EXCEPT ![t] = 0]
    /\ UNCHANGED <<manifests, outcome, pending, waits, got>>

Callbacks(t) == Subscribers[hand[t]]

(* The next callback is called.  It may publish its reaction, and then waits *)
(* like any publisher.  Whether it returns or raises, the loop goes on.      *)
Invoke(t) ==
    /\ pc[t] = "deliver"
    /\ ~cancel[t]
    /\ waits[t] = None
    /\ cursor[t] < Len(Callbacks(t))
    /\ cursor' = [cursor EXCEPT ![t] = @ + 1]
    /\ LET s == Callbacks(t)[cursor[t] + 1]
           r == Reaction[s]
       IN  /\ got' = [got EXCEPT ![s][hand[t]] = @ + 1]
           /\ \/ /\ r # None
                 /\ \E refused \in BOOLEAN : Publish(r, refused)
                 /\ waits' = [waits EXCEPT ![t] = IF pending'[r] = None THEN None ELSE r]
              \/ /\ r # None => outcome[r] # "new"
                 /\ UNCHANGED <<schedVars, outcome, pending, waits>>
    /\ UNCHANGED manifests

(* Mutant: an exception in a callback ends the delivery. *)
FinishOnException(t) ==
    /\ ~cancel[t]
    /\ waits[t] = None
    /\ pc[t] = "deliver" /\ Callbacks(t) # <<>> => cursor[t] > 0
    /\ Finish(t)
    /\ UNCHANGED busVars

(* _deliver_to_subscribers() returns after the last callback. *)
BusFinish(t) ==
    /\ ~cancel[t]
    /\ waits[t] = None
    /\ pc[t] = "deliver" => cursor[t] = Len(Callbacks(t))
    /\ Finish(t)
    /\ UNCHANGED busVars

(* A cancellation is raised in the callback in progress, which does not      *)
(* catch it; a put that the callback waits for is abandoned.                 *)
BusCancelled(t) ==
    /\ Cancelled(t)
    /\ pending' = [e \in Event |-> IF waits[t] = e THEN None ELSE pending[e]]
    /\ outcome' = [e \in Event |-> IF waits[t] = e THEN "abandoned" ELSE outcome[e]]
    /\ waits' = [waits EXCEPT ![t] = None]
    /\ UNCHANGED <<manifests, cursor, got>>

BusStep(t) ==
    \/ BusBegin(t)
    \/ BusTake(t)
    \/ Invoke(t)
    \/ BusFinish(t)
    \/ BusCancelled(t)

PlaneStep ==
    \/ \E e \in Event : ModulePublishes(e) \/ PutResumes(e)
    \/ \E m \in Module, level \in TrustLevel : Register(m, level)
    \/ BusStart
    \/ \E s \in Stopper : BusStop(s) \/ BusStopReturns(s)
    \/ \E t \in Proc : BusStep(t)

Next == PlaneStep \/ \E e \in Recurring : RenewEvent(e)

Spec == Init /\ [][Next]_vars

(* The event loop runs every ready coroutine: a processor that can step      *)
(* does, a put resumes when its queue has room, stop() returns when its task *)
(* has ended.  That a callback gives the loop back and is resumed is an      *)
(* assumption on the modules.  Nobody is obliged to publish, start or stop.  *)
Fairness ==
    /\ \A t \in Proc : WF_vars(BusStep(t))
    /\ \A e \in Event : WF_vars(PutResumes(e))
    /\ \A s \in Stopper : WF_vars(BusStopReturns(s))

FairSpec == Spec /\ Fairness

----------------------------------------------------------------------------

(* The types of the bus's variables and of those it is built on. *)
TypeOK ==
    /\ SchedTypeOK
    /\ TrustTypeOK
    /\ outcome \in [Event -> Outcome]
    /\ pending \in [Event -> Item \cup {None}]
    /\ cursor \in [Proc -> Nat]
    /\ waits \in [Proc -> Event \cup {None}]
    /\ got \in [Subscriber -> [Item -> Nat]]

(* A rejected event is never delivered, and its rejection is always heard:   *)
(* the violation about it is waiting for room, queued or delivered.          *)
RejectionsReported ==
    \A e \in Event : outcome[e] \in {"rejected", "raised"} =>
        /\ e \notin Accepted
        /\ ViolationOf[e] \in Accepted \/ pending[e] = ViolationOf[e]

(* A callback that raises, waits or publishes does not keep an event from    *)
(* the others: an event that counts as delivered reached every callback      *)
(* registered for its type, and none of them twice.                          *)
DeliveredToAll ==
    /\ \A i \in handled : \A n \in 1..Len(Subscribers[i]) : got[Subscribers[i][n]][i] > 0
    /\ \A s \in Subscriber, i \in Item : got[s][i] <= 1

(* An accepted event is never forgotten: it waits for room, is queued, is in *)
(* delivery, was delivered, or was dropped with its processor.               *)
NothingForgotten ==
    \A e \in Event : outcome[e] = "accepted" => e \in Accepted \/ pending[e] = e

(* A callback that waits for room waits for its own processor, the only      *)
(* taker: the queue stays full for as long as it waits.                      *)
WaitsOnItself ==
    \A t \in Proc : waits[t] # None => ~HasRoom(pending[waits[t]])

SelfBlocked == \E t \in Proc : waits[t] # None

(* An item of a better priority than i's is put. *)
BetterArrives(i) ==
    \E j \in Item : PrioOf[j] < PrioOf[i] /\ j \notin Queued /\ j \in Queued'

(* No item stays in its queue for ever, unless better ones keep coming:      *)
(* priority is strict and nothing ages, so P0 and P1 traffic that never ends *)
(* starves P2 (scheduler.py:113-123).  Nor does it hold when no processor is *)
(* left to take it, or the processor waits on itself.                        *)
QueuedIsTaken ==
    \A i \in Item :
        \/ []<><<BetterArrives(i)>>_schedVars
        \/ []<>(i \notin Queued \/ SelfBlocked \/ \A t \in Proc : ~Live(t))

(* stop() returns even when wait_for() swallowed its cancellation, because    *)
(* _running is down when the delivery ends.  The exception is a processor that *)
(* waits on itself after the cancellation was swallowed: stop() then hangs.    *)
StopTerminates ==
    \A s \in Stopper : stopping[s] # None ~> stopping[s] = None \/ SelfBlocked

(* publish() returns while there is a processor: a full queue never holds    *)
(* its caller for good (enqueue() documents that a full queue drops the      *)
(* event and returns False).                                                 *)
PublishersReturn ==
    \A e \in Event :
        pending[e] # None ~> \/ pending[e] = None
                             \/ \A t \in Proc : ~Live(t)

=============================================================================
