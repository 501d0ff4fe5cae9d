--------------------------- MODULE CoreBus_proofs ---------------------------
(***************************************************************************)
(* Proofs about the event plane: the composed system drives the scheduler  *)
(* only through its own steps, so what is proved of the scheduler holds    *)
(* in it, and no publication is forgotten or left without a report.        *)
(***************************************************************************)
EXTENDS CoreBus, PriorityScheduler_proofs

USE SchedulerConstants, BusConstants, TrustConstants
    DEF SchedulerConstants, BusConstants, TrustConstants

BusTypeOK ==
    /\ TrustTypeOK
    /\ outcome \in [Event -> Outcome]
    /\ pending \in [Event -> Item \cup {None}]
    /\ cursor \in [Proc -> Nat]
    /\ waits \in [Proc -> Event \cup {None}]
    /\ got \in [Subscriber -> [Item -> Nat]]

BusInv == TypeInv /\ BusTypeOK

(* What a publication puts is the event or the violation about it, as it     *)
(* ends.                                                                     *)
LEMMA ToPutType ==
    ASSUME NEW e \in Event, NEW refused \in BOOLEAN
    PROVE  /\ ToPut(e, refused) \in Item \cup {None}
           /\ \/ ToPut(e, refused) = e /\ Verdict(e, refused) = "accepted"
              \/ ToPut(e, refused) = ViolationOf[e] /\ Verdict(e, refused) = "rejected"
              \/ ToPut(e, refused) = None /\ Verdict(e, refused) = "raised"
           /\ Verdict(e, refused) \in Outcome \ {"new", "abandoned"}
  BY DEF ToPut, Verdict, Outcome

LEMMA PublishType ==
    ASSUME BusTypeOK, NEW e \in Event, NEW refused \in BOOLEAN, Publish(e, refused)
    PROVE  /\ outcome' \in [Event -> Outcome]
           /\ pending' \in [Event -> Item \cup {None}]
           /\ UNCHANGED schedVars \/ \E i \in Item : Enqueue(i)
<1>1. outcome' \in [Event -> Outcome]
  BY ToPutType DEF Publish, BusTypeOK
<1>2. pending' \in [Event -> Item \cup {None}]
  <2>1. ToPut(e, refused) \in Item \cup {None}
    BY ToPutType
  <2>2. pending' = pending \/ pending' = [pending EXCEPT ![e] = ToPut(e, refused)]
    BY DEF Publish
  <2>3. pending \in [Event -> Item \cup {None}]
    BY DEF BusTypeOK
  <2> HIDE SchedulerConstants, BusConstants, TrustConstants
  <2>4. CASE pending' = pending
    BY <2>3, <2>4
  <2>5. CASE pending' = [pending EXCEPT ![e] = ToPut(e, refused)]
    BY <2>1, <2>3, <2>5
  <2>6. QED
    BY <2>2, <2>4, <2>5
<1>3. UNCHANGED schedVars \/ \E i \in Item : Enqueue(i)
  BY ToPutType DEF Publish
<1>4. QED
  BY <1>1, <1>2, <1>3

(* The callback that is called next is one of the registered ones. *)
LEMMA NextCallback ==
    ASSUME TypeInv, BusTypeOK, NEW t \in Proc, Invoke(t)
    PROVE  hand[t] \in Item /\ Callbacks(t)[cursor[t] + 1] \in Subscriber
<1>1. hand[t] \in Item
  BY DEF Invoke, TypeInv, SchedTypeOK, HandInDelivery
<1>2. Callbacks(t) \in Seq(Subscriber)
  BY <1>1 DEF Callbacks
<1>3. cursor[t] + 1 \in 1..Len(Callbacks(t))
  BY <1>2, LenProperties DEF Invoke, BusTypeOK
<1>4. QED
  BY <1>1, <1>2, <1>3, ElementOfSeq

(* Every step of the event plane is a step of the scheduler or leaves it     *)
(* alone.                                                                    *)
LEMMA PlaneSteps == BusInv /\ [PlaneStep]_vars => [SchedStep]_schedVars
<1> SUFFICES ASSUME TypeInv, BusTypeOK, [PlaneStep]_vars PROVE [SchedStep]_schedVars
  BY DEF BusInv
<1>1. ASSUME NEW e \in Event, ModulePublishes(e) PROVE [SchedStep]_schedVars
  BY <1>1, PublishType DEF ModulePublishes, SchedStep
<1>2. ASSUME NEW e \in Event, PutResumes(e) PROVE [SchedStep]_schedVars
  BY <1>2 DEF PutResumes, SchedStep, BusTypeOK
<1>3. ASSUME NEW t \in Proc, Invoke(t) PROVE [SchedStep]_schedVars
  <2>1. CASE UNCHANGED schedVars
    BY <2>1
  <2>2. ASSUME NEW r \in Event, NEW refused \in BOOLEAN, Publish(r, refused)
        PROVE [SchedStep]_schedVars
    BY <2>2, PublishType DEF SchedStep
  <2>3. Callbacks(t)[cursor[t] + 1] \in Subscriber
    BY <1>3, NextCallback
  <2>4. QED
    BY <1>3, <2>1, <2>2, <2>3 DEF Invoke
<1>4. ASSUME NEW t \in Proc, BusBegin(t) \/ BusTake(t) \/ BusFinish(t) \/ BusCancelled(t)
      PROVE [SchedStep]_schedVars
  BY <1>4 DEF BusBegin, BusTake, BusFinish, BusCancelled, SchedStep, ProcessorStep
<1>5. CASE BusStart
  BY <1>5 DEF BusStart, SchedStep
<1>6. ASSUME NEW s \in Stopper, BusStop(s) \/ BusStopReturns(s) PROVE [SchedStep]_schedVars
  BY <1>6 DEF BusStop, BusStopReturns, SchedStep
<1>7. ASSUME NEW m \in Module, NEW level \in TrustLevel, Register(m, level)
      PROVE [SchedStep]_schedVars
  BY <1>7 DEF Register
<1>8. CASE UNCHANGED vars
  BY <1>8 DEF vars
<1>9. QED
  BY <1>1, <1>2, <1>3, <1>4, <1>5, <1>6, <1>7, <1>8 DEF PlaneStep, BusStep

LEMMA RenewStep ==
    ASSUME NEW e \in Recurring, RenewEvent(e)
    PROVE  \E S \in SUBSET Item : S = {e, ViolationOf[e]} /\ Renew(S)
  BY DEF RenewEvent

LEMMA StepsOfScheduler == BusInv /\ [Next]_vars => [SchedNext]_schedVars
  BY PlaneSteps, RenewStep DEF Next, SchedNext

LEMMA BusInvInit == Init => BusInv
<1> SUFFICES ASSUME Init PROVE BusInv
  OBVIOUS
<1>1. TypeInv
  BY TypeInvInit DEF Init
<1>2. got \in [Subscriber -> [Item -> Nat]]
  BY DEF Init
<1>3. BusTypeOK
  BY <1>2 DEF Init, BusTypeOK, TrustTypeOK, Outcome
<1>4. QED
  BY <1>1, <1>3 DEF BusInv

LEMMA BusInvNext == BusInv /\ [Next]_vars => BusInv'
<1> SUFFICES ASSUME TypeInv, BusTypeOK, BusInv, [Next]_vars PROVE BusInv'
  BY DEF BusInv
<1>0. TypeInv'
  BY StepsOfScheduler, TypeInvNext
<1> SUFFICES BusTypeOK'
  BY <1>0 DEF BusInv
<1>1. ASSUME NEW e \in Event, ModulePublishes(e) PROVE BusTypeOK'
  BY <1>1, PublishType DEF ModulePublishes, BusTypeOK, TrustTypeOK
<1>2. ASSUME NEW e \in Event, PutResumes(e) PROVE BusTypeOK'
  BY <1>2 DEF PutResumes, BusTypeOK, TrustTypeOK
<1>3. ASSUME NEW t \in Proc, Invoke(t) PROVE BusTypeOK'
  <2>1. hand[t] \in Item
    BY <1>3, NextCallback
  <2>2. Callbacks(t)[cursor[t] + 1] \in Subscriber
    BY <1>3, NextCallback
  <2>3. got' \in [Subscriber -> [Item -> Nat]]
    BY <1>3, <2>1, <2>2 DEF Invoke, BusTypeOK
  <2>4. cursor' \in [Proc -> Nat]
    BY <1>3 DEF Invoke, BusTypeOK
  <2>5. /\ outcome' \in [Event -> Outcome]
        /\ pending' \in [Event -> Item \cup {None}]
        /\ waits' \in [Proc -> Event \cup {None}]
    <3> DEFINE r == Reaction[Callbacks(t)[cursor[t] + 1]]
    <3>1. CASE UNCHANGED <<outcome, pending, waits>>
      BY <3>1 DEF BusTypeOK
    <3>2. CASE /\ r # None
               /\ \E refused \in BOOLEAN : Publish(r, refused)
               /\ waits' = [waits EXCEPT ![t] = IF pending'[r] = None THEN None ELSE r]
      <4>1. r \in Event
        BY <2>2, <3>2
      <4>2. QED
        BY <3>2, <4>1, PublishType DEF BusTypeOK
    <3>3. QED
      BY <1>3, <3>1, <3>2 DEF Invoke
  <2>6. TrustTypeOK'
    BY <1>3 DEF Invoke, BusTypeOK, TrustTypeOK
  <2>7. QED
    BY <2>3, <2>4, <2>5, <2>6 DEF BusTypeOK
<1>4. ASSUME NEW t \in Proc, BusBegin(t) \/ BusTake(t) \/ BusFinish(t) \/ BusCancelled(t)
      PROVE BusTypeOK'
  <2>1. CASE BusBegin(t) \/ BusFinish(t)
    BY <2>1 DEF BusBegin, BusFinish, busVars, BusTypeOK, TrustTypeOK
  <2>2. CASE BusTake(t)
    BY <2>2 DEF BusTake, BusTypeOK, TrustTypeOK
  <2>3. CASE BusCancelled(t)
    <3>1. /\ outcome' \in [Event -> Outcome]
          /\ pending' \in [Event -> Item \cup {None}]
          /\ waits' \in [Proc -> Event \cup {None}]
      BY <2>3 DEF BusCancelled, BusTypeOK, Outcome
    <3>2. QED
      BY <2>3, <3>1 DEF BusCancelled, BusTypeOK, TrustTypeOK
  <2>4. QED
    BY <1>4, <2>1, <2>2, <2>3
<1>5. CASE BusStart
  BY <1>5 DEF BusStart, busVars, BusTypeOK, TrustTypeOK
<1>6. ASSUME NEW s \in Stopper, BusStop(s) \/ BusStopReturns(s) PROVE BusTypeOK'
  BY <1>6 DEF BusStop, BusStopReturns, busVars, BusTypeOK, TrustTypeOK
<1>7. ASSUME NEW m \in Module, NEW level \in TrustLevel, Register(m, level)
      PROVE BusTypeOK'
  BY <1>7 DEF Register, RegisterModule, BusTypeOK, TrustTypeOK
<1>8. CASE UNCHANGED vars
  BY <1>8 DEF vars, busVars, BusTypeOK, TrustTypeOK
<1>9. ASSUME NEW e \in Event, RenewEvent(e) PROVE BusTypeOK'
  BY <1>9 DEF RenewEvent, BusTypeOK, TrustTypeOK, Outcome
<1>10. QED
  BY <1>1, <1>2, <1>3, <1>4, <1>5, <1>6, <1>7, <1>8, <1>9 DEF Next, PlaneStep, BusStep

(* The types of the event plane. *)
THEOREM BusTypeCorrect == Spec => []TypeOK
<1>1. BusInv => TypeOK
  BY DEF BusInv, TypeInv, BusTypeOK, TypeOK
<1>2. QED
  BY <1>1, BusInvInit, BusInvNext, PTL DEF Spec

(* The event plane, with its publishers that wait and its callbacks that     *)
(* publish, uses the scheduler only through the scheduler's own steps.       *)
THEOREM BusRefinesScheduler == Spec => SchedSpec
<1>1. Init => SchedInit
  BY DEF Init
<1>2. QED
  BY <1>1, BusInvInit, BusInvNext, StepsOfScheduler, PTL DEF Spec, SchedSpec

(* Hence events are delivered in the order of their priorities, but for one  *)
(* stale selection, by one processor, once at most.                          *)
THEOREM BusDeliversInOrder == Spec => [](OneLiveProcessor /\ OvertakenAtMostOnce /\ DeliveredOnce)
  BY BusRefinesScheduler, OneProcessor, StrictPriorityButForOne, DeliveredAtMostOnce, PTL

(* With its callbacks and its waiting publishers, the event plane is a       *)
(* priority channel with one server.                                         *)
THEOREM BusIsChannel == Spec => ImplementsChannel
  BY BusRefinesScheduler, SchedulerIsChannel

----------------------------------------------------------------------------

(* A callback that waits: its event has been published, and the queue that   *)
(* the put waits for is full; a new event waits for nothing.                 *)
WaitInv ==
    /\ \A t \in Proc : waits[t] # None =>
         /\ pc[t] = "deliver"
         /\ outcome[waits[t]] # "new"
         /\ pending[waits[t]] \in Item
         /\ ~HasRoom(pending[waits[t]])
    /\ \A e \in Event : outcome[e] = "new" => pending[e] = None

LEMMA WaitInvInit == Init => WaitInv
  BY DEF Init, WaitInv

(* A put makes room nowhere. *)
LEMMA FullStaysFull ==
    ASSUME SchedTypeOK, UNCHANGED queues \/ \E j \in Item : Enqueue(j)
    PROVE  \A i \in Item : ~HasRoom(i) => ~HasRoom(i)'
<1> SUFFICES ASSUME NEW i \in Item, ~HasRoom(i) PROVE ~HasRoom(i)'
  OBVIOUS
<1>1. CASE UNCHANGED queues
  BY <1>1 DEF HasRoom
<1>2. ASSUME NEW j \in Item, Enqueue(j) PROVE ~HasRoom(i)'
  <2>1. CASE PrioOf[i] = PrioOf[j]
    BY <1>2, <2>1 DEF Enqueue, HasRoom
  <2>2. CASE PrioOf[i] # PrioOf[j]
    BY <1>2, <2>2, EnqueueQueued DEF HasRoom
  <2>3. QED
    BY <2>1, <2>2
<1>3. QED
  BY <1>1, <1>2

LEMMA WaitInvNext == BusInv /\ OneLiveProcessor /\ WaitInv /\ [Next]_vars => WaitInv'
<1> SUFFICES ASSUME BusInv, OneLiveProcessor, WaitInv, [Next]_vars PROVE WaitInv'
  OBVIOUS
<1>t. /\ SchedTypeOK
      /\ outcome \in [Event -> Outcome]
      /\ pending \in [Event -> Item \cup {None}]
      /\ waits \in [Proc -> Event \cup {None}]
      /\ pc \in [Proc -> PC]
  BY DEF BusInv, TypeInv, BusTypeOK, SchedTypeOK
<1>w. ASSUME NEW t \in Proc, waits[t] # None
      PROVE  /\ waits[t] \in Event
             /\ pc[t] = "deliver"
             /\ outcome[waits[t]] # "new"
             /\ pending[waits[t]] \in Item
             /\ ~HasRoom(pending[waits[t]])
  BY <1>t, <1>w DEF WaitInv
<1>n. \A e \in Event : outcome[e] = "new" => pending[e] = None
  BY DEF WaitInv
<1>a. ASSUME UNCHANGED <<queues, outcome, pending, waits>>,
             \A t \in Proc : pc[t] = "deliver" => pc'[t] = "deliver"
      PROVE  WaitInv'
  BY <1>a, <1>w, <1>n DEF WaitInv, HasRoom
<1>b. ASSUME NEW e \in Event, NEW refused \in BOOLEAN, Publish(e, refused)
      PROVE  /\ \A f \in Event : outcome'[f] = "new" => pending'[f] = None
             /\ \A f \in Event : outcome[f] # "new" =>
                  outcome'[f] # "new" /\ pending'[f] = pending[f]
             /\ outcome'[e] # "new"
             /\ pending'[e] # None => pending'[e] \in Item /\ ~HasRoom(pending[e])'
             /\ \A i \in Item : ~HasRoom(i) => ~HasRoom(i)'
             /\ pc' = pc
  <2>1. PICK i \in Item \cup {None} : i = ToPut(e, refused)
    BY ToPutType
  <2>2. /\ outcome[e] = "new"
        /\ outcome' = [outcome EXCEPT ![e] = Verdict(e, refused)]
    BY <1>b DEF Publish
  <2>o. Verdict(e, refused) \in Outcome \ {"new", "abandoned"}
    BY ToPutType
  <2>3. \/ i # None /\ Enqueue(i) /\ pending' = pending
        \/ /\ i # None
           /\ ~HasRoom(i)
           /\ pending' = [pending EXCEPT ![e] = i]
           /\ UNCHANGED schedVars
        \/ UNCHANGED <<schedVars, pending>>
    BY <1>b, <2>1 DEF Publish
  <2>4. UNCHANGED queues \/ \E j \in Item : Enqueue(j)
    BY <2>3 DEF schedVars
  <2>5. pc' = pc
    BY <2>3 DEF schedVars, Enqueue
  <2>6. \A j \in Item : ~HasRoom(j) => ~HasRoom(j)'
    BY <1>t, <2>4, FullStaysFull
  <2>7. outcome'[e] # "new" /\ \A f \in Event \ {e} : outcome'[f] = outcome[f]
    BY <1>t, <2>2, <2>o
  <2>8. \A f \in Event \ {e} : pending'[f] = pending[f]
    BY <1>t, <2>3
  <2>9. pending'[e] # None => pending'[e] \in Item /\ ~HasRoom(pending[e])'
    <3>1. pending[e] = None
      BY <1>n, <2>2
    <3>2. pending'[e] # None => i \in Item /\ pending'[e] = i /\ ~HasRoom(i)
      BY <1>t, <2>3, <3>1
    <3>3. QED
      BY <2>6, <3>2 DEF HasRoom
  <2>10. QED
    BY <1>n, <2>2, <2>5, <2>6, <2>7, <2>8, <2>9
<1>c. ASSUME NEW e \in Event, NEW refused \in BOOLEAN, Publish(e, refused),
             NEW t \in Proc, pc[t] = "deliver",
             waits' = waits \/ waits' = [waits EXCEPT ![t] = IF pending'[e] = None THEN None ELSE e]
      PROVE  WaitInv'
  <2> SUFFICES ASSUME NEW u \in Proc, waits'[u] # None
               PROVE  /\ pc'[u] = "deliver"
                      /\ outcome'[waits'[u]] # "new"
                      /\ pending'[waits'[u]] \in Item
                      /\ ~HasRoom(pending[waits[u]])'
    BY <1>b, <1>c DEF WaitInv
  <2>1. CASE waits'[u] = waits[u]
    <3>1. PICK f \in Event : f = waits[u]
      BY <1>w, <2>1
    <3>2. pending'[f] = pending[f] /\ outcome'[f] # "new" /\ pending[f] \in Item
      BY <1>b, <1>c, <1>w, <2>1, <3>1
    <3>3. PICK i \in Item : i = pending[f]
      BY <3>2
    <3>4. ~HasRoom(i)'
      BY <1>b, <1>c, <1>w, <2>1, <3>1, <3>3
    <3>5. ~HasRoom(pending[waits[u]])'
      BY <2>1, <3>1, <3>2, <3>3, <3>4 DEF HasRoom
    <3>6. QED
      BY <1>b, <1>c, <1>w, <2>1, <3>1, <3>2, <3>5
  <2>2. CASE u = t /\ waits'[u] = e /\ pending'[e] # None
    BY <1>b, <1>c, <2>2 DEF HasRoom
  <2>3. QED
    BY <1>t, <1>c, <2>1, <2>2
<1>d. ASSUME NEW t \in Proc, Live(t), pc[t] # "deliver" \/ waits[t] = None
      PROVE  \A u \in Proc : waits[u] = None
  BY <1>d, <1>w DEF OneLiveProcessor, Live
<1>1. ASSUME NEW e \in Event, ModulePublishes(e) PROVE WaitInv'
  <2>1. PICK refused \in BOOLEAN : Publish(e, refused)
    BY <1>1 DEF ModulePublishes
  <2>2. waits' = waits
    BY <1>1 DEF ModulePublishes
  <2>3. CASE \E t \in Proc : pc[t] = "deliver"
    BY <1>c, <2>1, <2>2, <2>3
  <2>4. CASE \A t \in Proc : pc[t] # "deliver"
    <3>1. \A t \in Proc : waits'[t] = None
      BY <1>w, <2>2, <2>4
    <3>2. QED
      BY <1>b, <2>1, <3>1 DEF WaitInv
  <2>5. QED
    BY <2>3, <2>4
<1>2. ASSUME NEW e \in Event, PutResumes(e) PROVE WaitInv'
  <2>1. /\ pending[e] \in Item
        /\ Enqueue(pending[e])
        /\ pending' = [pending EXCEPT ![e] = None]
        /\ waits' = [t \in Proc |-> IF waits[t] = e THEN None ELSE waits[t]]
        /\ outcome' = outcome
    BY <1>t, <1>2 DEF PutResumes
  <2>2. \A i \in Item : ~HasRoom(i) => ~HasRoom(i)'
    BY <1>t, <2>1, FullStaysFull
  <2>3. \A f \in Event : outcome'[f] = "new" => pending'[f] = None
    BY <1>t, <1>n, <2>1
  <2>4. ASSUME NEW u \in Proc, waits'[u] # None
        PROVE  /\ pc'[u] = "deliver"
               /\ outcome'[waits'[u]] # "new"
               /\ pending'[waits'[u]] \in Item
               /\ ~HasRoom(pending[waits[u]])'
    <3>1. PICK f \in Event : f = waits[u]
      BY <1>w, <2>1, <2>4
    <3>2. waits'[u] = f /\ f # e /\ pending'[f] = pending[f]
      BY <1>t, <2>1, <2>4, <3>1
    <3>3. PICK i \in Item : i = pending[f]
      BY <1>w, <2>1, <2>4, <3>1
    <3>4. ~HasRoom(i)'
      BY <1>w, <2>1, <2>2, <2>4, <3>1, <3>3
    <3>5. pc'[u] = "deliver"
      BY <1>w, <2>1, <2>4 DEF Enqueue
    <3>6. outcome'[f] # "new"
      BY <1>w, <2>1, <2>4, <3>1
    <3>7. ~HasRoom(pending[waits[u]])'
      BY <3>2, <3>3, <3>4 DEF HasRoom
    <3>8. QED
      BY <3>2, <3>3, <3>5, <3>6, <3>7
  <2>5. QED
    BY <2>3, <2>4 DEF WaitInv
<1>3. ASSUME NEW t \in Proc, Invoke(t) PROVE WaitInv'
  <2>1. PICK s \in Subscriber : s = Callbacks(t)[cursor[t] + 1]
    BY <1>3, NextCallback DEF BusInv
  <2>2. pc[t] = "deliver"
    BY <1>3 DEF Invoke
  <2>3. CASE UNCHANGED <<schedVars, outcome, pending, waits>>
    BY <1>a, <2>3 DEF schedVars
  <2>4. CASE /\ Reaction[s] # None
             /\ \E refused \in BOOLEAN : Publish(Reaction[s], refused)
             /\ waits' = [waits EXCEPT ![t] = IF pending'[Reaction[s]] = None THEN None
                                                                        ELSE Reaction[s]]
    <3>1. Reaction[s] \in Event
      BY <2>4
    <3>2. QED
      BY <1>c, <2>2, <2>4, <3>1
  <2>5. QED
    BY <1>3, <2>1, <2>3, <2>4 DEF Invoke
<1>4. ASSUME NEW t \in Proc, BusBegin(t) \/ BusTake(t) \/ BusFinish(t) PROVE WaitInv'
  <2>1. /\ Live(t)
        /\ pc[t] # "deliver" \/ waits[t] = None
        /\ UNCHANGED <<outcome, pending, waits>>
    BY <1>4 DEF BusBegin, BusTake, BusFinish, Begin, Wake, Take, Finish, Live, busVars
  <2>2. \A u \in Proc : waits[u] = None
    BY <1>d, <2>1
  <2>3. QED
    BY <1>n, <2>1, <2>2 DEF WaitInv
<1>5. ASSUME NEW t \in Proc, BusCancelled(t) PROVE WaitInv'
  <2>1. /\ pending' = [e \in Event |-> IF waits[t] = e THEN None ELSE pending[e]]
        /\ outcome' = [e \in Event |-> IF waits[t] = e THEN "abandoned" ELSE outcome[e]]
        /\ waits' = [waits EXCEPT ![t] = None]
        /\ Live(t)
    BY <1>5 DEF BusCancelled, Cancelled, Live
  <2>2. \A u \in Proc : waits'[u] = None
    BY <1>t, <1>w, <2>1 DEF OneLiveProcessor, Live
  <2>3. QED
    BY <1>n, <2>1, <2>2 DEF WaitInv
<1>6. CASE BusStart
  <2>1. UNCHANGED <<queues, outcome, pending, waits>>
    BY <1>6 DEF BusStart, StartProcessor, busVars
  <2>2. \A u \in Proc : pc[u] = "deliver" => pc'[u] = "deliver"
    BY <1>t, <1>6 DEF BusStart, StartProcessor
  <2>3. QED
    BY <1>a, <2>1, <2>2
<1>7. CASE \/ UNCHANGED vars
           \/ \E s \in Stopper : BusStop(s) \/ BusStopReturns(s)
           \/ \E m \in Module, level \in TrustLevel : Register(m, level)
  <2>1. UNCHANGED <<queues, pc, outcome, pending, waits>>
    BY <1>7 DEF BusStop, BusStopReturns, Stop, StopReturns, Register, vars, busVars, schedVars
  <2>2. QED
    BY <1>a, <2>1
<1>8. ASSUME NEW e \in Recurring, RenewEvent(e) PROVE WaitInv'
  <2>1. /\ pending[e] = None
        /\ UNCHANGED <<queues, pc, pending, waits>>
        /\ outcome' = [outcome EXCEPT ![e] = "new"]
    BY <1>8 DEF RenewEvent, Renew
  <2>2. \A t \in Proc : waits[t] # None => waits[t] # e
    BY <1>w, <2>1
  <2>3. QED
    BY <1>t, <1>w, <1>n, <2>1, <2>2 DEF WaitInv, HasRoom
<1>9. QED
  BY <1>1, <1>2, <1>3, <1>4, <1>5, <1>6, <1>7, <1>8 DEF Next, PlaneStep, BusStep

LEMMA WaitInductive == Spec => []WaitInv
<1>1. BusInv /\ OneLiveProcessor /\ WaitInv /\ [Next]_vars => WaitInv'
  BY WaitInvNext
<1>2. Spec => []BusInv
  BY BusInvInit, BusInvNext, PTL DEF Spec
<1>3. Spec => []OneLiveProcessor
  BY BusDeliversInOrder, PTL
<1>4. QED
  BY <1>1, <1>2, <1>3, WaitInvInit, PTL DEF Spec

(* A callback that waits for room in a queue waits for the processor it runs *)
(* in: from the moment its put finds the queue full until the put is         *)
(* abandoned, nobody takes from that queue.                                  *)
THEOREM CallbackWaitsOnItself == Spec => []WaitsOnItself
<1>1. WaitInv => WaitsOnItself
  BY DEF WaitInv, WaitsOnItself
<1>2. QED
  BY <1>1, WaitInductive, PTL

----------------------------------------------------------------------------

(* A publication is in one place, told by how it ended: new, broken off by   *)
(* the recursion of the reports, or abandoned with its processor, neither    *)
(* the event nor a violation about it is in the scheduler; accepted, the     *)
(* event alone is, unless it waits for room; rejected, the violation alone.  *)
Settled(e) ==
    /\ outcome[e] \in {"new", "raised", "abandoned"} =>
         /\ e \notin Accepted
         /\ ViolationOf[e] \notin Accepted
         /\ pending[e] = None
    /\ outcome[e] = "accepted" =>
         /\ ViolationOf[e] \notin Accepted
         /\ \/ e \in Accepted /\ pending[e] = None
            \/ e \notin Accepted /\ pending[e] = e
    /\ outcome[e] = "rejected" =>
         /\ e \notin Accepted
         /\ \/ ViolationOf[e] \in Accepted /\ pending[e] = None
            \/ ViolationOf[e] \notin Accepted /\ pending[e] = ViolationOf[e]

EachInOnePlace == \A e \in Event : Settled(e)

LEMMA OnePlaceInit == Init => EachInOnePlace
<1> SUFFICES ASSUME Init PROVE EachInOnePlace
  OBVIOUS
<1>1. Accepted = {}
  <2>1. \A p \in Priority : Len(queues[p]) = 0
    BY EmptySeq DEF Init, SchedInit
  <2>2. QED
    BY <2>1 DEF Init, SchedInit, Accepted, Queued, InQueue, InHand
<1>2. QED
  BY <1>1 DEF Init, EachInOnePlace, Settled

(* An event whose outcome, wait and places stay as they are stays settled. *)
LEMMA SettledStays ==
    ASSUME EachInOnePlace, NEW e \in Event,
           outcome'[e] = outcome[e], pending'[e] = pending[e],
           e \in Accepted' <=> e \in Accepted,
           ViolationOf[e] \in Accepted' <=> ViolationOf[e] \in Accepted
    PROVE  Settled(e)'
  BY DEF EachInOnePlace, Settled

(* The events and the violations about them are all different. *)
LEMMA ItemsApart ==
    ASSUME NEW e \in Event, NEW f \in Event, f # e, NEW i \in {e, ViolationOf[e], None}
    PROVE  i # f /\ i # ViolationOf[f]
  OBVIOUS

LEMMA OnePlaceNext == BusInv /\ WaitInv /\ EachInOnePlace /\ [Next]_vars => EachInOnePlace'
<1> SUFFICES ASSUME BusInv, WaitInv, EachInOnePlace, [Next]_vars, NEW f \in Event PROVE Settled(f)'
  BY DEF EachInOnePlace
<1>t. /\ SchedTypeOK /\ HandInDelivery
      /\ outcome \in [Event -> Outcome]
      /\ pending \in [Event -> Item \cup {None}]
      /\ waits \in [Proc -> Event \cup {None}]
  BY DEF BusInv, TypeInv, BusTypeOK
<1>s. Settled(f)
  BY DEF EachInOnePlace
<1>a. ASSUME UNCHANGED <<outcome, pending>>, Accepted' = Accepted PROVE Settled(f)'
  BY <1>a, SettledStays
<1>b. ASSUME NEW e \in Event, NEW refused \in BOOLEAN, Publish(e, refused) PROVE Settled(f)'
  <2>1. PICK i \in Item \cup {None} : i = ToPut(e, refused)
    BY ToPutType
  <2>2. PICK o \in Outcome \ {"new", "abandoned"} : o = Verdict(e, refused)
    BY ToPutType
  <2>3. \/ i = e /\ o = "accepted"
        \/ i = ViolationOf[e] /\ o = "rejected"
        \/ i = None /\ o = "raised"
    BY <2>1, <2>2, ToPutType
  <2>4. outcome[e] = "new" /\ outcome' = [outcome EXCEPT ![e] = o]
    BY <1>b, <2>2 DEF Publish
  <2>5. \/ i # None /\ Accepted' = Accepted \cup {i} /\ pending' = pending
        \/ i # None /\ Accepted' = Accepted /\ pending' = [pending EXCEPT ![e] = i]
        \/ i = None /\ Accepted' = Accepted /\ pending' = pending
    <3>1. CASE i # None /\ Enqueue(i) /\ UNCHANGED pending
      BY <1>t, <3>1, EnqueueAccepts
    <3>2. CASE UNCHANGED schedVars
      <4>1. Accepted' = Accepted
        BY <3>2 DEF schedVars, Accepted, Queued, InQueue, InHand
      <4>2. QED
        BY <1>b, <2>1, <3>1, <4>1 DEF Publish
    <3>3. QED
      BY <1>b, <2>1, <3>1, <3>2 DEF Publish
  <2>6. CASE f # e
    <3>1. outcome'[f] = outcome[f] /\ pending'[f] = pending[f]
      BY <1>t, <2>4, <2>5, <2>6
    <3>2. i # f /\ i # ViolationOf[f]
      BY <2>3, <2>6, ItemsApart
    <3>3. QED
      BY <2>5, <3>1, <3>2, SettledStays
  <2>7. CASE f = e
    <3>1. e \notin Accepted /\ ViolationOf[e] \notin Accepted /\ pending[e] = None
      BY <1>s, <2>4, <2>7 DEF Settled
    <3>2. outcome'[e] = o /\ pending'[e] \in {pending[e], i}
      BY <1>t, <2>4, <2>5
    <3>3. e # None /\ ViolationOf[e] # e /\ ViolationOf[e] # None
      OBVIOUS
    <3>4. \/ i # None /\ Accepted' = Accepted \cup {i} /\ pending'[e] = None
          \/ i # None /\ Accepted' = Accepted /\ pending'[e] = i
          \/ i = None /\ Accepted' = Accepted /\ pending'[e] = None
      BY <1>t, <2>5, <3>1
    <3>5. QED
      BY <2>3, <2>7, <3>1, <3>2, <3>3, <3>4 DEF Settled
  <2>8. QED
    BY <2>6, <2>7
<1>1. ASSUME NEW e \in Event, ModulePublishes(e) PROVE Settled(f)'
  BY <1>1, <1>b DEF ModulePublishes
<1>2. ASSUME NEW e \in Event, PutResumes(e) PROVE Settled(f)'
  <2>1. PICK i \in Item : i = pending[e]
    BY <1>t, <1>2 DEF PutResumes
  <2>2. /\ Accepted' = Accepted \cup {i}
        /\ outcome' = outcome
        /\ pending' = [pending EXCEPT ![e] = None]
    BY <1>t, <1>2, <2>1, EnqueueAccepts DEF PutResumes
  <2>3. Settled(e) /\ outcome[e] \in Outcome
    BY <1>t DEF EachInOnePlace
  <2>4. /\ i \in {e, ViolationOf[e]}
        /\ i = e => outcome[e] = "accepted"
        /\ i = ViolationOf[e] => outcome[e] = "rejected"
    <3>1. e # ViolationOf[e]
      OBVIOUS
    <3>2. i # None
      OBVIOUS
    <3>3. QED
      BY <2>1, <2>3, <3>1, <3>2 DEF Settled, Outcome
  <2>5. CASE f # e
    <3>1. i # f /\ i # ViolationOf[f]
      BY <2>4, <2>5, ItemsApart
    <3>2. outcome'[f] = outcome[f] /\ pending'[f] = pending[f]
      BY <1>t, <2>2, <2>5
    <3>3. QED
      BY <2>2, <3>1, <3>2, SettledStays
  <2>6. CASE f = e
    <3>1. outcome'[e] = outcome[e] /\ pending'[e] = None /\ e # ViolationOf[e]
      BY <1>t, <2>2
    <3>2. QED
      BY <2>2, <2>3, <2>4, <2>6, <3>1 DEF Settled
  <2>7. QED
    BY <2>5, <2>6
<1>3. ASSUME NEW t \in Proc, Invoke(t) PROVE Settled(f)'
  <2>1. Callbacks(t)[cursor[t] + 1] \in Subscriber
    BY <1>3, NextCallback DEF BusInv
  <2>2. CASE UNCHANGED <<schedVars, outcome, pending>>
    <3>1. Accepted' = Accepted
      BY <2>2 DEF schedVars, Accepted, Queued, InQueue, InHand
    <3>2. QED
      BY <1>a, <2>2, <3>1
  <2>3. QED
    BY <1>3, <1>b, <2>1, <2>2 DEF Invoke
<1>c. ASSUME NEW t \in Proc, ProcessorStep(t) PROVE Accepted' = Accepted
  <2>1. Accepted \subseteq Accepted'
    BY <1>c, <1>t, AcceptedGrows DEF SchedStep
  <2>2. QED
    BY <1>c, <1>t, <2>1, ProcessorAcceptsNone
<1>4. ASSUME NEW t \in Proc, BusBegin(t) \/ BusTake(t) \/ BusFinish(t) PROVE Settled(f)'
  <2>1. ProcessorStep(t) /\ UNCHANGED <<outcome, pending>>
    BY <1>4 DEF BusBegin, BusTake, BusFinish, ProcessorStep, busVars
  <2>2. QED
    BY <1>a, <1>c, <2>1
<1>5. ASSUME NEW t \in Proc, BusCancelled(t) PROVE Settled(f)'
  <2>1. Accepted' = Accepted
    BY <1>5, <1>c DEF BusCancelled, ProcessorStep
  <2>2. \/ pending'[f] = pending[f] /\ outcome'[f] = outcome[f]
        \/ waits[t] = f /\ pending'[f] = None /\ outcome'[f] = "abandoned"
    BY <1>5 DEF BusCancelled
  <2>3. CASE pending'[f] = pending[f] /\ outcome'[f] = outcome[f]
    BY <2>1, <2>3, SettledStays
  <2>4. CASE waits[t] = f /\ pending'[f] = None /\ outcome'[f] = "abandoned"
    <3>1. pending[f] # None
      BY <2>4 DEF WaitInv
    <3>2. f \notin Accepted /\ ViolationOf[f] \notin Accepted
      BY <1>s, <1>t, <3>1 DEF Settled, Outcome
    <3>3. QED
      BY <2>1, <2>4, <3>2 DEF Settled
  <2>5. QED
    BY <2>2, <2>3, <2>4
<1>6. CASE \/ BusStart \/ UNCHANGED vars
           \/ \E s \in Stopper : BusStop(s) \/ BusStopReturns(s)
           \/ \E m \in Module, level \in TrustLevel : Register(m, level)
  <2>1. UNCHANGED <<queues, hand, handled, lost, outcome, pending>>
    BY <1>6 DEF BusStart, BusStop, BusStopReturns, StartProcessor, Stop, StopReturns, Register,
       busVars, vars, schedVars
  <2>2. Accepted' = Accepted
    BY <2>1 DEF Accepted, Queued, InQueue, InHand
  <2>3. QED
    BY <1>a, <2>1, <2>2
<1>7. ASSUME NEW e \in Recurring, RenewEvent(e) PROVE Settled(f)'
  <2>1. Accepted' = Accepted \ {e, ViolationOf[e]}
    BY <1>7, RenewStep, RenewForgets
  <2>2. pending[e] = None /\ pending' = pending /\ outcome' = [outcome EXCEPT ![e] = "new"]
    BY <1>7 DEF RenewEvent
  <2>3. CASE f # e
    <3>1. outcome'[f] = outcome[f] /\ pending'[f] = pending[f]
      BY <1>t, <2>2, <2>3
    <3>2. e # f /\ e # ViolationOf[f] /\ ViolationOf[e] # f /\ ViolationOf[e] # ViolationOf[f]
      BY <2>3, ItemsApart
    <3>3. QED
      BY <2>1, <3>1, <3>2, SettledStays
  <2>4. CASE f = e
    <3>1. outcome'[e] = "new"
      BY <1>t, <2>2
    <3>2. QED
      BY <2>1, <2>2, <2>4, <3>1 DEF Settled
  <2>5. QED
    BY <2>3, <2>4
<1>8. QED
  BY <1>1, <1>2, <1>3, <1>4, <1>5, <1>6, <1>7 DEF Next, PlaneStep, BusStep

(* Of a publication the scheduler holds the event or the violation about it, *)
(* as publish() decided, and never both: for any registrations, schemas,     *)
(* capacity of the queues and callbacks, also while a put waits for room.    *)
THEOREM PublicationsSettled == Spec => []EachInOnePlace
  BY OnePlaceInit, OnePlaceNext, WaitInductive, BusInvInit, BusInvNext, PTL DEF Spec

(* An accepted event waits for room, is queued or in delivery, or was        *)
(* delivered or lost with its processor: for any capacity of the queues and  *)
(* any callbacks.                                                            *)
THEOREM BusForgetsNothing == Spec => []NothingForgotten
<1>1. EachInOnePlace => NothingForgotten
  BY DEF EachInOnePlace, Settled, NothingForgotten
<1>2. QED
  BY <1>1, PublicationsSettled, PTL

(* The only rejections that go unreported are those whose report the rules   *)
(* reject in turn, so that publish() breaks off in its recursion: neither a  *)
(* full queue nor a waiting put loses a report.                              *)
THEOREM UnreportedOnlyByRecursion ==
    Spec => [](RejectionsReported <=> \A e \in Event : outcome[e] # "raised")
<1>1. EachInOnePlace => (RejectionsReported <=> \A e \in Event : outcome[e] # "raised")
  <2> SUFFICES ASSUME EachInOnePlace
               PROVE  RejectionsReported <=> \A e \in Event : outcome[e] # "raised"
    OBVIOUS
  <2>1. ASSUME \A e \in Event : outcome[e] # "raised" PROVE RejectionsReported
    BY <2>1 DEF EachInOnePlace, Settled, RejectionsReported
  <2>2. ASSUME RejectionsReported, NEW e \in Event, outcome[e] = "raised" PROVE FALSE
    <3>1. ViolationOf[e] \notin Accepted /\ pending[e] = None /\ ViolationOf[e] # None
      BY <2>2 DEF EachInOnePlace, Settled
    <3>2. QED
      BY <2>2, <3>1 DEF RejectionsReported
  <2>3. QED
    BY <2>1, <2>2
<1>2. QED
  BY <1>1, PublicationsSettled, PTL

(* The enforcer has no trust level, and no report has passed the rules. *)
NoneHeard ==
    /\ Enforcer \notin DOMAIN manifests
    /\ \A e \in Event : outcome[e] # "rejected"

LEMMA NoneHeardNext ==
    ASSUME \A level \in TrustLevel : <<Enforcer, level>> \notin Registration
    PROVE  BusInv /\ NoneHeard /\ [Next]_vars => NoneHeard'
<1> SUFFICES ASSUME BusInv, NoneHeard, [Next]_vars PROVE NoneHeard'
  OBVIOUS
<1>t. outcome \in [Event -> Outcome]
  BY DEF BusInv, BusTypeOK
<1>a. ASSUME UNCHANGED <<manifests, outcome>> PROVE NoneHeard'
  BY <1>a DEF NoneHeard
<1>b. ASSUME NEW e \in Event, NEW refused \in BOOLEAN, Publish(e, refused), UNCHANGED manifests
      PROVE  NoneHeard'
  <2>1. ~ViolationPasses(Validator[ViolationOf[e]])
    BY DEF NoneHeard, ViolationPasses, ValidateEvent, TooUrgent, EffectiveSource, LevelOf
  <2>2. Verdict(e, refused) # "rejected"
    BY <2>1 DEF Verdict
  <2>3. outcome' = [outcome EXCEPT ![e] = Verdict(e, refused)]
    BY <1>b DEF Publish
  <2>4. QED
    BY <1>b, <1>t, <2>2, <2>3 DEF NoneHeard
<1>1. ASSUME NEW e \in Event, ModulePublishes(e) PROVE NoneHeard'
  BY <1>1, <1>b DEF ModulePublishes
<1>2. ASSUME NEW t \in Proc, Invoke(t) PROVE NoneHeard'
  <2>1. Callbacks(t)[cursor[t] + 1] \in Subscriber
    BY <1>2, NextCallback DEF BusInv
  <2>2. QED
    BY <1>2, <1>a, <1>b, <2>1 DEF Invoke
<1>3. ASSUME NEW t \in Proc, BusCancelled(t) PROVE NoneHeard'
  BY <1>3, <1>t DEF BusCancelled, NoneHeard
<1>4. ASSUME NEW m \in Module, NEW level \in TrustLevel, Register(m, level) PROVE NoneHeard'
  BY <1>4 DEF Register, RegisterModule, NoneHeard
<1>5. ASSUME NEW e \in Recurring, RenewEvent(e) PROVE NoneHeard'
  BY <1>5, <1>t DEF RenewEvent, NoneHeard
<1>6. QED
  BY <1>a, <1>1, <1>2, <1>3, <1>4, <1>5 DEF Next, PlaneStep, BusStep, BusBegin, BusTake,
     BusFinish, BusStart, BusStop, BusStopReturns, PutResumes, vars, busVars

(* Where nobody registers the enforcer's own name, as the kernel does not,   *)
(* no rejection at all is heard: a violation about it is never put.          *)
THEOREM UnregisteredEnforcerIsMute ==
    ASSUME Enforcer \notin DOMAIN Registered,
           \A level \in TrustLevel : <<Enforcer, level>> \notin Registration
    PROVE  Spec => [](\A e \in Event : outcome[e] # "rejected" /\ ViolationOf[e] \notin Accepted)
<1>1. Init => NoneHeard
  BY DEF Init, NoneHeard
<1>2. BusInv /\ NoneHeard /\ [Next]_vars => NoneHeard'
  BY NoneHeardNext
<1>3. BusInv /\ EachInOnePlace /\ NoneHeard =>
        \A e \in Event : outcome[e] # "rejected" /\ ViolationOf[e] \notin Accepted
  BY DEF BusInv, BusTypeOK, Outcome, EachInOnePlace, Settled, NoneHeard
<1>4. QED
  BY <1>1, <1>2, <1>3, PublicationsSettled, BusInvInit, BusInvNext, PTL DEF Spec

----------------------------------------------------------------------------

(* What a callback was called with. *)
Received(s) == {i \in Item : got[s][i] > 0}

(* A processor calls the callbacks one by one, and what a callback was       *)
(* called with is not queued any more.                                       *)
CallbackInv ==
    /\ \A t \in Proc, i \in Item : pc[t] = "deliver" /\ hand[t] = i =>
         /\ cursor[t] <= Len(Subscribers[i])
         /\ \A n \in 1..cursor[t] : i \in Received(Subscribers[i][n])
    /\ \A i \in handled : \A n \in 1..Len(Subscribers[i]) : i \in Received(Subscribers[i][n])
    /\ \A s \in Subscriber : Received(s) \subseteq InHand \cup handled \cup lost

(* No callback is subscribed twice for a type.  The kernel and the modules   *)
(* do not, but subscribe() would let them.                                   *)
SubscribedOnce ==
    \A i \in Item : \A m, n \in 1..Len(Subscribers[i]) :
        Subscribers[i][m] = Subscribers[i][n] => m = n

(* An item in delivery has reached only the callbacks before the cursor, and *)
(* no callback twice.                                                        *)
OnceInv ==
    /\ \A t \in Proc, i \in Item : pc[t] = "deliver" /\ hand[t] = i =>
         \A s \in Subscriber : i \in Received(s) =>
           \E n \in 1..cursor[t] : Subscribers[i][n] = s
    /\ \A s \in Subscriber, i \in Item : got[s][i] <= 1

LEMMA DeliveryInvInit == Init => CallbackInv /\ OnceInv
<1> SUFFICES ASSUME Init PROVE CallbackInv /\ OnceInv
  OBVIOUS
<1>1. \A s \in Subscriber, i \in Item : got[s][i] = 0
  BY DEF Init
<1>2. \A s \in Subscriber : Received(s) = {}
  BY <1>1 DEF Received
<1>3. \A t \in Proc : pc[t] # "deliver"
  BY DEF Init, SchedInit
<1>4. handled = {}
  BY DEF Init, SchedInit
<1>5. QED
  BY <1>1, <1>2, <1>3, <1>4 DEF CallbackInv, OnceInv

LEMMA SameCallsReceived ==
    ASSUME UNCHANGED got
    PROVE  \A s : Received(s)' = Received(s)
  BY DEF Received

(* A call adds the item to what the callback received, and nothing else. *)
LEMMA InvokeReceived ==
    ASSUME TypeInv, BusTypeOK, NEW t \in Proc, Invoke(t)
    PROVE  \E s \in Subscriber :
             /\ s = Callbacks(t)[cursor[t] + 1]
             /\ got'[s][hand[t]] = got[s][hand[t]] + 1
             /\ \A u \in Subscriber, i \in Item :
                  u # s \/ i # hand[t] => got'[u][i] = got[u][i]
             /\ \A u \in Subscriber :
                  Received(u)' = IF u = s THEN Received(u) \cup {hand[t]} ELSE Received(u)
<1>1. PICK i \in Item : i = hand[t]
  BY NextCallback
<1>2. PICK s \in Subscriber : s = Callbacks(t)[cursor[t] + 1]
  BY NextCallback
<1>3. got' = [got EXCEPT ![s] = [got[s] EXCEPT ![i] = got[s][i] + 1]]
  BY <1>1, <1>2 DEF Invoke
<1>4. got \in [Subscriber -> [Item -> Nat]]
  BY DEF BusTypeOK
<1>5. got'[s][i] = got[s][i] + 1 /\ got[s][i] \in Nat
  BY <1>3, <1>4
<1>6. \A u \in Subscriber, j \in Item : u # s \/ j # i => got'[u][j] = got[u][j]
  BY <1>3, <1>4
<1>7. ASSUME NEW u \in Subscriber
      PROVE  Received(u)' = IF u = s THEN Received(u) \cup {i} ELSE Received(u)
  <2>1. CASE u = s
    <3>1. \A j \in Item : got'[u][j] > 0 <=> got[u][j] > 0 \/ j = i
      BY <1>5, <1>6, <2>1
    <3>2. QED
      BY <2>1, <3>1 DEF Received
  <2>2. CASE u # s
    BY <1>6, <2>2 DEF Received
  <2>3. QED
    BY <2>1, <2>2
<1>8. QED
  BY <1>1, <1>2, <1>5, <1>6, <1>7

(* A renewal takes the item and its violation out of what was received. *)
LEMMA RenewReceived ==
    ASSUME BusTypeOK, NEW e \in Recurring, RenewEvent(e)
    PROVE  /\ UNCHANGED <<pc, hand, cursor>>
           /\ handled' = handled \ {e, ViolationOf[e]}
           /\ lost' = lost \ {e, ViolationOf[e]}
           /\ {e, ViolationOf[e]} \cap InHand = {}
           /\ \A s \in Subscriber, i \in Item : got'[s][i] = 0 \/ got'[s][i] = got[s][i]
           /\ \A s \in Subscriber : Received(s)' = Received(s) \ {e, ViolationOf[e]}
<1>1. PICK S \in SUBSET Item : S = {e, ViolationOf[e]}
  OBVIOUS
<1>2. Renew(S) /\ cursor' = cursor
  BY <1>1 DEF RenewEvent
<1>3. \A s \in Subscriber, i \in Item : got'[s][i] = IF i \in S THEN 0 ELSE got[s][i]
  BY <1>1 DEF RenewEvent
<1>4. \A s \in Subscriber : Received(s)' = Received(s) \ S
  BY <1>3 DEF Received
<1>5. QED
  BY <1>1, <1>2, <1>3, <1>4 DEF Renew

(* What a call of publish() or of a callback changes in the scheduler. *)
LEMMA InvokeScheduler ==
    ASSUME BusInv, NEW t \in Proc, Invoke(t)
    PROVE  UNCHANGED <<pc, hand, handled, lost>>
<1>1. UNCHANGED schedVars \/ \E i \in Item : Enqueue(i)
  <2>1. PICK s \in Subscriber : s = Callbacks(t)[cursor[t] + 1]
    BY NextCallback DEF BusInv
  <2>2. CASE UNCHANGED schedVars
    BY <2>2
  <2>3. CASE Reaction[s] # None /\ \E refused \in BOOLEAN : Publish(Reaction[s], refused)
    BY <2>3, PublishType DEF BusInv
  <2>4. QED
    BY <2>1, <2>2, <2>3 DEF Invoke
<1>2. QED
  BY <1>1 DEF Enqueue, schedVars

(* The steps that call no callback, take nothing and end no delivery. *)
LEMMA OtherSteps ==
    ASSUME BusInv, [PlaneStep]_vars,
           ~\E t \in Proc : BusTake(t) \/ Invoke(t) \/ BusFinish(t) \/ BusCancelled(t)
    PROVE  /\ UNCHANGED <<hand, handled, lost, cursor, got>>
           /\ \A t \in Proc : pc'[t] = "deliver" => pc[t] = "deliver"
<1> USE DEF BusInv
<1>1. ASSUME NEW e \in Event, ModulePublishes(e)
      PROVE  UNCHANGED <<pc, hand, handled, lost, cursor, got>>
  <2>1. UNCHANGED schedVars \/ \E i \in Item : Enqueue(i)
    BY <1>1, PublishType DEF ModulePublishes
  <2>2. QED
    BY <1>1, <2>1 DEF ModulePublishes, Enqueue, schedVars
<1>2. ASSUME NEW e \in Event, PutResumes(e)
      PROVE  UNCHANGED <<pc, hand, handled, lost, cursor, got>>
  BY <1>2 DEF PutResumes, Enqueue
<1>3. ASSUME NEW t \in Proc, BusBegin(t)
      PROVE  /\ UNCHANGED <<hand, handled, lost, cursor, got>>
             /\ \A u \in Proc : pc'[u] = "deliver" => pc[u] = "deliver"
  BY <1>3 DEF BusBegin, Begin, Wake, LoopHead, busVars, TypeInv, SchedTypeOK
<1>4. CASE BusStart
  BY <1>4 DEF BusStart, StartProcessor, busVars, TypeInv, SchedTypeOK
<1>5. CASE \/ UNCHANGED vars
           \/ \E s \in Stopper : BusStop(s) \/ BusStopReturns(s)
           \/ \E m \in Module, level \in TrustLevel : Register(m, level)
  BY <1>5 DEF BusStop, BusStopReturns, Stop, StopReturns, Register, vars, busVars, schedVars
<1>6. QED
  BY <1>1, <1>2, <1>3, <1>4, <1>5 DEF PlaneStep, BusStep

(* After the end of a delivery no processor delivers, and what was in hand   *)
(* is handled or lost.                                                       *)
LEMMA DeliveryEnds ==
    ASSUME BusInv, OneLiveProcessor, NEW t \in Proc, BusFinish(t) \/ BusCancelled(t)
    PROVE  /\ \A u \in Proc : pc'[u] # "deliver"
           /\ UNCHANGED <<cursor, got>>
           /\ InHand \cup handled \cup lost \subseteq InHand' \cup handled' \cup lost'
           /\ handled' \subseteq handled \cup {hand[t]}
           /\ handled' # handled => pc[t] = "deliver" /\ cursor[t] = Len(Callbacks(t))
<1> USE DEF BusInv, TypeInv, SchedTypeOK
<1>1. Live(t) /\ pc'[t] # "deliver" /\ \A u \in Proc \ {t} : pc'[u] = pc[u]
  BY DEF BusFinish, BusCancelled, Finish, Cancelled, LoopHead, Live
<1>2. \A u \in Proc \ {t} : pc[u] # "deliver"
  BY <1>1 DEF OneLiveProcessor, Live
<1>3. UNCHANGED <<cursor, got>>
  BY DEF BusFinish, BusCancelled, busVars
<1>4. InHand \subseteq InHand' \cup ({hand[t]} \ {None})
  BY DEF BusFinish, BusCancelled, Finish, Cancelled, InHand
<1>5. {hand[t]} \ {None} \subseteq handled' \cup lost' /\ handled \cup lost \subseteq handled' \cup lost'
  BY DEF BusFinish, BusCancelled, Finish, Cancelled
<1>6. /\ handled' \subseteq handled \cup {hand[t]}
      /\ handled' # handled => pc[t] = "deliver" /\ cursor[t] = Len(Callbacks(t))
  BY DEF BusFinish, BusCancelled, Finish, Cancelled
<1>7. InHand \cup handled \cup lost \subseteq InHand' \cup handled' \cup lost'
  BY <1>4, <1>5
<1>8. \A u \in Proc : pc'[u] # "deliver"
  BY <1>1, <1>2
<1>9. QED
  BY <1>3, <1>6, <1>7, <1>8

LEMMA CallbackInvNext ==
    BusInv /\ OneLiveProcessor /\ CallbackInv /\ [Next]_vars => CallbackInv'
<1> SUFFICES ASSUME BusInv, OneLiveProcessor, CallbackInv, [Next]_vars PROVE CallbackInv'
  OBVIOUS
<1> USE DEF BusInv
<1>s. \A i \in Item : \A n \in 1..Len(Subscribers[i]) : Subscribers[i][n] \in Subscriber
  BY ElementOfSeq
<1>1. CASE /\ [PlaneStep]_vars
           /\ ~\E t \in Proc : BusTake(t) \/ Invoke(t) \/ BusFinish(t) \/ BusCancelled(t)
  <2>1. /\ UNCHANGED <<hand, handled, lost, cursor, got>>
        /\ \A t \in Proc : pc'[t] = "deliver" => pc[t] = "deliver"
    BY <1>1, OtherSteps
  <2>2. \A s : Received(s)' = Received(s)
    BY <2>1, SameCallsReceived
  <2>3. InHand' = InHand
    BY <2>1 DEF InHand
  <2>4. QED
    BY <2>1, <2>2, <2>3 DEF CallbackInv
<1>2. ASSUME NEW t \in Proc, BusTake(t) PROVE CallbackInv'
  <2>1. /\ UNCHANGED <<handled, lost, got>>
        /\ cursor' = [cursor EXCEPT ![t] = 0]
        /\ pc' = [pc EXCEPT ![t] = "deliver"]
        /\ \A u \in Proc \ {t} : hand'[u] = hand[u]
        /\ hand[t] = None
        /\ cursor \in [Proc -> Nat] /\ pc \in [Proc -> PC]
    BY <1>2 DEF BusTake, Take, TypeInv, HandInDelivery, SchedTypeOK, BusTypeOK
  <2>2. ASSUME NEW i \in InHand PROVE i \in InHand'
    <3>1. PICK u \in Proc : i = hand[u] /\ i # None
      BY DEF InHand
    <3>2. hand'[u] = i
      BY <2>1, <3>1
    <3>3. QED
      BY <3>1, <3>2 DEF InHand
  <2>3. \A s : Received(s)' = Received(s)
    BY <2>1, SameCallsReceived
  <2>4. ASSUME NEW u \in Proc, NEW i \in Item, pc'[u] = "deliver", hand'[u] = i
        PROVE  /\ cursor'[u] <= Len(Subscribers[i])
               /\ \A n \in 1..cursor'[u] : i \in Received(Subscribers[i][n])'
    <3>1. CASE u = t
      BY <2>1, <3>1, LenProperties
    <3>2. CASE u # t
      BY <2>1, <2>3, <2>4, <3>2 DEF CallbackInv
    <3>3. QED
      BY <3>1, <3>2
  <2>5. QED
    BY <2>1, <2>2, <2>3, <2>4 DEF CallbackInv
<1>3. ASSUME NEW t \in Proc, Invoke(t) PROVE CallbackInv'
  <2>1. UNCHANGED <<pc, hand, handled, lost>>
    BY <1>3, InvokeScheduler
  <2>2. PICK s \in Subscriber :
          /\ s = Callbacks(t)[cursor[t] + 1]
          /\ \A u \in Subscriber :
               Received(u)' = IF u = s THEN Received(u) \cup {hand[t]} ELSE Received(u)
    BY <1>3, InvokeReceived
  <2>3. /\ pc[t] = "deliver" /\ cursor[t] < Len(Subscribers[hand[t]])
        /\ cursor' = [cursor EXCEPT ![t] = @ + 1]
        /\ cursor \in [Proc -> Nat]
        /\ s = Subscribers[hand[t]][cursor[t] + 1]
        /\ hand[t] \in Item
    BY <1>3, <2>2, NextCallback DEF Invoke, BusTypeOK, Callbacks
  <2>4. ASSUME NEW u \in Proc, NEW i \in Item, pc'[u] = "deliver", hand'[u] = i
        PROVE  /\ cursor'[u] <= Len(Subscribers[i])
               /\ \A n \in 1..cursor'[u] : i \in Received(Subscribers[i][n])'
    <3>1. /\ cursor[u] <= Len(Subscribers[i])
          /\ \A n \in 1..cursor[u] : i \in Received(Subscribers[i][n])
          /\ Len(Subscribers[i]) \in Nat
      BY <2>1, <2>4, LenProperties DEF CallbackInv
    <3>2. cursor'[u] <= Len(Subscribers[i])
      BY <2>1, <2>3, <2>4, <3>1
    <3>3. ASSUME NEW n \in 1..cursor'[u] PROVE i \in Received(Subscribers[i][n])'
      <4>1. n \in 1..Len(Subscribers[i]) /\ Subscribers[i][n] \in Subscriber
        BY <1>s, <2>3, <3>1, <3>2
      <4>2. CASE n \in 1..cursor[u]
        BY <2>2, <3>1, <4>1, <4>2
      <4>3. CASE u = t /\ n = cursor[t] + 1
        BY <2>1, <2>2, <2>3, <2>4, <4>1, <4>3
      <4>4. QED
        BY <2>3, <4>2, <4>3
    <3>4. QED
      BY <3>2, <3>3
  <2>5. ASSUME NEW i \in handled', NEW n \in 1..Len(Subscribers[i])
        PROVE  i \in Received(Subscribers[i][n])'
    <3>1. i \in Item /\ i \in handled
      BY <2>1 DEF TypeInv, SchedTypeOK
    <3>2. Subscribers[i][n] \in Subscriber /\ i \in Received(Subscribers[i][n])
      BY <1>s, <3>1 DEF CallbackInv
    <3>3. QED
      BY <2>2, <3>2
  <2>6. InHand' = InHand /\ hand[t] \in InHand
    BY <2>1, <2>3 DEF InHand
  <2>7. ASSUME NEW u \in Subscriber PROVE Received(u)' \subseteq InHand' \cup handled' \cup lost'
    <3>1. Received(u) \subseteq InHand \cup handled \cup lost
      BY DEF CallbackInv
    <3>2. Received(u)' \subseteq Received(u) \cup {hand[t]}
      BY <2>2
    <3>3. QED
      BY <2>1, <2>6, <3>1, <3>2
  <2>8. QED
    BY <2>4, <2>5, <2>7 DEF CallbackInv
<1>4. ASSUME NEW t \in Proc, BusFinish(t) \/ BusCancelled(t) PROVE CallbackInv'
  <2>1. /\ \A u \in Proc : pc'[u] # "deliver"
        /\ UNCHANGED <<cursor, got>>
        /\ InHand \cup handled \cup lost \subseteq InHand' \cup handled' \cup lost'
        /\ handled' \subseteq handled \cup {hand[t]}
        /\ handled' # handled => pc[t] = "deliver" /\ cursor[t] = Len(Callbacks(t))
    BY <1>4, DeliveryEnds
  <2>2. \A s : Received(s)' = Received(s)
    BY <2>1, SameCallsReceived
  <2>3. ASSUME NEW i \in handled', NEW n \in 1..Len(Subscribers[i])
        PROVE  i \in Received(Subscribers[i][n])
    <3>1. CASE i \in handled
      BY <3>1 DEF CallbackInv
    <3>2. CASE i = hand[t] /\ pc[t] = "deliver" /\ cursor[t] = Len(Subscribers[i])
      <4>1. i \in Item
        BY <3>2 DEF TypeInv, SchedTypeOK, HandInDelivery
      <4>2. QED
        BY <3>2, <4>1 DEF CallbackInv
    <3>3. QED
      BY <2>1, <3>1, <3>2 DEF Callbacks
  <2>4. QED
    BY <2>1, <2>2, <2>3 DEF CallbackInv
<1>5. ASSUME NEW e \in Recurring, RenewEvent(e) PROVE CallbackInv'
  <2>1. /\ UNCHANGED <<pc, hand, cursor>>
        /\ handled' = handled \ {e, ViolationOf[e]}
        /\ lost' = lost \ {e, ViolationOf[e]}
        /\ {e, ViolationOf[e]} \cap InHand = {}
        /\ \A s \in Subscriber : Received(s)' = Received(s) \ {e, ViolationOf[e]}
    BY <1>5, RenewReceived
  <2>2. InHand' = InHand
    BY <2>1 DEF InHand
  <2>3. ASSUME NEW t \in Proc, NEW i \in Item, pc'[t] = "deliver", hand'[t] = i
        PROVE  /\ cursor'[t] <= Len(Subscribers[i])
               /\ \A n \in 1..cursor'[t] : i \in Received(Subscribers[i][n])'
    <3>1. /\ cursor[t] <= Len(Subscribers[i])
          /\ \A n \in 1..cursor[t] : i \in Received(Subscribers[i][n])
      BY <2>1, <2>3 DEF CallbackInv
    <3>2. i \notin {e, ViolationOf[e]}
      <4>1. i = hand[t] /\ i # None
        BY <2>1, <2>3
      <4>2. i \in InHand
        BY <4>1 DEF InHand
      <4>3. QED
        BY <2>1, <4>2
    <3>3. \A n \in 1..cursor[t] : Subscribers[i][n] \in Subscriber
      <4>1. cursor[t] \in Nat /\ Len(Subscribers[i]) \in Nat
        BY LenProperties DEF BusTypeOK
      <4>2. QED
        BY <1>s, <3>1, <4>1
    <3>4. QED
      BY <2>1, <3>1, <3>2, <3>3
  <2>4. ASSUME NEW i \in handled', NEW n \in 1..Len(Subscribers[i])
        PROVE  i \in Received(Subscribers[i][n])'
    <3>1. i \in Item /\ i \in handled /\ i \notin {e, ViolationOf[e]}
      BY <2>1 DEF TypeInv, SchedTypeOK
    <3>2. Subscribers[i][n] \in Subscriber /\ i \in Received(Subscribers[i][n])
      BY <1>s, <3>1 DEF CallbackInv
    <3>3. QED
      BY <2>1, <3>1, <3>2
  <2>5. \A s \in Subscriber : Received(s)' \subseteq InHand' \cup handled' \cup lost'
    BY <2>1, <2>2 DEF CallbackInv
  <2>6. QED
    BY <2>3, <2>4, <2>5 DEF CallbackInv
<1>6. QED
  BY <1>1, <1>2, <1>3, <1>4, <1>5 DEF Next

LEMMA OnceInvNext ==
    ASSUME SubscribedOnce
    PROVE  /\ BusInv /\ OneLiveProcessor /\ DeliveredOnce /\ CallbackInv
           /\ OnceInv /\ [Next]_vars
           => OnceInv'
<1> SUFFICES ASSUME BusInv, OneLiveProcessor, DeliveredOnce, CallbackInv, OnceInv, [Next]_vars
             PROVE  OnceInv'
  OBVIOUS
<1> USE DEF BusInv
<1>1. CASE /\ [PlaneStep]_vars
           /\ ~\E t \in Proc : BusTake(t) \/ Invoke(t) \/ BusFinish(t) \/ BusCancelled(t)
  <2>1. /\ UNCHANGED <<hand, handled, lost, cursor, got>>
        /\ \A t \in Proc : pc'[t] = "deliver" => pc[t] = "deliver"
    BY <1>1, OtherSteps
  <2>2. \A s : Received(s)' = Received(s)
    BY <2>1, SameCallsReceived
  <2>3. QED
    BY <2>1, <2>2 DEF OnceInv
<1>2. ASSUME NEW t \in Proc, BusTake(t) PROVE OnceInv'
  <2>1. /\ UNCHANGED got
        /\ pc' = [pc EXCEPT ![t] = "deliver"]
        /\ Live(t)
    BY <1>2 DEF BusTake, Take, Live
  <2>2. \A u \in Proc : pc'[u] = "deliver" => u = t
    BY <2>1 DEF OneLiveProcessor, Live, TypeInv, SchedTypeOK
  <2>3. hand'[t] \in Queued
    <3>1. hand'[t] = queues[sel[t]][1] /\ 1 \in 1..Len(queues[sel[t]]) /\ sel[t] \in Priority
      BY <1>2, TakeQueued DEF BusTake, TypeInv
    <3>2. QED
      BY <3>1, QueuedDef
  <2>4. \A s \in Subscriber : hand'[t] \notin Received(s)
    BY <2>3 DEF DeliveredOnce, CallbackInv
  <2>5. \A s : Received(s)' = Received(s)
    BY <2>1, SameCallsReceived
  <2>6. QED
    BY <2>1, <2>2, <2>4, <2>5 DEF OnceInv
<1>3. ASSUME NEW t \in Proc, Invoke(t) PROVE OnceInv'
  <2>1. UNCHANGED <<pc, hand, handled, lost>>
    BY <1>3, InvokeScheduler
  <2>i. PICK i \in Item : i = hand[t]
    BY <1>3, NextCallback
  <2>2. PICK s \in Subscriber :
          /\ s = Callbacks(t)[cursor[t] + 1]
          /\ got'[s][hand[t]] = got[s][hand[t]] + 1
          /\ \A u \in Subscriber, j \in Item :
               u # s \/ j # hand[t] => got'[u][j] = got[u][j]
          /\ \A u \in Subscriber :
               Received(u)' = IF u = s THEN Received(u) \cup {hand[t]} ELSE Received(u)
    BY <1>3, InvokeReceived
  <2>3. /\ pc[t] = "deliver" /\ cursor[t] < Len(Subscribers[i])
        /\ cursor' = [cursor EXCEPT ![t] = @ + 1]
        /\ cursor \in [Proc -> Nat]
        /\ s = Subscribers[i][cursor[t] + 1]
    BY <1>3, <2>i, <2>2 DEF Invoke, BusTypeOK, Callbacks
  <2>4. cursor[t] \in Nat /\ cursor'[t] = cursor[t] + 1 /\ Len(Subscribers[i]) \in Nat
    BY <2>3, LenProperties
  <2>5. \A u \in Subscriber : i \in Received(u) => \E n \in 1..cursor[t] : Subscribers[i][n] = u
    <3>1. pc[t] = "deliver" /\ hand[t] = i
      BY <2>i, <2>3
    <3> HIDE SchedulerConstants, BusConstants, TrustConstants
    <3>2. \A u \in Proc, j \in Item : pc[u] = "deliver" /\ hand[u] = j =>
            \A v \in Subscriber : j \in Received(v) =>
              \E n \in 1..cursor[u] : Subscribers[j][n] = v
      BY DEF OnceInv
    <3>3. QED
      BY <3>1, <3>2
  <2>6. i \notin Received(s)
    <3> SUFFICES ASSUME i \in Received(s) PROVE FALSE
      OBVIOUS
    <3>1. PICK n \in 1..cursor[t] : Subscribers[i][n] = s
      BY <2>5
    <3>2. /\ n \in 1..Len(Subscribers[i])
          /\ cursor[t] + 1 \in 1..Len(Subscribers[i])
          /\ n # cursor[t] + 1
      BY <2>3, <2>4
    <3>3. QED
      BY <2>3, <3>1, <3>2 DEF SubscribedOnce
  <2>7. \A u \in Proc : pc'[u] = "deliver" => u = t
    BY <2>1, <2>3 DEF OneLiveProcessor, Live
  <2>8. ASSUME NEW u \in Subscriber, i \in Received(u)'
        PROVE  \E n \in 1..cursor'[t] : Subscribers[i][n] = u
    <3>1. CASE u = s
      <4>1. cursor[t] + 1 \in 1..cursor'[t]
        BY <2>4
      <4>2. QED
        BY <2>3, <3>1, <4>1
    <3>2. CASE u # s
      <4>1. i \in Received(u)
        BY <2>2, <2>8, <3>2
      <4>2. PICK n \in 1..cursor[t] : Subscribers[i][n] = u
        BY <2>5, <4>1
      <4>3. n \in 1..cursor'[t]
        BY <2>4
      <4>4. QED
        BY <4>2, <4>3
    <3>3. QED
      BY <3>1, <3>2
  <2>9. ASSUME NEW u \in Subscriber, NEW j \in Item PROVE got'[u][j] <= 1
    <3>1. CASE u = s /\ j = i
      <4>1. got[s][i] = 0
        BY <2>6 DEF Received, BusTypeOK
      <4>2. QED
        BY <2>i, <2>2, <3>1, <4>1
    <3>2. CASE u # s \/ j # i
      BY <2>i, <2>2, <3>2 DEF OnceInv
    <3>3. QED
      BY <3>1, <3>2
  <2>10. ASSUME NEW u \in Proc, NEW j \in Item, pc'[u] = "deliver", hand'[u] = j,
                NEW v \in Subscriber, j \in Received(v)'
         PROVE  \E n \in 1..cursor'[u] : Subscribers[j][n] = v
    <3>1. u = t /\ j = i
      BY <2>i, <2>1, <2>7, <2>10
    <3>2. QED
      BY <2>8, <2>10, <3>1
  <2>11. QED
    BY <2>9, <2>10 DEF OnceInv
<1>4. ASSUME NEW t \in Proc, BusFinish(t) \/ BusCancelled(t) PROVE OnceInv'
  <2>1. (\A u \in Proc : pc'[u] # "deliver") /\ UNCHANGED got
    BY <1>4, DeliveryEnds
  <2>2. QED
    BY <2>1 DEF OnceInv
<1>5. ASSUME NEW e \in Recurring, RenewEvent(e) PROVE OnceInv'
  <2>1. /\ UNCHANGED <<pc, hand, cursor>>
        /\ \A s \in Subscriber, i \in Item : got'[s][i] = 0 \/ got'[s][i] = got[s][i]
        /\ \A s \in Subscriber : Received(s)' \subseteq Received(s)
    BY <1>5, RenewReceived
  <2>2. ASSUME NEW s \in Subscriber, NEW i \in Item PROVE got'[s][i] <= 1
    <3>1. got[s][i] <= 1
      BY DEF OnceInv
    <3>2. got'[s][i] = 0 \/ got'[s][i] = got[s][i]
      BY <2>1
    <3>3. QED
      BY <3>1, <3>2
  <2>3. QED
    BY <2>1, <2>2 DEF OnceInv
<1>6. QED
  BY <1>1, <1>2, <1>3, <1>4, <1>5 DEF Next

(* An item that counts as delivered reached every callback registered for    *)
(* its type, whatever the callbacks raise, wait for or publish, and whoever  *)
(* cancels the processor.                                                    *)
ReachedAll ==
    \A i \in handled : \A n \in 1..Len(Subscribers[i]) : i \in Received(Subscribers[i][n])

(* So it is without any assumption on the subscriptions. *)
THEOREM DeliveriesReachAll == Spec => []ReachedAll
<1>1. CallbackInv => ReachedAll
  BY DEF CallbackInv, ReachedAll
<1>2. BusInv /\ OneLiveProcessor /\ CallbackInv /\ [Next]_vars => CallbackInv'
  BY CallbackInvNext
<1>3. Spec => []BusInv
  BY BusInvInit, BusInvNext, PTL DEF Spec
<1>4. Spec => []OneLiveProcessor
  BY BusDeliversInOrder, PTL
<1>5. Init => CallbackInv
  BY DeliveryInvInit
<1>6. QED
  BY <1>1, <1>2, <1>3, <1>4, <1>5, PTL DEF Spec

(* And where no callback is subscribed twice for a type, none is called with *)
(* an item twice.                                                            *)
THEOREM DeliveriesComplete ==
    ASSUME SubscribedOnce
    PROVE  Spec => []DeliveredToAll
<1>1. ASSUME BusInv, CallbackInv, OnceInv PROVE DeliveredToAll
  <2>1. ASSUME NEW i \in handled, NEW n \in 1..Len(Subscribers[i])
        PROVE  got[Subscribers[i][n]][i] > 0
    BY <1>1 DEF CallbackInv, Received
  <2>2. QED
    BY <1>1, <2>1 DEF OnceInv, DeliveredToAll
<1>2. BusInv /\ OneLiveProcessor /\ CallbackInv /\ [Next]_vars => CallbackInv'
  BY CallbackInvNext
<1>3. /\ BusInv /\ OneLiveProcessor /\ DeliveredOnce /\ CallbackInv
      /\ OnceInv /\ [Next]_vars
      => OnceInv'
  BY OnceInvNext
<1>4. Spec => []BusInv
  BY BusInvInit, BusInvNext, PTL DEF Spec
<1>5. Spec => [](OneLiveProcessor /\ DeliveredOnce)
  BY BusDeliversInOrder, PTL
<1>6. Init => CallbackInv /\ OnceInv
  BY DeliveryInvInit
<1>7. BusInv /\ CallbackInv /\ OnceInv => DeliveredToAll
  BY <1>1
<1>8. QED
  BY <1>2, <1>3, <1>4, <1>5, <1>6, <1>7, PTL DEF Spec

=============================================================================
