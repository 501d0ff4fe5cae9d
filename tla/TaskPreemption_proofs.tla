------------------------ MODULE TaskPreemption_proofs ------------------------
(***************************************************************************)
(* Proofs about the registry of long-running tasks, for any number of      *)
(* tasks and priorities.                                                   *)
(***************************************************************************)
EXTENDS TaskPreemption, TLAPS

USE LowestAssumption DEF LowestAssumption

LEMMA TypesInit == Init => TypeOK /\ MonitorSeesLive
  BY DEF Init, TypeOK, MonitorSeesLive, Registered, Priority

(* Cancelling keeps the types and the statuses of done tasks. *)
LEMMA CancelKeepsTypes ==
    ASSUME TypeOK, NEW p \in Priority, CancelTasksBelow(p)
    PROVE  /\ registered' \in [Priority -> SUBSET Task]
           /\ started' \subseteq Task /\ overdue' \subseteq started'
           /\ status' \in [Task -> {"running", "cancelling", "done"}]
           /\ reported' \subseteq Task
           /\ \A t \in Task : status'[t] = "done" <=> status[t] = "done"
  BY DEF TypeOK, CancelTasksBelow, Visited

LEMMA TypesStep == TypeOK /\ [Next]_vars => TypeOK'
<1> SUFFICES ASSUME TypeOK, [Next]_vars PROVE TypeOK'
  OBVIOUS
<1>1. CASE \E p \in Priority, t \in Task : RegisterTask(p, t)
  BY <1>1 DEF TypeOK, RegisterTask
<1>2. CASE EnqueueP0
  <2>1. 0 \in Priority
    BY DEF Priority
  <2>2. spared' \subseteq Task
    BY <1>2 DEF EnqueueP0
  <2>3. QED
    BY <1>2, <2>1, <2>2, CancelKeepsTypes DEF EnqueueP0, TypeOK
<1>3. CASE \E p \in Priority : Emergency(p)
  BY <1>3, CancelKeepsTypes DEF Emergency, TypeOK
<1>4. CASE \E t \in Task : Ends(t) \/ Survives(t) \/ TimePasses(t)
  BY <1>4 DEF TypeOK, Ends, Survives, TimePasses
<1>5. CASE Check
  BY <1>5 DEF TypeOK, Check
<1>6. CASE UNCHANGED vars
  BY <1>6 DEF TypeOK, vars
<1>7. QED
  BY <1>1, <1>2, <1>3, <1>4, <1>5, <1>6 DEF Next

(* Pruning goes by done tasks: a live task keeps all it had.  A reference    *)
(* that is pruned loses its start time, so a start time that stays belongs   *)
(* to a task none of whose references was pruned.                            *)
LEMMA CancelKeepsSight ==
    ASSUME TypeOK, MonitorSeesLive, NEW p \in Priority, CancelTasksBelow(p)
    PROVE  MonitorSeesLive'
<1> DEFINE dead == {t \in Task : /\ \E q \in Visited(p) : t \in registered[q]
                                 /\ status[t] = "done"}
<1>1. /\ started' = started \ dead
      /\ \A q \in Priority, t \in Task :
            t \notin dead => (t \in registered'[q] <=> t \in registered[q])
      /\ \A q \in Priority : registered'[q] \subseteq registered[q]
  BY DEF TypeOK, CancelTasksBelow
<1>2. \A t \in dead : status[t] = "done"
  OBVIOUS
<1>3. \A t \in Task : status'[t] = "done" <=> status[t] = "done"
  BY CancelKeepsTypes
<1> HIDE DEF dead
<1>4. QED
  BY <1>1, <1>2, <1>3 DEF MonitorSeesLive, Registered, TypeOK

LEMMA SightStep ==
    TypeOK /\ MonitorSeesLive /\ [Next]_vars => MonitorSeesLive'
<1> SUFFICES ASSUME TypeOK, MonitorSeesLive, [Next]_vars PROVE MonitorSeesLive'
  OBVIOUS
<1>1. CASE \E p \in Priority, t \in Task : RegisterTask(p, t)
  <2>1. PICK p \in Priority, t \in Task : RegisterTask(p, t)
    BY <1>1
  <2>2. /\ t \in registered'[p]
        /\ \A u \in Task \ {t}, q \in Priority :
              u \in registered'[q] <=> u \in registered[q]
    BY <2>1 DEF RegisterTask, TypeOK
  <2>3. QED
    BY <2>1, <2>2 DEF RegisterTask, TypeOK, MonitorSeesLive, Registered
<1>2. CASE EnqueueP0
  BY <1>2, CancelKeepsSight DEF EnqueueP0, Priority
<1>3. CASE \E p \in Priority : Emergency(p)
  BY <1>3, CancelKeepsSight DEF Emergency
<1>4. CASE \E t \in Task : Ends(t) \/ Survives(t) \/ TimePasses(t)
  BY <1>4 DEF TypeOK, Ends, Survives, TimePasses, MonitorSeesLive, Registered
<1>5. CASE Check
  <2> DEFINE dead == {t \in overdue : status[t] = "done"}
  <2>1. /\ started' = started \ dead /\ status' = status
        /\ \A q \in Priority, t \in Task :
              t \notin dead => (t \in registered'[q] <=> t \in registered[q])
        /\ \A q \in Priority : registered'[q] \subseteq registered[q]
    BY <1>5 DEF TypeOK, Check
  <2>2. \A t \in dead : status[t] = "done"
    OBVIOUS
  <2> HIDE DEF dead
  <2>3. QED
    BY <2>1, <2>2 DEF MonitorSeesLive, Registered, TypeOK
<1>6. CASE UNCHANGED vars
  BY <1>6 DEF MonitorSeesLive, Registered, vars
<1>7. QED
  BY <1>1, <1>2, <1>3, <1>4, <1>5, <1>6 DEF Next

(* The variables of the registry keep their types; an overdue task always    *)
(* has a start time.                                                         *)
THEOREM RegistryTypeCorrect == Spec => []TypeOK
<1>1. Spec => Init /\ [][Next]_vars
  BY DEF Spec
<1>2. QED
  BY <1>1, TypesInit, TypesStep, PTL

(* For any number of tasks and priorities and any order of registrations,    *)
(* preemptions and checks, the monitor sees every registered task that is    *)
(* live, and no start time is left without a registration.                   *)
THEOREM LiveTasksStaySeen == Spec => []MonitorSeesLive
<1>1. Spec => Init /\ [][Next]_vars
  BY DEF Spec
<1>2. QED
  BY <1>1, TypesInit, TypesStep, SightStep, PTL

=============================================================================
