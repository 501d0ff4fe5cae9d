-------------------------- MODULE TaskPreemption ---------------------------
(***************************************************************************)
(* The other half of core/scheduler.py: the registry of long-running tasks *)
(* that enqueue() preempts on a P0 event and the periodic check reports    *)
(* when they have been registered for too long.  The registry holds weak   *)
(* references; a reference whose task is gone behaves like one whose task  *)
(* is done.  A task may be registered under several priorities, and then   *)
(* shares one start time.                                                  *)
(***************************************************************************)
EXTENDS Naturals

CONSTANTS Task,    (* asyncio tasks of the modules *)
          Lowest   (* priorities are 0 .. Lowest   *)

Priority == 0..Lowest

ASSUME LowestAssumption == Lowest \in Nat

VARIABLES
    registered,  (* _running_tasks                                              *)
    started,     (* the keys of _task_start_times                               *)
    overdue,     (* the tasks whose start time is older than the threshold      *)
    status,      (* "running", "cancelling" (cancel() was called) or "done"     *)
    reported,    (* the tasks the last check passed to the escalation callback  *)
    spared       (* ghost: lower tasks that the last P0 put left running        *)

vars == <<registered, started, overdue, status, reported, spared>>

Registered(t) == \E p \in Priority : t \in registered[p]

Init ==
    /\ registered = [p \in Priority |-> {}]
    /\ started = {}
    /\ overdue = {}
    /\ status = [t \in Task |-> "running"]
    /\ reported = {}
    /\ spared = {}

(* register_running_task(): the start time is set anew each time, also that  *)
(* of a task that is done.                                                   *)
RegisterTask(p, t) ==
    /\ registered' = [registered EXCEPT ![p] = @ \cup {t}]
    /\ started' = started \cup {t}
    /\ overdue' = overdue \ {t}
    /\ UNCHANGED <<status, reported, spared>>

(* The priorities that cancel_tasks_below(p) visits: the names are compared  *)
(* as strings and those not smaller than p's are skipped.                    *)
Visited(p) == {q \in Priority : q < p}

(* Mutant: the start time of a discarded reference is kept. *)
CancelKeepingStart(p) ==
    LET seen(t) == \E q \in Visited(p) : t \in registered[q]
        dead == {t \in Task : seen(t) /\ status[t] = "done"}
    IN  /\ status' = [t \in Task |-> IF seen(t) /\ status[t] = "running"
                                     THEN "cancelling" ELSE status[t]]
        /\ registered' = [q \in Priority |-> registered[q] \ dead]
        /\ UNCHANGED <<started, overdue, reported>>

(* cancel_tasks_below(): cancel what is live, forget what is done. *)
CancelTasksBelow(p) ==
    LET seen(t) == \E q \in Visited(p) : t \in registered[q]
        dead == {t \in Task : seen(t) /\ status[t] = "done"}
    IN  /\ status' = [t \in Task |-> IF seen(t) /\ status[t] = "running"
                                     THEN "cancelling" ELSE status[t]]
        /\ registered' = [q \in Priority |-> IF q \in Visited(p)
                                             THEN registered[q] \ dead
                                             ELSE registered[q]]
        /\ started' = started \ dead
        /\ overdue' = overdue \ dead
        /\ UNCHANGED reported

(* enqueue() of a P0_SECURITY event, after the put. *)
EnqueueP0 ==
    /\ CancelTasksBelow(0)
    /\ spared' = {t \in Task : /\ \E p \in Priority \ {0} : t \in registered[p]
                              /\ status'[t] = "running"}

(* cancel_tasks_below() as a module may call it in an emergency. *)
Emergency(p) ==
    /\ p > 0
    /\ CancelTasksBelow(p)
    /\ UNCHANGED spared

(* A task returns, fails, or lets the CancelledError end it. *)
Ends(t) ==
    /\ status[t] # "done"
    /\ status' = [status EXCEPT ![t] = "done"]
    /\ UNCHANGED <<registered, started, overdue, reported, spared>>

(* A task catches its CancelledError and goes on. *)
Survives(t) ==
    /\ status[t] = "cancelling"
    /\ status' = [status EXCEPT ![t] = "running"]
    /\ UNCHANGED <<registered, started, overdue, reported, spared>>

(* blocking_threshold_seconds pass for a task. *)
TimePasses(t) ==
    /\ t \in started
    /\ overdue' = overdue \cup {t}
    /\ UNCHANGED <<registered, started, status, reported, spared>>

(* Mutants: the check forgets whom it reports; it reports and never prunes.  *)
CheckForgetsAll ==
    /\ started' = started \ overdue
    /\ overdue' = {}
    /\ reported' = {t \in overdue : Registered(t) /\ status[t] # "done"}
    /\ UNCHANGED <<registered, status, spared>>
CheckWithoutCleanup ==
    /\ reported' = {t \in overdue : Registered(t) /\ status[t] # "done"}
    /\ UNCHANGED <<registered, started, overdue, status, spared>>

(* _check_for_blocking_tasks(): report the overdue that are live; an overdue *)
(* one that is done leaves the set in which the loop over the priorities     *)
(* meets it first, and with it goes the start time, so the loop skips it     *)
(* under the later priorities.                                               *)
Check ==
    LET dead == {t \in overdue : status[t] = "done"}
        first(p, t) == t \in registered[p] /\ \A q \in Priority : q < p => t \notin registered[q]
    IN  /\ registered' = [p \in Priority |->
                            {t \in registered[p] : ~(t \in dead /\ first(p, t))}]
        /\ started' = started \ dead
        /\ overdue' = overdue \ dead
        /\ reported' = {t \in overdue : Registered(t) /\ status[t] # "done"}
        /\ UNCHANGED <<status, spared>>

Next ==
    \/ \E p \in Priority, t \in Task : RegisterTask(p, t)
    \/ EnqueueP0
    \/ \E p \in Priority : Emergency(p)
    \/ \E t \in Task : Ends(t) \/ Survives(t) \/ TimePasses(t)
    \/ Check

(* The processor checks at least once a second, and time passes. *)
Fairness == WF_vars(Check) /\ \A t \in Task : WF_vars(TimePasses(t))

Spec == Init /\ [][Next]_vars /\ Fairness

----------------------------------------------------------------------------

(* The types of the variables. *)
TypeOK ==
    /\ registered \in [Priority -> SUBSET Task]
    /\ started \subseteq Task
    /\ overdue \subseteq started
    /\ status \in [Task -> {"running", "cancelling", "done"}]
    /\ reported \subseteq Task
    /\ spared \subseteq Task

(* The monitor never loses sight of a task that was registered and is live,  *)
(* whatever is pruned around it, although pruning goes by done tasks and     *)
(* drops a start time that other priorities share; and a start time never    *)
(* outlives the last registration, so the check can find each of them again  *)
(* (scheduler.py:65-93, 161-180).                                            *)
MonitorSeesLive ==
    /\ \A t \in Task : Registered(t) /\ status[t] # "done" => t \in started
    /\ \A t \in started : Registered(t)

(* The start time of a task that ended is dropped in the end, unless it is   *)
(* set anew again and again.                                                 *)
DeadStartTimesDropped ==
    \A t \in Task :
        \/ []<><<\E p \in Priority : RegisterTask(p, t)>>_vars
        \/ status[t] = "done" ~> t \notin started

(* A P0_SECURITY event preempts every registered task of a lower priority    *)
(* ("Cancel all currently registered tasks with priority lower than the      *)
(* given one", cancel_tasks_below()).                                        *)
P0PreemptsLower == spared = {}

=============================================================================
