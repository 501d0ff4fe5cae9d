------------------------------ MODULE Budgets ------------------------------
(***************************************************************************)
(* The two counters of governance: the resource governor, which adds up    *)
(* what each module uses (resource.py), and the watchdog of single tasks   *)
(* (watchdog.py).  Each looks at its limits when usage is recorded, and    *)
(* creates a task that publishes watchdog.budget_exceeded: an overrun is   *)
(* "reported" here when that task is created.  What becomes of the         *)
(* publication is for the event plane, and under the kernel the admission  *)
(* rules reject it: the sources of both reports are not registered.        *)
(*                                                                         *)
(* Use and limits are whole units of one size for each kind, of which a    *)
(* second of CPU has several: budgets below a second are possible.  The    *)
(* warnings at 80 and 90 per cent are only logged, and the memory in use   *)
(* is compared with nothing.                                               *)
(***************************************************************************)
EXTENDS Manifests

CONSTANTS Task,      (* identities of tasks                                      *)
          Spender,   (* the modules whose use is recorded                        *)
          NoManifest,(* ResourceLimits(): the limits of a module that never      *)
                     (* registered; an hour of CPU, and no other limit           *)
          Default,   (* the watchdog's own limit of each kind                    *)
          Least,     (* the 1 of max(budget, 1): one second, one token, one cycle *)
          MaxUse     (* bound: what one counter may reach                        *)

ASSUME BudgetAssumption ==
    /\ Spender \subseteq Module
    /\ NoManifest \in [Kind -> Nat]
    /\ Default \in [Kind -> Nat \ {0}]
    /\ Least \in [Kind -> Nat \ {0}]
    /\ MaxUse \in Nat

VARIABLES
    limits,       (* the governor's _limits                                      *)
    usage,        (* the governor's _usage                                       *)
    moduleLimits, (* the watchdog's _module_limits                               *)
    tasks,        (* _active_tasks: module, budget and use of each               *)
    told,         (* ghost: <<m, k>>: a report of the overrun since the reset    *)
    toldTasks,    (* ghost: tasks whose overrun was reported since their start   *)
    relimited     (* ghost: modules registered since usage was last recorded     *)

budgetVars == <<limits, usage, moduleLimits, tasks, told, toldTasks, relimited>>
governor == <<limits, usage, told, relimited>>
watchdog == <<moduleLimits, tasks, toldTasks>>

Unused == [k \in Kind |-> 0]

BudgetInit ==
    /\ limits = [m \in {} |-> Unused]
    /\ usage = [m \in {} |-> Unused]
    /\ moduleLimits = [m \in {} |-> Unused]
    /\ tasks = [t \in {} |-> {}]
    /\ told = {}
    /\ toldTasks = {}
    /\ relimited = {}

(* register_module() of both: what has been used stays, and is not looked at. *)
BudgetRegister(x) ==
    /\ limits' = With(limits, x.name, x.limits)
    /\ usage' = IF x.name \in DOMAIN usage THEN usage ELSE With(usage, x.name, Unused)
    /\ moduleLimits' = With(moduleLimits, x.name, x.limits)
    /\ relimited' = relimited \cup {x.name}
    /\ UNCHANGED <<tasks, told, toldTasks>>

Plus(f, g) == [k \in Kind |-> f[k] + g[k]]

UsageOf(m) == IF m \in DOMAIN usage THEN usage[m] ELSE Unused

(* Mutant: a used-up budget of one kind hides the others. *)
ExceededFirst(m, used) ==
    IF m \notin DOMAIN limits THEN {}
    ELSE LET over == {k \in Kind : limits[m][k] # 0 /\ used[k] > limits[m][k]}
         IN  IF over = {} THEN {} ELSE {CHOOSE k \in over : TRUE}

(* _check_budgets(): the kinds of which m has used more than its limit. *)
Exceeded(m, used) ==
    IF m \notin DOMAIN limits THEN {}
    ELSE {k \in Kind : limits[m][k] # 0 /\ used[k] > limits[m][k]}

(* record_usage(): every overrun is reported, each time; where no event loop *)
(* runs, the caller gets the error of create_task() instead.                 *)
RecordUsage(m, use) ==
    LET used == Plus(UsageOf(m), use)
    IN  /\ \A k \in Kind : used[k] <= MaxUse
        /\ usage' = With(usage, m, used)
        /\ told' = told \cup ({m} \X Exceeded(m, used))
        /\ relimited' = relimited \ {m}
        /\ UNCHANGED <<limits, watchdog>>

ResetUsage(m) ==
    /\ m \in DOMAIN usage
    /\ usage' = [usage EXCEPT ![m] = Unused]
    /\ told' = {r \in told : r[1] # m}
    /\ UNCHANGED <<limits, relimited, watchdog>>

----------------------------------------------------------------------------

FirstNonZero(a, b, c) == IF a # 0 THEN a ELSE IF b # 0 THEN b ELSE c

(* What start_task() grants: what is asked for, or the limit of the module,  *)
(* or the default; 0 asks for nothing.                                       *)
Granted(m, asked) ==
    LET limit == IF m \in DOMAIN moduleLimits THEN moduleLimits[m] ELSE NoManifest
    IN  [k \in Kind |-> FirstNonZero(asked[k], limit[k], Default[k])]

(* start_task(): a task of the same identity is forgotten, with its use. *)
StartTask(t, m, asked) ==
    /\ tasks' = With(tasks, t, [module |-> m, budget |-> Granted(m, asked), used |-> Unused])
    /\ toldTasks' = toldTasks \ {t}
    /\ UNCHANGED <<governor, moduleLimits>>

(* Mutant: the last unit of a budget may be used, as in the governor. *)
ExhaustedLate(b) == \E k \in Kind : b.used[k] > b.budget[k] /\ b.used[k] > Least[k]

(* used / max(budget, 1) reaches 1, for some kind. *)
Exhausted(b) == \E k \in Kind : b.used[k] >= b.budget[k] /\ b.used[k] >= Least[k]

(* report_usage(); of a task that is not active nothing is recorded. *)
ReportUsage(t, use) ==
    /\ t \in DOMAIN tasks
    /\ LET b == [tasks[t] EXCEPT !.used = Plus(@, use)]
       IN  /\ \A k \in Kind : b.used[k] <= MaxUse
           /\ tasks' = [tasks EXCEPT ![t] = b]
           /\ toldTasks' = IF Exhausted(b) THEN toldTasks \cup {t} ELSE toldTasks
    /\ UNCHANGED <<governor, moduleLimits>>

EndTask(t) ==
    /\ t \in DOMAIN tasks
    /\ tasks' = [u \in DOMAIN tasks \ {t} |-> tasks[u]]
    /\ toldTasks' = toldTasks \ {t}
    /\ UNCHANGED <<governor, moduleLimits>>

(* The uses and requests that are tried: one unit of one kind, or nothing. *)
Amount == {[k \in Kind |-> IF k = j THEN 1 ELSE 0] : j \in Kind} \cup {Unused}

BudgetStep ==
    \/ \E m \in Spender :
          \/ \E use \in Amount : RecordUsage(m, use)
          \/ ResetUsage(m)
          \/ \E t \in Task, asked \in Amount : StartTask(t, m, asked)
    \/ \E t \in Task :
          \/ \E use \in Amount : ReportUsage(t, use)
          \/ EndTask(t)

----------------------------------------------------------------------------

(* No overrun goes unnoticed.  What a module has used beyond a limit, of     *)
(* each kind, was reported since its usage was last reset, or its limits are *)
(* newer than its last usage (resource.py:77-106).  A task that has used up  *)
(* a budget was reported since it was started, and no other task was; an     *)
(* equal amount is enough, unlike for modules (watchdog.py:95-108).  The     *)
(* exception is a budget of less than a second of CPU, which may be used up  *)
(* and overrun unnoticed until a whole second has been used.                 *)
OverrunReported ==
    /\ \A m \in DOMAIN usage :
          m \notin relimited =>
              \A k \in Kind : LET limit == IF m \in DOMAIN limits THEN limits[m][k] ELSE 0
                             IN  limit # 0 /\ usage[m][k] > limit => <<m, k>> \in told
    /\ \A t \in DOMAIN tasks :
          LET usedUp == {k \in Kind : tasks[t].used[k] >= tasks[t].budget[k]}
          IN  /\ t \in toldTasks => usedUp # {}
              /\ \A k \in usedUp : t \in toldTasks \/ tasks[t].used[k] < Least[k]
=============================================================================
