----------------------------- MODULE ThreadPool -----------------------------
(***************************************************************************)
(* The thread pools of core/threadpool.py: one default pool and named      *)
(* ones, made when they are first used.  submit() may be called from any   *)
(* thread, also by work that runs in a pool, and shutdown(wait=True) by    *)
(* the kernel's stop() and at exit.  Nothing is locked: every read and     *)
(* write of the manager's attributes is a step.                            *)
(*                                                                         *)
(* The executors are external: one that is shut refuses work, and          *)
(* shutting it waits for all the work it has accepted.                     *)
(***************************************************************************)
EXTENDS Naturals, FiniteSets

CONSTANTS Caller,   (* threads that call submit()                             *)
          Name,     (* names of pools                                         *)
          MaxPools, (* bound: executors that are created                      *)
          MaxWork   (* bound: calls of submit()                               *)

ASSUME PoolAssumption == MaxPools \in Nat /\ MaxWork \in Nat /\ "default" \notin Name

Slot == Name \cup {"default"}

(* Executors are numbered from 1; 0 is None, or no entry. *)
VARIABLES
    pool,       (* _default_pool and _pools                                    *)
    created,    (* the number of executors created                             *)
    shut,       (* the executors that are shut                                 *)
    work,       (* what was accepted and is not finished: number and executor  *)
    submitted,  (* the number of calls of submit()                             *)
    at,         (* where each caller is in submit()                            *)
    slot,       (* the pool each caller asked for                              *)
    executor,   (* the executor each caller got                                *)
    stop,       (* where shutdown() is                                         *)
    target,     (* the executor that shutdown() waits for                      *)
    todo,       (* the names its loop has not seen                             *)
    size,       (* the size of _pools when its loop began                      *)
    early,      (* ghost: the unfinished work when the shutdown began          *)
    overlapped, (* ghost: callers during whose submit() a shutdown ran         *)
    broken,     (* ghost: a shutdown was broken off, and none completed since  *)
    forgotten    (* ghost: executors that lost their slot before they were shut *)

submitVars == <<submitted, at, slot, executor>>
stopVars == <<stop, target, todo, size>>
poolVars == <<pool, created, shut, work, submitVars, stopVars, early, overlapped, broken, forgotten>>

PoolInit ==
    /\ pool = [s \in Slot |-> 0]
    /\ created = 0
    /\ shut = {}
    /\ work = {}
    /\ submitted = 0
    /\ at = [c \in Caller |-> "idle"]
    /\ slot = [c \in Caller |-> "default"]
    /\ executor = [c \in Caller |-> 0]
    /\ stop = "idle"
    /\ target = 0
    /\ todo = {}
    /\ size = 0
    /\ early = {}
    /\ overlapped = {}
    /\ broken = FALSE
    /\ forgotten = {}

Stopping == stop \notin {"idle", "returned"}

Named == {n \in Name : pool[n] # 0}

Goes(c, place) == at' = [at EXCEPT ![c] = place]

(* The executors of S lose their slots. *)
Loses(S) == forgotten' = forgotten \cup (S \ (shut \cup {0}))

Submit(c, s) ==
    /\ at[c] = "idle"
    /\ submitted < MaxWork /\ submitted' = submitted + 1
    /\ Goes(c, "test")
    /\ slot' = [slot EXCEPT ![c] = s]
    /\ overlapped' = IF Stopping THEN overlapped \cup {c} ELSE overlapped \ {c}
    /\ UNCHANGED <<pool, created, shut, work, executor, stopVars, early, broken, forgotten>>

(* "pool_name not in self._pools", "self._default_pool is None". *)
TestExists(c) ==
    /\ at[c] = "test"
    /\ Goes(c, IF pool[slot[c]] = 0 THEN "create"
               ELSE IF slot[c] = "default" THEN "testShut" ELSE "fetch")
    /\ UNCHANGED <<pool, created, shut, work, submitted, slot, executor, stopVars, early,
                   overlapped, broken, forgotten>>

(* "self._default_pool._shutdown", which may have become None. *)
TestShut(c) ==
    /\ at[c] = "testShut"
    /\ Goes(c, IF pool["default"] = 0 THEN "failed"
               ELSE IF pool["default"] \in shut THEN "create" ELSE "fetch")
    /\ UNCHANGED <<pool, created, shut, work, submitted, slot, executor, stopVars, early,
                   overlapped, broken, forgotten>>

(* A new executor takes the slot, whatever is in it by now. *)
Create(c) ==
    /\ at[c] = "create"
    /\ created < MaxPools /\ created' = created + 1
    /\ pool' = [pool EXCEPT ![slot[c]] = created + 1]
    /\ Loses({pool[slot[c]]})
    /\ Goes(c, "fetch")
    /\ UNCHANGED <<shut, work, submitted, slot, executor, stopVars, early, overlapped, broken>>

(* The slot is read again: a KeyError when the name is gone. *)
Fetch(c) ==
    /\ at[c] = "fetch"
    /\ executor' = [executor EXCEPT ![c] = pool[slot[c]]]
    /\ Goes(c, IF slot[c] # "default" /\ pool[slot[c]] = 0 THEN "failed" ELSE "submit")
    /\ UNCHANGED <<pool, created, shut, work, submitted, slot, stopVars, early, overlapped,
                   broken, forgotten>>

Fresh == CHOOSE n \in 1..MaxWork : \A w \in work : w[1] # n

(* None has no submit(), and an executor that is shut raises. *)
Accept(c) ==
    /\ at[c] = "submit"
    /\ IF executor[c] \in shut \cup {0}
       THEN Goes(c, "failed") /\ UNCHANGED work
       ELSE Goes(c, "idle") /\ work' = work \cup {<<Fresh, executor[c]>>}
    /\ UNCHANGED <<pool, created, shut, submitted, slot, executor, stopVars, early,
                   overlapped, broken, forgotten>>

(* submit() raises. *)
SubmitRaises(c) ==
    /\ at[c] = "failed"
    /\ Goes(c, "idle")
    /\ UNCHANGED <<pool, created, shut, work, submitted, slot, executor, stopVars, early,
                   overlapped, broken, forgotten>>

Finish(w) ==
    /\ w \in work
    /\ work' = work \ {w}
    /\ early' = early \ {w}
    /\ UNCHANGED <<pool, created, shut, submitVars, stopVars, overlapped, broken, forgotten>>

----------------------------------------------------------------------------

(* shutdown() begins, and looks for the default pool. *)
Shutdown ==
    /\ ~Stopping
    /\ stop' = IF pool["default"] # 0 THEN "default" ELSE "loop"
    /\ early' = work
    /\ overlapped' = {c \in Caller : at[c] # "idle"}
    /\ UNCHANGED <<pool, created, shut, work, submitVars, target, todo, size, broken, forgotten>>

ShutDefault ==
    /\ stop = "default"
    /\ shut' = shut \cup {pool["default"]}
    /\ target' = pool["default"]
    /\ stop' = "waitDefault"
    /\ UNCHANGED <<pool, created, work, submitVars, todo, size, early, overlapped, broken, forgotten>>

(* Mutant: the work of an executor is not waited for. *)
DrainedAlways(e) == TRUE
Drained(e) == \A w \in work : w[2] # e

DefaultDrained ==
    /\ stop = "waitDefault"
    /\ Drained(target)
    /\ stop' = "loop"
    /\ UNCHANGED <<pool, created, shut, work, submitVars, target, todo, size, early,
                   overlapped, broken, forgotten>>

(* The loop over _pools begins. *)
LoopBegins ==
    /\ stop = "loop"
    /\ todo' = Named
    /\ size' = Cardinality(Named)
    /\ stop' = "next"
    /\ UNCHANGED <<pool, created, shut, work, submitVars, target, early, overlapped, broken, forgotten>>

(* The next pool of the loop is shut. *)
ShutNext(n) ==
    /\ stop = "next"
    /\ Cardinality(Named) = size
    /\ n \in todo
    /\ todo' = todo \ {n}
    /\ shut' = shut \cup {pool[n]}
    /\ target' = pool[n]
    /\ stop' = "wait"
    /\ UNCHANGED <<pool, created, work, submitVars, size, early, overlapped, broken, forgotten>>

NextDrained ==
    /\ stop = "wait"
    /\ Drained(target)
    /\ stop' = "next"
    /\ UNCHANGED <<pool, created, shut, work, submitVars, target, todo, size, early,
                   overlapped, broken, forgotten>>

(* A submit() has added a name: the iterator raises RuntimeError, and        *)
(* nothing is cleared.                                                       *)
LoopBreaks ==
    /\ stop = "next"
    /\ Cardinality(Named) # size
    /\ stop' = "idle"
    /\ broken' = TRUE
    /\ UNCHANGED <<pool, created, shut, work, submitVars, target, todo, size, early,
                   overlapped, forgotten>>

(* The loop has seen all names. *)
LoopEnds ==
    /\ stop = "next"
    /\ todo = {} /\ Cardinality(Named) = size
    /\ stop' = "clear"
    /\ UNCHANGED <<pool, created, shut, work, submitVars, target, todo, size, early,
                   overlapped, broken, forgotten>>

(* Mutant: the names are kept. *)
ClearNothing ==
    /\ stop = "clear"
    /\ stop' = "forget"
    /\ UNCHANGED <<pool, created, shut, work, submitVars, target, todo, size, early,
                   overlapped, broken, forgotten>>

(* _pools.clear() *)
Clear ==
    /\ stop = "clear"
    /\ pool' = [s \in Slot |-> IF s \in Name THEN 0 ELSE pool[s]]
    /\ Loses({pool[n] : n \in Name})
    /\ stop' = "forget"
    /\ UNCHANGED <<created, shut, work, submitVars, target, todo, size, early, overlapped, broken>>

(* "self._default_pool = None", and shutdown() returns. *)
ForgetDefault ==
    /\ stop = "forget"
    /\ pool' = [pool EXCEPT !["default"] = 0]
    /\ Loses({pool["default"]})
    /\ stop' = "returned"
    /\ broken' = FALSE
    /\ UNCHANGED <<created, shut, work, submitVars, target, todo, size, early, overlapped>>

PoolStep ==
    \/ \E c \in Caller :
          \/ \E s \in Slot : Submit(c, s)
          \/ TestExists(c) \/ TestShut(c) \/ Create(c) \/ Fetch(c) \/ Accept(c) \/ SubmitRaises(c)
    \/ \E w \in work : Finish(w)
    \/ Shutdown \/ ShutDefault \/ DefaultDrained
    \/ LoopBegins \/ (\E n \in Name : ShutNext(n)) \/ NextDrained \/ LoopBreaks
    \/ LoopEnds \/ Clear \/ ForgetDefault

----------------------------------------------------------------------------

(* Work is refused only because of a shutdown: one that ran while submit()   *)
(* did, or one that a submit() broke off, which leaves named pools that are  *)
(* shut in the table (threadpool.py:57-69, 75-79).                           *)
RefusedOnlyByShutdown ==
    \A c \in Caller : at[c] = "failed" => c \in overlapped \/ broken

(* When shutdown() has returned, what was accepted before it began is        *)
(* finished.  Only an executor may still work that lost its slot unshut: two *)
(* first calls of submit() raced, or one of them ran during an earlier       *)
(* shutdown (threadpool.py:58-64, 71-79).                                    *)
StoppedMeansDone ==
    stop = "returned" => \A w \in work \cap early : w[2] \in forgotten
=============================================================================
