---------------------------- MODULE Compensator ----------------------------
(***************************************************************************)
(* RobustCompensator of compensator.py on top of the registry, with the    *)
(* kernel's helpers that request compensations.  Requests travel as        *)
(* compensation.requested events of one priority; the scheduler delivers   *)
(* them one by one and awaits handle(), so one handler runs at a time.     *)
(* handle() gives up the event loop in the undo action and in its backoff; *)
(* in between only a crash can separate two of its effects.                *)
(***************************************************************************)
EXTENDS CompensationRegistry, Integers

CONSTANTS MaxRetries,     (* max_retries                                         *)
          Threshold,      (* consecutive permanent failures that open the circuit *)
          RequestBudget,  (* bound: the number of requests                       *)
          NoToken         (* no handler is running                               *)

ASSUME CompensatorConstants ==
    /\ MaxRetries \in Nat \ {0}
    /\ Threshold \in Nat \ {0}
    /\ RequestBudget \in Nat
    /\ NoToken \notin Token

VARIABLES
    running,   (* the operations still running in their modules                   *)
    requests,  (* the compensation.requested events not yet delivered             *)
    handling,  (* the token handle() is working on, or NoToken                    *)
    stage,     (* where handle() is                                               *)
    attempt,   (* the attempt it is at                                            *)
    failures,  (* consecutive_permanent_failures                                  *)
    circuit,   (* circuit_open                                                    *)
    dlq,       (* the tokens in the file of the dead letter queue                 *)
    left,      (* what is left of the bound on requests                           *)
    undone,    (* ghost: the tokens whose operation was undone                    *)
    licence,   (* ghost: how often it may still be undone, see UndoneOncePerRequest *)
    dropped    (* ghost: tokens that handle() gave up without a verdict: because  *)
               (* the circuit was open, in a cancellation or in a crash           *)

compVars == <<running, requests, handling, stage, attempt, failures, circuit,
              dlq, left, undone, licence, dropped>>
handlerVars == <<handling, stage, attempt, failures, circuit, dlq>>
vars == <<regVars, compVars>>

(* "acting": awaiting the undo action; "backoff": asleep between attempts;   *)
(* "succeeded": the action has returned, mark_compensated() is next;         *)
(* "permanent", "failed": mark_failed() is done, the dead letter is next.    *)
Stage == {"idle", "acting", "backoff", "succeeded", "permanent", "failed"}

Init ==
    /\ RegInit
    /\ running = {}
    /\ requests = <<>>
    /\ handling = NoToken
    /\ stage = "idle"
    /\ attempt = 0
    /\ failures = 0
    /\ circuit = FALSE
    /\ dlq = {}
    /\ left = RequestBudget
    /\ undone = {}
    /\ licence = [t \in Token |-> 0]
    /\ dropped = {}

----------------------------------------------------------------------------

(* No handler is between two effects: the event loop may run others. *)
LoopFree == stage \in {"idle", "acting", "backoff"}

(* kernel.register_external_operation() *)
OperationStarts(t) ==
    /\ LoopFree
    /\ Register(t)
    /\ running' = running \cup {t}
    /\ UNCHANGED <<requests, handlerVars, left, undone, licence, dropped>>

(* The module reports the end of its operation, at any time: also after its  *)
(* timeout, when somebody has requested the compensation already.            *)
OperationEnds(t, s) ==
    /\ LoopFree
    /\ t \in running
    /\ s \in {"COMPLETED", "FAILED"}
    /\ Mark(t, s)
    /\ running' = running \ {t}
    /\ UNCHANGED <<requests, handlerVars, left, undone, licence, dropped>>

(* kernel.request_compensation(): refused for an unknown token only; a state *)
(* in which it makes no sense is merely logged.  (When the bus refuses the   *)
(* event, the task that publishes it changes nothing.)                       *)
Request(t) ==
    /\ up
    /\ LoopFree
    /\ left > 0
    /\ left' = left - 1
    /\ t \in DOMAIN records
    /\ requests' = Append(requests, t)
    /\ UNCHANGED <<regVars, running, handlerVars, undone, licence, dropped>>

(* Mutants: the circuit is not looked at; a skipped compensation counts as   *)
(* a success.                                                                *)
AttemptAlways(t, n) ==
    /\ handling' = t
    /\ stage' = "acting"
    /\ attempt' = n
    /\ dropped' = dropped \ {t}
AttemptOrSucceed(t, n) ==
    /\ handling' = t
    /\ stage' = IF circuit THEN "succeeded" ELSE "acting"
    /\ attempt' = n
    /\ dropped' = dropped \ {t}

(* The next attempt, or none when the circuit is open. *)
Attempt(t, n) ==
    \/ /\ ~circuit
       /\ handling' = t
       /\ stage' = "acting"
       /\ attempt' = n
       /\ dropped' = dropped \ {t}
    \/ /\ circuit
       /\ handling' = NoToken
       /\ stage' = "idle"
       /\ attempt' = 0
       /\ dropped' = dropped \cup {t}

(* handle() up to its first await. *)
Handle ==
    /\ stage = "idle"
    /\ requests # <<>>
    /\ requests' = Tail(requests)
    /\ LET t == Head(requests)
       IN  /\ Mark(t, "COMPENSATING")
           /\ Attempt(t, 1)
           /\ licence' = [licence EXCEPT ![t] = @ + 1]
    /\ UNCHANGED <<running, failures, circuit, dlq, left, undone>>

(* Ghost: the undo action took effect. *)
Undoes(t) ==
    /\ undone' = undone \cup {t}
    /\ licence' = [licence EXCEPT ![t] = @ - 1]

(* The action returns. *)
ActionSucceeds ==
    /\ up
    /\ stage = "acting"
    /\ stage' = "succeeded"
    /\ Undoes(handling)
    /\ UNCHANGED <<regVars, running, requests, handling, attempt, failures,
                   circuit, dlq, left, dropped>>

(* Mutants: the loop goes on after a success; the success is not recorded.   *)
RecordAndGoOn ==
    /\ stage = "succeeded"
    /\ Mark(handling, "COMPENSATED")
    /\ stage' = "acting"
    /\ failures' = 0
    /\ circuit' = FALSE
    /\ UNCHANGED <<handling, attempt, running, requests, dlq, left, undone, licence,
                   dropped>>
SuccessUnrecorded ==
    /\ stage = "succeeded"
    /\ handling' = NoToken
    /\ stage' = "idle"
    /\ attempt' = 0
    /\ failures' = 0
    /\ circuit' = FALSE
    /\ UNCHANGED <<regVars, running, requests, dlq, left, undone, licence, dropped>>

(* mark_compensated(), and the rest of handle(). *)
RecordSuccess ==
    /\ stage = "succeeded"
    /\ Mark(handling, "COMPENSATED")
    /\ handling' = NoToken
    /\ stage' = "idle"
    /\ attempt' = 0
    /\ failures' = 0
    /\ circuit' = FALSE
    /\ UNCHANGED <<running, requests, dlq, left, undone, licence, dropped>>

(* The action raises PermanentCompensationError or an unexpected exception.  *)
ActionFails(how) ==
    /\ stage = "acting"
    /\ how \in {"permanent", "failed"}
    /\ Mark(handling, "FAILED")
    /\ stage' = how
    /\ UNCHANGED <<running, requests, handling, attempt, failures, circuit,
                   dlq, left, undone, licence, dropped>>

(* It raises a transient error or times out, possibly after it took effect.  *)
(* The last attempt fails for good.                                          *)
ActionTransient(tookEffect) ==
    /\ up
    /\ stage = "acting"
    /\ IF tookEffect THEN undone' = undone \cup {handling} ELSE UNCHANGED undone
    /\ \/ /\ attempt < MaxRetries
          /\ stage' = "backoff"
          /\ UNCHANGED regVars
       \/ /\ attempt = MaxRetries
          /\ Mark(handling, "FAILED")
          /\ stage' = "failed"
    /\ UNCHANGED <<running, requests, handling, attempt, failures, circuit,
                   dlq, left, licence, dropped>>

BackoffOver ==
    /\ up
    /\ stage = "backoff"
    /\ Attempt(handling, attempt + 1)
    /\ UNCHANGED <<regVars, running, requests, failures, circuit, dlq, left,
                   undone, licence>>

(* dlq.add(), whose write error is logged only; permanent failures count     *)
(* towards the circuit breaker.                                              *)
DeadLetter(added) ==
    /\ up
    /\ stage \in {"permanent", "failed"}
    /\ dlq' = IF added THEN dlq \cup {handling} ELSE dlq
    /\ failures' = IF stage = "permanent" THEN failures + 1 ELSE failures
    /\ circuit' = (circuit \/ (stage = "permanent" /\ failures + 1 >= Threshold))
    /\ handling' = NoToken
    /\ stage' = "idle"
    /\ attempt' = 0
    /\ UNCHANGED <<regVars, running, requests, left, undone, licence, dropped>>

(* kernel.stop() cancels the processor in the middle of handle(). *)
Cancelled(tookEffect) ==
    /\ up
    /\ stage \in {"acting", "backoff"}
    /\ tookEffect => stage = "acting"
    /\ IF tookEffect THEN Undoes(handling) ELSE UNCHANGED <<undone, licence>>
    /\ handling' = NoToken
    /\ stage' = "idle"
    /\ attempt' = 0
    /\ dropped' = dropped \cup {handling}
    /\ UNCHANGED <<regVars, running, requests, failures, circuit, dlq, left>>

(* With the process go its operations, events, handler and circuit breaker.  *)
ProcessGone ==
    /\ running' = {}
    /\ requests' = <<>>
    /\ handling' = NoToken
    /\ stage' = "idle"
    /\ attempt' = 0
    /\ failures' = 0
    /\ circuit' = FALSE
    /\ dropped' = Token
    /\ UNCHANGED <<dlq, left, undone, licence>>

(* The appends in which the process may die are those of the next steps. *)
NextAppend(t, s) ==
    \/ t \notin used /\ s = "PENDING" /\ LoopFree
    \/ t \in running /\ s \in {"COMPLETED", "FAILED"} /\ LoopFree
    \/ stage = "idle" /\ requests # <<>> /\ t = Head(requests) /\ s = "COMPENSATING"
    \/ stage = "succeeded" /\ t = handling /\ s = "COMPENSATED"
    \/ stage = "acting" /\ t = handling /\ s = "FAILED"

ProcessCrash ==
    /\ \/ Crash
       \/ \E t \in Token, s \in State : NextAppend(t, s) /\ CrashInAppend(t, s)
    /\ ProcessGone

ProcessRestart == Restart /\ UNCHANGED compVars

HandlerStep ==
    \/ Handle
    \/ ActionSucceeds
    \/ RecordSuccess
    \/ \E how \in {"permanent", "failed"} : ActionFails(how)
    \/ \E tookEffect \in BOOLEAN : ActionTransient(tookEffect) \/ Cancelled(tookEffect)
    \/ BackoffOver
    \/ \E added \in BOOLEAN : DeadLetter(added)

Next ==
    \/ \E t \in Token : OperationStarts(t)
    \/ \E t \in Token, s \in {"COMPLETED", "FAILED"} : OperationEnds(t, s)
    \/ \E t \in Token : Request(t)
    \/ HandlerStep
    \/ ProcessCrash
    \/ ProcessRestart

Spec == Init /\ [][Next]_vars

----------------------------------------------------------------------------

(* The types of the variables. *)
TypeOK ==
    /\ RegTypeOK
    /\ running \subseteq Token
    /\ requests \in Seq(Token)
    /\ handling \in Token \cup {NoToken}
    /\ stage \in Stage
    /\ attempt \in 0..MaxRetries
    /\ failures \in Nat
    /\ circuit \in BOOLEAN
    /\ dlq \subseteq Token
    /\ left \in Nat
    /\ undone \subseteq Token
    /\ licence \in [Token -> Int]
    /\ dropped \subseteq Token

(* An operation the registry calls COMPENSATED has been undone, also after a *)
(* crash and whatever the file went through.                                 *)
CompensatedIsUndone ==
    \A t \in DOMAIN records : records[t] = "COMPENSATED" => t \in undone

(* handle() undoes an operation at most once per request it receives, apart  *)
(* from attempts that took effect and yet timed out.  The undo tool needs to *)
(* be idempotent for repeated requests and for those attempts, for no other. *)
UndoneOncePerRequest ==
    \A t \in Token : licence[t] >= 0

(* A record is left in COMPENSATING only by a handler still at work, by an   *)
(* open circuit, by a cancellation or by a crash: otherwise every request    *)
(* that was delivered ends in a verdict.                                     *)
CompensatingHasReason ==
    \A t \in DOMAIN records : records[t] = "COMPENSATING" =>
        \/ t = handling
        \/ t \in dropped

(* Once open, the circuit stays open until the process is restarted: the     *)
(* only assignment that closes it follows a success, and with an open        *)
(* circuit no action is tried.                                               *)
CircuitStaysOpen ==
    [][circuit /\ up' => circuit']_vars

=============================================================================
