--------------------------- MODULE HealthMonitor ---------------------------
(***************************************************************************)
(* The health monitor of health/monitor.py.  set_state() calls the         *)
(* listeners one after the other, and a listener may call set_state()      *)
(* itself: the calls nest, and the listeners after it hear of the inner    *)
(* change first.  Latencies stand for how they compare with the            *)
(* thresholds; error counts are read by nobody.  The propagation to        *)
(* dependents, ModuleGraph's Dependents, is only logged.                   *)
(***************************************************************************)
EXTENDS Manifests

CONSTANTS Listeners,     (* _on_state_change: a sequence of names             *)
          Reacting,      (* the listeners that may call set_state()           *)
          Reported,      (* the states that are reported to set_state()       *)
          HealthBudget   (* bound: calls that may change anything             *)

HealthState == {"HEALTHY", "DEGRADED", "UNHEALTHY", "RECOVERING", "FAILED"}

ASSUME HealthAssumption ==
    /\ Listeners \in Seq(Range(Listeners)) /\ IsInjective(Listeners)
    /\ Reported \subseteq HealthState
    /\ HealthBudget \in Nat

VARIABLES
    health,     (* the state of each module that is known                     *)
    latency,    (* of each known module: 0 is below both thresholds, 1 above  *)
                (* the first, 2 above both                                    *)
    changes,    (* the calls of set_state() under way, the innermost last     *)
    calls,      (* what is left of the bound                                  *)
    heard       (* ghost: the state of each module that each listener heard   *)

healthVars == <<health, latency, changes, calls, heard>>

HealthInit ==
    /\ health = [m \in {} |-> "HEALTHY"]
    /\ latency = [m \in {} |-> 0]
    /\ changes = <<>>
    /\ calls = HealthBudget
    /\ heard = [l \in Range(Listeners) |-> [m \in Module |-> "HEALTHY"]]

StateOf(m) == IF m \in DOMAIN health THEN health[m] ELSE "HEALTHY"

(* register_module(): a module that is known keeps its health. *)
HealthRegister(x) ==
    /\ IF x.name \in DOMAIN health
       THEN UNCHANGED <<health, latency>>
       ELSE /\ health' = With(health, x.name, "HEALTHY")
            /\ latency' = With(latency, x.name, 0)
    /\ UNCHANGED <<changes, calls, heard>>

(* set_state() up to the first listener, on top of the calls in stack. *)
Change(m, s, stack) ==
    /\ calls > 0 /\ calls' = calls - 1
    /\ health' = With(health, m, s)
    /\ latency' = IF m \in DOMAIN health THEN latency ELSE With(latency, m, 0)
    /\ changes' = IF s = StateOf(m) THEN stack
                  ELSE Append(stack, [module |-> m, to |-> s, next |-> 1])

SetState(m, s) ==
    /\ changes = <<>>
    /\ Change(m, s, <<>>)
    /\ UNCHANGED heard

RecordLatency(m, l) ==
    /\ changes = <<>>
    /\ m \in DOMAIN latency
    /\ calls > 0 /\ calls' = calls - 1
    /\ latency' = [latency EXCEPT ![m] = l]
    /\ UNCHANGED <<health, changes, heard>>

(* check_thresholds(): nothing brings a module back to HEALTHY. *)
CheckThresholds(m) ==
    /\ changes = <<>>
    /\ m \in DOMAIN latency
    /\ \/ latency[m] = 2 /\ Change(m, "UNHEALTHY", <<>>)
       \/ latency[m] = 1 /\ Change(m, "DEGRADED", <<>>)
    /\ UNCHANGED heard

(* The innermost call calls its next listener; what it raises is logged. *)
Notify ==
    /\ changes # <<>>
    /\ LET top == Last(changes)
       IN  /\ top.next <= Len(Listeners)
           /\ heard' = [heard EXCEPT ![Listeners[top.next]][top.module] = top.to]
           /\ changes' = Append(Front(changes), [top EXCEPT !.next = @ + 1])
    /\ UNCHANGED <<health, latency, calls>>

(* The listener that was called last calls set_state(), and may do so again. *)
Reacts ==
    /\ changes # <<>>
    /\ Last(changes).next > 1
    /\ Listeners[Last(changes).next - 1] \in Reacting
    /\ \E m \in Module, s \in Reported : Change(m, s, changes)
    /\ UNCHANGED heard

(* Mutant: the state is assigned when the listeners have been told. *)
ReturnsAssigning ==
    /\ changes # <<>>
    /\ Last(changes).next > Len(Listeners)
    /\ changes' = Front(changes)
    /\ health' = [health EXCEPT ![Last(changes).module] = Last(changes).to]
    /\ UNCHANGED <<latency, calls, heard>>

(* The listeners have been told, and set_state() returns. *)
Returns ==
    /\ changes # <<>>
    /\ Last(changes).next > Len(Listeners)
    /\ changes' = Front(changes)
    /\ UNCHANGED <<health, latency, calls, heard>>

HealthStep ==
    \/ \E m \in Module :
          \/ \E s \in Reported : SetState(m, s)
          \/ \E l \in 0..2 : RecordLatency(m, l)
          \/ CheckThresholds(m)
    \/ Notify
    \/ Reacts
    \/ Returns

----------------------------------------------------------------------------

(* When no call is under way, every listener up to the first that reacts has *)
(* heard of the state each module is in, though the changes nested; those    *)
(* after it are told the inner change before the outer one and may be left   *)
(* with the outer (monitor.py:49-56).                                        *)
ListenersUpToDate ==
    changes = <<>> =>
        \A n \in 1..Len(Listeners) :
            (\A k \in 1..(n - 1) : Listeners[k] \notin Reacting) =>
                \A m \in Module : heard[Listeners[n]][m] = StateOf(m)
=============================================================================
