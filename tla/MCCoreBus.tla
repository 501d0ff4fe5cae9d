----------------------------- MODULE MCCoreBus -----------------------------
(***************************************************************************)
(* Instances of CoreBus: three priorities, four events and the violations  *)
(* about them, two callbacks, two processor tasks (a stop and a restart),  *)
(* queues of one item so that publishers wait.                             *)
(***************************************************************************)
EXTENDS CoreBus, TLC

CONSTANTS alarm, order, chore, reply,   \* events
          vAlarm, vOrder, vChore, vReply, \* the violations about them
          ghostmind, plugin, enforcer,  \* modules
          handler, auditor              \* callbacks

MCEvent == {alarm, order, chore, reply}
MCItem == MCEvent \cup {vAlarm, vOrder, vChore, vReply}
MCPrioOf == (alarm :> 0) @@ (order :> 1) @@ (chore :> 2) @@ (reply :> 2)
            @@ [v \in {vAlarm, vOrder, vChore, vReply} |-> 0]
MCViolationOf == (alarm :> vAlarm) @@ (order :> vOrder) @@ (chore :> vChore)
                 @@ (reply :> vReply)

\* The alarm is published unauthenticated by a plugin, in the name of a core module.
MCSource == (alarm :> plugin) @@ (order :> ghostmind) @@ (chore :> ghostmind)
            @@ (reply :> ghostmind)
MCEmitter == (alarm :> Unnamed) @@ (order :> ghostmind) @@ (chore :> plugin)
             @@ (reply :> ghostmind)
MCValidator == [i \in MCItem |-> "none"]
MCHeavy == {chore, reply}

\* Nobody subscribes to the alarm and the order, which recur: between them they can keep
\* the queue of the chore and the reply waiting for ever.
MCRecurring == {alarm, order}
MCSubscribers == [i \in MCItem |->
    IF i = chore THEN <<handler, auditor>>
    ELSE IF i \in {reply, vChore} THEN <<auditor>> ELSE <<>>]
MCReaction == (handler :> reply) @@ (auditor :> None)

\* The enforcer's own name is registered at SYSTEM, as the rules require of whoever
\* speaks for a reserved source; the plugin may be registered while the bus runs.
MCModule == {ghostmind, plugin, enforcer}
MCRegistered == (ghostmind :> CORE) @@ (enforcer :> SYSTEM)
MCRegistration == {<<plugin, PLUGIN>>}

\* What the kernel sets up: the enforcer's own name is never registered.
KernelRegistered == (ghostmind :> CORE)
=============================================================================
