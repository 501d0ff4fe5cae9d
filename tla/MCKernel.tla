------------------------------ MODULE MCKernel ------------------------------
(***************************************************************************)
(* An instance of Kernel: three modules whose manifests form chains,       *)
(* cycles and doubled dependencies and change their limits, two kinds of   *)
(* budget with two units of CPU to a second, so that one unit is a budget  *)
(* below a second, a listener that reacts between two that do not, two     *)
(* coroutines with a nested or shared context, two threads and one named   *)
(* pool.                                                                   *)
(***************************************************************************)
EXTENDS Kernel, TLC

MCLimits == [tokens |-> 1, cpu |-> 0]
MCNoLimits == [tokens |-> 0, cpu |-> 0]
MCBothLimits == [tokens |-> 1, cpu |-> 1]

MCManifest ==
    {[name |-> "mind", dependencies |-> d, limits |-> MCBothLimits] :
        d \in {<<>>, <<"store">>, <<"store", "store">>}}
    \cup {[name |-> "mind", dependencies |-> <<"mind">>, limits |-> MCLimits]}
    \cup {[name |-> "store", dependencies |-> d, limits |-> MCLimits] :
        d \in {<<>>, <<"arms">>, <<"mind", "arms">>}}
    \cup {[name |-> "arms", dependencies |-> d, limits |-> MCNoLimits] :
        d \in {<<"store", "mind">>, <<"store">>}}

MCListeners == <<"first", "reacts", "last">>
MCNoManifest == [tokens |-> 0, cpu |-> 3]
MCDefault == [tokens |-> 2, cpu |-> 2]
MCLeast == [tokens |-> 1, cpu |-> 2]
MCMaxRegistrations ==
    [graph |-> 3, health |-> 1, budgets |-> 2, dryRun |-> 0, pools |-> 0]
MCEnabled == [x \in {"simulate", "live"} |-> x = "simulate"]
=============================================================================
