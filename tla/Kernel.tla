------------------------------- MODULE Kernel -------------------------------
(***************************************************************************)
(* The services of the kernel that do not touch the bus while they decide: *)
(* the dependency graph, the health monitor, the two budget counters, the  *)
(* dry-run flag and the thread pools.  register_module() is one step of    *)
(* all that keep something of a manifest.                                  *)
(*                                                                         *)
(* The services share nothing else, so their steps are looked at one       *)
(* service at a time: "used" is the one whose steps a behaviour takes.     *)
(***************************************************************************)
EXTENDS ModuleGraph, HealthMonitor, Budgets, DryRun, ThreadPool

CONSTANT MaxRegistrations  (* bound: calls of register_module(), by the service used *)

VARIABLES
    used,          (* the service that is used            *)
    registrations  (* what is left of the bound           *)

vars == <<manifests, graphVars, healthVars, budgetVars, dryRunVars, poolVars, used, registrations>>

Service == {"graph", "health", "budgets", "dryRun", "pools"}

Init ==
    /\ ManifestsInit
    /\ GraphInit
    /\ HealthInit
    /\ BudgetInit
    /\ DryRunInit
    /\ PoolInit
    /\ used \in Service
    /\ dryRun => used = "dryRun"
    /\ registrations = MaxRegistrations[used]

(* register_module(); no listener calls it. *)
RegisterModule(x) ==
    /\ changes = <<>>
    /\ registrations > 0 /\ registrations' = registrations - 1
    /\ KeepManifest(x)
    /\ GraphRegister(x)
    /\ HealthRegister(x)
    /\ BudgetRegister(x)
    /\ UNCHANGED <<dryRunVars, poolVars, used>>

UseHealth ==
    /\ used = "health"
    /\ HealthStep
    /\ UNCHANGED <<manifests, graphVars, budgetVars, dryRunVars, poolVars, used, registrations>>

UseBudgets ==
    /\ used = "budgets"
    /\ BudgetStep
    /\ UNCHANGED <<manifests, graphVars, healthVars, dryRunVars, poolVars, used, registrations>>

UseDryRun ==
    /\ used = "dryRun"
    /\ DryRunStep
    /\ UNCHANGED <<manifests, graphVars, healthVars, budgetVars, poolVars, used, registrations>>

UsePools ==
    /\ used = "pools"
    /\ PoolStep
    /\ UNCHANGED <<manifests, graphVars, healthVars, budgetVars, dryRunVars, used, registrations>>

Next ==
    \/ \E x \in Manifest : RegisterModule(x)
    \/ UseHealth
    \/ UseBudgets
    \/ UseDryRun
    \/ UsePools

Spec == Init /\ [][Next]_vars
=============================================================================
