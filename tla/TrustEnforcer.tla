--------------------------- MODULE TrustEnforcer ---------------------------
(***************************************************************************)
(* The admission rules that CoreBus.publish() applies to an event before   *)
(* the event reaches the scheduler: the schema registry of                 *)
(* core/registry.py and the trust rules of governance/trust.py.  Both are  *)
(* synchronous; the only state they read is which modules are registered,  *)
(* and with what trust level.                                              *)
(***************************************************************************)
EXTENDS Naturals

CONSTANTS Module,        (* module names                                        *)
          Unnamed,       (* authenticated_emitter=None                          *)
          Enforcer,      (* the name "BloodyHeart.TrustEnforcer"                *)
          Reserved,      (* names that start with "BloodyHeart."                *)
          AllowUnknown   (* SchemaRegistry.allow_unknown                        *)

(* TrustLevel of manifest.py, an IntEnum. *)
UNTRUSTED == 0
PLUGIN    == 1
MODULE_   == 2
CORE      == 3
SYSTEM    == 4
TrustLevel == UNTRUSTED..SYSTEM

ASSUME TrustConstants ==
    /\ Enforcer \in Reserved
    /\ Reserved \subseteq Module
    /\ Unnamed \notin Module
    /\ AllowUnknown \in BOOLEAN

VARIABLE manifests   (* the trust level of each registered module: a partial map *)

TrustTypeOK ==
    /\ DOMAIN manifests \subseteq Module
    /\ \A m \in DOMAIN manifests : manifests[m] \in TrustLevel

(* get_trust_level(): a name that was never registered is untrusted. *)
LevelOf(m) == IF m \in DOMAIN manifests THEN manifests[m] ELSE UNTRUSTED

(* register_module(): the latest manifest of a name replaces the former. *)
RegisterModule(m, level) ==
    manifests' = [n \in DOMAIN manifests \cup {m} |->
                    IF n = m THEN level ELSE manifests[n]]

(* validate() of the registry: the registered validator decides (one that    *)
(* raises rejects), an unknown schema passes in permissive mode only.        *)
SchemaOK(validator) ==
    IF validator = "none" THEN AllowUnknown ELSE validator = "accepts"

(* The name whose trust counts: the authenticated emitter when there is one. *)
EffectiveSource(source, emitter) == IF emitter = Unnamed THEN source ELSE emitter

(* First rule of validate_event(): only SYSTEM may authenticate as itself    *)
(* and claim a reserved source.                                              *)
Impersonates(source, emitter) ==
    /\ source \in Reserved
    /\ emitter # Unnamed
    /\ LevelOf(emitter) < SYSTEM

(* Second rule: the untrusted publish neither P0 nor P1. *)
TooUrgent(source, emitter, prio) ==
    /\ LevelOf(EffectiveSource(source, emitter)) = UNTRUSTED
    /\ prio \in {0, 1}

ValidateEvent(source, emitter, prio) ==
    ~Impersonates(source, emitter) /\ ~TooUrgent(source, emitter, prio)

(* _emit_violation() publishes a P0 security.violation in the name of the    *)
(* enforcer itself, through the same rules.                                  *)
ViolationPasses(validator) ==
    SchemaOK(validator) /\ ValidateEvent(Enforcer, Enforcer, 0)

=============================================================================
