----------------------------- MODULE Manifests -----------------------------
(***************************************************************************)
(* The manifests that the kernel hands to its components, and its own      *)
(* table of them.  What the trust enforcer takes from a manifest is in     *)
(* CoreBus.                                                                *)
(***************************************************************************)
EXTENDS Integers, FiniteSets, SequencesExt

CONSTANTS Module,    (* names of modules                                        *)
          Kind,      (* kinds of budget, which are all treated alike: cpu,      *)
                     (* tokens, reasoning                                       *)
          Manifest   (* the manifests that are registered: name, dependencies,  *)
                     (* and a limit per kind (0 for None)                       *)

ASSUME ManifestAssumption ==
    Manifest \subseteq [name : Module, dependencies : Seq(Module), limits : [Kind -> Nat]]

VARIABLE manifests  (* the kernel's table: the manifest last registered, by name *)

ManifestsInit == manifests = [m \in {} |-> {}]

(* A function that also maps x to v. *)
With(f, x, v) == [y \in DOMAIN f \cup {x} |-> IF y = x THEN v ELSE f[y]]

(* A manifest of the same name is replaced. *)
KeepManifest(x) == manifests' = With(manifests, x.name, x)
=============================================================================
