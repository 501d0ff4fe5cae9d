------------------------------- MODULE DryRun -------------------------------
(***************************************************************************)
(* The dry-run flag of core/dryrun.py: one for the whole process.  A       *)
(* context remembers the flag when it is entered and puts it back when it  *)
(* is left; coroutines that await inside a context overlap.                *)
(***************************************************************************)
EXTENDS Naturals, SequencesExt

CONSTANTS Coroutine,  (* users of contexts                                  *)
          Context,    (* DryRunContext objects, which may be used again     *)
          Enabled,    (* what each sets the flag to                         *)
          MaxDepth    (* bound: contexts that a coroutine is inside of      *)

ASSUME DryRunAssumption == Enabled \in [Context -> BOOLEAN] /\ MaxDepth \in Nat

VARIABLES
    dryRun,   (* _dry_run_enabled                                             *)
    saved,    (* _previous_state of each context                              *)
    inside,   (* the contexts each coroutine is in, the innermost last        *)
    open,     (* ghost: the contexts that are open, in the order of entry     *)
    base,     (* ghost: the flag as it was last set outside of all contexts   *)
    orderly   (* ghost: contexts nested so far, each was entered once at a    *)
              (* time, and the flag was set outside of them only              *)

dryRunVars == <<dryRun, saved, inside, open, base, orderly>>

(* The kernel sets the flag first when dry_run_default is configured. *)
DryRunInit ==
    /\ dryRun \in BOOLEAN
    /\ saved = [x \in Context |-> FALSE]
    /\ inside = [c \in Coroutine |-> <<>>]
    /\ open = <<>>
    /\ base = dryRun
    /\ orderly = TRUE

SetDryRun(b) ==
    /\ dryRun' = b
    /\ base' = b
    /\ orderly' = (orderly /\ open = <<>>)
    /\ UNCHANGED <<saved, inside, open>>

(* Mutant: the flag is saved after it is set. *)
EnterLate(c, x) ==
    /\ Len(inside[c]) < MaxDepth
    /\ saved' = [saved EXCEPT ![x] = Enabled[x]]
    /\ dryRun' = Enabled[x]
    /\ inside' = [inside EXCEPT ![c] = Append(@, x)]
    /\ open' = Append(open, x)
    /\ orderly' = (orderly /\ x \notin Range(open))
    /\ UNCHANGED base

(* __enter__() *)
Enter(c, x) ==
    /\ Len(inside[c]) < MaxDepth
    /\ saved' = [saved EXCEPT ![x] = dryRun]
    /\ dryRun' = Enabled[x]
    /\ inside' = [inside EXCEPT ![c] = Append(@, x)]
    /\ open' = Append(open, x)
    /\ orderly' = (orderly /\ x \notin Range(open))
    /\ UNCHANGED base

(* __exit__() of the innermost context of c. *)
Exit(c) ==
    /\ inside[c] # <<>>
    /\ LET x == Last(inside[c])
           n == CHOOSE i \in 1..Len(open) : open[i] = x
       IN  /\ dryRun' = saved[x]
           /\ inside' = [inside EXCEPT ![c] = Front(@)]
           /\ open' = RemoveAt(open, n)
           /\ orderly' = (orderly /\ n = Len(open))
    /\ UNCHANGED <<saved, base>>

DryRunStep ==
    \/ \E b \in BOOLEAN : SetDryRun(b)
    \/ \E c \in Coroutine : (\E x \in Context : Enter(c, x)) \/ Exit(c)

----------------------------------------------------------------------------

(* Contexts of one coroutine or of several that nest in time keep the flag:  *)
(* inside it is what the innermost one asks for, and outside what was last   *)
(* set there.  Only an overlap, a context object entered twice, or a setting *)
(* from inside can spoil it (dryrun.py:41, 49-56).                           *)
NestingRestores ==
    orderly => dryRun = IF open = <<>> THEN base ELSE Enabled[Last(open)]
=============================================================================
