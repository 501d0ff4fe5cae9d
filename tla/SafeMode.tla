------------------------------ MODULE SafeMode ------------------------------
(***************************************************************************)
(* governance/safe_mode.py and governance/security.py: the manager of the  *)
(* safe mode, whose levels are 0 (NORMAL) to 4 (L4_EMERGENCY), and the     *)
(* matrix that answers violations by terminating a module or by raising    *)
(* the mode.  Both publish on the bus after each change; the coroutine     *)
(* that does so waits, and resumes, or ends with what the publication      *)
(* raised.  Others run in between.                                         *)
(*                                                                         *)
(* What subscribers hear of the changes is modelled in SafeModeNotices.    *)
(***************************************************************************)
EXTENDS Integers, SequencesExt

CONSTANTS Call,       (* coroutines inside the matrix or the manager             *)
          Module,     (* names of modules                                        *)
          CallBudget  (* bound: how many calls are made that may change anything *)

Level == 0..4

(* ViolationType, by the way _classify_violation() tells them apart. *)
Class == {"critical", "boundary", "misuse", "budget", "local"}

ASSUME CallBudgetAssumption == CallBudget \in Nat

VARIABLES
    mode,       (* _current_mode                                                  *)
    history,    (* _history: from and to of each transition                       *)
    counts,     (* _violation_counts                                              *)
    terminated, (* terminated_modules                                             *)
    state,      (* of each coroutine: "idle", or "waits" for its publication      *)
    todo,       (* the escalations it has still to ask for                        *)
    budget,     (* what is left of the bound                                      *)
    resets,     (* ghost: the lengths of the history at which the mode was reset  *)
    floor,      (* ghost: the highest level asked for since the mode was lowered  *)
    raised,     (* ghost: how often the call of each coroutine raised the mode    *)
    lowered     (* ghost: coroutines during whose call the mode was lowered       *)

vars == <<mode, history, counts, terminated, state, todo, budget, resets, floor, raised, lowered>>
manager == <<mode, history>>
ghosts == <<resets, floor, raised, lowered>>

Init ==
    /\ mode = 0
    /\ history = <<>>
    /\ counts = [m \in Module |-> 0]
    /\ terminated = {}
    /\ state = [c \in Call |-> "idle"]
    /\ todo = [c \in Call |-> <<>>]
    /\ budget = CallBudget
    /\ resets = {}
    /\ floor = 0
    /\ raised = [c \in Call |-> 0]
    /\ lowered = {}

----------------------------------------------------------------------------

Highest(S) == CHOOSE l \in S : \A k \in S : k <= l

(* escalate(): a target that is not above the mode is passed over. *)
(* Mutant: the level that is already in force is taken again.      *)
RaisesOrRepeats(target) == target >= mode
Raises(target) == target > mode

(* Mutant: the old mode is read after the assignment. *)
RecordTarget(from, to) == history' = Append(history, [from |-> to, to |-> to])
Record(from, to) == history' = Append(history, [from |-> from, to |-> to])

(* A coroutine that goes on with the escalations of s: the first that raises *)
(* the mode publishes, and the coroutine waits; without one it returns.      *)
Escalate(c, s) ==
    LET raising == {i \in 1..Len(s) : Raises(s[i])}
    IN  IF raising = {}
        THEN /\ state' = [state EXCEPT ![c] = "idle"]
             /\ todo' = [todo EXCEPT ![c] = <<>>]
             /\ raised' = [raised EXCEPT ![c] = 0]
             /\ lowered' = lowered \ {c}
             /\ UNCHANGED manager
        ELSE LET i == CHOOSE i \in raising : \A j \in raising : i <= j
             IN  /\ mode' = s[i]
                 /\ Record(mode, s[i])
                 /\ state' = [state EXCEPT ![c] = "waits"]
                 /\ todo' = [todo EXCEPT ![c] = SubSeq(s, i + 1, Len(s))]
                 /\ raised' = [raised EXCEPT ![c] = @ + 1]
                 /\ UNCHANGED lowered

AskFor(levels) == floor' = Highest({floor} \cup levels)

Enter(c) ==
    /\ state[c] = "idle"
    /\ budget > 0 /\ budget' = budget - 1

(* A call of escalate() by an operator (BloodyHeart.escalate_safe_mode). *)
CallEscalate(c, target) ==
    /\ Enter(c)
    /\ Escalate(c, <<target>>)
    /\ AskFor({target})
    /\ UNCHANGED <<counts, terminated, resets>>

(* What lowering the mode to l leaves of the ghosts. *)
Lower(l) ==
    /\ floor' = l
    /\ lowered' = lowered \cup {c \in Call : state[c] = "waits"}

(* de_escalate(): one level down. *)
DeEscalate(c) ==
    /\ Enter(c)
    /\ mode # 0
    /\ mode' = mode - 1
    /\ Record(mode, mode - 1)
    /\ state' = [state EXCEPT ![c] = "waits"]
    /\ Lower(mode - 1)
    /\ UNCHANGED <<counts, terminated, todo, resets, raised>>

(* reset_to_normal(): no entry in the history, no publication. *)
ResetToNormal ==
    /\ budget > 0 /\ budget' = budget - 1
    /\ mode' = 0
    /\ resets' = resets \cup {Len(history)}
    /\ Lower(0)
    /\ UNCHANGED <<history, counts, terminated, state, todo, raised>>

----------------------------------------------------------------------------

(* The violations that count towards the third of a module. *)
Counted(class) == class \notin {"critical", "boundary"}

(* _classify_violation(), for the n-th counted violation of a module: the      *)
(* escalations handle_violation() asks for, the one for isolate_module first.  *)
(* A local violation asks for none.  Mutant: the third is not the third yet.   *)
EscalationsLate(class, n) ==
    CASE class = "critical" -> <<4>>
      [] class = "boundary" -> <<3, 3>>
      [] Counted(class) /\ (n > 3 \/ class = "misuse") -> <<2, 2>>
      [] class = "budget" /\ n <= 3 -> <<2>>
      [] OTHER -> <<>>
Escalations(class, n) ==
    CASE class = "critical" -> <<4>>
      [] class = "boundary" -> <<3, 3>>
      [] Counted(class) /\ (n >= 3 \/ class = "misuse") -> <<2, 2>>
      [] class = "budget" /\ n < 3 -> <<2>>
      [] OTHER -> <<>>

(* What the levels S1 to S4 mean for the mode (ghost). *)
Demanded(class, n) ==
    CASE class = "critical" -> 4
      [] class = "boundary" -> 3
      [] class \in {"misuse", "budget"} \/ (class = "local" /\ n >= 3) -> 2
      [] OTHER -> 0

(* _terminate_module(): the module is entered before it is published. *)
Terminate(c, m) ==
    /\ terminated' = terminated \cup {m}
    /\ state' = [state EXCEPT ![c] = "waits"]
    /\ UNCHANGED <<manager, todo, raised, lowered>>

(* handle_violation(), up to the first publication: of the termination of a *)
(* local violator, or of an escalation.                                     *)
HandleViolation(c, m, class) ==
    LET n == counts[m] + (IF Counted(class) THEN 1 ELSE 0)
        s == Escalations(class, n)
    IN  /\ Enter(c)
        /\ counts' = [counts EXCEPT ![m] = n]
        /\ IF s = <<>>
           THEN Terminate(c, m)
           ELSE /\ Escalate(c, s)
                /\ UNCHANGED terminated
        /\ AskFor({Demanded(class, n)})
        /\ UNCHANGED resets

(* handle_budget_exceeded() for a budget that is used up. *)
HandleBudgetExceeded(c, m) == HandleViolation(c, m, "budget")

(* The publication returns. *)
Resume(c) ==
    /\ state[c] = "waits"
    /\ Escalate(c, todo[c])
    /\ AskFor(Range(todo[c]))
    /\ UNCHANGED <<counts, terminated, budget, resets>>

(* The publication raises, and the coroutine ends with what it raised. *)
Raise(c) ==
    /\ state[c] = "waits"
    /\ Escalate(c, <<>>)
    /\ UNCHANGED <<counts, terminated, budget, resets, floor>>

(* The steps of c that begin a call. *)
Calls(c) ==
    \/ \E l \in Level : CallEscalate(c, l)
    \/ DeEscalate(c)
    \/ \E m \in Module :
          \/ \E class \in Class \ {"budget"} : HandleViolation(c, m, class)
          \/ HandleBudgetExceeded(c, m)

Next == (\E c \in Call : Calls(c) \/ Resume(c) \/ Raise(c)) \/ ResetToNormal

Spec == Init /\ [][Next]_vars

----------------------------------------------------------------------------

(* Types; only a coroutine that waits has escalations left. *)
TypeOK ==
    /\ mode \in Level
    /\ history \in Seq([from : Level, to : Level])
    /\ counts \in [Module -> 0..CallBudget]
    /\ terminated \subseteq Module
    /\ state \in [Call -> {"idle", "waits"}]
    /\ \A c \in Call : todo[c] \in Seq(Level) /\ (state[c] = "idle" => todo[c] = <<>>)
    /\ budget \in 0..CallBudget
    /\ floor \in Level /\ lowered \subseteq Call /\ resets \subseteq Nat

(* Every critical violation, breach of a trust boundary, misuse, exhausted    *)
(* budget and third violation of a module is answered before the handler      *)
(* first waits, and the answer stands: whatever interleaves and whichever     *)
(* publications raise, the mode stays at the highest level asked for since it *)
(* was last lowered (security.py:87-104, safe_mode.py:76-80).                 *)
EscalationHolds == mode >= floor

(* One violation may ask twice for its level (isolate_module, then            *)
(* safe_mode_target), but raises the mode twice only when somebody lowered it *)
(* in between; otherwise it is one transition (security.py:91-104).           *)
RaisedAgainOnlyIfLowered ==
    \A c \in Call : raised[c] > 1 => c \in lowered

(* The history accounts for the mode: each transition starts where the one    *)
(* before ended and the last ends at the mode, but for a forced reset, which  *)
(* leaves no entry (safe_mode.py:81-88, 115-122, 144-146).                    *)
HistoryExplainsMode ==
    LET before(n) == IF n \in resets \/ n = 0 THEN 0 ELSE history[n].to
    IN  /\ \A n \in 1..Len(history) : history[n].from = before(n - 1)
        /\ mode = before(Len(history))
=============================================================================
