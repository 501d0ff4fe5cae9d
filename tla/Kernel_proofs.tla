---------------------------- MODULE Kernel_proofs ----------------------------
(***************************************************************************)
(* Proofs about the services of the kernel, the dependency graph, the      *)
(* health monitor, the budget counters, the dry-run flag and the thread    *)
(* pools, for any number of modules, kinds, listeners, tasks, coroutines,  *)
(* contexts, callers and pools.                                            *)
(*                                                                         *)
(* Each service has an inductive invariant of its own; a step of another   *)
(* service changes none of its variables.  The graph is the only one with  *)
(* loops over data: their proofs argue by least counterexamples.           *)
(***************************************************************************)
EXTENDS Kernel, SequenceTheorems, FiniteSetTheorems, WellFoundedInduction, TLAPS

(* The dry-run flag.  While contexts nest, an object is open only once, and  *)
(* what it saved is what the one opened before it asks for, or the flag as   *)
(* it was outside of all; nothing but an open object is inside a coroutine.  *)
Before(k, s, flag) == IF k = 1 THEN flag ELSE Enabled[s[k - 1]]

OpenOnce ==
    /\ open \in Seq(Context)
    /\ \A k, j \in 1..Len(open) : open[k] = open[j] => k = j

InsideIsOpen ==
    \A c \in Coroutine : \A k \in 1..Len(inside[c]) :
        \E j \in 1..Len(open) : open[j] = inside[c][k]

InsideOnce ==
    \A c, d \in Coroutine : \A k \in 1..Len(inside[c]), j \in 1..Len(inside[d]) :
        inside[c][k] = inside[d][j] => c = d /\ k = j

SavedBefore ==
    /\ \A k \in 1..Len(open) : saved[open[k]] = Before(k, open, base)
    /\ dryRun = Before(Len(open) + 1, open, base)

Nested == OpenOnce /\ InsideIsOpen /\ InsideOnce /\ SavedBefore

DryRunInv ==
    /\ dryRun \in BOOLEAN
    /\ saved \in [Context -> BOOLEAN]
    /\ inside \in [Coroutine -> Seq(Context)]
    /\ orderly => Nested

(* The budget counters. *)
Counters == [Kind -> Nat]

BudgetTypeOK ==
    /\ limits \in [DOMAIN limits -> Counters]
    /\ usage \in [DOMAIN usage -> Counters]
    /\ moduleLimits \in [DOMAIN moduleLimits -> Counters]
    /\ DOMAIN tasks \subseteq Task
    /\ tasks \in [DOMAIN tasks -> [module : Module, budget : Counters, used : Counters]]

BudgetInv == BudgetTypeOK /\ OverrunReported

(* The health monitor.  The listeners up to the first that reacts are told   *)
(* by every call before it is interrupted: only the innermost call may still *)
(* have to tell them, and what it tells them is the state of its module.     *)
Quiet == {n \in 1..Len(Listeners) : \A k \in 1..(n - 1) : Listeners[k] \notin Reacting}

Frame == [module : Module, to : HealthState, next : Nat \ {0}]

HealthTypeOK ==
    /\ health \in [DOMAIN health -> HealthState]
    /\ changes \in Seq(Frame)
    /\ heard \in [Range(Listeners) -> [Module -> HealthState]]

OuterCallsPassed ==
    \A i \in 1..(Len(changes) - 1) : \A n \in Quiet : changes[i].next > n

Untold(n, m) ==
    /\ changes # <<>>
    /\ m = Last(changes).module
    /\ Last(changes).next <= n

HeardInTurn ==
    \A n \in Quiet, m \in Module :
        IF Untold(n, m) THEN StateOf(m) = Last(changes).to
        ELSE heard[Listeners[n]][m] = StateOf(m)

HealthInv == HealthTypeOK /\ OuterCallsPassed /\ HeardInTurn

(* The thread pools.  Executors are numbered in the order they are created.  *)
PoolTypeOK ==
    /\ created \in Nat
    /\ pool \in [Slot -> 0..created]
    /\ shut \subseteq 1..created
    /\ forgotten \subseteq 1..created
    /\ \A w \in work : w[2] \in 1..created
    /\ early \subseteq work
    /\ at \in [Caller -> {"idle", "test", "testShut", "create", "fetch", "submit", "failed"}]
    /\ slot \in [Caller -> Slot]
    /\ executor \in [Caller -> 0..created]
    /\ stop \in {"idle", "default", "waitDefault", "loop", "next", "wait", "clear", "forget",
                 "returned"}
    /\ todo \subseteq Name

(* What shutdown() is about to shut is there; when it has cleared the names, *)
(* no pool in them is shut, and when none is under way, none is at all       *)
(* unless one was broken off.                                                *)
ShutdownInv ==
    /\ stop = "default" => pool["default"] # 0
    /\ stop \in {"next", "wait"} => \A n \in todo : pool[n] # 0
    /\ stop = "forget" => \A n \in Name : pool[n] \notin shut
    /\ ~Stopping => broken \/ \A s \in Slot : pool[s] \notin shut

TablesInv == PoolTypeOK /\ ShutdownInv

(* A caller whom no shutdown has met finds an executor that is open. *)
Met(c) == c \in overlapped
Usable(e) == e \notin shut \cup {0}

CallerInv ==
    \A c \in Caller :
        /\ Stopping /\ at[c] # "idle" => Met(c)
        /\ at[c] = "testShut" => slot[c] = "default" /\ (pool["default"] # 0 \/ Met(c))
        /\ at[c] = "fetch" => Usable(pool[slot[c]]) \/ Met(c) \/ broken
        /\ at[c] = "submit" => Usable(executor[c]) \/ Met(c) \/ broken
        /\ at[c] = "failed" => Met(c) \/ broken

RefusalInv == TablesInv /\ CallerInv

(* Every executor is shut, in a slot, or has lost its slot unshut; one that  *)
(* is shut has no work, but for the one that shutdown() waits for.  What was *)
(* accepted before the shutdown is in a slot that it has not come to yet.    *)
Placed ==
    \A e \in 1..created : e \in forgotten \cup shut \/ \E s \in Slot : pool[s] = e

OnlyTargetWorks ==
    \A w \in work : w[2] \in shut => w[2] = target /\ stop \in {"waitDefault", "wait"}

ToShut ==
    CASE stop = "default" -> Slot
      [] stop \in {"waitDefault", "loop"} -> Name
      [] stop \in {"next", "wait"} -> todo
      [] OTHER -> {}

EarlyIsToShut ==
    Stopping \/ stop = "returned" =>
        \A w \in early : w[2] \in forgotten \cup shut \/ \E s \in ToShut : pool[s] = w[2]

DrainInv == TablesInv /\ Placed /\ OnlyTargetWorks /\ EarlyIsToShut

LEMMA FrontOfSeq ==
  ASSUME NEW S, NEW s \in Seq(S), s # <<>>
  PROVE  /\ Front(s) \in Seq(S)
         /\ Len(Front(s)) = Len(s) - 1
         /\ \A i \in 1..(Len(s) - 1) : Front(s)[i] = s[i]
         /\ Last(s) = s[Len(s)] /\ Last(s) \in S
         /\ Len(s) \in Nat \ {0}
  <1>1. Len(s) \in Nat \ {0}
    BY EmptySeq
  <1>2. \A i \in 1..(Len(s) - 1) : s[i] \in S
    BY <1>1, ElementOfSeq
  <1>3. /\ SubSeq(s, 1, Len(s) - 1) \in Seq(S)
        /\ Len(SubSeq(s, 1, Len(s) - 1)) = Len(s) - 1
        /\ \A i \in 1..(Len(s) - 1) : SubSeq(s, 1, Len(s) - 1)[i] = s[i]
    <2>1. PICK n \in Int : n = Len(s) - 1
      BY <1>1
    <2>2. /\ SubSeq(s, 1, n) \in Seq(S)
          /\ Len(SubSeq(s, 1, n)) = IF 1 <= n THEN n - 1 + 1 ELSE 0
          /\ \A i \in 1..(n - 1 + 1) : SubSeq(s, 1, n)[i] = s[1 + i - 1]
      BY <1>2, <2>1, SubSeqProperties
    <2> QED
      BY <1>1, <2>1, <2>2
  <1>4. Last(s) = s[Len(s)] /\ Last(s) \in S
    BY <1>1, ElementOfSeq DEF Last
  <1> QED
    BY <1>1, <1>3, <1>4 DEF Front

(* A sequence without its last element, however it was taken out. *)
LEMMA LastRemoved ==
  ASSUME NEW S, NEW s \in Seq(S), s # <<>>
  PROVE  RemoveAt(s, Len(s)) = Front(s)
  <1>1. Len(s) \in Nat \ {0}
    BY EmptySeq
  <1>2. SubSeq(s, Len(s) + 1, Len(s)) = <<>>
    BY <1>1, SubSeqEmpty
  <1>3. Front(s) \o <<>> = Front(s)
    BY FrontOfSeq, ConcatEmptySeq
  <1> QED
    BY <1>2, <1>3 DEF RemoveAt, Front

----------------------------------------------------------------------------

LEMMA DryRunInvInit == Init => DryRunInv
  <1> SUFFICES ASSUME Init PROVE DryRunInv
    OBVIOUS
  <1>1. dryRun = Before(Len(open) + 1, open, base)
    BY DEF Init, DryRunInit, Before
  <1> QED
    BY <1>1 DEF Init, DryRunInit, DryRunInv, Nested, OpenOnce, InsideIsOpen, InsideOnce, SavedBefore

LEMMA SetDryRunInv ==
  ASSUME DryRunInv, NEW b \in BOOLEAN, SetDryRun(b)
  PROVE  DryRunInv'
  <1> USE DEF SetDryRun
  <1>1. ASSUME orderly' PROVE Nested'
    <2>1. orderly /\ open = <<>> /\ Len(open) = 0
      BY <1>1
    <2>2. dryRun' = Before(Len(open') + 1, open', base')
      BY <2>1 DEF Before
    <2>3. Nested
      BY <2>1 DEF DryRunInv
    <2> QED
      BY <2>1, <2>2, <2>3 DEF Nested, OpenOnce, InsideIsOpen, InsideOnce, SavedBefore
  <1> QED
    BY <1>1 DEF DryRunInv

LEMMA EnterInv ==
  ASSUME DryRunInv, NEW c \in Coroutine, NEW x \in Context, Enter(c, x)
  PROVE  DryRunInv'
  <1>1. /\ dryRun' \in BOOLEAN
        /\ saved' \in [Context -> BOOLEAN]
        /\ inside' \in [Coroutine -> Seq(Context)]
    <2>1. Append(inside[c], x) \in Seq(Context)
      BY AppendProperties DEF DryRunInv
    <2> QED
      BY <2>1, DryRunAssumption DEF DryRunInv, Enter
  <1>2. ASSUME orderly' PROVE Nested'
    <2> DEFINE n == Len(open)
               i == Len(inside[c])
    <2>1. orderly /\ Nested /\ \A k \in 1..n : open[k] # x
      <3>1. orderly /\ x \notin Range(open)
        BY <1>2, Zenon DEF Enter
      <3>2. Nested
        BY <3>1, Zenon DEF DryRunInv
      <3> QED
        BY <3>1, <3>2, RangeEquality DEF Nested, OpenOnce
    <2>2. /\ n \in Nat /\ i \in Nat
          /\ open' \in Seq(Context) /\ Len(open') = n + 1 /\ open'[n + 1] = x
          /\ \A k \in 1..n : open'[k] = open[k]
      BY <2>1, AppendProperties DEF Nested, OpenOnce, DryRunInv, Enter
    <2>3. /\ Len(inside'[c]) = i + 1 /\ inside'[c][i + 1] = x
          /\ \A k \in 1..i : inside'[c][k] = inside[c][k]
      BY <2>2, AppendProperties DEF DryRunInv, Enter
    <2>4. \A d \in Coroutine : d # c => inside'[d] = inside[d]
      BY DEF DryRunInv, Enter
    <2>5. \A d \in Coroutine : \A k \in 1..Len(inside[d]) : inside[d][k] # x
      BY <2>1 DEF Nested, InsideIsOpen
    <2>6. \A k, j \in 1..Len(open') : open'[k] = open'[j] => k = j
      BY <2>1, <2>2 DEF Nested, OpenOnce
    <2>7. ASSUME NEW d \in Coroutine, NEW k \in 1..Len(inside'[d])
          PROVE  \/ k \in 1..Len(inside[d]) /\ inside'[d][k] = inside[d][k]
                 \/ d = c /\ k = i + 1 /\ inside'[d][k] = x
      BY <2>2, <2>3, <2>4, <2>7
    <2>8. \A d \in Coroutine : \A k \in 1..Len(inside'[d]) :
              \E j \in 1..Len(open') : open'[j] = inside'[d][k]
      <3> TAKE d \in Coroutine
      <3> TAKE k \in 1..Len(inside'[d])
      <3>1. CASE k \in 1..Len(inside[d]) /\ inside'[d][k] = inside[d][k]
        <4>1. PICK j \in 1..n : open[j] = inside[d][k]
          BY <2>1, <3>1 DEF Nested, InsideIsOpen
        <4> QED
          BY <2>2, <3>1, <4>1
      <3>2. CASE inside'[d][k] = x
        <4>1. n + 1 \in 1..Len(open') /\ open'[n + 1] = x
          BY <2>2
        <4> QED
          BY <3>2, <4>1
      <3> QED
        BY <2>7, <3>1, <3>2
    <2>9. \A d, e \in Coroutine : \A k \in 1..Len(inside'[d]), j \in 1..Len(inside'[e]) :
              inside'[d][k] = inside'[e][j] => d = e /\ k = j
      <3> SUFFICES ASSUME NEW d \in Coroutine, NEW e \in Coroutine,
                          NEW k \in 1..Len(inside'[d]), NEW j \in 1..Len(inside'[e]),
                          inside'[d][k] = inside'[e][j]
                   PROVE  d = e /\ k = j
        OBVIOUS
      <3>1. CASE k \in 1..Len(inside[d]) /\ inside'[d][k] = inside[d][k]
        <4>1. CASE j \in 1..Len(inside[e]) /\ inside'[e][j] = inside[e][j]
          <5>1. inside[d][k] = inside[e][j]
            BY <3>1, <4>1
          <5> QED
            BY <2>1, <3>1, <4>1, <5>1 DEF Nested, InsideOnce
        <4> QED
          BY <2>5, <2>7, <3>1, <4>1
      <3>2. CASE d = c /\ k = i + 1 /\ inside'[d][k] = x
        BY <2>5, <2>7, <3>2
      <3> QED
        BY <2>7, <3>1, <3>2
    <2>10. \A k \in 1..(n + 1) : Before(k, open', base') =
              IF k = n + 1 THEN dryRun ELSE Before(k, open, base)
      BY <2>1, <2>2 DEF Before, Nested, SavedBefore, Enter
    <2>11. \A k \in 1..Len(open') : saved'[open'[k]] = Before(k, open', base')
      <3> TAKE k \in 1..Len(open')
      <3>1. CASE k = n + 1
        BY <2>2, <2>10, <3>1 DEF DryRunInv, Enter
      <3>2. CASE k \in 1..n
        BY <2>1, <2>2, <2>10, <3>2 DEF Nested, OpenOnce, SavedBefore, DryRunInv, Enter
      <3> QED
        BY <2>2, <3>1, <3>2
    <2>12. dryRun' = Before(Len(open') + 1, open', base')
      BY <2>2 DEF Before, Enter
    <2> QED
      BY <2>2, <2>6, <2>8, <2>9, <2>11, <2>12
         DEF Nested, OpenOnce, InsideIsOpen, InsideOnce, SavedBefore
  <1> QED
    BY <1>1, <1>2, Zenon DEF DryRunInv

LEMMA ExitInv ==
  ASSUME DryRunInv, NEW c \in Coroutine, Exit(c)
  PROVE  DryRunInv'
  <1> DEFINE x == Last(inside[c])
             i == Len(inside[c])
  <1>1. /\ i \in Nat \ {0} /\ x \in Context /\ x = inside[c][i]
        /\ Front(inside[c]) \in Seq(Context) /\ Len(Front(inside[c])) = i - 1
        /\ \A k \in 1..(i - 1) : Front(inside[c])[k] = inside[c][k]
    BY FrontOfSeq DEF DryRunInv, Exit
  <1>2. /\ dryRun' \in BOOLEAN
        /\ saved' \in [Context -> BOOLEAN]
        /\ inside' \in [Coroutine -> Seq(Context)]
    BY <1>1 DEF DryRunInv, Exit
  <1>3. saved' = saved /\ base' = base
    BY Zenon DEF Exit
  <1>4. ASSUME orderly' PROVE Nested'
    <2> DEFINE n == Len(open)
               last == CHOOSE k \in 1..n : open[k] = x
    <2>1. orderly /\ Nested /\ last = n
      <3>1. orderly /\ last = n
        BY <1>4, Zenon DEF Exit
      <3> QED
        BY <3>1, Zenon DEF DryRunInv
    <2>2. \E j \in 1..n : open[j] = x
      BY <2>1, <1>1 DEF Nested, InsideIsOpen, DryRunInv
    <2>3. n \in Nat \ {0} /\ open # <<>> /\ open[n] = x
      <3>1. last \in 1..n /\ open[last] = x
        BY <2>2, Zenon
      <3> HIDE DEF last
      <3> QED
        BY <2>1, <3>1, EmptySeq DEF Nested, OpenOnce
    <2>4. /\ open' \in Seq(Context) /\ Len(open') = n - 1
          /\ \A k \in 1..(n - 1) : open'[k] = open[k]
      <3>1. open' = Front(open)
        BY <2>1, <2>3, LastRemoved DEF Exit, Nested, OpenOnce
      <3>2. open \in Seq(Context) /\ open # <<>>
        BY <2>1, <2>3 DEF Nested, OpenOnce
      <3>3. /\ Front(open) \in Seq(Context) /\ Len(Front(open)) = n - 1
            /\ \A k \in 1..(n - 1) : Front(open)[k] = open[k]
        BY <3>2, FrontOfSeq
      <3> QED
        BY <3>1, <3>3
    <2> HIDE DEF last
    <2>5. \A d \in Coroutine : \A k \in 1..Len(inside'[d]) :
              /\ k \in 1..Len(inside[d]) /\ inside'[d][k] = inside[d][k]
              /\ inside[d][k] # x
      <3> SUFFICES ASSUME NEW d \in Coroutine, NEW k \in 1..Len(inside'[d])
                   PROVE  /\ k \in 1..Len(inside[d]) /\ inside'[d][k] = inside[d][k]
                          /\ inside[d][k] # x
        OBVIOUS
      <3>1. CASE d = c
        <4>1. k \in 1..(i - 1) /\ inside'[d][k] = inside[d][k]
          BY <1>1, <3>1 DEF DryRunInv, Exit
        <4> QED
          BY <1>1, <2>1, <3>1, <4>1 DEF Nested, InsideOnce, DryRunInv
      <3>2. CASE d # c
        <4>1. k \in 1..Len(inside[d]) /\ inside'[d][k] = inside[d][k]
          BY <3>2 DEF DryRunInv, Exit
        <4>2. i \in 1..Len(inside[c]) /\ inside[c][i] = x
          BY <1>1
        <4> QED
          BY <2>1, <3>2, <4>1, <4>2 DEF Nested, InsideOnce
      <3> QED
        BY <3>1, <3>2
    <2>6. \A k, l \in 1..Len(open') : open'[k] = open'[l] => k = l
      BY <2>1, <2>3, <2>4 DEF Nested, OpenOnce
    <2>7. ASSUME NEW d \in Coroutine, NEW k \in 1..Len(inside'[d])
          PROVE  \E l \in 1..Len(open') : open'[l] = inside'[d][k]
      <3>1. PICK l \in 1..n : open[l] = inside[d][k]
        BY <2>1, <2>5 DEF Nested, InsideIsOpen
      <3>2. l # n
        BY <2>3, <2>5, <3>1
      <3>3. l \in 1..Len(open')
        BY <2>3, <2>4, <3>2
      <3> QED
        BY <2>3, <2>4, <2>5, <3>1, <3>2, <3>3
    <2>8. \A d, e \in Coroutine : \A k \in 1..Len(inside'[d]), l \in 1..Len(inside'[e]) :
              inside'[d][k] = inside'[e][l] => d = e /\ k = l
      BY <2>1, <2>5 DEF Nested, InsideOnce
    <2>9. \A k \in 1..n : Before(k, open', base') = Before(k, open, base)
      BY <1>3, <2>3, <2>4 DEF Before
    <2>10. \A k \in 1..Len(open') : saved'[open'[k]] = Before(k, open', base')
      <3> TAKE k \in 1..Len(open')
      <3>1. k \in 1..n /\ open'[k] = open[k] /\ saved' = saved
        BY <1>3, <2>3, <2>4
      <3> QED
        BY <2>1, <2>9, <3>1 DEF Nested, SavedBefore
    <2>11. dryRun' = Before(Len(open') + 1, open', base')
      <3>1. dryRun' = Before(n, open, base)
        BY <2>1, <2>3 DEF Nested, SavedBefore, Exit
      <3>2. n \in 1..n /\ Len(open') + 1 = n
        BY <2>3, <2>4
      <3> QED
        BY <2>9, <3>1, <3>2
    <2> QED
      BY <2>4, <2>6, <2>7, <2>8, <2>10, <2>11
         DEF Nested, OpenOnce, InsideIsOpen, InsideOnce, SavedBefore
  <1> QED
    BY <1>2, <1>4, Zenon DEF DryRunInv

LEMMA DryRunInvNext == DryRunInv /\ [Next]_vars => DryRunInv'
  <1> SUFFICES ASSUME DryRunInv, [Next]_vars PROVE DryRunInv'
    OBVIOUS
  <1>1. CASE UseDryRun
    BY <1>1, SetDryRunInv, EnterInv, ExitInv DEF UseDryRun, DryRunStep
  <1>2. CASE UNCHANGED dryRunVars
    BY <1>2 DEF dryRunVars, DryRunInv, Nested, OpenOnce, InsideIsOpen, InsideOnce,
                SavedBefore, Before
  <1> QED
    BY <1>1, <1>2 DEF Next, vars, RegisterModule, UseHealth, UseBudgets, UsePools

(* Contexts that nest in time restore the flag, however many there are and   *)
(* whichever coroutines are inside of them (dryrun.py:41, 49-56).            *)
THEOREM NestedContextsRestore == Spec => []NestingRestores
  <1>1. DryRunInv => NestingRestores
    <2> SUFFICES ASSUME Nested
                 PROVE  dryRun = IF open = <<>> THEN base ELSE Enabled[Last(open)]
      BY DEF DryRunInv, NestingRestores
    <2>1. CASE open = <<>>
      BY <2>1 DEF Nested, SavedBefore, Before
    <2>2. CASE open # <<>>
      <3>1. Len(open) \in Nat \ {0} /\ Last(open) = open[Len(open)]
        BY <2>2, FrontOfSeq DEF Nested, OpenOnce
      <3> QED
        BY <2>2, <3>1 DEF Nested, SavedBefore, Before
    <2> QED
      BY <2>1, <2>2
  <1> QED
    BY <1>1, DryRunInvInit, DryRunInvNext, PTL DEF Spec

----------------------------------------------------------------------------

LEMMA BudgetInvInit == Init => BudgetInv
  BY DEF Init, BudgetInit, BudgetInv, BudgetTypeOK, OverrunReported

LEMMA WithType ==
  ASSUME NEW T, NEW f, f \in [DOMAIN f -> T], NEW x, NEW v \in T
  PROVE  With(f, x, v) \in [DOMAIN With(f, x, v) -> T]
  BY DEF With

LEMMA AmountType ==
  /\ Unused \in Counters
  /\ Amount \subseteq Counters
  /\ \A f, g \in Counters : Plus(f, g) \in Counters
  BY DEF Unused, Amount, Counters, Plus

(* What the counters mean for one module and for one task. *)
ModuleReported(m) ==
    m \notin relimited =>
        \A k \in Kind : LET limit == IF m \in DOMAIN limits THEN limits[m][k] ELSE 0
                        IN  limit # 0 /\ usage[m][k] > limit => <<m, k>> \in told

TaskReported(t) ==
    LET usedUp == {k \in Kind : tasks[t].used[k] >= tasks[t].budget[k]}
    IN  /\ t \in toldTasks => usedUp # {}
        /\ \A k \in usedUp : t \in toldTasks \/ tasks[t].used[k] < Least[k]

LEMMA ReportedByParts ==
  OverrunReported <=>
      (\A m \in DOMAIN usage : ModuleReported(m)) /\ (\A t \in DOMAIN tasks : TaskReported(t))
  BY DEF OverrunReported, ModuleReported, TaskReported

LEMMA RegisterBudgetInv ==
  ASSUME BudgetInv, NEW x \in Manifest, BudgetRegister(x)
  PROVE  BudgetInv'
  <1>1. x.limits \in Counters
    BY ManifestAssumption DEF Counters
  <1>2. BudgetTypeOK'
    <2>1. Unused \in Counters
      BY AmountType
    <2> QED
      BY <1>1, <2>1, WithType DEF BudgetInv, BudgetTypeOK, BudgetRegister
  <1>3. \A m \in DOMAIN usage' : ModuleReported(m)'
    <2> SUFFICES ASSUME NEW m \in DOMAIN usage', m \notin relimited'
                 PROVE  ModuleReported(m)'
      BY DEF ModuleReported
    <2>1. m # x.name /\ m \notin relimited /\ m \in DOMAIN usage
      BY DEF With, BudgetRegister
    <2>2. /\ usage'[m] = usage[m] /\ told' = told
          /\ m \in DOMAIN limits' <=> m \in DOMAIN limits
          /\ m \in DOMAIN limits => limits'[m] = limits[m]
      BY <2>1 DEF With, BudgetRegister
    <2> QED
      BY <2>1, <2>2, ReportedByParts DEF BudgetInv, ModuleReported
  <1>4. \A t \in DOMAIN tasks' : TaskReported(t)'
    BY ReportedByParts DEF BudgetInv, BudgetRegister, TaskReported
  <1>5. OverrunReported'
    BY <1>3, <1>4 DEF OverrunReported, ModuleReported, TaskReported
  <1> QED
    BY <1>2, <1>5 DEF BudgetInv

LEMMA RecordUsageInv ==
  ASSUME BudgetInv, NEW m \in Spender, NEW use \in Amount, RecordUsage(m, use)
  PROVE  BudgetInv'
  <1> DEFINE spent == Plus(UsageOf(m), use)
  <1>1. spent \in Counters
    BY AmountType DEF UsageOf, BudgetInv, BudgetTypeOK
  <1>2. /\ usage' = With(usage, m, spent)
        /\ told' = told \cup ({m} \X Exceeded(m, spent))
        /\ relimited' = relimited \ {m}
        /\ UNCHANGED <<limits, moduleLimits, tasks, toldTasks>>
    BY DEF RecordUsage, watchdog
  <1> HIDE DEF spent
  <1>3. BudgetTypeOK'
    BY <1>1, <1>2, WithType DEF BudgetInv, BudgetTypeOK
  <1>4. ASSUME NEW n \in DOMAIN usage', n \notin relimited'
        PROVE  ModuleReported(n)'
    <2>1. CASE n = m
      <3>1. usage'[n] = spent
        BY <1>2, <2>1 DEF With
      <3>2. \A k \in Exceeded(m, spent) : <<n, k>> \in told'
        BY <1>2, <2>1
      <3> QED
        BY <1>2, <2>1, <3>1, <3>2 DEF ModuleReported, Exceeded
    <2>2. CASE n # m
      <3>1. n \in DOMAIN usage /\ usage'[n] = usage[n] /\ n \notin relimited
        BY <1>2, <1>4, <2>2 DEF With
      <3> QED
        BY <1>2, <3>1, ReportedByParts DEF BudgetInv, ModuleReported
    <2> QED
      BY <2>1, <2>2
  <1>5. OverrunReported'
    <2>1. \A n \in DOMAIN usage' : ModuleReported(n)'
      BY <1>4 DEF ModuleReported
    <2>2. \A t \in DOMAIN tasks' : TaskReported(t)'
      BY <1>2, ReportedByParts DEF BudgetInv, TaskReported
    <2> QED
      BY <2>1, <2>2 DEF OverrunReported, ModuleReported, TaskReported
  <1> QED
    BY <1>3, <1>5 DEF BudgetInv

LEMMA ResetUsageInv ==
  ASSUME BudgetInv, NEW m \in Spender, ResetUsage(m)
  PROVE  BudgetInv'
  <1>1. /\ m \in DOMAIN usage
        /\ usage' = [usage EXCEPT ![m] = Unused]
        /\ told' = {r \in told : r[1] # m}
        /\ UNCHANGED <<limits, relimited, moduleLimits, tasks, toldTasks>>
    BY DEF ResetUsage, watchdog
  <1>2. BudgetTypeOK'
    BY <1>1, AmountType DEF BudgetInv, BudgetTypeOK
  <1>3. ASSUME NEW n \in DOMAIN usage' PROVE ModuleReported(n)'
    <2>1. CASE n = m
      <3>1. usage'[n] = Unused
        BY <1>1, <2>1 DEF BudgetInv, BudgetTypeOK
      <3>2. n \in DOMAIN limits' => limits'[n] \in Counters
        BY <1>1 DEF BudgetInv, BudgetTypeOK
      <3> QED
        BY <3>1, <3>2 DEF ModuleReported, Unused, Counters
    <2>2. CASE n # m
      <3>1. n \in DOMAIN usage /\ usage'[n] = usage[n]
        BY <1>1, <2>2 DEF BudgetInv, BudgetTypeOK
      <3>2. \A k \in Kind : <<n, k>> \in told => <<n, k>> \in told'
        BY <1>1, <2>2
      <3> QED
        BY <1>1, <3>1, <3>2, ReportedByParts DEF BudgetInv, ModuleReported
    <2> QED
      BY <2>1, <2>2
  <1>4. OverrunReported'
    <2>1. \A n \in DOMAIN usage' : ModuleReported(n)'
      BY <1>3
    <2>2. \A t \in DOMAIN tasks' : TaskReported(t)'
      BY <1>1, ReportedByParts DEF BudgetInv, TaskReported
    <2> QED
      BY <2>1, <2>2 DEF OverrunReported, ModuleReported, TaskReported
  <1> QED
    BY <1>2, <1>4 DEF BudgetInv

LEMMA GrantedType ==
  ASSUME BudgetTypeOK, NEW m, NEW asked \in Counters
  PROVE  Granted(m, asked) \in [Kind -> Nat \ {0}]
  <1> DEFINE limit == IF m \in DOMAIN moduleLimits THEN moduleLimits[m] ELSE NoManifest
  <1>1. limit \in Counters
    BY BudgetAssumption DEF BudgetTypeOK, Counters
  <1>2. \A k \in Kind : FirstNonZero(asked[k], limit[k], Default[k]) \in Nat \ {0}
    BY <1>1, BudgetAssumption DEF FirstNonZero, Counters
  <1> QED
    BY <1>2 DEF Granted

LEMMA StartTaskInv ==
  ASSUME BudgetInv, NEW t \in Task, NEW m \in Spender, NEW asked \in Amount,
         StartTask(t, m, asked)
  PROVE  BudgetInv'
  <1> DEFINE new == [module |-> m, budget |-> Granted(m, asked), used |-> Unused]
  <1>1. /\ Granted(m, asked) \in [Kind -> Nat \ {0}]
        /\ Granted(m, asked) \in Counters /\ Unused \in Counters
    BY GrantedType, AmountType DEF BudgetInv, Counters
  <1>2. new \in [module : Module, budget : Counters, used : Counters]
    BY <1>1, BudgetAssumption
  <1>3. /\ tasks' = With(tasks, t, new)
        /\ toldTasks' = toldTasks \ {t}
        /\ UNCHANGED <<limits, usage, told, relimited, moduleLimits>>
    BY DEF StartTask, governor
  <1>4. new.used = Unused /\ new.budget = Granted(m, asked)
    OBVIOUS
  <1> HIDE DEF new
  <1>5. BudgetTypeOK'
    <2>1. tasks' \in [DOMAIN tasks' -> [module : Module, budget : Counters, used : Counters]]
      BY <1>2, <1>3, WithType DEF BudgetInv, BudgetTypeOK
    <2>2. DOMAIN tasks' \subseteq Task
      BY <1>3 DEF With, BudgetInv, BudgetTypeOK
    <2> QED
      BY <1>3, <2>1, <2>2 DEF BudgetInv, BudgetTypeOK
  <1>6. ASSUME NEW u \in DOMAIN tasks' PROVE TaskReported(u)'
    <2>1. CASE u = t
      <3>1. tasks'[u] = new /\ u \notin toldTasks'
        BY <1>3, <2>1 DEF With
      <3>2. \A k \in Kind : Unused[k] = 0 /\ Granted(m, asked)[k] \in Nat \ {0}
        BY <1>1 DEF Unused
      <3>3. \A k \in Kind : ~(tasks'[u].used[k] >= tasks'[u].budget[k])
        BY <1>4, <3>1, <3>2
      <3> QED
        BY <3>1, <3>3 DEF TaskReported
    <2>2. CASE u # t
      <3>1. u \in DOMAIN tasks /\ tasks'[u] = tasks[u]
        BY <1>3, <2>2 DEF With
      <3> QED
        BY <1>3, <2>2, <3>1, ReportedByParts DEF BudgetInv, TaskReported
    <2> QED
      BY <2>1, <2>2
  <1>7. OverrunReported'
    <2>1. \A n \in DOMAIN usage' : ModuleReported(n)'
      BY <1>3, ReportedByParts DEF BudgetInv, ModuleReported
    <2> QED
      BY <1>6, <2>1 DEF OverrunReported, ModuleReported, TaskReported
  <1> QED
    BY <1>5, <1>7 DEF BudgetInv

LEMMA ReportUsageInv ==
  ASSUME BudgetInv, NEW t \in Task, NEW use \in Amount, ReportUsage(t, use)
  PROVE  BudgetInv'
  <1> DEFINE b == [tasks[t] EXCEPT !.used = Plus(@, use)]
  <1>1. /\ t \in DOMAIN tasks
        /\ tasks' = [tasks EXCEPT ![t] = b]
        /\ toldTasks' = IF Exhausted(b) THEN toldTasks \cup {t} ELSE toldTasks
        /\ UNCHANGED <<limits, usage, told, relimited, moduleLimits>>
    BY DEF ReportUsage, governor
  <1>2. b \in [module : Module, budget : Counters, used : Counters]
    BY <1>1, AmountType DEF BudgetInv, BudgetTypeOK
  <1>5. \A k \in Kind : b.used[k] >= tasks[t].used[k] /\ b.budget[k] = tasks[t].budget[k]
    <2>1. tasks[t] \in [module : Module, budget : Counters, used : Counters] /\ use \in Counters
      BY <1>1, AmountType DEF BudgetInv, BudgetTypeOK
    <2>2. b.used = Plus(tasks[t].used, use) /\ b.budget = tasks[t].budget
      BY <2>1
    <2> QED
      BY <2>1, <2>2 DEF Plus, Counters
  <1> HIDE DEF b
  <1>3. BudgetTypeOK'
    BY <1>1, <1>2 DEF BudgetInv, BudgetTypeOK
  <1>4. ASSUME NEW u \in DOMAIN tasks' PROVE TaskReported(u)'
    <2>1. CASE u = t
      <3>1. tasks'[u] = b
        BY <1>1, <2>1
      <3>2. b.used \in Counters /\ b.budget \in Counters
        BY <1>2
      <3>3. \A k \in Kind : b.used[k] >= tasks[t].used[k] /\ b.budget[k] = tasks[t].budget[k]
        BY <1>1, <1>5
      <3>4. t \in toldTasks => \E k \in Kind : b.used[k] >= b.budget[k]
        <4> SUFFICES ASSUME t \in toldTasks PROVE \E k \in Kind : b.used[k] >= b.budget[k]
          OBVIOUS
        <4>1. PICK k \in Kind : tasks[t].used[k] >= tasks[t].budget[k]
          BY <1>1, ReportedByParts DEF BudgetInv, TaskReported
        <4>2. tasks[t].used \in Counters /\ tasks[t].budget \in Counters
          BY <1>1 DEF BudgetInv, BudgetTypeOK
        <4> QED
          BY <3>2, <3>3, <4>1, <4>2 DEF Counters
      <3>5. t \in toldTasks' => \E k \in Kind : b.used[k] >= b.budget[k]
        BY <1>1, <3>4 DEF Exhausted
      <3>6. ASSUME NEW k \in Kind, b.used[k] >= b.budget[k], t \notin toldTasks'
            PROVE  b.used[k] < Least[k]
        <4>1. ~(b.used[k] >= Least[k])
          BY <1>1, <3>6 DEF Exhausted
        <4> QED
          BY <3>2, <4>1, BudgetAssumption DEF Counters
      <3> QED
        BY <2>1, <3>1, <3>5, <3>6 DEF TaskReported
    <2>2. CASE u # t
      <3>1. /\ u \in DOMAIN tasks /\ tasks'[u] = tasks[u]
            /\ u \in toldTasks => u \in toldTasks'
        BY <1>1, <2>2
      <3> QED
        BY <1>1, <2>2, <3>1, ReportedByParts DEF BudgetInv, TaskReported
    <2> QED
      BY <2>1, <2>2
  <1>6. OverrunReported'
    <2>1. \A n \in DOMAIN usage' : ModuleReported(n)'
      BY <1>1, ReportedByParts DEF BudgetInv, ModuleReported
    <2> QED
      BY <1>4, <2>1 DEF OverrunReported, ModuleReported, TaskReported
  <1> QED
    BY <1>3, <1>6 DEF BudgetInv

LEMMA EndTaskInv ==
  ASSUME BudgetInv, NEW t \in Task, EndTask(t)
  PROVE  BudgetInv'
  <1>1. /\ tasks' = [u \in DOMAIN tasks \ {t} |-> tasks[u]]
        /\ toldTasks' = toldTasks \ {t}
        /\ UNCHANGED <<limits, usage, told, relimited, moduleLimits>>
    BY DEF EndTask, governor
  <1>2. BudgetTypeOK'
    BY <1>1 DEF BudgetInv, BudgetTypeOK
  <1>3. \A u \in DOMAIN tasks' : TaskReported(u)'
    BY <1>1, ReportedByParts DEF BudgetInv, TaskReported
  <1>4. \A n \in DOMAIN usage' : ModuleReported(n)'
    BY <1>1, ReportedByParts DEF BudgetInv, ModuleReported
  <1>5. OverrunReported'
    BY <1>3, <1>4 DEF OverrunReported, ModuleReported, TaskReported
  <1> QED
    BY <1>2, <1>5 DEF BudgetInv

LEMMA BudgetInvNext == BudgetInv /\ [Next]_vars => BudgetInv'
  <1> SUFFICES ASSUME BudgetInv, [Next]_vars PROVE BudgetInv'
    OBVIOUS
  <1>1. ASSUME NEW x \in Manifest, RegisterModule(x) PROVE BudgetInv'
    BY <1>1, RegisterBudgetInv DEF RegisterModule
  <1>2. CASE UseBudgets
    <2>1. BudgetStep
      BY <1>2 DEF UseBudgets
    <2> QED
      BY <2>1, RecordUsageInv, ResetUsageInv, StartTaskInv, ReportUsageInv, EndTaskInv
      DEF BudgetStep
  <1>3. CASE UNCHANGED budgetVars
    BY <1>3 DEF budgetVars, BudgetInv, BudgetTypeOK, OverrunReported
  <1> QED
    BY <1>1, <1>2, <1>3 DEF Next, vars, UseHealth, UseDryRun, UsePools

(* For any modules, limits and tasks, neither counter passes a limit without *)
(* a report, but for a task's budget of less than a second of CPU, of which  *)
(* less than a second was used (resource.py:77-106, watchdog.py:95-108).     *)
THEOREM OverrunsReported == Spec => []OverrunReported
  <1>1. BudgetInv => OverrunReported
    BY DEF BudgetInv
  <1> QED
    BY <1>1, BudgetInvInit, BudgetInvNext, PTL DEF Spec

----------------------------------------------------------------------------

LEMMA QuietListener ==
  ASSUME NEW n \in Quiet
  PROVE  n \in 1..Len(Listeners) /\ Listeners[n] \in Range(Listeners)
  <1>1. Len(Listeners) \in Nat /\ DOMAIN Listeners = 1..Len(Listeners)
    BY HealthAssumption, LenProperties
  <1> QED
    BY <1>1 DEF Quiet, Range

LEMMA OneListener ==
  ASSUME NEW n \in 1..Len(Listeners), NEW p \in 1..Len(Listeners), Listeners[n] = Listeners[p]
  PROVE  n = p
  <1>1. DOMAIN Listeners = 1..Len(Listeners)
    BY HealthAssumption, LenProperties
  <1> QED
    BY <1>1, HealthAssumption DEF IsInjective

(* No listener after one that reacts is quiet. *)
LEMMA QuietBeforeReacting ==
  ASSUME NEW n \in Quiet, NEW p \in 1..Len(Listeners), Listeners[p] \in Reacting
  PROVE  n <= p
  <1>1. Len(Listeners) \in Nat
    BY HealthAssumption, LenProperties
  <1> QED
    BY <1>1 DEF Quiet

LEMMA StateOfType == HealthTypeOK => \A m : StateOf(m) \in HealthState
  BY DEF HealthTypeOK, StateOf, HealthState

LEMMA HealthInvInit == Init => HealthInv
  <1> SUFFICES ASSUME Init PROVE HealthInv
    OBVIOUS
  <1> USE DEF Init, HealthInit
  <1>1. HealthTypeOK
    BY DEF HealthTypeOK, HealthState
  <1>2. OuterCallsPassed
    BY DEF OuterCallsPassed
  <1>3. HeardInTurn
    BY QuietListener DEF HeardInTurn, Untold, StateOf
  <1> QED
    BY <1>1, <1>2, <1>3 DEF HealthInv

LEMMA HealthRegisterInv ==
  ASSUME HealthInv, NEW x \in Manifest, HealthRegister(x)
  PROVE  HealthInv'
  <1> USE DEF HealthRegister, HealthInv
  <1>1. HealthTypeOK'
    <2>1. "HEALTHY" \in HealthState
      BY DEF HealthState
    <2> QED
      BY <2>1 DEF HealthTypeOK, With
  <1>2. \A m : StateOf(m)' = StateOf(m)
    BY DEF StateOf, With
  <1>3. OuterCallsPassed'
    BY DEF OuterCallsPassed
  <1>4. HeardInTurn'
    BY <1>2 DEF HeardInTurn, Untold
  <1> QED
    BY <1>1, <1>3, <1>4

(* What changes the state of a module, with the calls under way. *)
LEMMA ChangeStates ==
  ASSUME HealthTypeOK, NEW m \in Module, NEW s \in HealthState, NEW stack, Change(m, s, stack)
  PROVE  /\ health' \in [DOMAIN health' -> HealthState]
         /\ StateOf(m)' = s
         /\ \A n : n # m => StateOf(n)' = StateOf(n)
  BY WithType DEF HealthTypeOK, Change, StateOf, With

(* A call from outside of all listeners begins. *)
LEMMA FirstCall ==
  ASSUME HealthInv, NEW m \in Module, NEW s \in HealthState, Change(m, s, <<>>),
         changes = <<>>, UNCHANGED heard
  PROVE  HealthInv'
  <1> DEFINE frame == [module |-> m, to |-> s, next |-> 1]
  <1>1. \A n \in Quiet, l \in Module : heard[Listeners[n]][l] = StateOf(l)
    BY DEF HealthInv, HeardInTurn, Untold
  <1>2. /\ health' \in [DOMAIN health' -> HealthState]
        /\ StateOf(m)' = s
        /\ \A n : n # m => StateOf(n)' = StateOf(n)
    BY ChangeStates DEF HealthInv
  <1>3. CASE s = StateOf(m)
    <2>1. changes' = <<>>
      BY <1>3 DEF Change
    <2>2. HealthTypeOK'
      BY <1>2, <2>1 DEF HealthInv, HealthTypeOK
    <2>3. OuterCallsPassed'
      BY <2>1 DEF OuterCallsPassed
    <2>4. HeardInTurn'
      BY <1>1, <1>2, <1>3, <2>1 DEF HeardInTurn, Untold
    <2> QED
      BY <2>2, <2>3, <2>4 DEF HealthInv
  <1>4. CASE s # StateOf(m)
    <2>1. changes' = <<frame>>
      BY <1>4 DEF Change
    <2>2. /\ changes' # <<>> /\ Len(changes') = 1 /\ Last(changes') = frame
          /\ changes' \in Seq(Frame)
      BY <2>1 DEF Last, Frame
    <2>3. HealthTypeOK'
      BY <1>2, <2>2 DEF HealthInv, HealthTypeOK
    <2>4. OuterCallsPassed'
      BY <2>2 DEF OuterCallsPassed
    <2>5. HeardInTurn'
      <3> SUFFICES ASSUME NEW n \in Quiet, NEW l \in Module
                   PROVE  IF Untold(n, l)' THEN StateOf(l)' = Last(changes').to
                          ELSE heard'[Listeners[n]][l] = StateOf(l)'
        BY DEF HeardInTurn
      <3>1. Untold(n, l)' <=> l = m
        BY <2>2, QuietListener DEF Untold
      <3> QED
        BY <1>1, <1>2, <2>2, <3>1
    <2> QED
      BY <2>3, <2>4, <2>5 DEF HealthInv
  <1> QED
    BY <1>3, <1>4

(* The innermost call, and those under way when it has told one more         *)
(* listener.                                                                 *)
Top == Last(changes)
Advanced == [Top EXCEPT !.next = @ + 1]
Rest == Append(Front(changes), Advanced)

LEMMA RestOfCalls ==
  ASSUME HealthInv, changes # <<>>, Top.next <= Len(Listeners)
  PROVE  /\ Top \in Frame /\ Top.next \in 1..Len(Listeners)
         /\ Advanced \in Frame /\ Advanced.next = Top.next + 1
         /\ Advanced.to = Top.to /\ Advanced.module = Top.module
         /\ Rest \in Seq(Frame) /\ Rest # <<>> /\ Last(Rest) = Advanced
         /\ Len(Rest) \in Nat \ {0}
         /\ \A i \in 1..(Len(Rest) - 1) : \A n \in Quiet : Rest[i].next > n
  <1> DEFINE k == Len(changes)
  <1>1. /\ k \in Nat \ {0} /\ Top \in Frame
        /\ Front(changes) \in Seq(Frame) /\ Len(Front(changes)) = k - 1
        /\ \A i \in 1..(k - 1) : Front(changes)[i] = changes[i]
    BY FrontOfSeq DEF HealthInv, HealthTypeOK, Top
  <1>2. Len(Listeners) \in Nat
    BY HealthAssumption, LenProperties
  <1>3. /\ Advanced \in Frame /\ Advanced.next = Top.next + 1
        /\ Advanced.to = Top.to /\ Advanced.module = Top.module
    BY <1>1 DEF Advanced, Frame
  <1>4. Top.next \in 1..Len(Listeners)
    BY <1>1, <1>2 DEF Frame
  <1>5. /\ Rest \in Seq(Frame) /\ Len(Rest) = k /\ Rest # <<>> /\ Last(Rest) = Advanced
        /\ \A i \in 1..(k - 1) : Rest[i] = changes[i]
    BY <1>1, <1>3, AppendProperties DEF Last, Rest
  <1>6. \A i \in 1..(Len(Rest) - 1) : \A n \in Quiet : Rest[i].next > n
    BY <1>5 DEF HealthInv, OuterCallsPassed
  <1> QED
    BY <1>1, <1>3, <1>4, <1>5, <1>6

LEMMA OneMoreTold ==
  ASSUME HealthInv, changes # <<>>, Top.next <= Len(Listeners),
         heard' = [heard EXCEPT ![Listeners[Top.next]][Top.module] = Top.to]
  PROVE  /\ heard' \in [Range(Listeners) -> [Module -> HealthState]]
         /\ \A n \in Quiet, m \in Module :
               IF m = Top.module /\ Top.next + 1 <= n THEN StateOf(m) = Top.to
               ELSE heard'[Listeners[n]][m] = StateOf(m)
  <1>1. Top \in Frame /\ Top.next \in 1..Len(Listeners)
    BY RestOfCalls
  <1>2. Top.module \in Module /\ Top.to \in HealthState /\ Top.next \in Nat
    BY <1>1 DEF Frame
  <1>3. heard' \in [Range(Listeners) -> [Module -> HealthState]]
    BY <1>2 DEF HealthInv, HealthTypeOK
  <1>4. ASSUME NEW n \in Quiet, NEW m \in Module
        PROVE  IF m = Top.module /\ Top.next + 1 <= n THEN StateOf(m) = Top.to
               ELSE heard'[Listeners[n]][m] = StateOf(m)
    <2>1. /\ n \in 1..Len(Listeners) /\ Listeners[n] \in Range(Listeners)
          /\ Listeners[n] = Listeners[Top.next] => n = Top.next
      BY <1>1, QuietListener, OneListener
    <2>2. IF m = Top.module /\ Top.next <= n THEN StateOf(m) = Top.to
          ELSE heard[Listeners[n]][m] = StateOf(m)
      BY DEF HealthInv, HeardInTurn, Untold, Top
    <2>3. heard'[Listeners[n]][m] = IF n = Top.next /\ m = Top.module THEN Top.to
                                    ELSE heard[Listeners[n]][m]
      BY <2>1 DEF HealthInv, HealthTypeOK
    <2> QED
      BY <1>1, <1>2, <2>1, <2>2, <2>3
  <1> QED
    BY <1>3, <1>4

LEMMA NotifyInv ==
  ASSUME HealthInv, Notify
  PROVE  HealthInv'
  <1>1. /\ changes # <<>> /\ Top.next <= Len(Listeners)
        /\ heard' = [heard EXCEPT ![Listeners[Top.next]][Top.module] = Top.to]
        /\ changes' = Rest /\ UNCHANGED <<health, latency, calls>>
    BY Zenon DEF Notify, Top, Advanced, Rest
  <1>2. /\ Top \in Frame /\ Top.next \in 1..Len(Listeners)
        /\ Advanced \in Frame /\ Advanced.next = Top.next + 1
        /\ Advanced.to = Top.to /\ Advanced.module = Top.module
        /\ Rest \in Seq(Frame) /\ Rest # <<>> /\ Last(Rest) = Advanced
        /\ Len(Rest) \in Nat \ {0}
        /\ \A i \in 1..(Len(Rest) - 1) : \A n \in Quiet : Rest[i].next > n
    BY <1>1, RestOfCalls
  <1>3. /\ heard' \in [Range(Listeners) -> [Module -> HealthState]]
        /\ \A n \in Quiet, m \in Module :
              IF m = Top.module /\ Top.next + 1 <= n THEN StateOf(m) = Top.to
              ELSE heard'[Listeners[n]][m] = StateOf(m)
    BY <1>1, OneMoreTold
  <1>4. \A m : StateOf(m)' = StateOf(m)
    BY <1>1 DEF StateOf
  <1>5. HealthTypeOK'
    BY <1>1, <1>2, <1>3 DEF HealthInv, HealthTypeOK
  <1>6. OuterCallsPassed'
    BY <1>1, <1>2 DEF OuterCallsPassed
  <1>7. HeardInTurn'
    BY <1>1, <1>2, <1>3, <1>4 DEF HeardInTurn, Untold
  <1> QED
    BY <1>5, <1>6, <1>7 DEF HealthInv

(* A listener that reacts begins a call on top of the one that told it.      *)
LEMMA ReactsInv ==
  ASSUME HealthInv, Reacts
  PROVE  HealthInv'
  <1>1. /\ changes # <<>> /\ Top.next > 1
        /\ Listeners[Top.next - 1] \in Reacting
        /\ heard' = heard
    BY DEF Reacts, Top
  <1>2. PICK m \in Module, s \in Reported : Change(m, s, changes)
    BY DEF Reacts
  <1> DEFINE k == Len(changes)
             frame == [module |-> m, to |-> s, next |-> 1]
  <1>3. k \in Nat \ {0} /\ Top \in Frame /\ Top = changes[k] /\ changes \in Seq(Frame)
    BY <1>1, FrontOfSeq DEF HealthInv, HealthTypeOK, Top
  <1>4. /\ health' \in [DOMAIN health' -> HealthState]
        /\ StateOf(m)' = s
        /\ \A n : n # m => StateOf(n)' = StateOf(n)
        /\ s \in HealthState
    BY <1>2, ChangeStates, HealthAssumption DEF HealthInv
  <1>5. \A n \in Quiet : n < Top.next
    <2> SUFFICES ASSUME NEW n \in Quiet PROVE n < Top.next
      OBVIOUS
    <2>1. n \in 1..Len(Listeners) /\ Len(Listeners) \in Nat /\ Top.next \in Nat \ {0}
      BY <1>3, QuietListener, HealthAssumption, LenProperties DEF Frame
    <2>2. CASE Top.next - 1 \in 1..Len(Listeners)
      <3>1. PICK p \in 1..Len(Listeners) : p = Top.next - 1
        BY <2>2
      <3>2. n <= p
        BY <1>1, <3>1, QuietBeforeReacting
      <3> QED
        BY <2>1, <3>1, <3>2
    <2>3. CASE Top.next - 1 \notin 1..Len(Listeners)
      BY <1>1, <2>1, <2>3
    <2> QED
      BY <2>2, <2>3
  <1>6. \A n \in Quiet, h \in Module : heard[Listeners[n]][h] = StateOf(h)
    <2> SUFFICES ASSUME NEW n \in Quiet, NEW h \in Module
                 PROVE  heard[Listeners[n]][h] = StateOf(h)
      OBVIOUS
    <2>1. n \in Nat /\ Top.next \in Nat /\ n < Top.next
      BY <1>3, <1>5, QuietListener, HealthAssumption, LenProperties DEF Frame
    <2>2. ~Untold(n, h)
      BY <2>1 DEF Untold, Top
    <2> QED
      BY <2>2 DEF HealthInv, HeardInTurn
  <1>7. CASE s = StateOf(m)
    <2>1. changes' = changes
      BY <1>2, <1>7 DEF Change
    <2>2. \A h : StateOf(h)' = StateOf(h)
      BY <1>4, <1>7
    <2>3. HealthTypeOK'
      BY <1>1, <1>4, <2>1 DEF HealthInv, HealthTypeOK
    <2>4. OuterCallsPassed'
      BY <2>1 DEF HealthInv, OuterCallsPassed
    <2>5. HeardInTurn'
      BY <1>1, <2>1, <2>2 DEF HealthInv, HeardInTurn, Untold
    <2> QED
      BY <2>3, <2>4, <2>5 DEF HealthInv
  <1>8. CASE s # StateOf(m)
    <2>1. changes' = Append(changes, frame) /\ frame \in Frame
      BY <1>2, <1>4, <1>8 DEF Change, Frame
    <2>2. /\ changes' \in Seq(Frame) /\ changes' # <<>>
          /\ Len(changes') = k + 1
          /\ Last(changes') = frame
          /\ \A i \in 1..k : changes'[i] = changes[i]
      BY <1>3, <2>1, AppendProperties DEF Last
    <2>3. HealthTypeOK'
      BY <1>1, <1>4, <2>2 DEF HealthInv, HealthTypeOK
    <2>4. OuterCallsPassed'
      <3> SUFFICES ASSUME NEW i \in 1..k, NEW n \in Quiet PROVE changes[i].next > n
        BY <1>3, <2>2 DEF OuterCallsPassed
      <3>1. CASE i = k
        <4>1. n \in Nat /\ Top.next \in Nat /\ n < Top.next
          BY <1>3, <1>5, QuietListener, HealthAssumption, LenProperties DEF Frame
        <4> QED
          BY <1>3, <3>1, <4>1
      <3>2. CASE i \in 1..(k - 1)
        BY <3>2 DEF HealthInv, OuterCallsPassed
      <3> QED
        BY <1>3, <3>1, <3>2
    <2>5. HeardInTurn'
      <3> SUFFICES ASSUME NEW n \in Quiet, NEW h \in Module
                   PROVE  IF Untold(n, h)' THEN StateOf(h)' = Last(changes').to
                          ELSE heard'[Listeners[n]][h] = StateOf(h)'
        BY DEF HeardInTurn
      <3>1. n \in 1..Len(Listeners) /\ Len(Listeners) \in Nat
        BY QuietListener, HealthAssumption, LenProperties
      <3>2. Untold(n, h)' <=> h = m
        BY <2>2, <3>1 DEF Untold
      <3> QED
        BY <1>1, <1>4, <1>6, <2>2, <3>2
    <2> QED
      BY <2>3, <2>4, <2>5 DEF HealthInv
  <1> QED
    BY <1>7, <1>8

LEMMA ReturnsInv ==
  ASSUME HealthInv, Returns
  PROVE  HealthInv'
  <1> DEFINE k == Len(changes)
  <1>1. /\ changes # <<>> /\ Top.next > Len(Listeners)
        /\ changes' = Front(changes)
        /\ UNCHANGED <<health, latency, calls, heard>>
    BY DEF Returns, Top
  <1>2. /\ k \in Nat \ {0} /\ Top \in Frame
        /\ Front(changes) \in Seq(Frame) /\ Len(Front(changes)) = k - 1
        /\ \A i \in 1..(k - 1) : Front(changes)[i] = changes[i]
    BY <1>1, FrontOfSeq DEF HealthInv, HealthTypeOK, Top
  <1>3. HealthTypeOK'
    BY <1>1, <1>2 DEF HealthInv, HealthTypeOK
  <1>4. OuterCallsPassed'
    BY <1>1, <1>2 DEF HealthInv, OuterCallsPassed
  <1>5. HeardInTurn'
    <2> SUFFICES ASSUME NEW n \in Quiet, NEW m \in Module
                 PROVE  ~Untold(n, m)' /\ heard'[Listeners[n]][m] = StateOf(m)'
      BY DEF HeardInTurn
    <2>1. n \in 1..Len(Listeners) /\ Len(Listeners) \in Nat
      BY QuietListener, HealthAssumption, LenProperties
    <2>2. ~Untold(n, m)
      BY <1>1, <1>2, <2>1 DEF Untold, Top, Frame
    <2>3. heard'[Listeners[n]][m] = StateOf(m)'
      BY <1>1, <2>2 DEF HealthInv, HeardInTurn, StateOf
    <2>4. changes' # <<>> =>
             /\ Len(changes') \in Nat \ {0} /\ Last(changes') = changes'[Len(changes')]
             /\ Last(changes') \in Frame
      <3>1. PICK rest \in Seq(Frame) : rest = changes'
        BY <1>1, <1>2
      <3> QED
        BY <3>1, FrontOfSeq
    <2>5. ASSUME changes' # <<>> PROVE Last(changes').next > n
      <3>1. Len(changes') \in 1..(k - 1)
        BY <1>1, <1>2, <2>4, <2>5
      <3>2. Last(changes') = changes[Len(changes')]
        BY <1>1, <1>2, <2>4, <2>5, <3>1
      <3> QED
        BY <3>1, <3>2 DEF HealthInv, OuterCallsPassed
    <2> QED
      BY <2>1, <2>3, <2>4, <2>5 DEF Untold, Frame
  <1> QED
    BY <1>3, <1>4, <1>5 DEF HealthInv

LEMMA HealthUnchanged ==
  ASSUME HealthInv, UNCHANGED <<health, changes, heard>>
  PROVE  HealthInv'
  BY DEF HealthInv, HealthTypeOK, OuterCallsPassed, HeardInTurn, Untold, StateOf

LEMMA HealthInvNext == HealthInv /\ [Next]_vars => HealthInv'
  <1> SUFFICES ASSUME HealthInv, [Next]_vars PROVE HealthInv'
    OBVIOUS
  <1>1. ASSUME NEW x \in Manifest, RegisterModule(x) PROVE HealthInv'
    BY <1>1, HealthRegisterInv DEF RegisterModule
  <1>2. CASE UseHealth
    <2>1. HealthStep
      BY <1>2 DEF UseHealth
    <2>2. ASSUME NEW m \in Module, NEW s \in Reported, SetState(m, s) PROVE HealthInv'
      BY <2>2, FirstCall, HealthAssumption DEF SetState
    <2>3. ASSUME NEW m \in Module, NEW l \in 0..2, RecordLatency(m, l) PROVE HealthInv'
      BY <2>3, HealthUnchanged DEF RecordLatency
    <2>4. ASSUME NEW m \in Module, CheckThresholds(m) PROVE HealthInv'
      <3>1. "UNHEALTHY" \in HealthState /\ "DEGRADED" \in HealthState
        BY DEF HealthState
      <3> QED
        BY <2>4, <3>1, FirstCall DEF CheckThresholds
    <2> QED
      BY <2>1, <2>2, <2>3, <2>4, NotifyInv, ReactsInv, ReturnsInv DEF HealthStep
  <1>3. CASE UNCHANGED healthVars
    BY <1>3, HealthUnchanged DEF healthVars
  <1> QED
    BY <1>1, <1>2, <1>3 DEF Next, vars, UseBudgets, UseDryRun, UsePools

(* However deep the calls of set_state() nest and whatever the listeners     *)
(* that react change, those up to the first that reacts end with the state   *)
(* each module is in (monitor.py:49-56).                                     *)
THEOREM ListenersEndUpToDate == Spec => []ListenersUpToDate
  <1>1. HealthInv => ListenersUpToDate
    BY DEF HealthInv, HeardInTurn, Untold, ListenersUpToDate, Quiet
  <1> QED
    BY <1>1, HealthInvInit, HealthInvNext, PTL DEF Spec

----------------------------------------------------------------------------

LEMMA TablesInvInit == Init => TablesInv
  BY DEF Init, PoolInit, TablesInv, PoolTypeOK, ShutdownInv, Slot

LEMMA LosesType ==
  ASSUME created \in Nat, shut \subseteq 1..created, forgotten \subseteq 1..created,
         NEW S \in SUBSET (0..created), Loses(S)
  PROVE  forgotten' \subseteq 1..created
  <1>1. \A e \in S \ (shut \cup {0}) : e \in 1..created
    OBVIOUS
  <1> QED
    BY <1>1 DEF Loses

(* The steps of submit() and of the workers. *)
LEMMA CreateTables ==
  ASSUME TablesInv, NEW c \in Caller, Create(c)
  PROVE  TablesInv'
  <1>1. /\ created \in Nat /\ created' = created + 1
        /\ pool' = [pool EXCEPT ![slot[c]] = created + 1]
        /\ slot[c] \in Slot
        /\ Loses({pool[slot[c]]})
        /\ at' = [at EXCEPT ![c] = "fetch"]
        /\ UNCHANGED <<shut, work, slot, executor, stop, todo, early, broken>>
    BY DEF Create, Goes, TablesInv, PoolTypeOK, stopVars
  <1>2. /\ pool \in [Slot -> 0..created] /\ shut \subseteq 1..created
        /\ forgotten \subseteq 1..created /\ executor \in [Caller -> 0..created]
        /\ \A w \in work : w[2] \in 1..created
    BY DEF TablesInv, PoolTypeOK
  <1>3. 0..created \subseteq 0..(created + 1) /\ 1..created \subseteq 1..(created + 1)
    BY <1>1
  <1>4. \A s \in Slot : pool'[s] = IF s = slot[c] THEN created + 1 ELSE pool[s]
    BY <1>1, <1>2
  <1>5. PoolTypeOK'
    <2>1. pool' \in [Slot -> 0..created']
      BY <1>1, <1>2, <1>3
    <2>2. forgotten' \subseteq 1..created'
      <3>1. {pool[slot[c]]} \in SUBSET (0..created)
        BY <1>1, <1>2
      <3>2. forgotten' \subseteq 1..created
        BY <1>1, <1>2, <3>1, LosesType
      <3> QED
        BY <1>1, <1>3, <3>2
    <2>3. executor' \in [Caller -> 0..created']
      BY <1>1, <1>2, <1>3
    <2>4. shut' \subseteq 1..created' /\ \A w \in work' : w[2] \in 1..created'
      BY <1>1, <1>2, <1>3
    <2> QED
      BY <1>1, <2>1, <2>2, <2>3, <2>4 DEF TablesInv, PoolTypeOK
  <1>6. ShutdownInv'
    <2>1. \A s \in Slot : pool[s] # 0 => pool'[s] # 0
      BY <1>1, <1>4
    <2>2. \A s \in Slot : pool[s] \notin shut => pool'[s] \notin shut
      BY <1>1, <1>2, <1>4
    <2> QED
      BY <1>1, <2>1, <2>2 DEF TablesInv, PoolTypeOK, ShutdownInv, Stopping, Slot
  <1> QED
    BY <1>5, <1>6 DEF TablesInv

LEMMA SubmitTables ==
  ASSUME TablesInv, NEW c \in Caller,
         \/ \E s \in Slot : Submit(c, s)
         \/ TestExists(c) \/ TestShut(c) \/ Fetch(c) \/ Accept(c) \/ SubmitRaises(c)
  PROVE  TablesInv'
  <1> USE DEF TablesInv, PoolTypeOK, ShutdownInv, Stopping, stopVars, Goes
  <1>1. ASSUME NEW s \in Slot, Submit(c, s) PROVE TablesInv'
    BY <1>1 DEF Submit
  <1>2. CASE TestExists(c)
    BY <1>2 DEF TestExists
  <1>3. CASE TestShut(c)
    BY <1>3 DEF TestShut
  <1>4. CASE Fetch(c)
    BY <1>4 DEF Fetch
  <1>5. CASE Accept(c)
    <2>1. executor[c] \notin shut \cup {0} => executor[c] \in 1..created
      OBVIOUS
    <2>2. \A w \in work' : w[2] \in 1..created
      BY <1>5, <2>1 DEF Accept
    <2>3. early' \subseteq work'
      BY <1>5 DEF Accept
    <2>4. at' \in [Caller -> {"idle", "test", "testShut", "create", "fetch", "submit", "failed"}]
      BY <1>5 DEF Accept
    <2> QED
      BY <1>5, <2>2, <2>3, <2>4 DEF Accept
  <1>6. CASE SubmitRaises(c)
    BY <1>6 DEF SubmitRaises
  <1> QED
    BY <1>1, <1>2, <1>3, <1>4, <1>5, <1>6

LEMMA FinishTables ==
  ASSUME TablesInv, NEW w \in work, Finish(w)
  PROVE  TablesInv'
  BY DEF TablesInv, PoolTypeOK, ShutdownInv, Stopping, stopVars, submitVars, Finish

(* The steps of shutdown(). *)
ShutdownStep ==
    \/ Shutdown \/ ShutDefault \/ DefaultDrained
    \/ LoopBegins \/ (\E n \in Name : ShutNext(n)) \/ NextDrained \/ LoopBreaks
    \/ LoopEnds \/ Clear \/ ForgetDefault

LEMMA ShutdownTables ==
  ASSUME TablesInv, ShutdownStep
  PROVE  TablesInv'
  <1> USE DEF TablesInv, PoolTypeOK, ShutdownInv, Stopping, stopVars, submitVars, Slot
  <1>1. CASE Shutdown
    BY <1>1 DEF Shutdown
  <1>2. CASE ShutDefault
    <2>1. "default" \in Slot /\ pool["default"] \in 0..created /\ pool["default"] # 0
      BY <1>2 DEF ShutDefault
    <2>2. shut' \subseteq 1..created
      <3>1. created \in Nat /\ pool["default"] \in 1..created
        BY <2>1
      <3>2. shut \subseteq 1..created /\ shut' = shut \cup {pool["default"]}
        BY <1>2 DEF ShutDefault
      <3> QED
        BY <3>1, <3>2, Zenon
    <2> QED
      BY <1>2, <2>2 DEF ShutDefault
  <1>3. CASE DefaultDrained
    BY <1>3 DEF DefaultDrained
  <1>4. CASE LoopBegins
    BY <1>4 DEF LoopBegins, Named
  <1>5. ASSUME NEW n \in Name, ShutNext(n) PROVE TablesInv'
    <2>1. n \in Slot /\ pool[n] \in 0..created /\ pool[n] # 0
      BY <1>5 DEF ShutNext
    <2>2. shut' \subseteq 1..created
      <3>1. created \in Nat /\ pool[n] \in 1..created
        BY <2>1
      <3>2. shut \subseteq 1..created /\ shut' = shut \cup {pool[n]}
        BY <1>5 DEF ShutNext
      <3> QED
        BY <3>1, <3>2, Zenon
    <2> QED
      BY <1>5, <2>2 DEF ShutNext
  <1>6. CASE NextDrained
    BY <1>6 DEF NextDrained
  <1>7. CASE LoopBreaks
    BY <1>7 DEF LoopBreaks
  <1>8. CASE LoopEnds
    BY <1>8 DEF LoopEnds
  <1>9. CASE Clear
    <2>1. {pool[n] : n \in Name} \in SUBSET (0..created)
      OBVIOUS
    <2>2. forgotten' \subseteq 1..created
      BY <1>9, <2>1, LosesType DEF Clear
    <2>3. /\ pool' \in [Slot -> 0..created]
          /\ \A n \in Name : pool'[n] = 0
      BY <1>9 DEF Clear
    <2> QED
      BY <1>9, <2>2, <2>3 DEF Clear
  <1>10. CASE ForgetDefault
    <2>1. {pool["default"]} \in SUBSET (0..created)
      OBVIOUS
    <2>2. forgotten' \subseteq 1..created
      BY <1>10, <2>1, LosesType DEF ForgetDefault
    <2>3. /\ pool' \in [Slot -> 0..created]
          /\ \A s \in Slot : pool'[s] \notin shut
      BY <1>10 DEF ForgetDefault
    <2> QED
      BY <1>10, <2>2, <2>3 DEF ForgetDefault
  <1> QED
    BY <1>1, <1>2, <1>3, <1>4, <1>5, <1>6, <1>7, <1>8, <1>9, <1>10 DEF ShutdownStep

LEMMA TablesInvNext == TablesInv /\ [Next]_vars => TablesInv'
  <1> SUFFICES ASSUME TablesInv, [Next]_vars PROVE TablesInv'
    OBVIOUS
  <1>1. CASE UsePools
    <2>1. PoolStep
      BY <1>1 DEF UsePools
    <2> QED
      BY <2>1, CreateTables, SubmitTables, FinishTables, ShutdownTables
      DEF PoolStep, ShutdownStep
  <1>2. CASE UNCHANGED poolVars
    BY <1>2 DEF poolVars, submitVars, stopVars, TablesInv, PoolTypeOK, ShutdownInv, Stopping
  <1> QED
    BY <1>1, <1>2 DEF Next, vars, RegisterModule, UseHealth, UseBudgets, UseDryRun

LEMMA RefusalInvInit == Init => RefusalInv
  BY TablesInvInit DEF Init, PoolInit, RefusalInv, CallerInv, Stopping

(* A step of submit() is the calling caller's own, or another's to those who *)
(* watch: all that it changes for them is a slot that a new executor takes.  *)
CallerOK(c) ==
    /\ Stopping /\ at[c] # "idle" => Met(c)
    /\ at[c] = "testShut" => slot[c] = "default" /\ (pool["default"] # 0 \/ Met(c))
    /\ at[c] = "fetch" => Usable(pool[slot[c]]) \/ Met(c) \/ broken
    /\ at[c] = "submit" => Usable(executor[c]) \/ Met(c) \/ broken
    /\ at[c] = "failed" => Met(c) \/ broken

LEMMA OthersOK ==
  ASSUME TablesInv, CallerInv, NEW c \in Caller, NEW d \in Caller, d # c,
         \/ \E s \in Slot : Submit(c, s)
         \/ TestExists(c) \/ TestShut(c) \/ Create(c) \/ Fetch(c) \/ Accept(c)
         \/ SubmitRaises(c)
  PROVE  CallerOK(d)'
  <1>1. CallerOK(d)
    BY DEF CallerInv, CallerOK
  <1>2. /\ at'[d] = at[d] /\ slot'[d] = slot[d] /\ executor'[d] = executor[d]
        /\ Met(d) <=> Met(d)'
        /\ UNCHANGED <<stop, shut, broken>>
    BY DEF Submit, TestExists, TestShut, Create, Fetch, Accept, SubmitRaises, Goes, Met,
       stopVars, TablesInv, PoolTypeOK
  <1>3. \A s \in Slot : pool'[s] = pool[s] \/ pool'[s] \notin shut \cup {0}
    BY DEF Submit, TestExists, TestShut, Create, Fetch, Accept, SubmitRaises, TablesInv,
       PoolTypeOK
  <1>4. slot[d] \in Slot /\ "default" \in Slot
    BY DEF Slot, TablesInv, PoolTypeOK
  <1> QED
    BY <1>1, <1>2, <1>3, <1>4 DEF CallerOK, Stopping, Usable, Met

LEMMA CallerItself ==
  ASSUME TablesInv, CallerInv, NEW c \in Caller,
         \/ \E s \in Slot : Submit(c, s)
         \/ TestExists(c) \/ TestShut(c) \/ Create(c) \/ Fetch(c) \/ Accept(c)
         \/ SubmitRaises(c)
  PROVE  CallerOK(c)'
  <1>1. /\ CallerOK(c) /\ slot[c] \in Slot /\ created \in Nat /\ shut \subseteq 1..created
        /\ at \in [Caller -> {"idle", "test", "testShut", "create", "fetch", "submit", "failed"}]
        /\ pool \in [Slot -> 0..created] /\ slot \in [Caller -> Slot]
        /\ executor \in [Caller -> 0..created]
    BY DEF CallerInv, CallerOK, TablesInv, PoolTypeOK
  <1>2. Stopping \/ broken \/ \A s \in Slot : pool[s] \notin shut
    BY DEF TablesInv, ShutdownInv
  <1> USE <1>1, <1>2 DEF CallerOK, Met, Usable, Stopping, Goes, stopVars
  <1>3. ASSUME NEW s \in Slot, Submit(c, s) PROVE CallerOK(c)'
    BY <1>3 DEF Submit
  <1>4. CASE TestExists(c)
    BY <1>4 DEF TestExists
  <1>5. CASE TestShut(c)
    BY <1>5 DEF TestShut
  <1>6. CASE Create(c)
    BY <1>6 DEF Create
  <1>7. CASE Fetch(c)
    BY <1>7 DEF Fetch
  <1>8. CASE Accept(c)
    BY <1>8 DEF Accept
  <1>9. CASE SubmitRaises(c)
    BY <1>9 DEF SubmitRaises
  <1> QED
    BY <1>3, <1>4, <1>5, <1>6, <1>7, <1>8, <1>9

(* While shutdown() runs, nothing is claimed of the callers that it meets;   *)
(* it begins by meeting all.                                                 *)
LEMMA ShutdownMeetsCallers ==
  ASSUME TablesInv, CallerInv, ShutdownStep
  PROVE  CallerInv'
  <1> SUFFICES ASSUME NEW c \in Caller PROVE CallerOK(c)'
    BY DEF CallerInv, CallerOK
  <1>1. UNCHANGED <<at, slot, executor>>
    BY DEF ShutdownStep, Shutdown, ShutDefault, DefaultDrained, LoopBegins, ShutNext, NextDrained,
       LoopBreaks, LoopEnds, Clear, ForgetDefault, submitVars
  <1>2. at[c] # "idle" => Met(c)'
    <2>1. CASE Shutdown
      BY <2>1 DEF Shutdown, Met
    <2>2. CASE ~Shutdown
      <3>1. Stopping /\ overlapped' = overlapped
        BY <2>2 DEF ShutdownStep, ShutDefault, DefaultDrained, LoopBegins, ShutNext, NextDrained,
           LoopBreaks, LoopEnds, Clear, ForgetDefault, Stopping
      <3> QED
        BY <3>1 DEF CallerInv, Met
    <2> QED
      BY <2>1, <2>2
  <1>3. at[c] = "testShut" => slot[c] = "default"
    BY DEF CallerInv
  <1> QED
    BY <1>1, <1>2, <1>3 DEF CallerOK

LEMMA RefusalInvNext == RefusalInv /\ [Next]_vars => RefusalInv'
  <1> SUFFICES ASSUME RefusalInv, [Next]_vars PROVE RefusalInv'
    OBVIOUS
  <1>1. TablesInv /\ CallerInv /\ TablesInv'
    BY TablesInvNext DEF RefusalInv
  <1>2. CASE UsePools
    <2>1. PoolStep
      BY <1>2 DEF UsePools
    <2>2. ASSUME NEW c \in Caller,
                 \/ \E s \in Slot : Submit(c, s)
                 \/ TestExists(c) \/ TestShut(c) \/ Create(c) \/ Fetch(c) \/ Accept(c)
                 \/ SubmitRaises(c)
          PROVE  CallerInv'
      <3>1. \A d \in Caller : CallerOK(d)'
        BY <1>1, <2>2, OthersOK, CallerItself
      <3> QED
        BY <3>1 DEF CallerInv, CallerOK
    <2>3. ASSUME NEW w \in work, Finish(w) PROVE CallerInv'
      BY <1>1, <2>3 DEF Finish, submitVars, stopVars, CallerInv, Met, Usable, Stopping
    <2> QED
      BY <1>1, <2>1, <2>2, <2>3, ShutdownMeetsCallers DEF PoolStep, ShutdownStep, RefusalInv
  <1>3. CASE UNCHANGED poolVars
    BY <1>1, <1>3 DEF poolVars, submitVars, stopVars, RefusalInv, CallerInv, Met, Usable, Stopping
  <1> QED
    BY <1>2, <1>3 DEF Next, vars, RegisterModule, UseHealth, UseBudgets, UseDryRun

(* Whatever threads submit and however shutdown() interleaves with them, no  *)
(* work is refused but for a shutdown (threadpool.py:57-69, 75-79).          *)
THEOREM NoNeedlessRefusal == Spec => []RefusedOnlyByShutdown
  <1>1. RefusalInv => RefusedOnlyByShutdown
    BY DEF RefusalInv, CallerInv, Met, RefusedOnlyByShutdown
  <1> QED
    BY <1>1, RefusalInvInit, RefusalInvNext, PTL DEF Spec

LEMMA DrainInvInit == Init => DrainInv
  BY TablesInvInit DEF Init, PoolInit, DrainInv, Placed, OnlyTargetWorks, EarlyIsToShut, Stopping

(* What a step leaves where it was.  A slot that is emptied or taken by a    *)
(* new executor loses its old one.                                           *)
LEMMA PlacedKept ==
  ASSUME TablesInv, Placed, created' = created, shut \subseteq shut',
         \A e \in 1..created, s \in Slot :
             pool[s] = e => pool'[s] = e \/ e \in forgotten' \cup shut',
         forgotten \subseteq forgotten'
  PROVE  Placed'
  BY DEF Placed

LEMMA CreateDrain ==
  ASSUME DrainInv, NEW c \in Caller, Create(c)
  PROVE  DrainInv'
  <1>1. /\ created \in Nat /\ created' = created + 1
        /\ pool \in [Slot -> 0..created] /\ slot[c] \in Slot
        /\ pool' = [pool EXCEPT ![slot[c]] = created + 1]
        /\ forgotten' = forgotten \cup ({pool[slot[c]]} \ (shut \cup {0}))
        /\ shut \subseteq 1..created /\ early \subseteq work
        /\ \A w \in work : w[2] \in 1..created
        /\ UNCHANGED <<shut, work, early, stop, target, todo>>
    BY DEF Create, Loses, DrainInv, TablesInv, PoolTypeOK, stopVars
  <1>2. ASSUME NEW e \in 1..created, NEW s \in Slot, pool[s] = e
        PROVE  pool'[s] = e \/ e \in forgotten' \cup shut'
    BY <1>1, <1>2
  <1>3. Placed'
    <2> SUFFICES ASSUME NEW e \in 1..created'
                 PROVE  e \in forgotten' \cup shut' \/ \E s \in Slot : pool'[s] = e
      BY DEF Placed
    <2>1. CASE e = created + 1
      BY <1>1, <2>1
    <2>2. CASE e \in 1..created
      BY <1>1, <1>2, <2>2 DEF DrainInv, Placed
    <2> QED
      BY <1>1, <2>1, <2>2
  <1>4. OnlyTargetWorks'
    BY <1>1 DEF DrainInv, OnlyTargetWorks
  <1>5. EarlyIsToShut'
    <2> SUFFICES ASSUME Stopping \/ stop = "returned", NEW w \in early
                 PROVE  w[2] \in forgotten' \cup shut' \/ \E s \in ToShut : pool'[s] = w[2]
      BY <1>1 DEF EarlyIsToShut, ToShut, Stopping
    <2>1. w[2] \in forgotten \cup shut \/ \E s \in ToShut : pool[s] = w[2]
      BY DEF DrainInv, EarlyIsToShut
    <2>2. w[2] \in 1..created
      BY <1>1
    <2>3. ToShut \subseteq Slot
      BY DEF ToShut, Slot, DrainInv, TablesInv, PoolTypeOK
    <2> QED
      BY <1>1, <1>2, <2>1, <2>2, <2>3
  <1>6. TablesInv'
    BY CreateTables DEF DrainInv
  <1> QED
    BY <1>3, <1>4, <1>5, <1>6 DEF DrainInv

LEMMA SubmitDrain ==
  ASSUME DrainInv, NEW c \in Caller,
         \/ \E s \in Slot : Submit(c, s)
         \/ TestExists(c) \/ TestShut(c) \/ Fetch(c) \/ Accept(c) \/ SubmitRaises(c)
  PROVE  DrainInv'
  <1>1. TablesInv'
    BY SubmitTables DEF DrainInv
  <1>2. UNCHANGED <<pool, created, shut, stop, target, todo, early, forgotten>>
    BY DEF Submit, TestExists, TestShut, Fetch, Accept, SubmitRaises, stopVars
  <1>3. \A w \in work' : w \in work \/ w[2] \notin shut
    BY DEF Submit, TestExists, TestShut, Fetch, Accept, SubmitRaises
  <1> QED
    BY <1>1, <1>2, <1>3 DEF DrainInv, Placed, OnlyTargetWorks, EarlyIsToShut, ToShut, Stopping

LEMMA FinishDrain ==
  ASSUME DrainInv, NEW w \in work, Finish(w)
  PROVE  DrainInv'
  <1>1. TablesInv'
    BY FinishTables DEF DrainInv
  <1> QED
    BY <1>1 DEF Finish, submitVars, stopVars, DrainInv, Placed, OnlyTargetWorks, EarlyIsToShut,
       ToShut, Stopping

LEMMA ShutdownDrain ==
  ASSUME DrainInv, ShutdownStep
  PROVE  DrainInv'
  <1>1. TablesInv /\ TablesInv'
    BY ShutdownTables DEF DrainInv
  <1>2. /\ pool \in [Slot -> 0..created] /\ early \subseteq work /\ todo \subseteq Name
        /\ \A w \in work : w[2] \in 1..created
        /\ "default" \in Slot /\ Name \subseteq Slot
    BY <1>1 DEF TablesInv, PoolTypeOK, Slot
  <1>3. /\ \A w \in work : w[2] \in shut => w[2] = target /\ stop \in {"waitDefault", "wait"}
        /\ Stopping \/ stop = "returned" =>
               \A w \in early : w[2] \in forgotten \cup shut \/ \E s \in ToShut : pool[s] = w[2]
    BY DEF DrainInv, OnlyTargetWorks, EarlyIsToShut
  <1>4. CASE Shutdown
    <2>1. UNCHANGED <<pool, created, shut, work, target, forgotten>> /\ early' = work
      BY <1>4 DEF Shutdown
    <2>2. stop' = IF pool["default"] # 0 THEN "default" ELSE "loop"
      BY <1>4 DEF Shutdown
    <2>3. ToShut' = IF pool["default"] # 0 THEN Slot ELSE Name
      BY <2>2 DEF ToShut
    <2>4. \A w \in work : w[2] \in forgotten \cup shut \/ \E s \in Slot : pool[s] = w[2]
      BY <1>2 DEF DrainInv, Placed
    <2>5. ASSUME NEW w \in work
          PROVE  w[2] \in forgotten \cup shut \/ \E s \in ToShut' : pool[s] = w[2]
      BY <1>2, <2>3, <2>4 DEF Slot
    <2>6. OnlyTargetWorks'
      BY <1>3, <1>4, <2>1 DEF OnlyTargetWorks, Shutdown, Stopping
    <2> QED
      BY <1>1, <2>1, <2>5, <2>6 DEF DrainInv, Placed, EarlyIsToShut
  <1>5. CASE ShutDefault
    <2>1. /\ UNCHANGED <<pool, created, work, early, forgotten>> /\ shut' = shut \cup {pool["default"]}
          /\ stop = "default" /\ stop' = "waitDefault" /\ target' = pool["default"]
      BY <1>5 DEF ShutDefault
    <2>2. ToShut = Slot /\ ToShut' = Name
      BY <2>1 DEF ToShut
    <2>3. EarlyIsToShut'
      BY <1>3, <2>1, <2>2 DEF EarlyIsToShut, Stopping, Slot
    <2>4. OnlyTargetWorks'
      BY <1>3, <2>1 DEF OnlyTargetWorks
    <2> QED
      BY <1>1, <2>1, <2>3, <2>4 DEF DrainInv, Placed
  <1>6. CASE DefaultDrained \/ NextDrained
    <2>1. /\ UNCHANGED <<pool, created, work, shut, early, forgotten, target, todo>>
          /\ \A w \in work : w[2] # target
          /\ \/ stop = "waitDefault" /\ stop' = "loop"
             \/ stop = "wait" /\ stop' = "next"
      BY <1>6 DEF DefaultDrained, NextDrained, Drained
    <2>2. ToShut = ToShut'
      BY <2>1 DEF ToShut
    <2> QED
      BY <1>1, <1>3, <2>1, <2>2 DEF DrainInv, Placed, OnlyTargetWorks, EarlyIsToShut, Stopping
  <1>7. CASE LoopBegins
    <2>1. /\ UNCHANGED <<pool, created, work, shut, early, forgotten, target>>
          /\ stop = "loop" /\ stop' = "next" /\ todo' = Named
      BY <1>7 DEF LoopBegins
    <2>2. ToShut = Name /\ ToShut' = Named
      BY <2>1 DEF ToShut
    <2>3. ASSUME NEW w \in early
          PROVE  w[2] \in forgotten \cup shut \/ \E s \in Named : pool[s] = w[2]
      <3>1. w[2] # 0
        BY <1>2
      <3> QED
        BY <1>3, <2>1, <2>2, <3>1 DEF Stopping, Named
    <2>4. EarlyIsToShut'
      BY <2>1, <2>2, <2>3 DEF EarlyIsToShut
    <2> QED
      BY <1>1, <1>3, <2>1, <2>4 DEF DrainInv, Placed, OnlyTargetWorks
  <1>8. ASSUME NEW n \in Name, ShutNext(n) PROVE DrainInv'
    <2>1. /\ UNCHANGED <<pool, created, work, early, forgotten>> /\ shut' = shut \cup {pool[n]}
          /\ stop = "next" /\ stop' = "wait" /\ target' = pool[n] /\ todo' = todo \ {n}
      BY <1>8 DEF ShutNext
    <2>2. ToShut = todo /\ ToShut' = todo \ {n}
      BY <2>1 DEF ToShut
    <2>3. EarlyIsToShut'
      BY <1>3, <2>1, <2>2 DEF EarlyIsToShut, Stopping
    <2>4. OnlyTargetWorks'
      BY <1>3, <2>1 DEF OnlyTargetWorks
    <2> QED
      BY <1>1, <2>1, <2>3, <2>4 DEF DrainInv, Placed
  <1>9. CASE LoopBreaks
    BY <1>1, <1>3, <1>9 DEF LoopBreaks, DrainInv, Placed, OnlyTargetWorks, EarlyIsToShut, Stopping
  <1>10. CASE LoopEnds
    <2>1. /\ UNCHANGED <<pool, created, work, shut, early, forgotten, target>>
          /\ stop = "next" /\ stop' = "clear" /\ todo = {}
      BY <1>10 DEF LoopEnds
    <2>2. ToShut = {}
      BY <2>1 DEF ToShut
    <2>3. EarlyIsToShut'
      BY <1>3, <2>1, <2>2 DEF EarlyIsToShut, Stopping
    <2> QED
      BY <1>1, <1>3, <2>1, <2>3 DEF DrainInv, Placed, OnlyTargetWorks
  <1>11. CASE Clear \/ ForgetDefault
    <2>1. /\ UNCHANGED <<created, work, shut, early, target>> /\ forgotten \subseteq forgotten'
          /\ \/ stop = "clear" /\ stop' = "forget"
             \/ stop = "forget" /\ stop' = "returned"
      BY <1>11 DEF Clear, ForgetDefault, Loses
    <2>2. ASSUME NEW e \in 1..created, NEW s \in Slot, pool[s] = e
          PROVE  pool'[s] = e \/ e \in forgotten' \cup shut'
      <3>1. e # 0
        OBVIOUS
      <3>2. CASE Clear
        BY <1>2, <2>1, <2>2, <3>1, <3>2 DEF Clear, Loses
      <3>3. CASE ForgetDefault
        BY <1>2, <2>1, <2>2, <3>1, <3>3 DEF ForgetDefault, Loses
      <3> QED
        BY <1>11, <3>2, <3>3
    <2>3. Placed'
      BY <1>1, <2>1, <2>2, PlacedKept DEF DrainInv
    <2>4. ToShut = {}
      BY <2>1 DEF ToShut
    <2>5. EarlyIsToShut'
      BY <1>3, <2>1, <2>4 DEF EarlyIsToShut, Stopping
    <2> QED
      BY <1>1, <1>3, <2>1, <2>3, <2>5 DEF DrainInv, OnlyTargetWorks
  <1> QED
    BY <1>4, <1>5, <1>6, <1>7, <1>8, <1>9, <1>10, <1>11 DEF ShutdownStep

LEMMA DrainInvNext == DrainInv /\ [Next]_vars => DrainInv'
  <1> SUFFICES ASSUME DrainInv, [Next]_vars PROVE DrainInv'
    OBVIOUS
  <1>1. CASE UsePools
    <2>1. PoolStep
      BY <1>1 DEF UsePools
    <2> QED
      BY <2>1, CreateDrain, SubmitDrain, FinishDrain, ShutdownDrain DEF PoolStep, ShutdownStep
  <1>2. CASE UNCHANGED poolVars
    <2>1. TablesInv'
      BY TablesInvNext DEF DrainInv
    <2> QED
      BY <1>2, <2>1 DEF poolVars, stopVars, DrainInv, Placed, OnlyTargetWorks, EarlyIsToShut,
         ToShut, Stopping
  <1> QED
    BY <1>1, <1>2 DEF Next, vars, RegisterModule, UseHealth, UseBudgets, UseDryRun

(* shutdown() returns when what was accepted before it began is done, but    *)
(* for executors that had lost their slot unshut, for any number of pools,   *)
(* callers and pieces of work (threadpool.py:58-64, 71-79).                  *)
THEOREM ShutdownWaits == Spec => []StoppedMeansDone
  <1>1. DrainInv => StoppedMeansDone
    <2> SUFFICES ASSUME DrainInv, stop = "returned", NEW w \in work \cap early
                 PROVE  w[2] \in forgotten
      BY DEF StoppedMeansDone
    <2>1. w[2] \in forgotten \cup shut
      BY DEF DrainInv, EarlyIsToShut, ToShut
    <2>2. w[2] \notin shut
      BY DEF DrainInv, OnlyTargetWorks
    <2> QED
      BY <2>1, <2>2
  <1> QED
    BY <1>1, DrainInvInit, DrainInvNext, PTL DEF Spec

----------------------------------------------------------------------------
(* Loops.  A loop is a recursive function that is called last; such a        *)
(* recursion has a solution whatever the step is, and the loop ends where    *)
(* two measures, the second under the first, cannot get smaller.             *)

LEMMA LeastNatural ==
  ASSUME NEW S, S \subseteq Nat, S # {}
  PROVE  \E m \in S : \A n \in S : m <= n
  <1>1. PICK m \in S : \A n \in S : <<n, m>> \notin OpToRel(<, Nat)
    BY NatLessThanWellFounded, WFMin
  <1>2. \A n \in S : ~(n < m)
    BY <1>1 DEF OpToRel
  <1> QED
    BY <1>2

Loops(f, S, done, step, out) == f = [s \in S |-> IF s \in done THEN out[s] ELSE f[step[s]]]

LEMMA LoopExists ==
  ASSUME NEW S, NEW done, NEW step \in [S -> S], NEW out
  PROVE  \E f : Loops(f, S, done, step, out)
  <1> DEFINE R == S \X {out[s] : s \in S}
             EndsIn(H) == \A s \in S \cap done : <<s, out[s]>> \in H
             StepsIn(H) == \A s \in S \ done : \A v : <<step[s], v>> \in H => <<s, v>> \in H
             G == {p \in R : \A H \in SUBSET R : EndsIn(H) /\ StepsIn(H) => p \in H}
             Value(s) == CHOOSE v : <<s, v>> \in G
             f == [s \in S |-> Value(s)]
  <1>1. EndsIn(G)
    OBVIOUS
  <1>2. StepsIn(G)
    <2> SUFFICES ASSUME NEW s \in S \ done, NEW v, <<step[s], v>> \in G PROVE <<s, v>> \in G
      OBVIOUS
    <2>1. v \in {out[t] : t \in S}
      OBVIOUS
    <2>2. \A H \in SUBSET R : EndsIn(H) /\ StepsIn(H) => <<s, v>> \in H
      OBVIOUS
    <2> QED
      BY <2>1, <2>2
  <1>3. G \subseteq R /\ \A H \in SUBSET R : EndsIn(H) /\ StepsIn(H) => G \subseteq H
    OBVIOUS
  <1> HIDE DEF G, R
  <1>4. ASSUME NEW s \in S, NEW v, <<s, v>> \in G,
               s \in done => v # out[s], s \notin done => <<step[s], v>> \notin G
        PROVE  FALSE
    <2> DEFINE H == G \ {<<s, v>>}
    <2>1. H \in SUBSET R
      BY <1>3
    <2>2. EndsIn(H)
      BY <1>1, <1>4
    <2>3. StepsIn(H)
      BY <1>2, <1>4
    <2> HIDE DEF EndsIn, StepsIn
    <2> QED
      BY <1>3, <1>4, <2>1, <2>2, <2>3
  <1>5. ASSUME NEW s \in S \cap done PROVE Value(s) = out[s]
    <2>1. \A v : <<s, v>> \in G <=> v = out[s]
      BY <1>1, <1>4
    <2> QED
      BY <2>1
  <1>6. ASSUME NEW s \in S \ done PROVE Value(s) = Value(step[s])
    <2>1. \A v : <<s, v>> \in G <=> <<step[s], v>> \in G
      BY <1>2, <1>4
    <2> QED
      BY <2>1, Zenon
  <1> HIDE DEF Value
  <1>7. \A s \in S : Value(s) = IF s \in done THEN out[s] ELSE f[step[s]]
    BY <1>5, <1>6
  <1>8. f = [s \in S |-> IF s \in done THEN out[s] ELSE f[step[s]]]
    BY <1>7
  <1> QED
    BY <1>8, Zenon DEF Loops

(* The states of I are kept, and M decreases, or N while M stays. *)
Descends(I, done, step, M, N) ==
    /\ M \in [I -> Nat] /\ N \in [I -> Nat]
    /\ \A t \in I \ done : /\ step[t] \in I
                           /\ \/ M[step[t]] < M[t]
                              \/ M[step[t]] = M[t] /\ N[step[t]] < N[t]

LEMMA LoopReturns ==
  ASSUME NEW S, NEW done, NEW step, NEW out, NEW f, Loops(f, S, done, step, out),
         NEW I \in SUBSET S, NEW M, NEW N, Descends(I, done, step, M, N),
         NEW s \in I
  PROVE  \E u \in I \cap done : f[s] = out[u]
  <1> USE DEF Loops, Descends
  <1> DEFINE Bad == {t \in I : \A u \in I \cap done : f[t] # out[u]}
             First == {M[t] : t \in Bad}
  <1>1. SUFFICES ASSUME s \in Bad PROVE FALSE
    OBVIOUS
  <1>2. First \subseteq Nat /\ First # {}
    BY <1>1
  <1>3. PICK m \in First : \A k \in First : m <= k
    BY <1>2, LeastNatural
  <1> DEFINE Second == {N[t] : t \in {r \in Bad : M[r] = m}}
  <1>4. Second \subseteq Nat /\ Second # {}
    BY <1>3
  <1>5. PICK n \in Second : \A k \in Second : n <= k
    BY <1>4, LeastNatural
  <1>6. PICK t \in Bad : M[t] = m /\ N[t] = n
    BY <1>5
  <1>7. t \in I \ done
    BY <1>6
  <1>8. step[t] \in Bad
    BY <1>6, <1>7
  <1>9. M[step[t]] \in Nat /\ m <= M[step[t]] /\ m \in Nat
    BY <1>2, <1>3, <1>8
  <1>10. M[step[t]] = m /\ N[step[t]] < n
    BY <1>6, <1>7, <1>9
  <1>11. N[step[t]] \in Second /\ N[step[t]] \in Nat /\ n \in Nat
    BY <1>4, <1>5, <1>8, <1>10
  <1> HIDE DEF First, Second
  <1>12. n <= N[step[t]]
    BY <1>5, <1>11
  <1> QED
    BY <1>10, <1>11, <1>12

----------------------------------------------------------------------------
(* How often something occurs in a list. *)

Places(s, d) == {k \in DOMAIN s : s[k] = d}

LEMMA PlacesFinite ==
  ASSUME NEW S, NEW s \in Seq(S), NEW d
  PROVE  /\ IsFiniteSet(Places(s, d)) /\ Times(s, d) = Cardinality(Places(s, d))
         /\ Times(s, d) \in Nat
         /\ d \in Range(s) <=> Times(s, d) > 0
  <1>1. DOMAIN s = 1..Len(s) /\ Len(s) \in Nat
    BY LenProperties
  <1>2. IsFiniteSet(Places(s, d)) /\ Cardinality(Places(s, d)) \in Nat
    <2>1. IsFiniteSet(1..Len(s)) /\ Places(s, d) \in SUBSET (1..Len(s))
      BY <1>1, FS_Interval DEF Places
    <2> QED
      BY <2>1, FS_Subset, FS_CardinalityType
  <1>3. d \in Range(s) <=> Places(s, d) # {}
    BY DEF Range, Places
  <1>4. Times(s, d) = Cardinality(Places(s, d))
    BY DEF Times, Places
  <1> QED
    BY <1>2, <1>3, <1>4, FS_EmptySet

LEMMA TimesOfConcat ==
  ASSUME NEW S, NEW s \in Seq(S), NEW t \in Seq(S), NEW d
  PROVE  Times(s \o t, d) = Times(s, d) + Times(t, d)
  <1> DEFINE A == Places(s, d)
             B == {k \in (Len(s) + 1)..(Len(s) + Len(t)) : t[k - Len(s)] = d}
             g == [k \in Places(t, d) |-> k + Len(s)]
  <1>1. /\ DOMAIN s = 1..Len(s) /\ Len(s) \in Nat
        /\ DOMAIN t = 1..Len(t) /\ Len(t) \in Nat
        /\ s \o t \in Seq(S) /\ DOMAIN (s \o t) = 1..(Len(s) + Len(t))
        /\ \A i \in 1..(Len(s) + Len(t)) :
              (s \o t)[i] = IF i <= Len(s) THEN s[i] ELSE t[i - Len(s)]
    BY LenProperties, ConcatProperties
  <1>2. Places(s \o t, d) = A \cup B
    BY <1>1 DEF Places
  <1>3. A \cap B = {}
    BY <1>1 DEF Places
  <1>4. IsFiniteSet(B) /\ Cardinality(B) = Times(t, d)
    <2>1. g \in Bijection(Places(t, d), B)
      <3>1. g \in [Places(t, d) -> B]
        BY <1>1 DEF Places
      <3>2. IsInjective(g)
        BY <1>1 DEF Places, IsInjective
      <3>3. \A b \in B : \E k \in Places(t, d) : g[k] = b
        <4> TAKE b \in B
        <4>1. b - Len(s) \in Places(t, d) /\ g[b - Len(s)] = b
          BY <1>1 DEF Places
        <4> QED
          BY <4>1
      <3> QED
        BY <3>1, <3>2, <3>3 DEF Bijection, Injection, Surjection
    <2> QED
      BY <2>1, PlacesFinite, FS_Bijection DEF ExistsBijection
  <1>5. IsFiniteSet(A) /\ Cardinality(A) = Times(s, d) /\ Times(s, d) \in Nat /\ Times(t, d) \in Nat
    BY PlacesFinite
  <1>6. Times(s \o t, d) = Cardinality(A \cup B)
    BY <1>1, <1>2, PlacesFinite
  <1> HIDE DEF A, B
  <1>7. Cardinality(A \cup B) = Cardinality(A) + Cardinality(B) - Cardinality(A \cap B)
    BY <1>4, <1>5, FS_Union
  <1>8. Cardinality(A \cap B) = 0
    BY <1>3, FS_EmptySet, Zenon
  <1> QED
    BY <1>4, <1>5, <1>6, <1>7, <1>8

Copies(n, x) == [k \in 1..n |-> x]

LEMMA CopiesOfOne ==
  ASSUME NEW S, NEW n \in Nat, NEW x \in S
  PROVE  /\ Copies(n, x) \in Seq(S)
         /\ \A d : Times(Copies(n, x), d) = IF x = d THEN n ELSE 0
  <1>1. Copies(n, x) \in [1..n -> S]
    BY DEF Copies
  <1>2. [1..n -> S] \in {[1..k -> S] : k \in Nat}
    OBVIOUS
  <1>3. Copies(n, x) \in Seq(S)
    BY <1>1, <1>2, SeqDef, Zenon
  <1>4. ASSUME NEW d PROVE Times(Copies(n, x), d) = IF x = d THEN n ELSE 0
    <2>1. {k \in DOMAIN Copies(n, x) : Copies(n, x)[k] = d} = IF x = d THEN 1..n ELSE {}
      BY DEF Copies
    <2>2. Times(Copies(n, x), d) = Cardinality({k \in DOMAIN Copies(n, x) : Copies(n, x)[k] = d})
      BY DEF Times
    <2>3. Cardinality(1..n) = n /\ Cardinality({}) = 0
      BY FS_Interval, FS_EmptySet
    <2> QED
      BY <2>1, <2>2, <2>3
  <1> QED
    BY <1>3, <1>4

LEMMA TimesOfTail ==
  ASSUME NEW S, NEW s \in Seq(S), s # <<>>, NEW d
  PROVE  Times(s, d) = Times(Tail(s), d) + (IF Head(s) = d THEN 1 ELSE 0)
  <1>1. /\ Head(s) \in S /\ Tail(s) \in Seq(S) /\ Len(Tail(s)) = Len(s) - 1
        /\ \A i \in 1..Len(Tail(s)) : Tail(s)[i] = s[i + 1]
        /\ Head(s) = s[1] /\ Len(s) \in Nat \ {0}
    BY HeadTailProperties, EmptySeq
  <1>2. PICK one \in Nat : one = 1
    OBVIOUS
  <1>3. PICK first : first = Copies(one, Head(s))
    OBVIOUS
  <1>4. /\ first \in Seq(S) /\ Len(first) = 1 /\ first[1] = Head(s)
        /\ Times(first, d) = IF Head(s) = d THEN 1 ELSE 0
    <2>1. first \in Seq(S) /\ Times(first, d) = IF Head(s) = d THEN one ELSE 0
      <3>1. PICK h \in S : h = Head(s)
        BY <1>1
      <3>2. Copies(one, h) \in Seq(S) /\ Times(Copies(one, h), d) = IF h = d THEN one ELSE 0
        BY CopiesOfOne
      <3> QED
        BY <1>3, <3>1, <3>2
    <2>2. DOMAIN first = 1..1 /\ first[1] = Head(s)
      BY <1>2, <1>3 DEF Copies
    <2>3. Len(first) \in Nat /\ 1..Len(first) = 1..1
      BY <2>1, <2>2, LenProperties
    <2> QED
      BY <1>2, <2>1, <2>2, <2>3
  <1>5. s = first \o Tail(s)
    <2>1. /\ first \o Tail(s) \in Seq(S)
          /\ Len(first \o Tail(s)) = 1 + Len(Tail(s))
          /\ \A i \in 1..(1 + Len(Tail(s))) : (first \o Tail(s))[i] =
                IF i <= 1 THEN first[i] ELSE Tail(s)[i - 1]
      <3>1. first \in Seq(S) /\ Tail(s) \in Seq(S)
        BY <1>1, <1>4
      <3>2. /\ first \o Tail(s) \in Seq(S)
            /\ Len(first \o Tail(s)) = Len(first) + Len(Tail(s))
            /\ \A i \in 1..(Len(first) + Len(Tail(s))) : (first \o Tail(s))[i] =
                  IF i <= Len(first) THEN first[i] ELSE Tail(s)[i - Len(first)]
        BY <3>1, ConcatProperties, Zenon
      <3> QED
        BY <1>4, <3>2
    <2>2. \A i \in 1..Len(s) : (first \o Tail(s))[i] = s[i]
      BY <1>1, <1>4, <2>1
    <2> QED
      BY <1>1, <2>1, <2>2, SeqEqual
  <1>6. Times(s, d) = Times(first, d) + Times(Tail(s), d)
    <2>1. Times(first \o Tail(s), d) = Times(first, d) + Times(Tail(s), d)
      <3>1. PICK t \in Seq(S) : t = Tail(s)
        BY <1>1
      <3>2. first \in Seq(S)
        BY <1>4
      <3>3. Times(first \o t, d) = Times(first, d) + Times(t, d)
        BY <3>2, TimesOfConcat
      <3> QED
        BY <3>1, <3>3
    <2> QED
      BY <1>5, <2>1, Zenon
  <1>7. Times(Tail(s), d) \in Nat
    BY <1>1, PlacesFinite
  <1> QED
    BY <1>4, <1>6, <1>7

LEMMA NothingInEmpty ==
  /\ Range(<<>>) = {} /\ IsInjective(<<>>)
  /\ \A S : <<>> \in Seq(S)
  /\ \A d : Times(<<>>, d) = 0
  <1>1. \A d : {k \in DOMAIN <<>> : <<>>[k] = d} = {}
    OBVIOUS
  <1>2. \A d : Times(<<>>, d) = 0
    BY <1>1, FS_EmptySet, Zenon DEF Times
  <1> QED
    BY <1>2, EmptySeq DEF Range, IsInjective

(* What is in a list, and in what is left of it. *)
LEMMA RangeOfTail ==
  ASSUME NEW S, NEW s \in Seq(S), s # <<>>
  PROVE  Range(s) = {Head(s)} \cup Range(Tail(s))
  <1>1. /\ Tail(s) \in Seq(S) /\ Len(Tail(s)) = Len(s) - 1
        /\ \A i \in 1..Len(Tail(s)) : Tail(s)[i] = s[i + 1]
        /\ Head(s) = s[1] /\ Len(s) \in Nat \ {0}
    BY HeadTailProperties, EmptySeq
  <1>2. Range(s) = {s[i] : i \in 1..Len(s)} /\ Range(Tail(s)) = {Tail(s)[i] : i \in 1..Len(Tail(s))}
    BY <1>1, RangeEquality
  <1>3. \A i \in 1..Len(s) : s[i] = Head(s) \/ s[i] \in Range(Tail(s))
    <2> TAKE i \in 1..Len(s)
    <2>1. CASE i = 1
      BY <1>1, <2>1
    <2>2. CASE i # 1
      <3>1. i - 1 \in 1..Len(Tail(s)) /\ Tail(s)[i - 1] = s[i]
        BY <1>1, <2>2
      <3> QED
        BY <1>2, <3>1
    <2> QED
      BY <2>1, <2>2
  <1>4. Head(s) \in Range(s) /\ \A i \in 1..Len(Tail(s)) : Tail(s)[i] \in Range(s)
    BY <1>1, <1>2
  <1> QED
    BY <1>2, <1>3, <1>4

LEMMA RangeOfAppend ==
  ASSUME NEW S, NEW s \in Seq(S), NEW e \in S
  PROVE  Range(Append(s, e)) = Range(s) \cup {e}
  <1>1. /\ Append(s, e) \in Seq(S) /\ Len(Append(s, e)) = Len(s) + 1 /\ Len(s) \in Nat
        /\ \A i \in 1..Len(s) : Append(s, e)[i] = s[i]
        /\ Append(s, e)[Len(s) + 1] = e
    BY AppendProperties, LenProperties
  <1>2. /\ Range(s) = {s[i] : i \in 1..Len(s)}
        /\ Range(Append(s, e)) = {Append(s, e)[i] : i \in 1..(Len(s) + 1)}
    BY <1>1, RangeEquality
  <1> QED
    BY <1>1, <1>2

LEMMA InjectiveAppend ==
  ASSUME NEW S, NEW s \in Seq(S), NEW e \in S, IsInjective(s), e \notin Range(s)
  PROVE  IsInjective(Append(s, e))
  <1>1. /\ Append(s, e) \in Seq(S) /\ Len(Append(s, e)) = Len(s) + 1 /\ Len(s) \in Nat
        /\ DOMAIN s = 1..Len(s) /\ DOMAIN Append(s, e) = 1..(Len(s) + 1)
        /\ \A i \in 1..Len(s) : Append(s, e)[i] = s[i] /\ s[i] # e
        /\ Append(s, e)[Len(s) + 1] = e
    BY AppendProperties, LenProperties, RangeEquality
  <1> QED
    BY <1>1 DEF IsInjective

LEMMA InjectiveTail ==
  ASSUME NEW S, NEW s \in Seq(S), s # <<>>, IsInjective(s)
  PROVE  IsInjective(Tail(s)) /\ Head(s) \notin Range(Tail(s))
  <1>1. /\ Tail(s) \in Seq(S) /\ Len(Tail(s)) = Len(s) - 1
        /\ \A i \in 1..Len(Tail(s)) : Tail(s)[i] = s[i + 1]
        /\ Head(s) = s[1] /\ Len(s) \in Nat \ {0}
        /\ DOMAIN s = 1..Len(s) /\ DOMAIN Tail(s) = 1..Len(Tail(s))
    BY HeadTailProperties, EmptySeq, LenProperties
  <1>2. \A i \in 1..Len(Tail(s)) : Tail(s)[i] # Head(s)
    BY <1>1 DEF IsInjective
  <1>3. Range(Tail(s)) = {Tail(s)[i] : i \in 1..Len(Tail(s))}
    BY <1>1, RangeEquality
  <1>4. IsInjective(Tail(s))
    BY <1>1 DEF IsInjective
  <1> QED
    BY <1>2, <1>3, <1>4

----------------------------------------------------------------------------
(* The dependency graph.  Each edge is in both lists, as often in one as in  *)
(* the other, and the lists hold what was ever declared.                     *)
GraphTypeOK ==
    /\ nodes \subseteq Module /\ IsFiniteSet(nodes)
    /\ edges \in [Module -> Seq(Module)]
    /\ reverseEdges \in [Module -> Seq(Module)]
    /\ declared \subseteq nodes \X nodes

Mirrored == \A m, d \in Module : Times(edges[m], d) = Times(reverseEdges[d], m)
EdgesDeclared == \A m, d \in Module : <<m, d>> \in declared <=> d \in Range(edges[m])

GraphInv == GraphTypeOK /\ Mirrored /\ EdgesDeclared

LEMMA GraphInvInit == Init => GraphInv
  <1> SUFFICES ASSUME Init PROVE GraphInv
    OBVIOUS
  <1>1. GraphTypeOK
    BY NothingInEmpty, FS_EmptySet DEF Init, GraphInit, GraphTypeOK
  <1>2. Mirrored
    BY NothingInEmpty DEF Init, GraphInit, Mirrored
  <1>3. EdgesDeclared
    BY NothingInEmpty DEF Init, GraphInit, EdgesDeclared
  <1> QED
    BY <1>1, <1>2, <1>3 DEF GraphInv

LEMMA RangeFinite ==
  ASSUME NEW S, NEW s \in Seq(S)
  PROVE  IsFiniteSet(Range(s))
  <1>1. s \in Surjection(1..Len(s), Range(s)) /\ Len(s) \in Nat
    BY LenProperties, RangeEquality DEF Surjection
  <1> QED
    BY <1>1, FS_Surjection, FS_Interval

LEMMA GraphRegisterInv ==
  ASSUME GraphInv, NEW x \in Manifest, GraphRegister(x)
  PROVE  GraphInv'
  <1> DEFINE name == x.name
             deps == x.dependencies
  <1>1. /\ name \in Module /\ deps \in Seq(Module)
        /\ Range(deps) \subseteq Module /\ IsFiniteSet(Range(deps))
    BY ManifestAssumption, RangeOfSeq, RangeFinite
  <1>2. /\ nodes' = nodes \cup {name} \cup Range(deps)
        /\ edges' = [edges EXCEPT ![name] = @ \o deps]
        /\ reverseEdges' = [d \in Module |-> reverseEdges[d] \o Copies(Times(deps, d), name)]
        /\ declared' = declared \cup {<<name, d>> : d \in Range(deps)}
    BY DEF GraphRegister, Copies
  <1> HIDE DEF name, deps
  <1>3. ASSUME NEW m \in Module
        PROVE  /\ edges'[m] = IF m = name THEN edges[m] \o deps ELSE edges[m]
               /\ edges'[m] \in Seq(Module)
    BY <1>1, <1>2, ConcatProperties DEF GraphInv, GraphTypeOK
  <1>4. ASSUME NEW d \in Module
        PROVE  /\ Copies(Times(deps, d), name) \in Seq(Module)
               /\ reverseEdges'[d] = reverseEdges[d] \o Copies(Times(deps, d), name)
               /\ reverseEdges'[d] \in Seq(Module)
    <2>1. Copies(Times(deps, d), name) \in Seq(Module)
      BY <1>1, PlacesFinite, CopiesOfOne
    <2> QED
      BY <1>2, <2>1, ConcatProperties DEF GraphInv, GraphTypeOK
  <1>5. GraphTypeOK'
    <2>1. IsFiniteSet(nodes')
      BY <1>1, <1>2, FS_AddElement, FS_Union DEF GraphInv, GraphTypeOK
    <2>2. edges' \in [Module -> Seq(Module)]
      BY <1>2, <1>3 DEF GraphInv, GraphTypeOK
    <2>3. reverseEdges' \in [Module -> Seq(Module)]
      BY <1>2, <1>4
    <2>4. nodes' \subseteq Module /\ declared' \subseteq nodes' \X nodes'
      BY <1>1, <1>2 DEF GraphInv, GraphTypeOK
    <2> QED
      BY <2>1, <2>2, <2>3, <2>4 DEF GraphTypeOK
  <1>6. ASSUME NEW m \in Module, NEW d \in Module
        PROVE  Times(edges'[m], d) = Times(reverseEdges'[d], m)
    <2>1. Times(reverseEdges'[d], m) =
             Times(reverseEdges[d], m) + Times(Copies(Times(deps, d), name), m)
      <3>1. Times(reverseEdges[d] \o Copies(Times(deps, d), name), m) =
               Times(reverseEdges[d], m) + Times(Copies(Times(deps, d), name), m)
        BY <1>4, TimesOfConcat DEF GraphInv, GraphTypeOK
      <3> QED
        BY <1>4, <3>1
    <2>2. Times(Copies(Times(deps, d), name), m) = IF name = m THEN Times(deps, d) ELSE 0
      <3>1. Times(deps, d) \in Nat
        BY <1>1, PlacesFinite
      <3> QED
        BY <1>1, <3>1, CopiesOfOne
    <2>3. /\ Times(reverseEdges[d], m) \in Nat
          /\ Times(edges[m], d) = Times(reverseEdges[d], m)
      BY PlacesFinite DEF GraphInv, GraphTypeOK, Mirrored
    <2>4. CASE m = name
      <3>1. Times(edges'[m], d) = Times(edges[m], d) + Times(deps, d)
        BY <1>1, <1>3, <2>4, TimesOfConcat DEF GraphInv, GraphTypeOK
      <3> QED
        BY <2>1, <2>2, <2>3, <2>4, <3>1
    <2>5. CASE m # name
      BY <1>3, <2>1, <2>2, <2>3, <2>5
    <2> QED
      BY <2>4, <2>5
  <1>7. ASSUME NEW m \in Module, NEW d \in Module
        PROVE  <<m, d>> \in declared' <=> d \in Range(edges'[m])
    <2>1. <<m, d>> \in declared <=> d \in Range(edges[m])
      BY DEF GraphInv, EdgesDeclared
    <2>2. CASE m = name
      <3>1. Range(edges'[m]) = Range(edges[m]) \cup Range(deps)
        BY <1>1, <1>3, <2>2, RangeConcatenation DEF GraphInv, GraphTypeOK
      <3> QED
        BY <1>2, <2>1, <2>2, <3>1
    <2>3. CASE m # name
      BY <1>2, <1>3, <2>1, <2>3
    <2> QED
      BY <2>2, <2>3
  <1> QED
    BY <1>5, <1>6, <1>7 DEF GraphInv, Mirrored, EdgesDeclared

LEMMA GraphInvNext == GraphInv /\ [Next]_vars => GraphInv'
  <1> SUFFICES ASSUME GraphInv, [Next]_vars PROVE GraphInv'
    OBVIOUS
  <1>1. ASSUME NEW x \in Manifest, RegisterModule(x) PROVE GraphInv'
    BY <1>1, GraphRegisterInv DEF RegisterModule
  <1>2. CASE UNCHANGED graphVars
    BY <1>2 DEF graphVars, GraphInv, GraphTypeOK, Mirrored, EdgesDeclared
  <1> QED
    BY <1>1, <1>2 DEF Next, vars, UseHealth, UseBudgets, UseDryRun, UsePools

(* The modules that depend directly on d, and their number. *)
LEMMA DependentsOfOne ==
  ASSUME GraphInv, NEW d \in Module
  PROVE  /\ reverseEdges[d] \in Seq(Module)
         /\ \A m : m \in Range(reverseEdges[d]) <=> <<m, d>> \in declared
         /\ Range(reverseEdges[d]) \subseteq nodes
  <1>1. reverseEdges[d] \in Seq(Module) /\ Range(reverseEdges[d]) \subseteq Module
    BY RangeOfSeq DEF GraphInv, GraphTypeOK
  <1>2. ASSUME NEW m \in Module PROVE m \in Range(reverseEdges[d]) <=> <<m, d>> \in declared
    <2>1. m \in Range(reverseEdges[d]) <=> Times(reverseEdges[d], m) > 0
      BY <1>1, PlacesFinite
    <2>2. d \in Range(edges[m]) <=> Times(edges[m], d) > 0
      BY PlacesFinite DEF GraphInv, GraphTypeOK
    <2>3. Times(edges[m], d) = Times(reverseEdges[d], m)
      BY DEF GraphInv, Mirrored
    <2>4. <<m, d>> \in declared <=> d \in Range(edges[m])
      BY DEF GraphInv, EdgesDeclared
    <2> QED
      BY <2>1, <2>2, <2>3, <2>4, Zenon
  <1>3. \A m : <<m, d>> \in declared => m \in nodes /\ m \in Module
    BY DEF GraphInv, GraphTypeOK
  <1> QED
    BY <1>1, <1>2, <1>3

----------------------------------------------------------------------------
(* get_dependents().  What was found and what is pending depends on m, and   *)
(* nothing that depends directly on m or on what was found is forgotten.     *)
SearchOK(m, s) ==
    /\ s \in Searching
    /\ IsInjective(s.result)
    /\ Range(s.result) \cup Range(s.pending) \subseteq nodes
    /\ \A d \in Range(s.result) \cup {m} :
          Range(reverseEdges[d]) \subseteq Range(s.result) \cup Range(s.pending)
    /\ \A S \in SUBSET nodes :
          TakesIn(S, m) => Range(s.result) \cup Range(s.pending) \subseteq S

(* How many nodes a list lacks. *)
Lacking(s) == Cardinality(nodes \ Range(s))

LEMMA OneLackingLess ==
  ASSUME GraphInv, NEW s \in Seq(Module), NEW n \in nodes, n \notin Range(s)
  PROVE  /\ Lacking(Append(s, n)) < Lacking(s)
         /\ Lacking(s) \in Nat
  <1>1. n \in Module /\ IsFiniteSet(nodes \ Range(s))
    BY FS_Difference DEF GraphInv, GraphTypeOK
  <1>2. nodes \ Range(Append(s, n)) = (nodes \ Range(s)) \ {n}
    BY <1>1, RangeOfAppend
  <1>3. Cardinality((nodes \ Range(s)) \ {n}) = Cardinality(nodes \ Range(s)) - 1
    BY <1>1, FS_RemoveElement
  <1>4. Cardinality(nodes \ Range(s)) \in Nat
    BY <1>1, FS_CardinalityType
  <1>5. /\ Lacking(s) = Cardinality(nodes \ Range(s))
        /\ Lacking(Append(s, n)) = Cardinality((nodes \ Range(s)) \ {n})
    BY <1>2, Zenon DEF Lacking
  <1> QED
    BY <1>3, <1>4, <1>5

LEMMA LackingType ==
  ASSUME GraphInv
  PROVE  \A s : Lacking(s) \in Nat
  BY FS_Difference, FS_CardinalityType DEF Lacking, GraphInv, GraphTypeOK

LEMMA VisitType ==
  ASSUME GraphInv, NEW s \in Searching, s.pending # <<>>
  PROVE  Visit(s) \in Searching
  <1>1. s.result \in Seq(Module) /\ s.pending \in Seq(Module)
    BY DEF Searching
  <1>2. PICK d \in Module, rest \in Seq(Module) : d = Head(s.pending) /\ rest = Tail(s.pending)
    BY <1>1, HeadTailProperties
  <1>3. Append(s.result, d) \in Seq(Module) /\ reverseEdges[d] \o rest \in Seq(Module)
    BY <1>1, AppendProperties, DependentsOfOne, ConcatProperties
  <1>4. CASE d \in Range(s.result)
    <2>1. Visit(s) = [s EXCEPT !.pending = rest]
      BY <1>2, <1>4 DEF Visit
    <2> QED
      BY <2>1 DEF Searching
  <1>5. CASE d \notin Range(s.result)
    <2>1. Visit(s) = [result |-> Append(s.result, d), pending |-> reverseEdges[d] \o rest]
      BY <1>2, <1>5 DEF Visit
    <2> QED
      BY <1>3, <2>1 DEF Searching
  <1> QED
    BY <1>4, <1>5

LEMMA VisitOK ==
  ASSUME GraphInv, NEW m \in nodes, NEW s, SearchOK(m, s), s.pending # <<>>
  PROVE  /\ SearchOK(m, Visit(s))
         /\ \/ Lacking(Visit(s).result) < Lacking(s.result)
            \/ /\ Lacking(Visit(s).result) = Lacking(s.result)
               /\ Len(Visit(s).pending) < Len(s.pending)
  <1>1. s \in Searching /\ s.result \in Seq(Module) /\ s.pending \in Seq(Module)
    BY DEF SearchOK, Searching
  <1>2. PICK d \in Module, rest \in Seq(Module) :
          /\ d = Head(s.pending) /\ rest = Tail(s.pending)
          /\ Len(rest) = Len(s.pending) - 1 /\ Len(s.pending) \in Nat /\ Len(rest) \in Nat
          /\ Range(s.pending) = {d} \cup Range(rest)
    <2>1. PICK p \in Seq(Module) : p = s.pending /\ p # <<>>
      BY <1>1
    <2>2. Head(p) \in Module /\ Tail(p) \in Seq(Module) /\ Len(Tail(p)) = Len(p) - 1
      BY <2>1, HeadTailProperties
    <2>3. Len(p) \in Nat /\ Len(Tail(p)) \in Nat
      BY <2>2, LenProperties
    <2>4. Range(p) = {Head(p)} \cup Range(Tail(p))
      BY <2>1, RangeOfTail
    <2> QED
      BY <2>1, <2>2, <2>3, <2>4
  <1>3. Visit(s) \in Searching
    BY <1>1, VisitType
  <1>4. CASE d \in Range(s.result)
    <2>1. Visit(s) = [s EXCEPT !.pending = rest]
      BY <1>2, <1>4 DEF Visit
    <2>2. Visit(s).result = s.result /\ Visit(s).pending = rest
      BY <1>1, <2>1 DEF Searching
    <2>3. Range(s.result) \cup Range(rest) = Range(s.result) \cup Range(s.pending)
      BY <1>2, <1>4
    <2> QED
      BY <1>2, <1>3, <2>2, <2>3 DEF SearchOK
  <1>5. CASE d \notin Range(s.result)
    <2>1. Visit(s) = [result |-> Append(s.result, d), pending |-> reverseEdges[d] \o rest]
      BY <1>2, <1>5 DEF Visit
    <2>2. Visit(s).result = Append(s.result, d) /\ Visit(s).pending = reverseEdges[d] \o rest
      BY <2>1
    <2>3. /\ Range(Visit(s).result) = Range(s.result) \cup {d}
          /\ Range(Visit(s).pending) = Range(reverseEdges[d]) \cup Range(rest)
      <3>1. Range(Append(s.result, d)) = Range(s.result) \cup {d}
        BY <1>1, RangeOfAppend
      <3>2. Range(reverseEdges[d] \o rest) = Range(reverseEdges[d]) \cup Range(rest)
        BY DependentsOfOne, RangeConcatenation
      <3> QED
        BY <2>2, <3>1, <3>2
    <2>4. IsInjective(Visit(s).result)
      BY <1>1, <1>5, <2>2, InjectiveAppend DEF SearchOK
    <2>5. Range(Visit(s).result) \cup Range(Visit(s).pending) \subseteq nodes
      BY <1>2, <2>3, DependentsOfOne DEF SearchOK
    <2>6. ASSUME NEW e \in Range(Visit(s).result) \cup {m}
          PROVE  Range(reverseEdges[e]) \subseteq
                    Range(Visit(s).result) \cup Range(Visit(s).pending)
      <3>1. CASE e = d
        BY <2>3, <3>1
      <3>2. CASE e # d
        BY <1>2, <2>3, <3>2 DEF SearchOK
      <3> QED
        BY <3>1, <3>2
    <2>7. ASSUME NEW S \in SUBSET nodes, TakesIn(S, m)
          PROVE  Range(Visit(s).result) \cup Range(Visit(s).pending) \subseteq S
      <3>1. Range(s.result) \cup Range(s.pending) \subseteq S /\ d \in S
        BY <1>2, <2>7 DEF SearchOK
      <3>2. ASSUME NEW e \in Range(reverseEdges[d]) PROVE e \in S
        <4>1. <<e, d>> \in declared
          BY DependentsOfOne
        <4> QED
          BY <2>7, <3>1, <4>1 DEF TakesIn
      <3> QED
        BY <1>2, <2>3, <3>1, <3>2
    <2>8. Lacking(Visit(s).result) < Lacking(s.result)
      BY <1>1, <1>2, <1>5, <2>2, OneLackingLess DEF SearchOK
    <2> QED
      BY <1>3, <2>4, <2>5, <2>6, <2>7, <2>8 DEF SearchOK
  <1> QED
    BY <1>4, <1>5

SearchLoop ==
    CHOOSE f : f = [t \in Searching |-> IF t.pending # <<>> THEN f[Visit(t)] ELSE t.result]

LEMMA SearchLoopSolves ==
  ASSUME GraphInv
  PROVE  SearchLoop = [t \in Searching |->
                         IF t.pending # <<>> THEN SearchLoop[Visit(t)] ELSE t.result]
  <1> DEFINE ended == {t \in Searching : t.pending = <<>>}
             move == [t \in Searching |-> IF t.pending # <<>> THEN Visit(t) ELSE t]
             found == [t \in Searching |-> t.result]
  <1>1. move \in [Searching -> Searching]
    BY VisitType
  <1>2. PICK f : Loops(f, Searching, ended, move, found)
    <2> HIDE DEF ended, move, found
    <2> QED
      BY <1>1, LoopExists
  <1>3. f = [t \in Searching |-> IF t.pending # <<>> THEN f[Visit(t)] ELSE t.result]
    <2>1. \A t \in Searching : (IF t \in ended THEN found[t] ELSE f[move[t]]) =
                               (IF t.pending # <<>> THEN f[Visit(t)] ELSE t.result)
      OBVIOUS
    <2> HIDE DEF ended, move, found
    <2> QED
      BY <1>2, <2>1 DEF Loops
  <1> QED
    BY <1>3, Zenon DEF SearchLoop

LEMMA DependentsByLoop ==
  ASSUME NEW m
  PROVE  Dependents(m) = SearchLoop[[result |-> <<>>, pending |-> reverseEdges[m]]]
  BY DEF Dependents, Found, SearchLoop

LEMMA SearchEnds ==
  ASSUME GraphInv, NEW m \in nodes
  PROVE  \E u : SearchOK(m, u) /\ u.pending = <<>> /\ Dependents(m) = u.result
  <1> DEFINE start == [result |-> <<>>, pending |-> reverseEdges[m]]
             ended == {t \in Searching : t.pending = <<>>}
             move == [t \in Searching |-> IF t.pending # <<>> THEN Visit(t) ELSE t]
             found == [t \in Searching |-> t.result]
             I == {t \in Searching : SearchOK(m, t)}
             M == [t \in I |-> Lacking(t.result)]
             N == [t \in I |-> Len(t.pending)]
  <1>1. start \in I
    <2>1. m \in Module
      BY DEF GraphInv, GraphTypeOK
    <2>2. /\ reverseEdges[m] \in Seq(Module) /\ Range(reverseEdges[m]) \subseteq nodes
          /\ \A e : e \in Range(reverseEdges[m]) <=> <<e, m>> \in declared
      BY <2>1, DependentsOfOne
    <2>3. \A S \in SUBSET nodes : TakesIn(S, m) => Range(reverseEdges[m]) \subseteq S
      <3> SUFFICES ASSUME NEW S \in SUBSET nodes, TakesIn(S, m), NEW e \in Range(reverseEdges[m])
                   PROVE  e \in S
        OBVIOUS
      <3>1. <<e, m>> \in declared
        BY <2>2
      <3> QED
        BY <3>1 DEF TakesIn
    <2> QED
      BY <2>2, <2>3, NothingInEmpty DEF SearchOK, Searching
  <1>2. Descends(I, ended, move, M, N)
    <2> SUFFICES ASSUME NEW t \in I \ ended
                 PROVE  /\ move[t] \in I
                        /\ \/ M[move[t]] < M[t]
                           \/ M[move[t]] = M[t] /\ N[move[t]] < N[t]
      BY LackingType, LenProperties DEF Descends, Searching
    <2>1. t \in Searching /\ SearchOK(m, t) /\ t.pending # <<>>
      OBVIOUS
    <2>2. Visit(t) \in I
      BY <2>1, VisitType, VisitOK
    <2> QED
      BY <2>1, <2>2, VisitOK
  <1>3. Loops(SearchLoop, Searching, ended, move, found)
    <2>1. \A t \in Searching : (IF t \in ended THEN found[t] ELSE SearchLoop[move[t]]) =
                               (IF t.pending # <<>> THEN SearchLoop[Visit(t)] ELSE t.result)
      OBVIOUS
    <2> HIDE DEF ended, move, found
    <2> QED
      BY <2>1, SearchLoopSolves DEF Loops
  <1>4. I \in SUBSET Searching
    OBVIOUS
  <1>5. \E u \in I \cap ended : SearchLoop[start] = found[u]
    <2> HIDE DEF start, ended, move, found, I, M, N
    <2> QED
      BY <1>1, <1>2, <1>3, <1>4, LoopReturns
  <1> QED
    BY <1>5, DependentsByLoop

LEMMA GraphInvDependents == GraphInv => DependentsExact
  <1> SUFFICES ASSUME GraphInv, NEW m \in nodes
               PROVE  /\ TakesIn(Range(Dependents(m)), m)
                      /\ \A S \in SUBSET nodes :
                            TakesIn(S, m) => Range(Dependents(m)) \subseteq S
                      /\ IsInjective(Dependents(m))
    BY DEF DependentsExact
  <1>1. PICK u : SearchOK(m, u) /\ u.pending = <<>> /\ Dependents(m) = u.result
    BY SearchEnds
  <1>2. Range(u.pending) = {}
    BY <1>1 DEF Range
  <1>3. TakesIn(Range(u.result), m)
    <2> SUFFICES ASSUME NEW e \in declared, e[2] \in Range(u.result) \cup {m}
                 PROVE  e[1] \in Range(u.result)
      BY DEF TakesIn
    <2>1. e = <<e[1], e[2]>> /\ e[2] \in Module
      BY DEF GraphInv, GraphTypeOK
    <2>2. e[1] \in Range(reverseEdges[e[2]])
      BY <2>1, DependentsOfOne
    <2> QED
      BY <1>1, <1>2, <2>2 DEF SearchOK
  <1> QED
    BY <1>1, <1>2, <1>3 DEF SearchOK

----------------------------------------------------------------------------
(* get_startup_order().  The degree of a node counts its edges to nodes that *)
(* are not placed, and those to the last one placed that are pending.  What  *)
(* has none is placed or queued, and is placed after all that it depends on. *)
Waits(n, placed) == {k \in DOMAIN edges[n] : edges[n][k] \notin placed}

AfterAll(order) ==
    \A e \in declared : \A i \in 1..Len(order) :
        order[i] = e[1] => \E j \in 1..(i - 1) : order[j] = e[2]

SortOK(s) ==
    /\ s \in Sorting
    /\ IsInjective(s.order) /\ IsInjective(s.queue)
    /\ Range(s.order) \cap Range(s.queue) = {}
    /\ Range(s.order) \cup Range(s.queue) = {n \in nodes : s.degree[n] = 0}
    /\ Range(s.pending) \subseteq nodes
    /\ \A n \in nodes :
          s.degree[n] = Cardinality(Waits(n, Range(s.order))) + Times(s.pending, n)
    /\ AfterAll(s.order)

LEMMA WaitsType ==
  ASSUME GraphInv, NEW n \in nodes
  PROVE  /\ edges[n] \in Seq(Module) /\ DOMAIN edges[n] = 1..Len(edges[n])
         /\ Len(edges[n]) \in Nat
         /\ \A p : IsFiniteSet(Waits(n, p)) /\ Cardinality(Waits(n, p)) \in Nat
  <1>1. edges[n] \in Seq(Module)
    BY DEF GraphInv, GraphTypeOK
  <1>2. DOMAIN edges[n] = 1..Len(edges[n]) /\ Len(edges[n]) \in Nat
    BY <1>1, LenProperties
  <1>3. IsFiniteSet(DOMAIN edges[n])
    BY <1>2, FS_Interval
  <1>4. \A p : Waits(n, p) \in SUBSET (DOMAIN edges[n])
    BY DEF Waits
  <1>5. \A p : IsFiniteSet(Waits(n, p)) /\ Cardinality(Waits(n, p)) \in Nat
    BY <1>3, <1>4, FS_Subset, FS_CardinalityType
  <1> QED
    BY <1>1, <1>2, <1>5

LEMMA WaitsForOneLess ==
  ASSUME GraphInv, NEW n \in nodes, NEW c \in nodes, NEW p, c \notin p
  PROVE  Cardinality(Waits(n, p)) =
            Cardinality(Waits(n, p \cup {c})) + Times(reverseEdges[c], n)
  <1>1. n \in Module /\ c \in Module /\ edges[n] \in Seq(Module)
    BY WaitsType DEF GraphInv, GraphTypeOK
  <1> DEFINE A == Waits(n, p \cup {c})
             B == Places(edges[n], c)
  <1>2. Waits(n, p) = A \cup B /\ A \cap B = {}
    BY DEF Waits, Places
  <1>3. /\ IsFiniteSet(A) /\ Cardinality(A) \in Nat
        /\ IsFiniteSet(B) /\ Times(edges[n], c) = Cardinality(B) /\ Cardinality(B) \in Nat
    BY <1>1, WaitsType, PlacesFinite
  <1>4. Times(edges[n], c) = Times(reverseEdges[c], n)
    BY <1>1 DEF GraphInv, Mirrored
  <1> HIDE DEF A, B
  <1>5. Cardinality(A \cup B) = Cardinality(A) + Cardinality(B) - Cardinality(A \cap B)
    BY <1>3, FS_Union
  <1>6. Cardinality(A \cap B) = 0
    BY <1>2, FS_EmptySet, Zenon
  <1>7. Cardinality(Waits(n, p)) = Cardinality(A) + Cardinality(B)
    BY <1>2, <1>3, <1>5, <1>6
  <1> QED
    BY <1>3, <1>4, <1>7 DEF A

LEMMA NothingToWaitFor ==
  ASSUME GraphInv, NEW n \in nodes, NEW p
  PROVE  Cardinality(Waits(n, p)) = 0 <=> \A d : <<n, d>> \in declared => d \in p
  <1>1. Cardinality(Waits(n, p)) = 0 <=> Waits(n, p) = {}
    BY WaitsType, FS_EmptySet
  <1>2. \A d : <<n, d>> \in declared <=> d \in Range(edges[n])
    <2>1. n \in Module /\ \A d : <<n, d>> \in declared => d \in Module
      BY DEF GraphInv, GraphTypeOK
    <2>2. Range(edges[n]) \subseteq Module
      BY WaitsType, RangeOfSeq
    <2> QED
      BY <2>1, <2>2 DEF GraphInv, EdgesDeclared
  <1>3. Waits(n, p) = {} <=> \A d \in Range(edges[n]) : d \in p
    BY DEF Waits, Range
  <1> QED
    BY <1>1, <1>2, <1>3

LEMMA SortTypes ==
  ASSUME NEW s \in Sorting
  PROVE  /\ s.degree \in [nodes -> Int] /\ s.queue \in Seq(Module)
         /\ s.pending \in Seq(Module) /\ s.order \in Seq(Module)
  BY DEF Sorting

LEMMA UnblockType ==
  ASSUME NEW s \in Sorting, s.pending # <<>>
  PROVE  Unblock(s) \in Sorting
  <1>1. Head(s.pending) \in Module /\ Tail(s.pending) \in Seq(Module)
    BY SortTypes, HeadTailProperties
  <1>2. Append(s.queue, Head(s.pending)) \in Seq(Module)
    BY <1>1, SortTypes, AppendProperties
  <1>3. [s.degree EXCEPT ![Head(s.pending)] = @ - 1] \in [nodes -> Int]
    <2>1. PICK deg \in [nodes -> Int] : deg = s.degree
      BY SortTypes
    <2>2. \A n \in nodes : deg[n] - 1 \in Int
      BY <2>1
    <2>3. \A n : [deg EXCEPT ![n] = @ - 1] \in [nodes -> Int]
      BY <2>2
    <2> QED
      BY <2>1, <2>3
  <1> QED
    BY <1>1, <1>2, <1>3, SortTypes DEF Unblock, Sorting

LEMMA PlaceNextType ==
  ASSUME GraphInv, NEW s \in Sorting, s.queue # <<>>
  PROVE  PlaceNext(s) \in Sorting
  <1>1. Head(s.queue) \in Module /\ Tail(s.queue) \in Seq(Module)
    BY SortTypes, HeadTailProperties
  <1>2. /\ Append(s.order, Head(s.queue)) \in Seq(Module)
        /\ reverseEdges[Head(s.queue)] \in Seq(Module)
    BY <1>1, SortTypes, AppendProperties, DependentsOfOne
  <1> QED
    BY <1>1, <1>2, SortTypes DEF PlaceNext, Sorting

LEMMA UnblockOK ==
  ASSUME GraphInv, NEW s, SortOK(s), s.pending # <<>>
  PROVE  /\ SortOK(Unblock(s))
         /\ Unblock(s).order = s.order
         /\ Len(Unblock(s).pending) < Len(s.pending)
  <1>1. /\ s \in Sorting /\ s.degree \in [nodes -> Int] /\ s.queue \in Seq(Module)
        /\ s.pending \in Seq(Module) /\ s.order \in Seq(Module)
    BY SortTypes DEF SortOK
  <1>2. PICK n \in nodes, rest \in Seq(Module) :
          /\ n = Head(s.pending) /\ rest = Tail(s.pending)
          /\ Len(rest) < Len(s.pending)
          /\ Range(rest) \subseteq nodes
          /\ \A x : Times(s.pending, x) = Times(rest, x) + (IF n = x THEN 1 ELSE 0)
    <2>1. PICK p \in Seq(Module) : p = s.pending /\ p # <<>>
      BY <1>1
    <2>2. Head(p) \in Module /\ Tail(p) \in Seq(Module) /\ Len(Tail(p)) = Len(p) - 1
      BY <2>1, HeadTailProperties
    <2>3. Len(p) \in Nat /\ Len(Tail(p)) \in Nat
      BY <2>2, LenProperties
    <2>4. Range(p) = {Head(p)} \cup Range(Tail(p))
      BY <2>1, RangeOfTail
    <2>5. \A x : Times(p, x) = Times(Tail(p), x) + (IF Head(p) = x THEN 1 ELSE 0)
      BY <2>1, TimesOfTail
    <2>6. Head(p) \in nodes /\ Range(Tail(p)) \subseteq nodes
      <3>1. Range(p) \subseteq nodes
        BY <2>1 DEF SortOK
      <3> QED
        BY <2>4, <3>1
    <2>7. Len(Tail(p)) < Len(p)
      BY <2>2, <2>3
    <2>8. PICK n \in nodes, rest \in Seq(Module) : n = Head(p) /\ rest = Tail(p)
      BY <2>2, <2>6
    <2>9. \A x : Times(p, x) = Times(rest, x) + (IF n = x THEN 1 ELSE 0)
      BY <2>5, <2>8
    <2>10. n = Head(p) /\ rest = Tail(p) /\ Len(rest) < Len(p) /\ Range(rest) \subseteq nodes
      BY <2>6, <2>7, <2>8
    <2> QED
      BY <2>1, <2>9, <2>10, Zenon
  <1> DEFINE t == Unblock(s)
  <1>3. /\ t.degree = [s.degree EXCEPT ![n] = @ - 1]
        /\ t.queue = IF s.degree[n] = 1 THEN Append(s.queue, n) ELSE s.queue
        /\ t.pending = rest /\ t.order = s.order
    BY <1>2 DEF Unblock
  <1>4. t \in Sorting
    BY <1>1, UnblockType
  <1> HIDE DEF t
  <1>5. \A x \in nodes : /\ Cardinality(Waits(x, Range(s.order))) \in Nat
                         /\ Times(rest, x) \in Nat
    BY WaitsType, PlacesFinite
  <1>6. s.degree[n] \in Int /\ s.degree[n] >= 1
    BY <1>1, <1>2, <1>5 DEF SortOK
  <1>7. n \notin Range(s.order) \cup Range(s.queue)
    BY <1>6 DEF SortOK
  <1>8. ASSUME NEW x \in nodes
        PROVE  t.degree[x] = Cardinality(Waits(x, Range(t.order))) + Times(t.pending, x)
    <2>1. s.degree[x] = Cardinality(Waits(x, Range(s.order))) + Times(s.pending, x)
      BY DEF SortOK
    <2>2. Times(s.pending, x) = Times(rest, x) + (IF n = x THEN 1 ELSE 0)
      BY <1>2
    <2>3. t.degree[x] = IF n = x THEN s.degree[x] - 1 ELSE s.degree[x]
      BY <1>1, <1>3
    <2>4. t.order = s.order /\ t.pending = rest
      BY <1>3
    <2>5. Cardinality(Waits(x, Range(s.order))) \in Nat /\ Times(rest, x) \in Nat
      BY <1>5
    <2>6. t.degree[x] = Cardinality(Waits(x, Range(s.order))) + Times(rest, x)
      BY <2>1, <2>2, <2>3, <2>5
    <2> QED
      BY <2>4, <2>6
  <1>9. /\ IsInjective(t.queue)
        /\ Range(t.queue) = IF s.degree[n] = 1 THEN Range(s.queue) \cup {n} ELSE Range(s.queue)
    <2>1. n \in Module
      BY DEF GraphInv, GraphTypeOK
    <2>2. IsInjective(Append(s.queue, n)) /\ Range(Append(s.queue, n)) = Range(s.queue) \cup {n}
      BY <1>1, <1>7, <2>1, InjectiveAppend, RangeOfAppend DEF SortOK
    <2> QED
      BY <1>3, <2>2 DEF SortOK
  <1>10. Range(t.order) \cup Range(t.queue) = {x \in nodes : t.degree[x] = 0}
    <2>1. \A x \in nodes : t.degree[x] = IF x = n THEN s.degree[n] - 1 ELSE s.degree[x]
      BY <1>1, <1>3
    <2>2. Range(s.order) \cup Range(s.queue) = {x \in nodes : s.degree[x] = 0}
      BY DEF SortOK
    <2> QED
      BY <1>3, <1>6, <1>9, <2>1, <2>2
  <1>11. Range(t.order) \cap Range(t.queue) = {}
    BY <1>3, <1>7, <1>9 DEF SortOK
  <1>12. IsInjective(t.order) /\ Range(t.pending) \subseteq nodes /\ AfterAll(t.order)
    BY <1>2, <1>3 DEF SortOK
  <1>13. SortOK(t)
    BY <1>4, <1>8, <1>9, <1>10, <1>11, <1>12 DEF SortOK
  <1> QED
    BY <1>2, <1>3, <1>13 DEF t

LEMMA PlaceNextOK ==
  ASSUME GraphInv, NEW s, SortOK(s), s.pending = <<>>, s.queue # <<>>
  PROVE  /\ SortOK(PlaceNext(s))
         /\ Lacking(PlaceNext(s).order) < Lacking(s.order)
  <1>1. /\ s \in Sorting /\ s.degree \in [nodes -> Int] /\ s.queue \in Seq(Module)
        /\ s.pending \in Seq(Module) /\ s.order \in Seq(Module)
    BY SortTypes DEF SortOK
  <1>2. PICK n \in nodes, rest \in Seq(Module) :
          /\ n = Head(s.queue) /\ rest = Tail(s.queue)
          /\ IsInjective(rest) /\ n \notin Range(rest)
          /\ Range(s.queue) = {n} \cup Range(rest)
    <2>1. PICK q \in Seq(Module) : q = s.queue /\ q # <<>>
      BY <1>1
    <2>2. Head(q) \in Module /\ Tail(q) \in Seq(Module)
      BY <2>1, HeadTailProperties
    <2>3. Range(q) = {Head(q)} \cup Range(Tail(q))
      BY <2>1, RangeOfTail
    <2>4. IsInjective(Tail(q)) /\ Head(q) \notin Range(Tail(q))
      BY <2>1, InjectiveTail DEF SortOK
    <2>5. Range(q) \subseteq nodes
      BY <2>1 DEF SortOK
    <2> QED
      BY <2>1, <2>2, <2>3, <2>4, <2>5
  <1>3. n \in Module
    BY DEF GraphInv, GraphTypeOK
  <1> DEFINE t == PlaceNext(s)
  <1>4. /\ t.degree = s.degree /\ t.queue = rest
        /\ t.pending = reverseEdges[n] /\ t.order = Append(s.order, n)
    BY <1>2 DEF PlaceNext
  <1>5. t \in Sorting
    BY <1>1, PlaceNextType
  <1> HIDE DEF t
  <1>6. n \notin Range(s.order) /\ s.degree[n] = 0
    BY <1>2 DEF SortOK
  <1>7. IsInjective(t.order) /\ Range(t.order) = Range(s.order) \cup {n}
    BY <1>1, <1>3, <1>4, <1>6, InjectiveAppend, RangeOfAppend DEF SortOK
  <1>8. ASSUME NEW x \in nodes
        PROVE  t.degree[x] = Cardinality(Waits(x, Range(t.order))) + Times(t.pending, x)
    <2>1. s.degree[x] = Cardinality(Waits(x, Range(s.order))) + Times(s.pending, x)
      BY DEF SortOK
    <2>2. Times(s.pending, x) = 0
      BY NothingInEmpty
    <2>3. Cardinality(Waits(x, Range(s.order))) =
             Cardinality(Waits(x, Range(s.order) \cup {n})) + Times(reverseEdges[n], x)
      BY <1>6, WaitsForOneLess
    <2>4. Cardinality(Waits(x, Range(s.order))) \in Nat
      BY WaitsType
    <2> QED
      BY <1>4, <1>7, <2>1, <2>2, <2>3, <2>4
  <1>9. AfterAll(t.order)
    <2> SUFFICES ASSUME NEW e \in declared, NEW i \in 1..Len(t.order), t.order[i] = e[1]
                 PROVE  \E j \in 1..(i - 1) : t.order[j] = e[2]
      BY DEF AfterAll
    <2>1. /\ Len(t.order) = Len(s.order) + 1 /\ Len(s.order) \in Nat
          /\ \A j \in 1..Len(s.order) : t.order[j] = s.order[j]
          /\ t.order[Len(s.order) + 1] = n
      BY <1>1, <1>3, <1>4, AppendProperties, LenProperties
    <2>2. CASE i \in 1..Len(s.order)
      <3>1. PICK j \in 1..(i - 1) : s.order[j] = e[2]
        <4>1. s.order[i] = e[1] /\ AfterAll(s.order)
          BY <2>1, <2>2 DEF SortOK
        <4> QED
          BY <2>2, <4>1 DEF AfterAll
      <3>2. j \in 1..Len(s.order)
        BY <2>1, <2>2
      <3>3. t.order[j] = e[2]
        BY <2>1, <3>1, <3>2
      <3> QED
        BY <3>3
    <2>3. CASE i = Len(s.order) + 1
      <3>1. e = <<n, e[2]>>
        BY <2>1, <2>3 DEF GraphInv, GraphTypeOK
      <3>2. Cardinality(Waits(n, Range(s.order))) = 0
        <4>1. s.degree[n] = Cardinality(Waits(n, Range(s.order))) + Times(s.pending, n)
          BY DEF SortOK
        <4> QED
          BY <1>6, <4>1, WaitsType, NothingInEmpty
      <3>3. e[2] \in Range(s.order)
        BY <3>1, <3>2, NothingToWaitFor
      <3>4. PICK j \in 1..Len(s.order) : s.order[j] = e[2]
        BY <1>1, <3>3, RangeEquality
      <3> QED
        BY <2>1, <2>3, <3>4
    <2> QED
      BY <2>1, <2>2, <2>3
  <1>10. Range(t.pending) \subseteq nodes
    BY <1>3, <1>4, DependentsOfOne
  <1>11. /\ Range(t.order) \cap Range(t.queue) = {}
         /\ Range(t.order) \cup Range(t.queue) = {x \in nodes : t.degree[x] = 0}
         /\ IsInjective(t.queue)
    BY <1>2, <1>4, <1>6, <1>7 DEF SortOK
  <1>12. SortOK(t)
    BY <1>5, <1>7, <1>8, <1>9, <1>10, <1>11 DEF SortOK
  <1>13. Lacking(t.order) < Lacking(s.order)
    BY <1>1, <1>4, <1>6, OneLackingLess
  <1> QED
    BY <1>12, <1>13 DEF t

SortLoop ==
    CHOOSE f : f = [t \in Sorting |-> IF t.pending # <<>> THEN f[Unblock(t)]
                                      ELSE IF t.queue # <<>> THEN f[PlaceNext(t)]
                                      ELSE t.order]

LEMMA SortLoopSolves ==
  ASSUME GraphInv
  PROVE  SortLoop = [t \in Sorting |-> IF t.pending # <<>> THEN SortLoop[Unblock(t)]
                                       ELSE IF t.queue # <<>> THEN SortLoop[PlaceNext(t)]
                                       ELSE t.order]
  <1> DEFINE ended == {t \in Sorting : t.pending = <<>> /\ t.queue = <<>>}
             move == [t \in Sorting |-> IF t.pending # <<>> THEN Unblock(t)
                                        ELSE IF t.queue # <<>> THEN PlaceNext(t) ELSE t]
             sorted == [t \in Sorting |-> t.order]
  <1>1. move \in [Sorting -> Sorting]
    BY UnblockType, PlaceNextType
  <1>2. PICK f : Loops(f, Sorting, ended, move, sorted)
    <2> HIDE DEF ended, move, sorted
    <2> QED
      BY <1>1, LoopExists
  <1>3. f = [t \in Sorting |-> IF t.pending # <<>> THEN f[Unblock(t)]
                               ELSE IF t.queue # <<>> THEN f[PlaceNext(t)]
                               ELSE t.order]
    <2>1. \A t \in Sorting : (IF t \in ended THEN sorted[t] ELSE f[move[t]]) =
             (IF t.pending # <<>> THEN f[Unblock(t)]
              ELSE IF t.queue # <<>> THEN f[PlaceNext(t)] ELSE t.order)
      OBVIOUS
    <2> HIDE DEF ended, move, sorted
    <2> QED
      BY <1>2, <2>1 DEF Loops
  <1> QED
    BY <1>3, Zenon DEF SortLoop

(* The nodes that wait for nothing, in any order, are where the sort begins. *)
SortStart(q) == [degree |-> InDegree, queue |-> q, pending |-> <<>>, order |-> <<>>]

LEMMA SortByLoop ==
  ASSUME NEW order \in StartupOrders
  PROVE  \E q \in SetToSeqs({n \in nodes : InDegree[n] = 0}) : order = SortLoop[SortStart(q)]
  BY DEF StartupOrders, Sorted, SortLoop, SortStart

LEMMA SortStartOK ==
  ASSUME GraphInv, NEW q \in SetToSeqs({n \in nodes : InDegree[n] = 0})
  PROVE  SortOK(SortStart(q))
  <1> DEFINE free == {n \in nodes : InDegree[n] = 0}
  <1>1. free \subseteq nodes /\ nodes \subseteq Module /\ IsFiniteSet(free) /\ Cardinality(free) \in Nat
    <2>1. free \in SUBSET nodes /\ nodes \subseteq Module /\ IsFiniteSet(nodes)
      BY DEF GraphInv, GraphTypeOK
    <2> HIDE DEF free
    <2> QED
      BY <2>1, FS_Subset, FS_CardinalityType
  <1>2. q \in Seq(Module) /\ IsInjective(q) /\ Range(q) = free
    <2>1. PICK c \in Nat : c = Cardinality(free)
      BY <1>1
    <2>2. q \in [1..c -> free] /\ \A i, j \in 1..c : q[i] = q[j] => i = j
      BY <2>1 DEF SetToSeqs
    <2> HIDE DEF free
    <2>3. q \in Injection(1..c, free)
      BY <2>2 DEF Injection, IsInjective
    <2>4. Cardinality(1..c) = c
      BY FS_Interval
    <2>5. q \in Surjection(1..c, free)
      BY <1>1, <2>1, <2>3, <2>4, FS_Injection
    <2>6. q \in [1..c -> Module]
      BY <1>1, <2>2
    <2>7. q \in Seq(Module)
      BY <2>6, SeqDef
    <2> QED
      BY <2>2, <2>5, <2>7 DEF Surjection, IsInjective, Range
  <1> HIDE DEF free
  <1> PICK s : s = SortStart(q)
    OBVIOUS
  <1>3. /\ s.degree = InDegree /\ s.queue = q /\ s.pending = <<>> /\ s.order = <<>>
        /\ s = [degree |-> InDegree, queue |-> q, pending |-> <<>>, order |-> <<>>]
    BY DEF SortStart
  <1>4. ASSUME NEW n \in nodes
        PROVE  InDegree[n] = Cardinality(Waits(n, {})) /\ InDegree[n] \in Nat
    <2>1. Waits(n, {}) = 1..Len(edges[n]) /\ Len(edges[n]) \in Nat
      BY WaitsType DEF Waits
    <2>2. Cardinality(1..Len(edges[n])) = Len(edges[n])
      BY <2>1, FS_Interval
    <2>3. InDegree[n] = Len(edges[n])
      BY DEF InDegree
    <2> QED
      BY <2>1, <2>2, <2>3
  <1>5. InDegree \in [nodes -> Int]
    <2>1. InDegree = [n \in nodes |-> InDegree[n]]
      BY DEF InDegree
    <2> QED
      BY <1>4, <2>1
  <1>6. s \in Sorting
    BY <1>2, <1>3, <1>5, NothingInEmpty DEF Sorting
  <1>7. \A n \in nodes :
           s.degree[n] = Cardinality(Waits(n, Range(s.order))) + Times(s.pending, n)
    <2> TAKE n \in nodes
    <2>1. Range(s.order) = {} /\ Times(s.pending, n) = 0
      BY <1>3, NothingInEmpty
    <2>2. Cardinality(Waits(n, Range(s.order))) = InDegree[n] /\ InDegree[n] \in Nat
      BY <1>4, <2>1
    <2> QED
      BY <1>3, <2>1, <2>2
  <1>8. AfterAll(s.order)
    BY <1>3, EmptySeq DEF AfterAll
  <1>9. Range(s.order) = {} /\ Range(s.pending) = {} /\ IsInjective(s.order)
    BY <1>3, NothingInEmpty
  <1>10. Range(s.queue) = {n \in nodes : s.degree[n] = 0} /\ IsInjective(s.queue)
    BY <1>2, <1>3 DEF free
  <1>11. SortOK(s)
    BY <1>6, <1>7, <1>8, <1>9, <1>10 DEF SortOK
  <1> QED
    BY <1>11

LEMMA SortEnds ==
  ASSUME GraphInv, NEW order \in StartupOrders
  PROVE  \E u : SortOK(u) /\ u.pending = <<>> /\ u.queue = <<>> /\ order = u.order
  <1>1. PICK start : SortOK(start) /\ order = SortLoop[start]
    BY SortByLoop, SortStartOK
  <1> DEFINE ended == {t \in Sorting : t.pending = <<>> /\ t.queue = <<>>}
             move == [t \in Sorting |-> IF t.pending # <<>> THEN Unblock(t)
                                        ELSE IF t.queue # <<>> THEN PlaceNext(t) ELSE t]
             sorted == [t \in Sorting |-> t.order]
             I == {t \in Sorting : SortOK(t)}
             M == [t \in I |-> Lacking(t.order)]
             N == [t \in I |-> Len(t.pending)]
  <1>2. start \in I
    BY <1>1 DEF SortOK
  <1>3. Descends(I, ended, move, M, N)
    <2> SUFFICES ASSUME NEW t \in I \ ended
                 PROVE  /\ move[t] \in I
                        /\ \/ M[move[t]] < M[t]
                           \/ M[move[t]] = M[t] /\ N[move[t]] < N[t]
      BY LackingType, LenProperties DEF Descends, Sorting
    <2>1. t \in Sorting /\ SortOK(t)
      OBVIOUS
    <2>2. CASE t.pending # <<>>
      <3>1. move[t] = Unblock(t)
        BY <2>1, <2>2
      <3>2. Unblock(t) \in I /\ Unblock(t).order = t.order
                             /\ Len(Unblock(t).pending) < Len(t.pending)
        BY <2>1, <2>2, UnblockType, UnblockOK
      <3> QED
        BY <3>1, <3>2
    <2>3. CASE t.pending = <<>>
      <3>1. t.queue # <<>> /\ move[t] = PlaceNext(t)
        BY <2>1, <2>3
      <3>2. PlaceNext(t) \in I /\ Lacking(PlaceNext(t).order) < Lacking(t.order)
        BY <2>1, <2>3, <3>1, PlaceNextType, PlaceNextOK
      <3> QED
        BY <3>1, <3>2
    <2> QED
      BY <2>2, <2>3
  <1>4. Loops(SortLoop, Sorting, ended, move, sorted)
    <2>1. \A t \in Sorting : (IF t \in ended THEN sorted[t] ELSE SortLoop[move[t]]) =
             (IF t.pending # <<>> THEN SortLoop[Unblock(t)]
              ELSE IF t.queue # <<>> THEN SortLoop[PlaceNext(t)] ELSE t.order)
      OBVIOUS
    <2> HIDE DEF ended, move, sorted
    <2> QED
      BY <2>1, SortLoopSolves DEF Loops
  <1>5. I \in SUBSET Sorting
    OBVIOUS
  <1>6. \E u \in I \cap ended : SortLoop[start] = sorted[u]
    <2> HIDE DEF ended, move, sorted, I, M, N
    <2> QED
      BY <1>2, <1>3, <1>4, <1>5, LoopReturns
  <1> QED
    BY <1>1, <1>6

LEMMA GraphInvStartup == GraphInv => StartupOrderExact
  <1> SUFFICES ASSUME GraphInv, NEW order \in StartupOrders
               PROVE  IF Acyclic
                      THEN /\ Range(order) = nodes
                           /\ Len(order) = Cardinality(nodes)
                           /\ \A i, j \in 1..Len(order) :
                                 <<order[i], order[j]>> \in declared => j < i
                      ELSE Len(order) # Cardinality(nodes)
    BY DEF StartupOrderExact
  <1>1. PICK u : SortOK(u) /\ u.pending = <<>> /\ u.queue = <<>> /\ order = u.order
    BY SortEnds
  <1>2. /\ order \in Seq(Module) /\ IsInjective(order) /\ AfterAll(order)
        /\ Len(order) \in Nat /\ DOMAIN order = 1..Len(order)
        /\ Range(order) = {order[i] : i \in 1..Len(order)}
    <2>1. order \in Seq(Module) /\ IsInjective(order) /\ AfterAll(order)
      BY <1>1, SortTypes DEF SortOK
    <2> QED
      BY <2>1, LenProperties, RangeEquality
  <1>3. \A n \in nodes : n \in Range(order) <=> \A d : <<n, d>> \in declared => d \in Range(order)
    <2> TAKE n \in nodes
    <2>1. Range(order) = {x \in nodes : u.degree[x] = 0}
      BY <1>1, NothingInEmpty DEF SortOK
    <2>2. u.degree[n] = Cardinality(Waits(n, Range(order))) + Times(u.pending, n)
      BY <1>1 DEF SortOK
    <2>3. u.degree[n] = Cardinality(Waits(n, Range(order)))
      BY <1>1, <2>2, WaitsType, NothingInEmpty
    <2> QED
      BY <2>1, <2>3, NothingToWaitFor
  <1>4. Range(order) \in SUBSET nodes /\ declared \subseteq nodes \X nodes
        /\ IsFiniteSet(nodes)
    BY <1>1, NothingInEmpty DEF SortOK, GraphInv, GraphTypeOK
  <1>5. Cardinality(Range(order)) = Len(order)
    <2>1. order \in Bijection(1..Len(order), Range(order))
      BY <1>2 DEF Bijection, Injection, Surjection, IsInjective
    <2>2. IsFiniteSet(1..Len(order)) /\ Cardinality(1..Len(order)) = Len(order)
      BY <1>2, FS_Interval
    <2> QED
      BY <2>1, <2>2, FS_Bijection DEF ExistsBijection
  <1>6. CASE Acyclic
    <2>1. Range(order) = nodes
      <3> DEFINE S == nodes \ Range(order)
      <3>1. SUFFICES ASSUME S # {} PROVE FALSE
        BY <1>4
      <3>2. PICK m \in S : \A d \in S : <<m, d>> \notin declared
        BY <1>6, <3>1 DEF Acyclic
      <3>3. \A d : <<m, d>> \in declared => d \in Range(order)
        BY <1>4, <3>2
      <3> QED
        BY <1>3, <3>2, <3>3
    <2>2. ASSUME NEW i \in 1..Len(order), NEW j \in 1..Len(order),
                 <<order[i], order[j]>> \in declared
          PROVE  j < i
      <3>1. PICK k \in 1..(i - 1) : order[k] = order[j]
        BY <1>2, <2>2 DEF AfterAll
      <3>2. k \in 1..Len(order) /\ k < i
        BY <1>2
      <3>3. k = j
        BY <1>2, <3>1, <3>2 DEF IsInjective
      <3> QED
        BY <3>2, <3>3
    <2> QED
      BY <1>5, <1>6, <2>1, <2>2
  <1>7. CASE ~Acyclic
    <2>1. SUFFICES ASSUME Len(order) = Cardinality(nodes) PROVE FALSE
      BY <1>7
    <2>2. Range(order) = nodes
      BY <1>4, <1>5, <2>1, FS_Subset
    <2>3. PICK S \in SUBSET nodes : S # {} /\ \A m \in S : \E d \in S : <<m, d>> \in declared
      BY <1>7 DEF Acyclic
    <2> DEFINE P == {i \in 1..Len(order) : order[i] \in S}
    <2>4. P \subseteq Nat /\ P # {}
      BY <1>2, <2>2, <2>3
    <2>5. PICK i \in P : \A j \in P : i <= j
      BY <2>4, LeastNatural
    <2>6. PICK d \in S : <<order[i], d>> \in declared
      BY <2>3
    <2>7. PICK j \in 1..(i - 1) : order[j] = d
      BY <1>2, <2>6 DEF AfterAll
    <2>8. j \in P /\ j < i
      BY <1>2, <2>7
    <2> QED
      BY <2>4, <2>5, <2>8
  <1> QED
    BY <1>6, <1>7

(* A failure is propagated to exactly the modules that depend on the failed  *)
(* one, to each once, whatever was registered and however often              *)
(* (graph.py:37-50, 73-85).                                                  *)
THEOREM FailuresReachDependents == Spec => []DependentsExact
  <1>1. GraphInv => DependentsExact
    BY GraphInvDependents
  <1> QED
    BY <1>1, GraphInvInit, GraphInvNext, PTL DEF Spec

(* A startup order exists if and only if the dependencies form no cycle, and *)
(* it has every node once, after all that it depends on (graph.py:52-68).    *)
THEOREM StartupOrderCorrect == Spec => []StartupOrderExact
  <1>1. GraphInv => StartupOrderExact
    BY GraphInvStartup
  <1> QED
    BY <1>1, GraphInvInit, GraphInvNext, PTL DEF Spec
=============================================================================
