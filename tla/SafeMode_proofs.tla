--------------------------- MODULE SafeMode_proofs ---------------------------
(***************************************************************************)
(* Proofs about the safe mode, alone and together with the bus, for any    *)
(* number of coroutines, modules and calls.                                *)
(***************************************************************************)
EXTENDS SafeModeNotices, SequenceTheorems, TLAPS

USE CallBudgetAssumption DEF Level

(* What a handler may still have to ask for: nothing, or one level. *)
Pending(s) == s = <<>> \/ \E l \in Level : s = <<l>>

(* What a coroutine asks for at once: at most two times the same level. *)
Asked(s) == Pending(s) \/ \E l \in Level : s = <<l, l>>

(* The inductive invariant.  A coroutine that may ask again for its level is *)
(* not below it unless the mode was lowered meanwhile; the calls counted of  *)
(* a module come out of the bound; resets are entered at past lengths.       *)
Types ==
    /\ mode \in Level /\ floor \in Level
    /\ history \in Seq([from : Level, to : Level])
    /\ terminated \subseteq Module
    /\ state \in [Call -> {"idle", "waits"}]
    /\ todo \in [Call -> Seq(Level)]
    /\ raised \in [Call -> Nat]
    /\ lowered \subseteq Call

Bounded ==
    /\ budget \in 0..CallBudget
    /\ counts \in [Module -> Nat]
    /\ \A m \in Module : counts[m] + budget <= CallBudget

CoroutineOK(c) ==
    /\ Pending(todo[c])
    /\ state[c] = "idle" => raised[c] = 0 /\ todo[c] = <<>>
    /\ \/ c \in lowered
       \/ raised[c] <= 1 /\ \A l \in Level : todo[c] = <<l>> => mode >= l

ModeInv ==
    /\ Types
    /\ Bounded
    /\ EscalationHolds
    /\ \A c \in Call : CoroutineOK(c)
    /\ resets \subseteq 0..Len(history)
    /\ HistoryExplainsMode

LEMMA ModeInvInit == Init => ModeInv
  BY EmptySeq DEF Init, ModeInv, Types, Bounded, EscalationHolds, CoroutineOK, Pending,
     HistoryExplainsMode

LEMMA HighestOfTwo ==
    ASSUME NEW a \in Int, NEW b \in Int
    PROVE  /\ Highest({a} \cup {b}) \in {a, b}
           /\ Highest({a} \cup {b}) >= a /\ Highest({a} \cup {b}) >= b
<1>1. \E l \in {a} \cup {b} : \A k \in {a} \cup {b} : k <= l
  OBVIOUS
<1>2. QED
  BY <1>1 DEF Highest

(* The mode goes from x to y with an entry in the history. *)
LEMMA RecordKeepsHistory ==
    ASSUME ModeInv, NEW y \in Level, mode' = y, Record(mode, y), resets' = resets
    PROVE  /\ history' \in Seq([from : Level, to : Level])
           /\ resets' \subseteq 0..Len(history')
           /\ HistoryExplainsMode'
<1> DEFINE e == [from |-> mode, to |-> y]
           N == Len(history)
<1>1. /\ e \in [from : Level, to : Level] /\ e.from = mode /\ e.to = y
      /\ history \in Seq([from : Level, to : Level])
      /\ history' = Append(history, e)
  BY DEF ModeInv, Types, Record
<1> HIDE DEF e
<1>2. /\ history' \in Seq([from : Level, to : Level]) /\ Len(history') = N + 1
      /\ history'[N + 1] = e /\ \A n \in 1..N : history'[n] = history[n]
      /\ N \in Nat
  BY <1>1, AppendProperties, LenProperties
<1>3. resets \subseteq 0..N
  BY DEF ModeInv
<1> DEFINE b(n) == IF n \in resets \/ n = 0 THEN 0 ELSE history[n].to
           d(n) == IF n \in resets' \/ n = 0 THEN 0 ELSE history'[n].to
<1>4. (\A n \in 1..N : history[n].from = b(n - 1)) /\ mode = b(N)
  BY DEF ModeInv, HistoryExplainsMode
<1>5. \A n \in 0..N : d(n) = b(n)
  BY <1>2
<1>6. d(N + 1) = y
  BY <1>1, <1>2, <1>3
<1>7. \A n \in 1..(N + 1) : history'[n].from = d(n - 1)
  <2>1. ASSUME NEW n \in 1..N PROVE history'[n].from = d(n - 1)
    BY <1>2, <1>4, <1>5
  <2>2. history'[N + 1].from = d(N)
    BY <1>1, <1>2, <1>4, <1>5
  <2>3. QED
    BY <1>2, <2>1, <2>2
<1>8. HistoryExplainsMode'
  BY <1>2, <1>6, <1>7 DEF HistoryExplainsMode
<1>9. QED
  BY <1>2, <1>3, <1>8

(* What Escalate does with s: nothing of s is above the mode and c returns,  *)
(* or the first of s is, and what remains is nothing or the same once more.  *)
LEMMA EscalateCases ==
    ASSUME ModeInv, NEW c \in Call, NEW s, Asked(s), Escalate(c, s)
    PROVE  \/ /\ \A l \in Level : s = <<l>> \/ s = <<l, l>> => l <= mode
              /\ state' = [state EXCEPT ![c] = "idle"]
              /\ todo' = [todo EXCEPT ![c] = <<>>]
              /\ raised' = [raised EXCEPT ![c] = 0]
              /\ lowered' = lowered \ {c}
              /\ UNCHANGED manager
           \/ \E l \in Level :
              /\ l > mode /\ mode' = l /\ Record(mode, l)
              /\ \/ s = <<l>> /\ todo' = [todo EXCEPT ![c] = <<>>]
                 \/ s = <<l, l>> /\ todo' = [todo EXCEPT ![c] = <<l>>]
              /\ state' = [state EXCEPT ![c] = "waits"]
              /\ raised' = [raised EXCEPT ![c] = @ + 1]
              /\ UNCHANGED lowered
<1> DEFINE R == {i \in 1..Len(s) : Raises(s[i])}
<1>1. CASE R = {}
  <2>1. \A l \in Level : s = <<l>> \/ s = <<l, l>> => l <= mode
    <3>1. SUFFICES ASSUME NEW l \in Level, s = <<l>> \/ s = <<l, l>> PROVE l <= mode
      OBVIOUS
    <3>2. 1 \in 1..Len(s) /\ s[1] = l
      BY <3>1
    <3>3. ~Raises(l)
      BY <1>1, <3>2
    <3>4. QED
      BY <3>3 DEF Raises, ModeInv, Types
  <2>2. QED
    BY <1>1, <2>1 DEF Escalate
<1>2. CASE R # {}
  <2>1. PICK l \in Level : s = <<l>> \/ s = <<l, l>>
    BY <1>2 DEF Asked, Pending
  <2>2. Raises(l) /\ 1 \in R
    BY <1>2, <2>1
  <2>3. (CHOOSE i \in R : \A j \in R : i <= j) = 1
    <3>1. \A i \in R : i \in Int /\ i >= 1
      BY <2>1
    <3>2. QED
      BY <2>2, <3>1
  <2>4. /\ mode' = s[1] /\ Record(mode, s[1])
        /\ state' = [state EXCEPT ![c] = "waits"]
        /\ todo' = [todo EXCEPT ![c] = SubSeq(s, 1 + 1, Len(s))]
        /\ raised' = [raised EXCEPT ![c] = @ + 1]
        /\ UNCHANGED lowered
    BY <1>2, <2>3 DEF Escalate
  <2>5. s[1] = l
    BY <2>1
  <2>6. SubSeq(<<l>>, 2, 1) = <<>> /\ SubSeq(<<l, l>>, 2, 2) = <<l>>
    <3>1. <<l>> \in Seq(Level) /\ <<l, l>> \in Seq(Level)
      OBVIOUS
    <3>2. <<l, l>>[2] = l /\ <<l>>[1] = l /\ Len(<<l>>) = 1
      OBVIOUS
    <3>3. /\ SubSeq(<<l, l>>, 2, 2) \in Seq(Level)
          /\ Len(SubSeq(<<l, l>>, 2, 2)) = 1
          /\ SubSeq(<<l, l>>, 2, 2)[1] = l
      <4>1. \A i \in 2..2 : <<l, l>>[i] \in Level
        BY <3>2
      <4>2. /\ SubSeq(<<l, l>>, 2, 2) \in Seq(Level)
            /\ Len(SubSeq(<<l, l>>, 2, 2)) = 1
            /\ \A i \in 1..1 : SubSeq(<<l, l>>, 2, 2)[i] = <<l, l>>[i + 1]
        BY <4>1, SubSeqProperties
      <4>3. QED
        BY <3>2, <4>2
    <3>4. SubSeq(<<l, l>>, 2, 2) = <<l>>
      <4> DEFINE t == SubSeq(<<l, l>>, 2, 2)
                 u == <<l>>
      <4>1. /\ t \in Seq(Level) /\ u \in Seq(Level) /\ Len(t) = Len(u)
            /\ \A i \in 1..Len(t) : t[i] = u[i]
        BY <3>1, <3>2, <3>3
      <4> HIDE DEF t, u
      <4>2. t = u
        BY <4>1, SeqEqual
      <4>3. QED
        BY <4>2 DEF t, u
    <3>5. QED
      BY <3>4, SubSeqEmpty
  <2>7. \/ s = <<l>> /\ todo' = [todo EXCEPT ![c] = <<>>]
        \/ s = <<l, l>> /\ todo' = [todo EXCEPT ![c] = <<l>>]
    <3>1. Len(<<l>>) = 1 /\ Len(<<l, l>>) = 2 /\ 1 + 1 = 2
      OBVIOUS
    <3>2. CASE s = <<l>>
      BY <2>4, <2>6, <3>1, <3>2
    <3>3. CASE s = <<l, l>>
      BY <2>4, <2>6, <3>1, <3>3
    <3>4. QED
      BY <2>1, <3>2, <3>3
  <2>8. QED
    BY <2>2, <2>4, <2>5, <2>7 DEF Raises
<1>3. QED
  BY <1>1, <1>2

(* The parts of the invariant that a step of c settles by Escalate, given    *)
(* that c has not raised the mode yet, or asks for one level at most and for *)
(* none above the mode, unless the mode was lowered.                         *)
LEMMA EscalateKeeps ==
    ASSUME ModeInv, NEW c \in Call, NEW s, Asked(s), Escalate(c, s),
           resets' = resets,
           \/ c \in lowered
           \/ raised[c] = 0
           \/ Pending(s) /\ raised[c] <= 1 /\ \A l \in Level : s = <<l>> => mode >= l
    PROVE  /\ mode' \in Level /\ mode' >= mode
           /\ \A l \in Level : s = <<l>> \/ s = <<l, l>> => mode' >= l
           /\ state' \in [Call -> {"idle", "waits"}]
           /\ todo' \in [Call -> Seq(Level)]
           /\ raised' \in [Call -> Nat]
           /\ lowered' \subseteq Call
           /\ history' \in Seq([from : Level, to : Level])
           /\ resets' \subseteq 0..Len(history')
           /\ HistoryExplainsMode'
           /\ \A d \in Call : CoroutineOK(d)'
<1>0. /\ <<>> \in Seq(Level) /\ \A l \in Level : <<l>> \in Seq(Level)
      /\ \A l \in Level : <<l>> # <<>>
      /\ \A l, k \in Level : <<l, l>> # <<>> /\ (<<l>> = <<k>> => l = k)
      /\ \A l, k \in Level : <<l>> # <<k, k>> /\ (<<l, l>> = <<k, k>> => l = k)
  <2>1. \A l, k \in Level : <<l>> # <<k, k>>
    <3>1. SUFFICES ASSUME NEW l \in Level, NEW k \in Level, <<l>> = <<k, k>>
                   PROVE  FALSE
      OBVIOUS
    <3>2. Len(<<l>>) = 1 /\ Len(<<k, k>>) = 2
      OBVIOUS
    <3>3. QED
      BY <3>1, <3>2
  <2>2. QED
    BY <2>1, EmptySeq
<1>1. CASE /\ \A l \in Level : s = <<l>> \/ s = <<l, l>> => l <= mode
           /\ state' = [state EXCEPT ![c] = "idle"]
           /\ todo' = [todo EXCEPT ![c] = <<>>]
           /\ raised' = [raised EXCEPT ![c] = 0]
           /\ lowered' = lowered \ {c}
           /\ UNCHANGED manager
  <2>1. mode' = mode /\ history' = history
    BY <1>1 DEF manager
  <2>2. HistoryExplainsMode'
    BY <2>1 DEF HistoryExplainsMode, ModeInv
  <2>3. ASSUME NEW d \in Call PROVE CoroutineOK(d)'
    <3>1. CoroutineOK(d)
      BY DEF ModeInv
    <3>2. CASE d = c
      <4>1. todo'[c] = <<>> /\ state'[c] = "idle" /\ raised'[c] = 0
        BY <1>1 DEF ModeInv, Types
      <4>2. QED
        BY <1>0, <3>2, <4>1 DEF CoroutineOK, Pending
    <3>3. CASE d # c
      <4>1. /\ todo'[d] = todo[d] /\ state'[d] = state[d] /\ raised'[d] = raised[d]
            /\ d \in lowered' <=> d \in lowered
        BY <1>1, <3>3 DEF ModeInv, Types
      <4>2. QED
        BY <2>1, <3>1, <4>1 DEF CoroutineOK
    <3>4. QED
      BY <3>2, <3>3
  <2>4. QED
    BY <1>0, <1>1, <2>1, <2>2, <2>3 DEF ModeInv, Types
<1>2. ASSUME NEW k \in Level, k > mode, mode' = k, Record(mode, k),
             \/ s = <<k>> /\ todo' = [todo EXCEPT ![c] = <<>>]
             \/ s = <<k, k>> /\ todo' = [todo EXCEPT ![c] = <<k>>],
             state' = [state EXCEPT ![c] = "waits"],
             raised' = [raised EXCEPT ![c] = @ + 1],
             lowered' = lowered
      PROVE  /\ mode' \in Level /\ mode' >= mode
             /\ \A l \in Level : s = <<l>> \/ s = <<l, l>> => mode' >= l
             /\ state' \in [Call -> {"idle", "waits"}]
             /\ todo' \in [Call -> Seq(Level)]
             /\ raised' \in [Call -> Nat]
             /\ lowered' \subseteq Call
             /\ history' \in Seq([from : Level, to : Level])
             /\ resets' \subseteq 0..Len(history')
             /\ HistoryExplainsMode'
             /\ \A d \in Call : CoroutineOK(d)'
  <2>1. /\ history' \in Seq([from : Level, to : Level])
        /\ resets' \subseteq 0..Len(history')
        /\ HistoryExplainsMode'
    BY <1>2, RecordKeepsHistory
  <2>2. mode \in Int /\ k \in Int /\ mode' >= mode
    BY <1>2 DEF ModeInv, Types
  <2>3. c \in lowered \/ raised[c] = 0
    <3>1. CASE Pending(s) /\ \A l \in Level : s = <<l>> => mode >= l
      <4>1. s = <<k>>
        <5>1. SUFFICES ASSUME s = <<k, k>> PROVE FALSE
          BY <1>2
        <5>2. \E l \in Level : <<l>> = <<k, k>>
          BY <1>0, <1>2, <3>1, <5>1 DEF Pending
        <5>3. QED
          BY <1>0, <1>2, <5>2
      <4>2. QED
        BY <1>2, <2>2, <3>1, <4>1
    <3>2. QED
      BY <3>1
  <2>4. CoroutineOK(c)'
    <3>1. /\ state'[c] = "waits" /\ lowered' = lowered /\ mode' = k
          /\ todo'[c] = <<>> \/ todo'[c] = <<k>>
          /\ raised[c] \in Nat /\ raised'[c] = raised[c] + 1
      BY <1>2 DEF ModeInv, Types
    <3>2. \A l \in Level : todo'[c] = <<l>> => mode' >= l
      BY <1>0, <1>2, <2>2, <3>1
    <3>3. QED
      BY <2>3, <3>1, <3>2 DEF CoroutineOK, Pending
  <2>5. ASSUME NEW d \in Call, d # c PROVE CoroutineOK(d)'
    <3>1. /\ todo'[d] = todo[d] /\ state'[d] = state[d] /\ raised'[d] = raised[d]
          /\ CoroutineOK(d)
      BY <1>2, <2>5 DEF ModeInv, Types
    <3>2. \A l \in Level : mode >= l => mode' >= l
      BY <1>2, <2>2
    <3>3. QED
      BY <1>2, <3>1, <3>2 DEF CoroutineOK
  <2>6. \A l \in Level : s = <<l>> \/ s = <<l, l>> => l = k
    BY <1>0, <1>2
  <2>7. /\ state' \in [Call -> {"idle", "waits"}]
        /\ todo' \in [Call -> Seq(Level)]
        /\ raised' \in [Call -> Nat]
        /\ lowered' \subseteq Call
    <3>1. todo' \in [Call -> Seq(Level)]
      BY <1>0, <1>2 DEF ModeInv, Types
    <3>2. raised' \in [Call -> Nat]
      BY <1>2 DEF ModeInv, Types
    <3>3. QED
      BY <1>2, <3>1, <3>2 DEF ModeInv, Types
  <2>8. \A l \in Level : s = <<l>> \/ s = <<l, l>> => mode' >= l
    BY <1>2, <2>2, <2>6
  <2>9. QED
    BY <1>2, <2>1, <2>2, <2>4, <2>5, <2>7, <2>8
<1>3. QED
  BY <1>1, <1>2, EscalateCases

(* A violation asks for the level it demands, once or twice, or for none.    *)
LEMMA AnswersDemand ==
    ASSUME NEW class \in Class, NEW n \in Nat
    PROVE  /\ Demanded(class, n) \in Level
           /\ \/ Escalations(class, n) = <<>> /\ Demanded(class, n) = 0
              \/ Escalations(class, n) = <<Demanded(class, n)>>
              \/ Escalations(class, n) = <<Demanded(class, n), Demanded(class, n)>>
<1>1. CASE class = "critical"
  BY <1>1 DEF Escalations, Demanded, Counted
<1>2. CASE class = "boundary"
  BY <1>2 DEF Escalations, Demanded, Counted
<1>3. CASE class = "misuse"
  BY <1>3 DEF Escalations, Demanded, Counted
<1>4. CASE class = "budget" /\ n >= 3
  BY <1>4 DEF Escalations, Demanded, Counted
<1>5. CASE class = "budget" /\ n < 3
  BY <1>5 DEF Escalations, Demanded, Counted
<1>6. CASE class = "local" /\ n >= 3
  BY <1>6 DEF Escalations, Demanded, Counted
<1>7. CASE class = "local" /\ n < 3
  BY <1>7 DEF Escalations, Demanded, Counted
<1>8. QED
  BY <1>1, <1>2, <1>3, <1>4, <1>5, <1>6, <1>7 DEF Class

LEMMA HandleViolationStep ==
    ASSUME ModeInv, NEW c \in Call, NEW m \in Module, NEW class \in Class,
           HandleViolation(c, m, class)
    PROVE  ModeInv'
<1> DEFINE n == counts[m] + (IF Counted(class) THEN 1 ELSE 0)
           s == Escalations(class, n)
           D == Demanded(class, n)
<1>1. /\ n \in Nat /\ counts' = [counts EXCEPT ![m] = n]
      /\ state[c] = "idle" /\ budget > 0 /\ budget' = budget - 1
      /\ floor' = Highest({floor} \cup {D}) /\ resets' = resets
      /\ \/ s = <<>> /\ Terminate(c, m)
         \/ Escalate(c, s) /\ terminated' = terminated
      /\ n <= counts[m] + 1
  <2>1. n \in Nat /\ n <= counts[m] + 1
    BY DEF ModeInv, Bounded
  <2>2. QED
    BY <2>1 DEF HandleViolation, Enter, AskFor
<1>2. /\ D \in Level
      /\ (s = <<>> /\ D = 0) \/ s = <<D>> \/ s = <<D, D>>
  BY <1>1, AnswersDemand
<1> HIDE DEF n, s, D
<1>3. Bounded'
  BY <1>1 DEF ModeInv, Bounded
<1>4. floor' \in {floor, D} /\ floor \in Level
  <2>1. floor \in Level /\ floor \in Int /\ D \in Int
    BY <1>2 DEF ModeInv, Types
  <2>2. Highest({floor} \cup {D}) \in {floor, D}
    BY <2>1, HighestOfTwo
  <2>3. QED
    BY <1>1, <2>1, <2>2
<1>5. raised[c] = 0 /\ todo[c] = <<>>
  BY <1>1 DEF ModeInv, CoroutineOK
<1>6. CASE Escalate(c, s) /\ terminated' = terminated
  <2>1. Asked(s)
    BY <1>2 DEF Asked, Pending
  <2>2. /\ mode' \in Level /\ mode' >= mode
        /\ \A l \in Level : s = <<l>> \/ s = <<l, l>> => mode' >= l
        /\ state' \in [Call -> {"idle", "waits"}]
        /\ todo' \in [Call -> Seq(Level)]
        /\ raised' \in [Call -> Nat]
        /\ lowered' \subseteq Call
        /\ history' \in Seq([from : Level, to : Level])
        /\ resets' \subseteq 0..Len(history')
        /\ HistoryExplainsMode'
        /\ \A d \in Call : CoroutineOK(d)'
    BY <1>1, <1>5, <1>6, <2>1, EscalateKeeps
  <2>3. mode' >= D /\ mode' >= floor
    BY <1>2, <2>2 DEF ModeInv, Types, EscalationHolds
  <2>4. Types'
    BY <1>2, <1>4, <1>6, <2>2 DEF ModeInv, Types
  <2>5. EscalationHolds'
    BY <1>4, <2>3 DEF EscalationHolds
  <2>6. QED
    BY <1>3, <2>2, <2>4, <2>5 DEF ModeInv
<1>7. CASE s = <<>> /\ Terminate(c, m)
  <2>1. D = 0
    BY <1>2, <1>7
  <2>2. /\ terminated' = terminated \cup {m} /\ state' = [state EXCEPT ![c] = "waits"]
        /\ mode' = mode /\ history' = history
        /\ todo' = todo /\ raised' = raised /\ lowered' = lowered
    BY <1>7 DEF Terminate, manager
  <2>3. Types'
    BY <1>2, <1>4, <2>2 DEF ModeInv, Types
  <2>4. EscalationHolds'
    BY <1>4, <2>1, <2>2 DEF ModeInv, Types, EscalationHolds
  <2>5. \A d \in Call : CoroutineOK(d)'
    BY <1>5, <2>2 DEF ModeInv, Types, CoroutineOK
  <2>6. HistoryExplainsMode'
    BY <1>1, <2>2 DEF ModeInv, HistoryExplainsMode
  <2>7. QED
    BY <1>1, <1>3, <2>2, <2>3, <2>4, <2>5, <2>6 DEF ModeInv
<1>8. QED
  BY <1>1, <1>6, <1>7

LEMMA CallEscalateStep ==
    ASSUME ModeInv, NEW c \in Call, NEW target \in Level, CallEscalate(c, target)
    PROVE  ModeInv'
<1> DEFINE s == <<target>>
<1>1. /\ state[c] = "idle" /\ budget > 0 /\ budget' = budget - 1
      /\ floor' = Highest({floor} \cup {target})
      /\ UNCHANGED <<counts, terminated, resets>>
      /\ Escalate(c, s) /\ Asked(s)
  BY DEF CallEscalate, Enter, AskFor, Asked, Pending
<1>2. floor' \in {floor, target} /\ floor \in Level
  <2>1. floor \in Level /\ floor \in Int /\ target \in Int
    BY <1>1 DEF ModeInv, Types
  <2>2. Highest({floor} \cup {target}) \in {floor, target}
    BY <2>1, HighestOfTwo
  <2>3. QED
    BY <1>1, <2>1, <2>2
<1>3. raised[c] = 0 /\ todo[c] = <<>>
  BY <1>1 DEF ModeInv, CoroutineOK
<1>4. /\ mode' \in Level /\ mode' >= mode
      /\ \A l \in Level : s = <<l>> \/ s = <<l, l>> => mode' >= l
      /\ state' \in [Call -> {"idle", "waits"}]
      /\ todo' \in [Call -> Seq(Level)]
      /\ raised' \in [Call -> Nat]
      /\ lowered' \subseteq Call
      /\ history' \in Seq([from : Level, to : Level])
      /\ resets' \subseteq 0..Len(history')
      /\ HistoryExplainsMode'
      /\ \A d \in Call : CoroutineOK(d)'
  <2> HIDE DEF s
  <2>1. QED
    BY <1>1, <1>3, EscalateKeeps
<1>5. mode' >= target /\ mode' >= floor
  BY <1>4 DEF ModeInv, Types, EscalationHolds
<1>6. Types' /\ EscalationHolds'
  BY <1>1, <1>2, <1>4, <1>5 DEF ModeInv, Types, EscalationHolds
<1>7. Bounded'
  BY <1>1 DEF ModeInv, Bounded
<1>8. QED
  BY <1>4, <1>6, <1>7 DEF ModeInv

(* Lowering the mode to l: every coroutine that waits sees it lowered.       *)
LEMMA LowerKeeps ==
    ASSUME ModeInv, NEW l \in Level, mode' = l, Lower(l), raised' = raised,
           todo' = todo,
           \A c \in Call : state'[c] = state[c] \/ (state[c] = "idle" /\ state'[c] = "waits")
    PROVE  /\ EscalationHolds' /\ floor' \in Level /\ lowered' \subseteq Call
           /\ \A c \in Call : CoroutineOK(c)'
<1>1. floor' = l /\ lowered' = lowered \cup {c \in Call : state[c] = "waits"}
  BY DEF Lower
<1>2. ASSUME NEW c \in Call PROVE CoroutineOK(c)'
  <2>1. (\A k \in Level : <<k>> # <<>>) /\ CoroutineOK(c)
    BY DEF ModeInv
  <2>2. CASE state[c] = "idle"
    <3>1. raised'[c] = 0 /\ todo'[c] = <<>>
      BY <2>1, <2>2 DEF CoroutineOK
    <3>2. QED
      BY <2>1, <3>1 DEF CoroutineOK, Pending
  <2>3. CASE state[c] = "waits"
    <3>1. c \in lowered' /\ state'[c] = "waits"
      BY <1>1, <2>3
    <3>2. QED
      BY <2>1, <3>1 DEF CoroutineOK
  <2>4. QED
    BY <2>2, <2>3 DEF ModeInv, Types
<1>3. QED
  BY <1>1, <1>2 DEF EscalationHolds, ModeInv, Types

LEMMA DeEscalateStep ==
    ASSUME ModeInv, NEW c \in Call, DeEscalate(c) PROVE ModeInv'
<1> DEFINE l == mode - 1
<1>1. /\ state[c] = "idle" /\ budget > 0 /\ budget' = budget - 1
      /\ mode' = l /\ Record(mode, l) /\ state' = [state EXCEPT ![c] = "waits"]
      /\ Lower(l)
      /\ UNCHANGED <<counts, terminated, todo, resets, raised>>
  BY DEF DeEscalate, Enter
<1>2. l \in Level
  BY DEF DeEscalate, ModeInv, Types
<1> HIDE DEF l
<1>3. /\ EscalationHolds' /\ floor' \in Level /\ lowered' \subseteq Call
      /\ \A d \in Call : CoroutineOK(d)'
  <2>1. \A d \in Call :
          state'[d] = state[d] \/ (state[d] = "idle" /\ state'[d] = "waits")
    BY <1>1 DEF ModeInv, Types
  <2>2. QED
    BY <1>1, <1>2, <2>1, LowerKeeps
<1>4. /\ history' \in Seq([from : Level, to : Level])
      /\ resets' \subseteq 0..Len(history')
      /\ HistoryExplainsMode'
  BY <1>1, <1>2, RecordKeepsHistory
<1>5. Types'
  BY <1>1, <1>2, <1>3, <1>4 DEF ModeInv, Types
<1>6. Bounded'
  BY <1>1 DEF ModeInv, Bounded
<1>7. QED
  BY <1>3, <1>4, <1>5, <1>6 DEF ModeInv

LEMMA ResetStepKeeps ==
    ASSUME ModeInv, ResetToNormal PROVE ModeInv'
<1>1. /\ budget > 0 /\ budget' = budget - 1 /\ mode' = 0 /\ Lower(0)
      /\ resets' = resets \cup {Len(history)}
      /\ UNCHANGED <<history, counts, terminated, state, todo, raised>>
  BY DEF ResetToNormal
<1>2. /\ EscalationHolds' /\ floor' \in Level /\ lowered' \subseteq Call
      /\ \A d \in Call : CoroutineOK(d)'
  BY <1>1, LowerKeeps
<1>3. Len(history) \in Nat
  BY LenProperties DEF ModeInv, Types
<1>4. resets' \subseteq 0..Len(history')
  <2>1. Len(history') = Len(history) /\ Len(history) \in 0..Len(history)
    BY <1>1, <1>3
  <2>2. QED
    BY <1>1, <2>1 DEF ModeInv
<1>5. HistoryExplainsMode'
  BY <1>1, <1>3 DEF ModeInv, HistoryExplainsMode
<1>6. Types' /\ Bounded'
  BY <1>1, <1>2 DEF ModeInv, Types, Bounded
<1>7. QED
  BY <1>2, <1>4, <1>5, <1>6 DEF ModeInv

(* A coroutine that resumes has nothing left to ask for, or one level. *)
LEMMA ResumeStepKeeps ==
    ASSUME ModeInv, NEW c \in Call, Resume(c) PROVE ModeInv'
<1> DEFINE s == todo[c]
<1>1. /\ state[c] = "waits" /\ Escalate(c, s)
      /\ floor' = Highest({floor} \cup Range(s))
      /\ UNCHANGED <<counts, terminated, budget, resets>>
  BY DEF Resume, AskFor
<1>2. Pending(s) /\ CoroutineOK(c) /\ floor \in Level /\ mode >= floor /\ mode \in Level
  BY DEF ModeInv, Types, CoroutineOK, EscalationHolds
<1>3. /\ mode' \in Level /\ mode' >= mode
      /\ \A l \in Level : s = <<l>> \/ s = <<l, l>> => mode' >= l
      /\ state' \in [Call -> {"idle", "waits"}]
      /\ todo' \in [Call -> Seq(Level)]
      /\ raised' \in [Call -> Nat]
      /\ lowered' \subseteq Call
      /\ history' \in Seq([from : Level, to : Level])
      /\ resets' \subseteq 0..Len(history')
      /\ HistoryExplainsMode'
      /\ \A d \in Call : CoroutineOK(d)'
  <2>1. Asked(s)
    BY <1>2 DEF Asked
  <2>2. \/ c \in lowered
        \/ raised[c] <= 1 /\ \A l \in Level : s = <<l>> => mode >= l
    BY <1>2 DEF CoroutineOK
  <2> HIDE DEF s
  <2>3. QED
    BY <1>1, <1>2, <2>1, <2>2, EscalateKeeps
<1>4. floor' \in Level /\ mode' >= floor'
  <2>1. CASE s = <<>>
    <3>1. Range(s) = {} /\ floor \in Int
      BY <1>2, <2>1 DEF Range
    <3>2. Highest({floor} \cup {floor}) = floor /\ {floor} \cup {} = {floor} \cup {floor}
      BY <3>1, HighestOfTwo
    <3>3. floor' = floor
      BY <1>1, <3>1, <3>2
    <3>4. QED
      BY <1>2, <1>3, <3>3
  <2>2. ASSUME NEW l \in Level, s = <<l>>
        PROVE  floor' \in Level /\ mode' >= floor'
    <3>1. Range(s) = {l} /\ floor \in Int /\ l \in Int
      BY <1>2, <2>2 DEF Range
    <3>2. floor' \in {floor, l}
      BY <1>1, <3>1, HighestOfTwo
    <3>3. QED
      BY <1>2, <1>3, <2>2, <3>2
  <2>3. QED
    BY <1>2, <2>1, <2>2 DEF Pending
<1>5. Types' /\ EscalationHolds'
  BY <1>1, <1>3, <1>4 DEF ModeInv, Types, EscalationHolds
<1>6. Bounded'
  BY <1>1 DEF ModeInv, Bounded
<1>7. QED
  BY <1>3, <1>5, <1>6 DEF ModeInv

LEMMA RaiseStepKeeps ==
    ASSUME ModeInv, NEW c \in Call, Raise(c) PROVE ModeInv'
<1>1. /\ Escalate(c, <<>>)
      /\ UNCHANGED <<counts, terminated, budget, resets, floor>>
  BY DEF Raise
<1>2. /\ Asked(<<>>) /\ Pending(<<>>)
      /\ \A l \in Level : <<>> # <<l>>
      /\ c \in lowered \/ raised[c] <= 1
  BY DEF Asked, Pending, ModeInv, CoroutineOK
<1>3. /\ mode' \in Level /\ mode' >= mode
      /\ state' \in [Call -> {"idle", "waits"}]
      /\ todo' \in [Call -> Seq(Level)]
      /\ raised' \in [Call -> Nat]
      /\ lowered' \subseteq Call
      /\ history' \in Seq([from : Level, to : Level])
      /\ resets' \subseteq 0..Len(history')
      /\ HistoryExplainsMode'
      /\ \A d \in Call : CoroutineOK(d)'
  BY <1>1, <1>2, EscalateKeeps
<1>4. Types' /\ EscalationHolds'
  BY <1>1, <1>3 DEF ModeInv, Types, EscalationHolds
<1>5. Bounded'
  BY <1>1 DEF ModeInv, Bounded
<1>6. QED
  BY <1>3, <1>4, <1>5 DEF ModeInv

LEMMA ModeInvStep == ModeInv /\ [Next]_vars => ModeInv'
<1> SUFFICES ASSUME ModeInv, [Next]_vars PROVE ModeInv'
  OBVIOUS
<1>1. ASSUME NEW c \in Call, Calls(c) PROVE ModeInv'
  <2>1. CASE \E l \in Level : CallEscalate(c, l)
    BY <2>1, CallEscalateStep
  <2>2. CASE DeEscalate(c)
    BY <2>2, DeEscalateStep
  <2>3. ASSUME NEW m \in Module, NEW class \in Class, HandleViolation(c, m, class)
        PROVE  ModeInv'
    BY <2>3, HandleViolationStep
  <2>4. QED
    BY <1>1, <2>1, <2>2, <2>3 DEF Calls, HandleBudgetExceeded, Class
<1>2. CASE \E c \in Call : Resume(c)
  BY <1>2, ResumeStepKeeps
<1>3. CASE \E c \in Call : Raise(c)
  BY <1>3, RaiseStepKeeps
<1>4. CASE ResetToNormal
  BY <1>4, ResetStepKeeps
<1>5. CASE UNCHANGED vars
  <2>1. Types' /\ Bounded' /\ EscalationHolds' /\ HistoryExplainsMode'
        /\ resets' \subseteq 0..Len(history')
    BY <1>5 DEF vars, ModeInv, Types, Bounded, EscalationHolds, HistoryExplainsMode
  <2>2. \A c \in Call : CoroutineOK(c)'
    BY <1>5 DEF vars, ModeInv, CoroutineOK
  <2>3. QED
    BY <2>1, <2>2 DEF ModeInv
<1>6. QED
  BY <1>1, <1>2, <1>3, <1>4, <1>5 DEF Next

LEMMA ModeInvHolds == Spec => []ModeInv
  BY ModeInvInit, ModeInvStep, PTL DEF Spec

(* The safe mode keeps its types for any number of coroutines and calls.     *)
THEOREM ModeTypeCorrect == Spec => []TypeOK
<1>1. ModeInv => TypeOK
  <2>1. SUFFICES ASSUME ModeInv PROVE TypeOK
    OBVIOUS
  <2>2. counts \in [Module -> 0..CallBudget]
    <3>1. \A m \in Module : counts[m] \in 0..CallBudget
      BY <2>1 DEF ModeInv, Bounded
    <3>2. QED
      BY <2>1, <3>1 DEF ModeInv, Bounded
  <2>3. resets \subseteq Nat
    BY <2>1 DEF ModeInv
  <2>4. \A c \in Call : todo[c] \in Seq(Level) /\ (state[c] = "idle" => todo[c] = <<>>)
    BY <2>1 DEF ModeInv, Types, CoroutineOK
  <2>5. QED
    BY <2>1, <2>2, <2>3, <2>4 DEF ModeInv, Types, Bounded, TypeOK
<1>2. QED
  BY <1>1, ModeInvHolds, PTL

(* The mode never falls below the highest level asked for since it was last  *)
(* lowered, whatever interleaves with the handlers and whichever of their    *)
(* publications raise.                                                       *)
THEOREM EscalationsStand == Spec => []EscalationHolds
<1>1. ModeInv => EscalationHolds
  BY DEF ModeInv
<1>2. QED
  BY <1>1, ModeInvHolds, PTL

(* One call raises the mode twice only if the mode was lowered during it.    *)
THEOREM OneTransitionPerViolation == Spec => []RaisedAgainOnlyIfLowered
<1>1. ModeInv => RaisedAgainOnlyIfLowered
  BY DEF ModeInv, Types, CoroutineOK, RaisedAgainOnlyIfLowered
<1>2. QED
  BY <1>1, ModeInvHolds, PTL

(* The history and the resets account for the mode.                          *)
THEOREM HistoryAccountsForMode == Spec => []HistoryExplainsMode
<1>1. ModeInv => HistoryExplainsMode
  BY DEF ModeInv
<1>2. QED
  BY <1>1, ModeInvHolds, PTL

----------------------------------------------------------------------------

LEMMA NoticesStep == [NoticesNext]_<<vars, busVars>> => [Next]_vars
<1> SUFFICES ASSUME [NoticesNext]_<<vars, busVars>> PROVE [Next]_vars
  OBVIOUS
<1>1. ASSUME NEW c \in Call,
             \/ CallStep(c)
             \/ \E i \in onTheWay[c] : FindRoom(c, i)
             \/ ResumeStep(c)
             \/ RaiseStep(c)
      PROVE  [Next]_vars
  BY <1>1 DEF CallStep, FindRoom, ResumeStep, RaiseStep, Next
<1>2. CASE ResetStep
  BY <1>2 DEF ResetStep, Next
<1>3. CASE \E p \in 0..1 : Deliver(p)
  BY <1>3 DEF Deliver
<1>4. CASE BusStep
  BY <1>4 DEF BusStep
<1>5. QED
  BY <1>1, <1>2, <1>3, <1>4 DEF NoticesNext

(* The bus adds nothing to the mode: with it, the manager and the matrix     *)
(* behave as they do alone.                                                  *)
THEOREM NoticesAreOfSafeMode == NoticesSpec => Spec
<1>1. NoticesInit => Init
  BY DEF NoticesInit
<1>2. QED
  BY <1>1, NoticesStep, PTL DEF NoticesSpec, Spec

(* What is proved of the manager alone holds with the bus.                   *)
THEOREM ModeCorrectWithBus ==
    NoticesSpec => [](EscalationHolds /\ RaisedAgainOnlyIfLowered /\ HistoryExplainsMode)
  BY NoticesAreOfSafeMode, EscalationsStand, OneTransitionPerViolation,
     HistoryAccountsForMode, PTL

----------------------------------------------------------------------------

Transition == [from : Level, to : Level]

(* Every step of the manager and the matrix leaves the history, or appends   *)
(* one transition.                                                           *)
LEMMA HistoryGrows ==
    ASSUME ModeInv, [Next]_vars
    PROVE  history' = history \/ \E e \in Transition : history' = Append(history, e)
<1>m. mode \in Level
  BY DEF ModeInv, Types
<1>r. ASSUME NEW l \in Level, Record(mode, l)
      PROVE  \E e \in Transition : history' = Append(history, e)
  BY <1>m, <1>r DEF Record, Transition
<1>e. ASSUME NEW c \in Call, NEW s, Asked(s), Escalate(c, s)
      PROVE  history' = history \/ \E e \in Transition : history' = Append(history, e)
  BY <1>e, <1>r, EscalateCases DEF manager
<1>1. ASSUME NEW c \in Call, NEW target \in Level, CallEscalate(c, target)
      PROVE  history' = history \/ \E e \in Transition : history' = Append(history, e)
  BY <1>1, <1>e DEF CallEscalate, Asked, Pending
<1>2. ASSUME NEW c \in Call, DeEscalate(c)
      PROVE  history' = history \/ \E e \in Transition : history' = Append(history, e)
  BY <1>2, <1>m, <1>r DEF DeEscalate
<1>3. ASSUME NEW c \in Call, NEW m \in Module, NEW class \in Class, HandleViolation(c, m, class)
      PROVE  history' = history \/ \E e \in Transition : history' = Append(history, e)
  <2>1. PICK n \in Nat : n = counts[m] + (IF Counted(class) THEN 1 ELSE 0)
    BY DEF ModeInv, Bounded
  <2>2. Terminate(c, m) \/ Escalate(c, Escalations(class, n))
    BY <1>3, <2>1 DEF HandleViolation
  <2>3. Asked(Escalations(class, n))
    BY AnswersDemand DEF Asked, Pending
  <2>4. QED
    BY <1>e, <2>2, <2>3 DEF Terminate, manager
<1>4. ASSUME NEW c \in Call, Resume(c) \/ Raise(c)
      PROVE  history' = history \/ \E e \in Transition : history' = Append(history, e)
  <2>1. Asked(todo[c]) /\ Asked(<<>>)
    BY DEF ModeInv, CoroutineOK, Asked, Pending
  <2>2. QED
    BY <1>4, <1>e, <2>1 DEF Resume, Raise
<1>5. CASE ResetToNormal \/ UNCHANGED vars
  BY <1>5 DEF ResetToNormal, vars
<1>6. "budget" \in Class
  BY DEF Class
<1>7. QED
  BY <1>1, <1>2, <1>3, <1>4, <1>5, <1>6 DEF Next, Calls, HandleBudgetExceeded

(* i is the notice of a transition of the history h. *)
Genuine(h, i) ==
    /\ i \in Notice
    /\ i[1] \in 1..Len(h)
    /\ i[2] = PriorityOf(h[i[1]])

(* i may be heard before j, where w are the notices that found their queue   *)
(* full.                                                                     *)
MayPrecede(w, i, j) ==
    i[1] > j[1] => (i[2] = 0 /\ j[2] = 1) \/ j \in w

NoticeTypes ==
    /\ line \in [0..1 -> Seq(Notice)]
    /\ heard \in Seq(Notice)

(* Each line is in order, but for notices that waited. *)
LineInv ==
    \A p \in 0..1 : \A n \in 1..Len(line[p]) :
        /\ Genuine(history, line[p][n]) /\ line[p][n][2] = p
        /\ \A m \in 1..Len(line[p]) : m < n => MayPrecede(waited, line[p][m], line[p][n])

(* What was heard may precede what was heard later and what is in line. *)
HeardInv ==
    \A m \in 1..Len(heard) :
        /\ Genuine(history, heard[m])
        /\ \A n \in 1..Len(heard) : m < n => MayPrecede(waited, heard[m], heard[n])
        /\ \A p \in 0..1 : \A n \in 1..Len(line[p]) :
             MayPrecede(waited, heard[m], line[p][n])

(* A de-escalation that the server has chosen may precede the escalations    *)
(* that came in since.                                                       *)
ChosenInv ==
    choice = {1} =>
        /\ line[1] # <<>>
        /\ \A n \in 1..Len(line[0]) : MayPrecede(waited, line[1][1], line[0][n])

WaitingInv ==
    \A c \in Call : \A i \in onTheWay[c] : Genuine(history, i) /\ i \in waited

NoticeInv == NoticeTypes /\ LineInv /\ HeardInv /\ ChosenInv /\ WaitingInv

LEMMA NoticeInvInit == NoticesInit => NoticeInv
<1> SUFFICES ASSUME NoticesInit PROVE NoticeInv
  OBVIOUS
<1>1. /\ line = [p \in 0..1 |-> <<>>] /\ choice = {} /\ heard = <<>>
      /\ onTheWay = [c \in Call |-> {}]
  BY DEF NoticesInit, Channel!Init
<1>2. (\A p \in 0..1 : Len(line[p]) = 0) /\ Len(heard) = 0
  BY <1>1
<1>3. NoticeTypes
  BY <1>1, EmptySeq DEF NoticeTypes
<1>4. LineInv /\ HeardInv
  BY <1>2 DEF LineInv, HeardInv
<1>5. ChosenInv /\ WaitingInv
  BY <1>1 DEF ChosenInv, WaitingInv
<1>6. QED
  BY <1>3, <1>4, <1>5 DEF NoticeInv

(* h2 is h1 or has one transition more. *)
OneMore(h1, h2) == h2 = h1 \/ \E e \in Transition : h2 = Append(h1, e)

LEMMA GenuineStays ==
    ASSUME NEW h1 \in Seq(Transition), NEW h2, OneMore(h1, h2), NEW i, Genuine(h1, i)
    PROVE  Genuine(h2, i)
<1>1. ASSUME NEW e \in Transition, h2 = Append(h1, e)
      PROVE  Genuine(h2, i)
  <2>1. /\ Len(h1) \in Nat /\ Len(h2) = Len(h1) + 1
        /\ \A k \in 1..Len(h1) : h2[k] = h1[k]
    BY <1>1, AppendProperties, LenProperties
  <2>2. QED
    BY <2>1 DEF Genuine
<1>2. QED
  BY <1>1 DEF OneMore

LEMMA MayPrecedeStays ==
    ASSUME NEW w1, NEW w2, w1 \subseteq w2, NEW i, NEW j, MayPrecede(w1, i, j)
    PROVE  MayPrecede(w2, i, j)
  BY DEF MayPrecede

(* Nothing moves on the bus: transitions are entered, notices begin to wait  *)
(* or are given up.                                                          *)
LEMMA NothingMoves ==
    ASSUME NoticeInv, history \in Seq(Transition), OneMore(history, history'),
           waited \subseteq waited', UNCHANGED <<line, choice, heard>>,
           WaitingInv'
    PROVE  NoticeInv'
<1>1. NoticeTypes'
  BY DEF NoticeInv, NoticeTypes
<1>2. \A i : Genuine(history, i) => Genuine(history', i)
  BY GenuineStays
<1>3. \A i, j : MayPrecede(waited, i, j) => MayPrecede(waited', i, j)
  BY MayPrecedeStays
<1>4. LineInv'
  BY <1>2, <1>3 DEF NoticeInv, LineInv
<1>5. HeardInv'
  BY <1>2, <1>3 DEF NoticeInv, HeardInv
<1>6. ChosenInv'
  BY <1>3 DEF NoticeInv, ChosenInv
<1>7. QED
  BY <1>1, <1>4, <1>5, <1>6 DEF NoticeInv

(* A notice enters its line, at once or after it waited. *)
LEMMA NoticeArrives ==
    ASSUME NoticeInv, history \in Seq(Transition), OneMore(history, history'),
           NEW i \in Notice, Channel!Arrive(i), UNCHANGED <<waited, heard>>,
           Genuine(history', i), i \in waited \/ i[1] > Len(history),
           WaitingInv'
    PROVE  NoticeInv'
<1>1. PICK q \in 0..1 : q = i[2]
  BY DEF Notice
<1>2. /\ line \in [0..1 -> Seq(Notice)]
      /\ line' = [line EXCEPT ![q] = Append(@, i)]
      /\ choice' = choice
  BY <1>1 DEF Channel!Arrive, NoticeInv, NoticeTypes
<1>3. /\ \A p \in 0..1 : p # q => line'[p] = line[p]
      /\ line'[q] \in Seq(Notice)
      /\ Len(line[q]) \in Nat
      /\ Len(line'[q]) = Len(line[q]) + 1
      /\ \A n \in 1..Len(line[q]) : line'[q][n] = line[q][n]
      /\ line'[q][Len(line[q]) + 1] = i
  BY <1>2, AppendProperties, LenProperties
<1>4. ASSUME NEW p \in 0..1, NEW n \in 1..Len(line'[p])
      PROVE  \/ n \in 1..Len(line[p]) /\ line'[p][n] = line[p][n]
             \/ p = q /\ n = Len(line[q]) + 1 /\ line'[p][n] = i
  BY <1>3
<1>5. NoticeTypes'
  BY <1>2, <1>3 DEF NoticeInv, NoticeTypes
<1>6. \A j : Genuine(history, j) => Genuine(history', j) /\ MayPrecede(waited', j, i)
  <2>1. \A j : Genuine(history, j) => Genuine(history', j)
    BY GenuineStays
  <2>2. ASSUME NEW j, Genuine(history, j) PROVE MayPrecede(waited', j, i)
    BY <2>2, LenProperties DEF Genuine, MayPrecede, Notice
  <2>3. QED
    BY <2>1, <2>2
<1>7. \A j, k : MayPrecede(waited, j, k) => MayPrecede(waited', j, k)
  OBVIOUS
<1>8. ASSUME NEW p \in 0..1, NEW n \in 1..Len(line'[p])
      PROVE  /\ Genuine(history', line'[p][n]) /\ line'[p][n][2] = p
             /\ \A m \in 1..Len(line'[p]) : m < n =>
                  MayPrecede(waited', line'[p][m], line'[p][n])
  <2>1. CASE n \in 1..Len(line[p]) /\ line'[p][n] = line[p][n]
    <3>1. Genuine(history', line'[p][n]) /\ line'[p][n][2] = p
      BY <1>6, <2>1 DEF NoticeInv, LineInv
    <3>2. ASSUME NEW m \in 1..Len(line'[p]), m < n
          PROVE  MayPrecede(waited', line'[p][m], line'[p][n])
      <4>1. m \in 1..Len(line[p])
        BY <1>2, <2>1, <3>2, LenProperties
      <4>2. line'[p][m] = line[p][m]
        BY <1>3, <4>1
      <4>3. QED
        BY <1>7, <2>1, <3>2, <4>1, <4>2 DEF NoticeInv, LineInv
    <3>3. QED
      BY <3>1, <3>2
  <2>2. CASE p = q /\ n = Len(line[q]) + 1 /\ line'[p][n] = i
    <3>1. ASSUME NEW m \in 1..Len(line'[p]), m < n
          PROVE  MayPrecede(waited', line'[p][m], line'[p][n])
      <4>1. m \in 1..Len(line[p])
        BY <1>3, <2>2, <3>1
      <4>2. line'[p][m] = line[p][m] /\ Genuine(history, line[p][m])
        BY <1>3, <2>2, <4>1 DEF NoticeInv, LineInv
      <4>3. QED
        BY <1>6, <2>2, <4>2
    <3>2. QED
      BY <1>1, <2>2, <3>1
  <2>3. QED
    BY <1>4, <2>1, <2>2
<1>9. ASSUME NEW m \in 1..Len(heard')
      PROVE  /\ Genuine(history', heard'[m])
             /\ \A n \in 1..Len(heard') : m < n => MayPrecede(waited', heard'[m], heard'[n])
             /\ \A p \in 0..1 : \A n \in 1..Len(line'[p]) :
                  MayPrecede(waited', heard'[m], line'[p][n])
  <2>1. Genuine(history, heard[m]) /\ Genuine(history', heard[m])
    BY <1>6 DEF NoticeInv, HeardInv
  <2>2. \A n \in 1..Len(heard') : m < n => MayPrecede(waited', heard'[m], heard'[n])
    BY <1>7 DEF NoticeInv, HeardInv
  <2>3. ASSUME NEW p \in 0..1, NEW n \in 1..Len(line'[p])
        PROVE  MayPrecede(waited', heard'[m], line'[p][n])
    <3>1. CASE n \in 1..Len(line[p]) /\ line'[p][n] = line[p][n]
      BY <1>7, <3>1 DEF NoticeInv, HeardInv
    <3>2. CASE line'[p][n] = i
      BY <1>6, <2>1, <3>2
    <3>3. QED
      BY <1>4, <3>1, <3>2
  <2>4. QED
    BY <2>1, <2>2, <2>3
<1>10. ChosenInv'
  <2> SUFFICES ASSUME choice' = {1}
               PROVE  /\ line'[1] # <<>>
                      /\ \A n \in 1..Len(line'[0]) : MayPrecede(waited', line'[1][1], line'[0][n])
    BY DEF ChosenInv
  <2>1. /\ line[1] # <<>>
        /\ \A n \in 1..Len(line[0]) : MayPrecede(waited, line[1][1], line[0][n])
    BY <1>2 DEF NoticeInv, ChosenInv
  <2>2. 1 \in 1..Len(line[1]) /\ line'[1][1] = line[1][1]
    <3>1. 1 \in 1..Len(line[1])
      BY <1>2, <2>1, EmptySeq, LenProperties
    <3>2. QED
      BY <1>3, <3>1
  <2>3. line'[1] # <<>>
    BY <1>3, <2>1, EmptySeq
  <2>4. ASSUME NEW n \in 1..Len(line'[0]) PROVE MayPrecede(waited', line'[1][1], line'[0][n])
    <3>1. Genuine(history, line[1][1])
      BY <2>2 DEF NoticeInv, LineInv
    <3>2. CASE n \in 1..Len(line[0]) /\ line'[0][n] = line[0][n]
      BY <1>7, <2>1, <2>2, <3>2
    <3>3. CASE line'[0][n] = i
      BY <1>6, <2>2, <3>1, <3>3
    <3>4. QED
      BY <1>4, <3>2, <3>3
  <2>5. QED
    BY <2>3, <2>4
<1>11. QED
  BY <1>5, <1>8, <1>9, <1>10 DEF NoticeInv, LineInv, HeardInv

(* The head of the chosen line is heard: before what is behind it in its     *)
(* line, and before the other line as its choice allows.                     *)
LEMMA NoticeDelivered ==
    ASSUME NoticeInv, NEW p \in 0..1, Deliver(p)
    PROVE  NoticeInv'
<1>1. /\ choice = {p} /\ choice' = {}
      /\ line[p] # <<>>
      /\ line \in [0..1 -> Seq(Notice)]
      /\ line' = [line EXCEPT ![p] = Tail(@)]
      /\ heard \in Seq(Notice)
      /\ heard' = Append(heard, Head(line[p]))
      /\ UNCHANGED <<history, onTheWay, waited>>
  BY DEF Deliver, Channel!Serve, NoticeInv, NoticeTypes, vars
<1>2. PICK h \in Notice : h = Head(line[p])
  BY <1>1, HeadTailProperties
<1>3. /\ \A q \in 0..1 : q # p => line'[q] = line[q]
      /\ line'[p] \in Seq(Notice)
      /\ Len(line[p]) \in Nat \ {0}
      /\ Len(line'[p]) = Len(line[p]) - 1
      /\ \A n \in 1..Len(line'[p]) : line'[p][n] = line[p][n + 1]
      /\ h = line[p][1]
  BY <1>1, <1>2, HeadTailProperties, EmptySeq
<1>4. /\ heard' \in Seq(Notice)
      /\ Len(heard) \in Nat /\ Len(heard') = Len(heard) + 1
      /\ \A n \in 1..Len(heard) : heard'[n] = heard[n]
      /\ heard'[Len(heard) + 1] = h
  BY <1>1, <1>2, AppendProperties, LenProperties
<1>5. NoticeTypes'
  BY <1>1, <1>3, <1>4 DEF NoticeTypes
<1>6. \A q \in 0..1 : \A n \in 1..Len(line'[q]) :
        \E k \in 1..Len(line[q]) :
          /\ line'[q][n] = line[q][k]
          /\ k = IF q = p THEN n + 1 ELSE n
  <2> SUFFICES ASSUME NEW q \in 0..1, NEW n \in 1..Len(line'[q])
               PROVE  \E k \in 1..Len(line[q]) :
                        /\ line'[q][n] = line[q][k]
                        /\ k = IF q = p THEN n + 1 ELSE n
    OBVIOUS
  <2>1. CASE q = p
    <3>1. n + 1 \in 1..Len(line[p]) /\ line'[q][n] = line[q][n + 1]
      BY <1>3, <2>1
    <3>2. QED
      BY <2>1, <3>1
  <2>2. CASE q # p
    BY <1>3, <2>2
  <2>3. QED
    BY <2>1, <2>2
<1>7. LineInv'
  <2> SUFFICES ASSUME NEW q \in 0..1, NEW n \in 1..Len(line'[q])
               PROVE  /\ Genuine(history', line'[q][n]) /\ line'[q][n][2] = q
                      /\ \A m \in 1..Len(line'[q]) : m < n =>
                           MayPrecede(waited', line'[q][m], line'[q][n])
    BY DEF LineInv
  <2>1. PICK k \in 1..Len(line[q]) :
          line'[q][n] = line[q][k] /\ k = IF q = p THEN n + 1 ELSE n
    BY <1>6
  <2>2. Genuine(history', line'[q][n]) /\ line'[q][n][2] = q
    BY <1>1, <2>1 DEF NoticeInv, LineInv
  <2>3. ASSUME NEW m \in 1..Len(line'[q]), m < n
        PROVE  MayPrecede(waited', line'[q][m], line'[q][n])
    <3>1. PICK l \in 1..Len(line[q]) :
            line'[q][m] = line[q][l] /\ l = IF q = p THEN m + 1 ELSE m
      BY <1>6
    <3>2. l < k
      <4>1. m \in Int /\ n \in Int
        BY <1>1, <1>3, LenProperties
      <4>2. QED
        BY <2>1, <2>3, <3>1, <4>1
    <3>3. QED
      BY <1>1, <2>1, <3>1, <3>2 DEF NoticeInv, LineInv
  <2>4. QED
    BY <2>2, <2>3
<1>8. Genuine(history', h) /\ h[2] = p
  BY <1>1, <1>3 DEF NoticeInv, LineInv
<1>9. \A q \in 0..1 : \A n \in 1..Len(line'[q]) : MayPrecede(waited', h, line'[q][n])
  <2> SUFFICES ASSUME NEW q \in 0..1, NEW n \in 1..Len(line'[q])
               PROVE  MayPrecede(waited', h, line'[q][n])
    OBVIOUS
  <2>1. PICK k \in 1..Len(line[q]) :
          line'[q][n] = line[q][k] /\ k = IF q = p THEN n + 1 ELSE n
    BY <1>6
  <2>2. CASE q = p
    <3>1. 1 \in 1..Len(line[p]) /\ 1 < k
      BY <1>3, <2>1, <2>2
    <3>2. QED
      BY <1>1, <1>3, <2>1, <2>2, <3>1 DEF NoticeInv, LineInv
  <2>3. CASE p = 0 /\ q = 1
    <3>1. line'[q][n][2] = 1
      BY <2>1, <2>3 DEF NoticeInv, LineInv
    <3>2. QED
      BY <1>8, <2>3, <3>1 DEF MayPrecede
  <2>4. CASE p = 1 /\ q = 0
    BY <1>1, <1>3, <2>1, <2>4 DEF NoticeInv, ChosenInv
  <2>5. QED
    BY <2>2, <2>3, <2>4
<1>10. HeardInv'
  <2> SUFFICES ASSUME NEW m \in 1..Len(heard')
               PROVE  /\ Genuine(history', heard'[m])
                      /\ \A n \in 1..Len(heard') : m < n =>
                           MayPrecede(waited', heard'[m], heard'[n])
                      /\ \A q \in 0..1 : \A n \in 1..Len(line'[q]) :
                           MayPrecede(waited', heard'[m], line'[q][n])
    BY DEF HeardInv
  <2>1. CASE m = Len(heard) + 1
    BY <1>4, <1>8, <1>9, <2>1
  <2>2. CASE m \in 1..Len(heard)
    <3>1. Genuine(history', heard'[m])
      BY <1>1, <1>4, <2>2 DEF NoticeInv, HeardInv
    <3>2. ASSUME NEW n \in 1..Len(heard'), m < n
          PROVE  MayPrecede(waited', heard'[m], heard'[n])
      <4>1. CASE n \in 1..Len(heard)
        BY <1>1, <1>4, <2>2, <3>2, <4>1 DEF NoticeInv, HeardInv
      <4>2. CASE n = Len(heard) + 1
        <5>1. 1 \in 1..Len(line[p])
          BY <1>3
        <5>2. QED
          BY <1>1, <1>3, <1>4, <2>2, <4>2, <5>1 DEF NoticeInv, HeardInv
      <4>3. QED
        BY <1>4, <4>1, <4>2
    <3>3. ASSUME NEW q \in 0..1, NEW n \in 1..Len(line'[q])
          PROVE  MayPrecede(waited', heard'[m], line'[q][n])
      <4>1. PICK k \in 1..Len(line[q]) : line'[q][n] = line[q][k]
        BY <1>6
      <4>2. QED
        BY <1>1, <1>4, <2>2, <4>1 DEF NoticeInv, HeardInv
    <3>4. QED
      BY <3>1, <3>2, <3>3
  <2>3. QED
    BY <1>4, <2>1, <2>2
<1>11. ChosenInv'
  <2>1. choice' # {1}
    BY <1>1
  <2>2. QED
    BY <2>1 DEF ChosenInv
<1>12. WaitingInv'
  BY <1>1 DEF NoticeInv, WaitingInv
<1>13. QED
  BY <1>5, <1>7, <1>10, <1>11, <1>12 DEF NoticeInv

(* The server chooses the second line only when the first is empty. *)
LEMMA ServerChooses ==
    ASSUME NoticeInv, BusStep
    PROVE  NoticeInv'
<1>1. UNCHANGED <<line, heard, history, onTheWay, waited>>
  BY DEF BusStep, Channel!Choose, Channel!Complete, vars
<1>2. choice' = choice \/ \E p \in 0..1 : Channel!IsBest(p) /\ choice' = {p}
  BY DEF BusStep, Channel!Choose, Channel!Complete, Channel!Chooses
<1>3. ChosenInv'
  <2> SUFFICES ASSUME choice' = {1}
               PROVE  /\ line[1] # <<>>
                      /\ \A n \in 1..Len(line[0]) : MayPrecede(waited, line[1][1], line[0][n])
    BY <1>1 DEF ChosenInv
  <2>1. CASE choice' = choice
    BY <2>1 DEF NoticeInv, ChosenInv
  <2>2. CASE Channel!IsBest(1)
    <3>1. line[1] # <<>> /\ line[0] = <<>>
      BY <2>2 DEF Channel!IsBest
    <3>2. Len(line[0]) = 0
      BY <3>1, EmptySeq
    <3>3. QED
      BY <3>1, <3>2
  <2>3. QED
    BY <1>2, <2>1, <2>2
<1>4. NoticeTypes' /\ LineInv' /\ HeardInv' /\ WaitingInv'
  BY <1>1 DEF NoticeInv, NoticeTypes, LineInv, HeardInv, WaitingInv
<1>5. QED
  BY <1>3, <1>4 DEF NoticeInv

(* The notice of the transition that a step has made is the last one. *)
LEMMA Publishes ==
    ASSUME NoticeInv, history \in Seq(Transition), OneMore(history, history'),
           NEW c \in Call, Publish(c), UNCHANGED heard
    PROVE  NoticeInv'
<1>g. \A i : Genuine(history, i) => Genuine(history', i)
  BY GenuineStays
<1>1. CASE UNCHANGED <<channel, onTheWay, waited>>
  <2>1. WaitingInv'
    BY <1>1, <1>g DEF NoticeInv, WaitingInv
  <2>2. QED
    BY <1>1, <2>1, NothingMoves DEF channel
<1>2. CASE history' # history
  <2>1. PICK e \in Transition : history' = Append(history, e)
    BY <1>2 DEF OneMore
  <2>2. /\ Len(history) \in Nat /\ Len(history') = Len(history) + 1
        /\ history'[Len(history')] = e
    BY <2>1, AppendProperties, LenProperties
  <2>3. PICK i : i = NoticeOf(history')
    OBVIOUS
  <2>4. i \in Notice /\ i[1] = Len(history') /\ i[2] = PriorityOf(e)
    BY <2>2, <2>3 DEF NoticeOf, Notice, PriorityOf
  <2>5. Genuine(history', i) /\ i[1] > Len(history)
    BY <2>2, <2>4 DEF Genuine
  <2>6. CASE Channel!Arrive(i) /\ UNCHANGED <<onTheWay, waited>>
    <3>1. WaitingInv'
      BY <1>g, <2>6 DEF NoticeInv, WaitingInv
    <3>2. QED
      BY <2>4, <2>5, <2>6, <3>1, NoticeArrives
  <2>7. CASE /\ onTheWay' = [onTheWay EXCEPT ![c] = {i}]
             /\ waited' = waited \cup {i}
             /\ UNCHANGED channel
    <3>1. \A d \in Call : onTheWay'[d] \subseteq onTheWay[d] \cup {i}
      BY <2>7
    <3>2. WaitingInv'
      BY <1>g, <2>5, <2>7, <3>1 DEF NoticeInv, WaitingInv
    <3>3. QED
      BY <2>7, <3>2, NothingMoves DEF channel
  <2>8. QED
    BY <1>1, <1>2, <2>3, <2>6, <2>7 DEF Publish
<1>3. QED
  BY <1>1, <1>2 DEF Publish

LEMMA NoticeInvNext ==
    ModeInv /\ NoticeInv /\ [NoticesNext]_<<vars, busVars>> => NoticeInv'
<1> SUFFICES ASSUME ModeInv, NoticeInv, [NoticesNext]_<<vars, busVars>> PROVE NoticeInv'
  OBVIOUS
<1>h. history \in Seq(Transition)
  BY DEF ModeInv, Types, Transition
<1>n. OneMore(history, history')
  <2>1. [Next]_vars
    BY NoticesStep
  <2>2. QED
    BY <2>1, HistoryGrows DEF OneMore
<1>1. ASSUME NEW c \in Call, CallStep(c) \/ ResumeStep(c) PROVE NoticeInv'
  BY <1>1, <1>h, <1>n, Publishes DEF CallStep, ResumeStep
<1>2. ASSUME NEW c \in Call, NEW i \in onTheWay[c], FindRoom(c, i) PROVE NoticeInv'
  <2>1. /\ Channel!Arrive(i)
        /\ onTheWay' = [onTheWay EXCEPT ![c] = {}]
        /\ UNCHANGED <<history, waited, heard>>
    BY <1>2 DEF FindRoom, vars
  <2>2. Genuine(history, i) /\ i \in waited /\ i \in Notice
    BY DEF NoticeInv, WaitingInv, Genuine
  <2>3. WaitingInv'
    <3>1. \A d \in Call : onTheWay'[d] \subseteq onTheWay[d]
      BY <2>1
    <3>2. QED
      BY <2>1, <3>1 DEF NoticeInv, WaitingInv
  <2>4. QED
    BY <1>h, <1>n, <2>1, <2>2, <2>3, NoticeArrives
<1>3. ASSUME NEW c \in Call, RaiseStep(c) PROVE NoticeInv'
  <2>1. /\ onTheWay' = [onTheWay EXCEPT ![c] = {}]
        /\ UNCHANGED <<line, choice, waited, heard>>
    BY <1>3 DEF RaiseStep, channel
  <2>2. \A d \in Call : onTheWay'[d] \subseteq onTheWay[d]
    BY <2>1
  <2>3. \A i : Genuine(history, i) => Genuine(history', i)
    BY <1>h, <1>n, GenuineStays
  <2>4. WaitingInv'
    BY <2>1, <2>2, <2>3 DEF NoticeInv, WaitingInv
  <2>5. QED
    BY <1>h, <1>n, <2>1, <2>4, NothingMoves
<1>4. CASE ResetStep \/ UNCHANGED <<vars, busVars>>
  <2>1. UNCHANGED <<line, choice, heard, history, onTheWay, waited>>
    BY <1>4 DEF ResetStep, ResetToNormal, busVars, channel, vars
  <2>2. QED
    BY <2>1 DEF NoticeInv, NoticeTypes, LineInv, HeardInv, ChosenInv, WaitingInv
<1>5. ASSUME NEW p \in 0..1, Deliver(p) PROVE NoticeInv'
  BY <1>5, NoticeDelivered
<1>6. CASE BusStep
  BY <1>6, ServerChooses
<1>7. QED
  BY <1>1, <1>2, <1>3, <1>4, <1>5, <1>6 DEF NoticesNext

(* Subscribers hear of the transitions in their order, except that an        *)
(* escalation may overtake earlier de-escalations and a notice that found    *)
(* its queue full may come late: for any number of coroutines and calls and  *)
(* any capacity of the queues.                                               *)
THEOREM NoticesInOrder == NoticesSpec => []OnlyEscalationsOvertake
<1>1. ASSUME ModeInv, NoticeInv PROVE OnlyEscalationsOvertake
  <2>1. ASSUME NEW k \in 1..Len(heard)
        PROVE  /\ history[heard[k][1]].to > history[heard[k][1]].from => heard[k][2] = 0
               /\ heard[k][2] = 0 => history[heard[k][1]].to > history[heard[k][1]].from
    BY <1>1 DEF NoticeInv, HeardInv, Genuine, PriorityOf
  <2>2. ASSUME NEW m \in 1..Len(heard), NEW n \in 1..Len(heard), m < n,
               heard[m][1] > heard[n][1]
        PROVE  (heard[m][2] = 0 /\ heard[n][2] = 1) \/ heard[n] \in waited
    BY <1>1, <2>2 DEF NoticeInv, HeardInv, MayPrecede
  <2>3. QED
    BY <2>1, <2>2 DEF OnlyEscalationsOvertake
<1>2. ModeInv /\ NoticeInv => OnlyEscalationsOvertake
  BY <1>1
<1>3. ModeInv /\ NoticeInv /\ [NoticesNext]_<<vars, busVars>> => NoticeInv'
  BY NoticeInvNext
<1>4. NoticesSpec => []ModeInv
  BY NoticesAreOfSafeMode, ModeInvHolds, PTL
<1>5. QED
  BY <1>2, <1>3, <1>4, NoticeInvInit, PTL DEF NoticesSpec

=============================================================================
