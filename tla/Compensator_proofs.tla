-------------------------- MODULE Compensator_proofs --------------------------
(***************************************************************************)
(* Proofs about the registry of external operations, its file and the      *)
(* compensator that works on it, for any number of operations, requests,   *)
(* retries, crashes and failed appends: first the registry alone, for      *)
(* whoever calls it, then the compensator and the registry under it.       *)
(***************************************************************************)
EXTENDS Compensator, SequenceTheorems, WellFoundedInduction, TLAPS

USE RegistryConstants DEF RegistryConstants

(* A nonempty set of natural numbers has a least element. *)
LEMMA LeastNumber ==
    ASSUME NEW S, S \subseteq Nat, S # {}
    PROVE  \E m \in S : \A k \in S : m <= k
<1>1. PICK m \in S : \A k \in S : <<k, m>> \notin OpToRel(<, Nat)
  BY NatLessThanWellFounded, WFMin
<1>2. \A k \in S : ~(k < m)
  BY <1>1 DEF OpToRel
<1>3. QED
  BY <1>2

(* A nonempty set of numbers up to n has a greatest element. *)
LEMMA GreatestUpTo ==
    ASSUME NEW n \in Nat, NEW S, S \subseteq 1..n, S # {}
    PROVE  \E m \in S : \A k \in S : k <= m
<1> DEFINE D == {d \in Nat : \E k \in S : d = n - k}
<1>1. \A k \in S : n - k \in D
  OBVIOUS
<1>2. D \subseteq Nat /\ D # {}
  BY <1>1
<1> HIDE DEF D
<1>3. \E d \in D : \A e \in D : d <= e
  BY <1>2, LeastNumber
<1>4. PICK d \in D : \A e \in D : d <= e
  BY <1>3
<1>5. PICK m \in S : d = n - m
  BY DEF D
<1>6. ASSUME NEW k \in S PROVE k <= m
  <2>1. n - m <= n - k
    BY <1>1, <1>4, <1>5
  <2>2. QED
    BY <2>1
<1>7. QED
  BY <1>6

(* The line that _load() leaves in force for a token: the last one it reads. *)
IsLast(f, t, n) ==
    /\ n \in Readable(f)
    /\ f[n].token = t
    /\ \A m \in Readable(f) : f[m].token = t => m <= n

Tokens(f) == {f[n].token : n \in Readable(f)}

LEMMA ReplayDef ==
    ASSUME NEW f
    PROVE  /\ DOMAIN Replay(f) = Tokens(f)
           /\ Replay(f) = [t \in Tokens(f) |-> Replay(f)[t]]
           /\ \A t \in Tokens(f) : Replay(f)[t] = f[CHOOSE n \in Readable(f) :
                /\ f[n].token = t
                /\ \A m \in Readable(f) : f[m].token = t => m <= n].state
  BY DEF Replay, Tokens

(* Each token that is read has exactly one such line, and its state is what  *)
(* _load() gives the token.                                                  *)
LEMMA LastLine ==
    ASSUME NEW f \in Seq(Line \cup {Bad}), NEW t \in Tokens(f)
    PROVE  /\ \E n \in Readable(f) : IsLast(f, t, n)
           /\ \A n \in Readable(f) : IsLast(f, t, n) => Replay(f)[t] = f[n].state
<1> DEFINE S == {n \in Readable(f) : f[n].token = t}
<1>1. Len(f) \in Nat /\ Readable(f) \subseteq 1..Len(f)
  BY LenProperties DEF Readable
<1>2. S # {} /\ S \subseteq 1..Len(f)
  BY <1>1 DEF Tokens
<1>3. PICK m \in S : \A k \in S : k <= m
  BY <1>1, <1>2, GreatestUpTo
<1>4. IsLast(f, t, m)
  BY <1>3 DEF IsLast
<1>5. \A n \in Readable(f) : IsLast(f, t, n) => n = m
  BY <1>1, <1>4 DEF IsLast
<1>6. (CHOOSE n \in Readable(f) :
         /\ f[n].token = t
         /\ \A k \in Readable(f) : f[k].token = t => k <= n) = m
  BY <1>4, <1>5 DEF IsLast
<1>7. Replay(f)[t] = f[m].state
  BY <1>6, ReplayDef
<1>8. QED
  BY <1>4, <1>5, <1>7 DEF IsLast

(* Replaying one more line is replacing the state of its token. *)
LEMMA ReplayAppend ==
    ASSUME NEW f \in Seq(Line), NEW l \in Line
    PROVE  Replay(Append(f, l)) =
             [t \in DOMAIN Replay(f) \cup {l.token} |->
                IF t = l.token THEN l.state ELSE Replay(f)[t]]
<1> DEFINE g == Append(f, l)
           N == Len(f)
<1>1. /\ g \in Seq(Line) /\ Len(g) = N + 1 /\ N \in Nat
      /\ \A n \in 1..N : g[n] = f[n] /\ f[n] \in Line
      /\ g[N + 1] = l
  BY AppendProperties, LenProperties, ElementOfSeq
<1>2. f \in Seq(Line \cup {Bad}) /\ g \in Seq(Line \cup {Bad})
  BY <1>1, SeqMonotonic
<1> HIDE DEF g, N
<1>3. Readable(f) = 1..N
  BY <1>1 DEF Readable, N
<1>4. Readable(g) = 1..(N + 1)
  <2>1. \A n \in 1..(N + 1) : g[n] # Bad
    BY <1>1
  <2>2. QED
    BY <1>1, <2>1 DEF Readable
<1>5. Tokens(g) = Tokens(f) \cup {l.token}
  BY <1>1, <1>3, <1>4 DEF Tokens
<1>6. Replay(g)[l.token] = l.state
  <2>1. IsLast(g, l.token, N + 1)
    BY <1>1, <1>4 DEF IsLast
  <2>2. QED
    BY <1>1, <1>2, <1>4, <1>5, <2>1, LastLine
<1>7. ASSUME NEW t \in Tokens(f), t # l.token
      PROVE  Replay(g)[t] = Replay(f)[t]
  <2>1. PICK n \in Readable(f) : IsLast(f, t, n)
    BY <1>2, LastLine
  <2>2. IsLast(g, t, n) /\ n \in Readable(g)
    BY <1>1, <1>3, <1>4, <1>7, <2>1 DEF IsLast
  <2>3. Replay(f)[t] = f[n].state /\ Replay(g)[t] = g[n].state
    BY <1>2, <1>5, <2>1, <2>2, LastLine
  <2>4. QED
    BY <1>1, <1>3, <2>1, <2>3
<1>8. Replay(g) = [t \in Tokens(f) \cup {l.token} |->
                     IF t = l.token THEN l.state ELSE Replay(f)[t]]
  BY <1>5, <1>6, <1>7, ReplayDef
<1>9. QED
  BY <1>8, ReplayDef DEF g

----------------------------------------------------------------------------

(* The types of the registry. *)
LEMMA WrittenType ==
    ASSUME RegTypeOK, NEW l \in Line \cup {Bad}
    PROVE  /\ Written(l) \in Seq(Line \cup {Bad})
           /\ Written(l) # <<>>
<1>1. Len(disk) \in Nat /\ (ragged => Len(disk) \in 1..Len(disk))
  BY EmptySeq, LenProperties DEF RegTypeOK
<1>2. CASE ragged
  <2>1. /\ [disk EXCEPT ![Len(disk)] = Bad] \in Seq(Line \cup {Bad})
        /\ Len([disk EXCEPT ![Len(disk)] = Bad]) = Len(disk)
    BY <1>1, <1>2, ExceptSeq DEF RegTypeOK
  <2>2. Len(disk) # 0
    BY <1>1, <1>2
  <2>3. QED
    BY <1>2, <2>1, <2>2, EmptySeq DEF Written
<1>3. CASE ~ragged
  BY <1>3, AppendProperties DEF Written, RegTypeOK
<1>4. QED
  BY <1>2, <1>3

LEMMA ReplayType ==
    ASSUME NEW f \in Seq(Line \cup {Bad})
    PROVE  /\ DOMAIN Replay(f) \subseteq Token
           /\ \A t \in DOMAIN Replay(f) : Replay(f)[t] \in State
<1>1. \A n \in Readable(f) : f[n] \in Line
  BY ElementOfSeq DEF Readable
<1>2. Tokens(f) \subseteq Token
  BY <1>1 DEF Tokens, Line
<1>3. ASSUME NEW t \in Tokens(f) PROVE Replay(f)[t] \in State
  <2>1. PICK n \in Readable(f) : IsLast(f, t, n)
    BY LastLine
  <2>2. QED
    BY <1>1, <2>1, LastLine DEF Line
<1>4. QED
  BY <1>2, <1>3, ReplayDef

(* Persist() as one step: a state for a token, and a line or a failed append. *)
LEMMA PersistType ==
    ASSUME RegTypeOK, NEW t \in Token, NEW s \in State, Persist(t, s), used' \subseteq Token
    PROVE  RegTypeOK'
<1>1. [token |-> t, state |-> s] \in Line
  BY DEF Line
<1>2. DOMAIN records' \subseteq Token /\ \A u \in DOMAIN records' : records'[u] \in State
  BY DEF Persist, With, RegTypeOK
<1>3. past' \in [Token -> SUBSET State]
  BY DEF Persist, RegTypeOK
<1>4. disk' \in Seq(Line \cup {Bad}) /\ ragged' \in BOOLEAN /\ (ragged' => disk' # <<>>)
  <2>1. CASE disk' = Written([token |-> t, state |-> s]) /\ ragged' = FALSE
    BY <1>1, <2>1, WrittenType
  <2>2. CASE UNCHANGED <<disk, ragged>>
    BY <2>2 DEF RegTypeOK
  <2>3. QED
    BY <2>1, <2>2 DEF Persist
<1>5. troubles' \in Nat /\ file' \in {"whole", "cut", "lossy"} /\ up' \in BOOLEAN
  BY DEF Persist, RegTypeOK
<1>6. QED
  BY <1>2, <1>3, <1>4, <1>5 DEF RegTypeOK

LEMMA RegTypeInit == RegInit => RegTypeOK
  BY EmptySeq DEF RegInit, RegTypeOK

LEMMA RegTypeNext == RegTypeOK /\ [RegNext]_regVars => RegTypeOK'
<1> SUFFICES ASSUME RegTypeOK, [RegNext]_regVars PROVE RegTypeOK'
  OBVIOUS
<1>1. ASSUME NEW t \in Token, Register(t) PROVE RegTypeOK'
  BY <1>1, PersistType DEF Register, State, RegTypeOK
<1>2. ASSUME NEW t \in Token, NEW s \in State, Mark(t, s) PROVE RegTypeOK'
  BY <1>2, PersistType DEF Mark, RegTypeOK
<1>3. ASSUME NEW t \in Token, NEW s \in State, CrashInAppend(t, s) PROVE RegTypeOK'
  <2>1. [token |-> t, state |-> s] \in Line \cup {Bad}
    BY DEF Line
  <2>2. disk' \in Seq(Line \cup {Bad}) /\ disk' # <<>>
    BY <1>3, <2>1, WrittenType DEF CrashInAppend
  <2>3. past' \in [Token -> SUBSET State]
    BY <1>3 DEF CrashInAppend, RegTypeOK
  <2>4. DOMAIN records' = {} /\ up' = FALSE /\ ragged' = TRUE
    BY <1>3 DEF CrashInAppend
  <2>5. used' \subseteq Token /\ troubles' \in Nat
    BY <1>3 DEF CrashInAppend, RegTypeOK
  <2>6. file' \in {"whole", "cut", "lossy"}
    BY <1>3 DEF CrashInAppend, RegTypeOK
  <2>7. QED
    BY <2>2, <2>3, <2>4, <2>5, <2>6 DEF RegTypeOK
<1>4. CASE Crash
  <2>1. DOMAIN records' = {} /\ up' = FALSE
    BY <1>4 DEF Crash
  <2>2. troubles' \in Nat
    BY <1>4 DEF Crash, RegTypeOK
  <2>3. UNCHANGED <<disk, ragged, used, file, past>>
    BY <1>4 DEF Crash
  <2>4. QED
    BY <2>1, <2>2, <2>3 DEF RegTypeOK
<1>5. CASE Restart
  BY <1>5, ReplayType DEF Restart, RegTypeOK
<1>6. CASE UNCHANGED regVars
  BY <1>6 DEF regVars, RegTypeOK
<1>7. QED
  BY <1>1, <1>2, <1>3, <1>4, <1>5, <1>6 DEF RegNext

THEOREM RegTypeCorrect == RegSpec => []RegTypeOK
  BY RegTypeInit, RegTypeNext, PTL DEF RegSpec

----------------------------------------------------------------------------

(* While every append went through, the file has whole lines only, and they  *)
(* replay to what is in memory.                                              *)
WholeFile ==
    file = "whole" =>
        /\ disk \in Seq(Line)
        /\ ~ragged
        /\ records = [t \in DOMAIN records |-> records[t]]
        /\ up => Replay(disk) = records

LEMMA WholeInit == RegInit => WholeFile
<1> SUFFICES ASSUME RegInit PROVE WholeFile
  OBVIOUS
<1>1. disk = <<>> /\ disk \in Seq(Line) /\ Len(disk) = 0
  BY EmptySeq DEF RegInit
<1>2. Tokens(disk) = {}
  BY <1>1 DEF Tokens, Readable
<1>3. Replay(disk) = [t \in {} |-> Replay(disk)[t]]
  BY <1>2, ReplayDef
<1>4. QED
  BY <1>1, <1>3 DEF RegInit, WholeFile

LEMMA PersistWhole ==
    ASSUME RegTypeOK, WholeFile, NEW t \in Token, NEW s \in State, Persist(t, s)
    PROVE  WholeFile'
<1> SUFFICES ASSUME file' = "whole" PROVE WholeFile'
  BY DEF WholeFile
<1> DEFINE l == [token |-> t, state |-> s]
<1>1. l \in Line /\ l.token = t /\ l.state = s
  BY DEF Line
<1> HIDE DEF l
<1>2. disk' = Written(l) /\ ragged' = FALSE /\ file = "whole" /\ up
  BY DEF Persist, l
<1>3. disk' = Append(disk, l) /\ disk \in Seq(Line) /\ Replay(disk) = records
  BY <1>2 DEF Written, WholeFile
<1>4. disk' \in Seq(Line)
  BY <1>1, <1>3, AppendProperties
<1>5. Replay(Append(disk, l)) = [u \in DOMAIN Replay(disk) \cup {l.token} |->
                                   IF u = l.token THEN l.state ELSE Replay(disk)[u]]
  BY <1>1, <1>3, ReplayAppend
<1>6. records' = [u \in DOMAIN records \cup {t} |-> IF u = t THEN s ELSE records[u]]
  BY DEF Persist, With
<1>7. Replay(disk') = records'
  BY <1>1, <1>3, <1>5, <1>6
<1>8. records' = [u \in DOMAIN records' |-> records'[u]]
  BY <1>6
<1>9. QED
  BY <1>2, <1>4, <1>7, <1>8 DEF WholeFile

LEMMA WholeNext == RegTypeOK /\ WholeFile /\ [RegNext]_regVars => WholeFile'
<1> SUFFICES ASSUME RegTypeOK, WholeFile, [RegNext]_regVars PROVE WholeFile'
  OBVIOUS
<1>1. ASSUME NEW t \in Token, Register(t) PROVE WholeFile'
  BY <1>1, PersistWhole DEF Register, State
<1>2. ASSUME NEW t \in Token, NEW s \in State, Mark(t, s) PROVE WholeFile'
  BY <1>2, PersistWhole DEF Mark
<1>3. ASSUME NEW t \in Token, NEW s \in State, CrashInAppend(t, s) PROVE WholeFile'
  BY <1>3 DEF CrashInAppend, WholeFile
<1>4. CASE Crash
  BY <1>4 DEF Crash, WholeFile
<1>5. CASE Restart
  BY <1>5, ReplayDef DEF Restart, WholeFile
<1>6. CASE UNCHANGED regVars
  BY <1>6 DEF regVars, WholeFile
<1>7. QED
  BY <1>1, <1>2, <1>3, <1>4, <1>5, <1>6 DEF RegNext

(* As long as no append failed or was cut short, a restart finds exactly     *)
(* what the last process knew, after any number of crashes.                  *)
THEOREM FileReplaysToMemory == RegSpec => []ReplayIsMemory
<1>1. WholeFile => ReplayIsMemory
  BY DEF WholeFile, ReplayIsMemory
<1>2. QED
  BY <1>1, RegTypeInit, RegTypeNext, WholeInit, WholeNext, PTL DEF RegSpec

----------------------------------------------------------------------------

(* Every whole line of the file records something that happened. *)
LinesPast ==
    \A n \in 1..Len(disk) : disk[n] # Bad =>
        disk[n].token \in used /\ disk[n].state \in past[disk[n].token]

LEMMA WrittenPast ==
    ASSUME RegTypeOK, LinesPast, NEW l \in Line \cup {Bad}, NEW t \in Token, NEW s \in State,
           l = Bad \/ l = [token |-> t, state |-> s], disk' = Written(l),
           used \subseteq used', t \in used', past' = [past EXCEPT ![t] = @ \cup {s}]
    PROVE  LinesPast'
<1> SUFFICES ASSUME NEW n \in 1..Len(disk'), disk'[n] # Bad
             PROVE  disk'[n].token \in used' /\ disk'[n].state \in past'[disk'[n].token]
  BY DEF LinesPast
<1>1. Len(disk) \in Nat /\ (ragged => Len(disk) \in 1..Len(disk))
  BY EmptySeq, LenProperties DEF RegTypeOK
<1>2. \/ n \in 1..Len(disk) /\ disk'[n] = disk[n]
      \/ disk'[n] = l
  <2>1. CASE ragged
    <3>1. /\ Len(disk') = Len(disk)
          /\ \A m \in 1..Len(disk) : disk'[m] = IF m = Len(disk) THEN Bad ELSE disk[m]
      BY <1>1, <2>1, ExceptSeq DEF Written, RegTypeOK
    <3>2. QED
      BY <3>1
  <2>2. CASE ~ragged
    <3>1. /\ Len(disk') = Len(disk) + 1
          /\ \A m \in 1..Len(disk) : disk'[m] = disk[m]
          /\ disk'[Len(disk) + 1] = l
      BY <2>2, AppendProperties DEF Written, RegTypeOK
    <3>2. QED
      BY <1>1, <3>1
  <2>3. QED
    BY <2>1, <2>2
<1>3. \A u \in Token : past[u] \subseteq past'[u]
  BY DEF RegTypeOK
<1>4. CASE n \in 1..Len(disk) /\ disk'[n] = disk[n]
  <2>1. disk[n] \in Line
    BY <1>4, ElementOfSeq DEF RegTypeOK
  <2>2. disk[n].token \in Token
    BY <2>1 DEF Line
  <2>3. QED
    BY <1>3, <1>4, <2>2 DEF LinesPast
<1>5. CASE disk'[n] = l
  <2>1. disk'[n] = [token |-> t, state |-> s]
    BY <1>5
  <2>2. disk'[n].token = t /\ disk'[n].state = s
    BY <2>1
  <2>3. QED
    BY <2>2 DEF RegTypeOK
<1>6. QED
  BY <1>2, <1>4, <1>5

LEMMA PersistPast ==
    ASSUME RegTypeOK, LinesPast, NEW t \in Token, NEW s \in State, Persist(t, s),
           used \subseteq used', t \in used'
    PROVE  LinesPast'
<1>1. CASE disk' = Written([token |-> t, state |-> s])
  <2>1. [token |-> t, state |-> s] \in Line
    BY DEF Line
  <2>2. QED
    BY <1>1, <2>1, WrittenPast DEF Persist
<1>2. CASE UNCHANGED disk
  <2>1. \A n \in 1..Len(disk) : disk[n] # Bad => disk[n].token \in Token
    BY ElementOfSeq DEF RegTypeOK, Line
  <2>2. \A u \in Token : past[u] \subseteq past'[u]
    BY DEF Persist, RegTypeOK
  <2>3. QED
    BY <1>2, <2>1, <2>2 DEF LinesPast
<1>3. QED
  BY <1>1, <1>2 DEF Persist

(* What is in memory was drawn, too. *)
KnownUsed == DOMAIN records \subseteq used

LEMMA ReplayedUsed ==
    ASSUME RegTypeOK, LinesPast
    PROVE  \A t \in DOMAIN Replay(disk) : t \in used /\ Replay(disk)[t] \in past[t]
<1> SUFFICES ASSUME NEW t \in Tokens(disk) PROVE t \in used /\ Replay(disk)[t] \in past[t]
  BY ReplayDef
<1>1. PICK n \in Readable(disk) : IsLast(disk, t, n)
  BY LastLine DEF RegTypeOK
<1>2. n \in 1..Len(disk) /\ disk[n] # Bad
  BY DEF Readable
<1>3. Replay(disk)[t] = disk[n].state /\ disk[n].token = t
  BY <1>1, LastLine DEF IsLast, RegTypeOK
<1>4. QED
  BY <1>2, <1>3 DEF LinesPast

LEMMA PastNext ==
    RegTypeOK /\ LinesPast /\ KnownUsed /\ [RegNext]_regVars => LinesPast' /\ KnownUsed'
<1> SUFFICES ASSUME RegTypeOK, LinesPast, KnownUsed, [RegNext]_regVars
             PROVE  LinesPast' /\ KnownUsed'
  OBVIOUS
<1>1. ASSUME NEW t \in Token, Register(t) PROVE LinesPast' /\ KnownUsed'
  <2>1. LinesPast'
    BY <1>1, PersistPast DEF Register, State
  <2>2. KnownUsed'
    BY <1>1 DEF Register, Persist, With, KnownUsed
  <2>3. QED
    BY <2>1, <2>2
<1>2. ASSUME NEW t \in Token, NEW s \in State, Mark(t, s) PROVE LinesPast' /\ KnownUsed'
  <2>1. LinesPast'
    BY <1>2, PersistPast DEF Mark, KnownUsed
  <2>2. KnownUsed'
    BY <1>2 DEF Mark, Persist, With, KnownUsed
  <2>3. QED
    BY <2>1, <2>2
<1>3. ASSUME NEW t \in Token, NEW s \in State, CrashInAppend(t, s)
      PROVE  LinesPast' /\ KnownUsed'
  <2>1. PICK l \in {Bad, [token |-> t, state |-> s]} : disk' = Written(l)
    BY <1>3 DEF CrashInAppend
  <2>2. l \in Line \cup {Bad}
    BY DEF Line
  <2>3. LinesPast'
    BY <1>3, <2>1, <2>2, WrittenPast DEF CrashInAppend
  <2>4. KnownUsed'
    BY <1>3 DEF CrashInAppend, KnownUsed
  <2>5. QED
    BY <2>3, <2>4
<1>4. CASE Crash
  BY <1>4 DEF Crash, LinesPast, KnownUsed
<1>5. CASE Restart
  <2>1. LinesPast'
    BY <1>5 DEF Restart, LinesPast
  <2>2. KnownUsed'
    BY <1>5, ReplayedUsed DEF Restart, KnownUsed
  <2>3. QED
    BY <2>1, <2>2
<1>6. CASE UNCHANGED regVars
  BY <1>6 DEF regVars, LinesPast, KnownUsed
<1>7. QED
  BY <1>1, <1>2, <1>3, <1>4, <1>5, <1>6 DEF RegNext

(* Whatever crashes and failed appends did to the file, a restart brings     *)
(* each token back in a state that it has been in.                           *)
THEOREM RestartInventsNothing == RegSpec => []ReplayIsPast
<1>1. RegInit => LinesPast /\ KnownUsed
  BY EmptySeq DEF RegInit, LinesPast, KnownUsed
<1>2. RegTypeOK /\ LinesPast => ReplayIsPast
  BY ReplayedUsed DEF ReplayIsPast
<1>3. QED
  BY <1>1, <1>2, RegTypeInit, RegTypeNext, PastNext, PTL DEF RegSpec

----------------------------------------------------------------------------

USE CompensatorConstants DEF CompensatorConstants

(* What a change of a record does, apart from the file. *)
LEMMA MarkEffect ==
    ASSUME RegTypeOK, NEW t, NEW s \in State, Mark(t, s)
    PROVE  /\ t \in Token /\ t \in DOMAIN records /\ up /\ up' = up
           /\ DOMAIN records' = DOMAIN records /\ records'[t] = s
           /\ \A u \in DOMAIN records : u # t => records'[u] = records[u]
           /\ past' = [past EXCEPT ![t] = @ \cup {s}]
           /\ RegTypeOK'
<1>1. t \in Token /\ t \in DOMAIN records
  BY DEF Mark, RegTypeOK
<1>2. RegTypeOK'
  BY <1>1, PersistType DEF Mark, RegTypeOK
<1>3. QED
  BY <1>1, <1>2 DEF Mark, Persist, With

LEMMA RegisterEffect ==
    ASSUME RegTypeOK, NEW t \in Token, Register(t)
    PROVE  /\ up /\ up' = up
           /\ DOMAIN records' = DOMAIN records \cup {t} /\ records'[t] = "PENDING"
           /\ \A u \in DOMAIN records : u # t => records'[u] = records[u]
           /\ past' = [past EXCEPT ![t] = @ \cup {"PENDING"}]
           /\ RegTypeOK'
<1>1. RegTypeOK'
  BY PersistType DEF Register, State, RegTypeOK
<1>2. QED
  BY <1>1 DEF Register, Persist, With

----------------------------------------------------------------------------

(* Each step of the compensator is a step of the registry, or leaves it      *)
(* alone.                                                                    *)
LEMMA StepOfRegistry == RegTypeOK /\ [Next]_vars => [RegNext]_regVars
<1> SUFFICES ASSUME RegTypeOK, [Next]_vars PROVE [RegNext]_regVars
  OBVIOUS
<1>1. ASSUME NEW t, NEW s \in State \ {"PENDING"}, Mark(t, s) PROVE RegNext
  <2>1. t \in Token
    BY <1>1 DEF Mark, RegTypeOK
  <2>2. QED
    BY <1>1, <2>1 DEF RegNext
<1>2. CASE \E t \in Token : OperationStarts(t)
  BY <1>2 DEF OperationStarts, RegNext
<1>3. CASE \E t \in Token, s \in {"COMPLETED", "FAILED"} : OperationEnds(t, s)
  BY <1>1, <1>3 DEF OperationEnds, State
<1>4. CASE \E t \in Token : Request(t)
  BY <1>4 DEF Request
<1>5. CASE HandlerStep
  <2>1. CASE Handle
    BY <1>1, <2>1 DEF Handle, State
  <2>2. CASE RecordSuccess
    BY <1>1, <2>2 DEF RecordSuccess, State
  <2>3. CASE \E how \in {"permanent", "failed"} : ActionFails(how)
    BY <1>1, <2>3 DEF ActionFails, State
  <2>4. ASSUME NEW e \in BOOLEAN, ActionTransient(e) PROVE [RegNext]_regVars
    BY <1>1, <2>4 DEF ActionTransient, State
  <2>5. QED
    BY <1>5, <2>1, <2>2, <2>3, <2>4
       DEF HandlerStep, ActionSucceeds, Cancelled, BackoffOver, DeadLetter
<1>6. CASE ProcessCrash
  BY <1>6 DEF ProcessCrash, RegNext
<1>7. CASE ProcessRestart
  BY <1>7 DEF ProcessRestart, RegNext
<1>8. CASE UNCHANGED vars
  BY <1>8 DEF vars
<1>9. QED
  BY <1>2, <1>3, <1>4, <1>5, <1>6, <1>7, <1>8 DEF Next

(* The compensator uses the registry as anybody may: what is proved of the   *)
(* registry alone holds under it.                                            *)
THEOREM CompensatorUsesRegistry == Spec => RegSpec
<1>1. Init => RegInit /\ RegTypeOK
  BY RegTypeInit DEF Init
<1>2. RegTypeOK /\ [Next]_vars => RegTypeOK'
  BY StepOfRegistry, RegTypeNext
<1>3. QED
  BY <1>1, <1>2, StepOfRegistry, PTL DEF Spec, RegSpec

(* Under the compensator too the file replays to what is in memory while     *)
(* every append went through, and a restart never makes up a state.          *)
THEOREM RegistrySoundUnderCompensator == Spec => [](ReplayIsMemory /\ ReplayIsPast)
  BY CompensatorUsesRegistry, FileReplaysToMemory, RestartInventsNothing, PTL

----------------------------------------------------------------------------

(* The inductive invariant.  HandlerOK ties the stage of handle() to what it *)
(* has done; a process that is down has dropped every token; a record says   *)
(* what it has been through, and COMPENSATED only what was undone.           *)
HandlerOK ==
    /\ stage = "idle" <=> handling = NoToken
    /\ stage = "backoff" => attempt < MaxRetries
    /\ stage # "idle" => ~circuit /\ up
    /\ stage = "succeeded" => handling \in undone
    /\ stage \in {"permanent", "failed"} =>
          handling \in DOMAIN records /\ records[handling] = "FAILED"

Licensed ==
    \A t \in Token :
        /\ licence[t] >= 0
        /\ t = handling /\ stage \in {"acting", "backoff"} => licence[t] >= 1

DownDropped == ~up => dropped = Token

PastTold ==
    /\ \A t \in DOMAIN records : records[t] \in past[t]
    /\ \A t \in Token : "COMPENSATED" \in past[t] => t \in undone

CompInv ==
    /\ TypeOK
    /\ HandlerOK
    /\ Licensed
    /\ DownDropped
    /\ PastTold
    /\ CompensatingHasReason

LEMMA CompInvInit == Init => CompInv
<1> SUFFICES ASSUME Init PROVE CompInv
  OBVIOUS
<1>1. TypeOK
  <2>1. RegTypeOK /\ <<>> \in Seq(Token)
    BY RegTypeInit, EmptySeq DEF Init
  <2>2. /\ attempt \in 0..MaxRetries /\ failures \in Nat /\ left \in Nat
        /\ licence \in [Token -> Int]
    BY DEF Init
  <2>3. /\ requests \in Seq(Token) /\ stage \in Stage /\ circuit \in BOOLEAN
        /\ handling \in Token \cup {NoToken}
    BY <2>1 DEF Init, Stage
  <2>4. QED
    BY <2>1, <2>2, <2>3 DEF Init, TypeOK
<1>2. HandlerOK /\ Licensed /\ DownDropped /\ PastTold /\ CompensatingHasReason
  BY DEF Init, RegInit, HandlerOK, Licensed, DownDropped, PastTold, CompensatingHasReason
<1>3. QED
  BY <1>1, <1>2 DEF CompInv

(* A change of a record keeps what the record and its past say, unless it    *)
(* says COMPENSATED of what was not undone.                                  *)
LEMMA MarkKeepsPast ==
    ASSUME CompInv, NEW t, NEW s \in State, Mark(t, s), undone' = undone,
           s = "COMPENSATED" => t \in undone
    PROVE  PastTold'
<1>1. /\ t \in Token /\ t \in DOMAIN records
      /\ DOMAIN records' = DOMAIN records /\ records'[t] = s
      /\ \A u \in DOMAIN records : u # t => records'[u] = records[u]
      /\ past' = [past EXCEPT ![t] = @ \cup {s}]
  BY MarkEffect DEF CompInv, TypeOK
<1>2. past \in [Token -> SUBSET State] /\ DOMAIN records \subseteq Token
  BY DEF CompInv, TypeOK, RegTypeOK
<1>3. PastTold
  BY DEF CompInv
<1>4. \A u \in Token : past[u] \subseteq past'[u] /\ (u # t => past'[u] = past[u])
  BY <1>1, <1>2
<1>5. past'[t] = past[t] \cup {s}
  BY <1>1, <1>2
<1>6. QED
  BY <1>1, <1>2, <1>3, <1>4, <1>5 DEF PastTold

LEMMA OperationStartsStep ==
    ASSUME CompInv, NEW t \in Token, OperationStarts(t) PROVE CompInv'
<1>1. /\ up /\ up' = up /\ RegTypeOK'
      /\ DOMAIN records' = DOMAIN records \cup {t} /\ records'[t] = "PENDING"
      /\ \A u \in DOMAIN records : u # t => records'[u] = records[u]
      /\ past' = [past EXCEPT ![t] = @ \cup {"PENDING"}]
  BY RegisterEffect DEF OperationStarts, CompInv, TypeOK
<1>2. /\ stage \in {"idle", "acting", "backoff"} /\ running' = running \cup {t}
      /\ UNCHANGED <<requests, handling, stage, attempt, failures, circuit, dlq,
                     left, undone, licence, dropped>>
  BY DEF OperationStarts, LoopFree, handlerVars
<1>3. TypeOK'
  BY <1>1, <1>2 DEF CompInv, TypeOK
<1>4. HandlerOK' /\ Licensed' /\ DownDropped'
  BY <1>1, <1>2 DEF CompInv, HandlerOK, Licensed, DownDropped
<1>5. PastTold'
  <2>1. past \in [Token -> SUBSET State] /\ DOMAIN records \subseteq Token /\ PastTold
    BY DEF CompInv, TypeOK, RegTypeOK
  <2>2. /\ \A u \in Token : past[u] \subseteq past'[u] /\ (u # t => past'[u] = past[u])
        /\ past'[t] = past[t] \cup {"PENDING"}
    BY <1>1, <2>1
  <2>3. QED
    BY <1>1, <1>2, <2>1, <2>2 DEF PastTold
<1>6. CompensatingHasReason'
  BY <1>1, <1>2 DEF CompInv, CompensatingHasReason
<1>7. QED
  BY <1>3, <1>4, <1>5, <1>6 DEF CompInv

LEMMA OperationEndsStep ==
    ASSUME CompInv, NEW t \in Token, NEW s \in {"COMPLETED", "FAILED"},
           OperationEnds(t, s)
    PROVE  CompInv'
<1>1. /\ up /\ up' = up /\ RegTypeOK'
      /\ DOMAIN records' = DOMAIN records /\ records'[t] = s
      /\ \A u \in DOMAIN records : u # t => records'[u] = records[u]
      /\ Mark(t, s)
  BY MarkEffect DEF OperationEnds, CompInv, TypeOK, State
<1>2. /\ stage \in {"idle", "acting", "backoff"} /\ running' = running \ {t}
      /\ UNCHANGED <<requests, handling, stage, attempt, failures, circuit, dlq,
                     left, undone, licence, dropped>>
  BY DEF OperationEnds, LoopFree, handlerVars
<1>3. TypeOK'
  BY <1>1, <1>2 DEF CompInv, TypeOK
<1>4. HandlerOK' /\ Licensed' /\ DownDropped'
  BY <1>1, <1>2 DEF CompInv, HandlerOK, Licensed, DownDropped
<1>5. PastTold'
  BY <1>1, <1>2, MarkKeepsPast DEF State
<1>6. CompensatingHasReason'
  BY <1>1, <1>2 DEF CompInv, CompensatingHasReason
<1>7. QED
  BY <1>3, <1>4, <1>5, <1>6 DEF CompInv

LEMMA RequestStep ==
    ASSUME CompInv, NEW t \in Token, Request(t) PROVE CompInv'
<1>1. /\ requests' = Append(requests, t) /\ left' = left - 1 /\ left > 0
      /\ UNCHANGED <<regVars, running, handling, stage, attempt, failures, circuit, dlq,
                     undone, licence, dropped>>
  BY DEF Request, handlerVars
<1>2. requests' \in Seq(Token)
  BY <1>1, AppendProperties DEF CompInv, TypeOK
<1>3. RegTypeOK' /\ UNCHANGED <<records, past, up>>
  BY <1>1 DEF regVars, CompInv, TypeOK, RegTypeOK
<1>4. TypeOK'
  BY <1>1, <1>2, <1>3 DEF CompInv, TypeOK
<1>5. HandlerOK' /\ Licensed' /\ DownDropped' /\ PastTold' /\ CompensatingHasReason'
  BY <1>1, <1>3 DEF CompInv, HandlerOK, Licensed, DownDropped, PastTold,
                    CompensatingHasReason
<1>6. QED
  BY <1>4, <1>5 DEF CompInv

(* What an attempt, or its omission, leaves of the invariant. *)
LEMMA AttemptKeeps ==
    ASSUME CompInv, NEW t \in Token, NEW n \in 1..MaxRetries, Attempt(t, n),
           up, up' = up, undone' = undone, circuit' = circuit,
           licence' \in [Token -> Int], \A u \in Token : licence'[u] >= 0,
           licence'[t] >= 1,
           \A u \in DOMAIN records' :
              records'[u] = "COMPENSATING" => u = t \/ u \in dropped
    PROVE  /\ handling' \in Token \cup {NoToken} /\ stage' \in Stage
           /\ attempt' \in 0..MaxRetries /\ dropped' \subseteq Token
           /\ HandlerOK' /\ Licensed' /\ DownDropped' /\ CompensatingHasReason'
<1>1. CASE /\ ~circuit /\ handling' = t /\ stage' = "acting" /\ attempt' = n
           /\ dropped' = dropped \ {t}
  <2>1. HandlerOK' /\ Licensed' /\ DownDropped'
    BY <1>1 DEF HandlerOK, Licensed, DownDropped
  <2>2. CompensatingHasReason'
    BY <1>1 DEF CompensatingHasReason
  <2>3. QED
    BY <1>1, <2>1, <2>2 DEF CompInv, TypeOK, Stage
<1>2. CASE /\ handling' = NoToken /\ stage' = "idle" /\ attempt' = 0
           /\ dropped' = dropped \cup {t}
  <2>1. HandlerOK' /\ Licensed' /\ DownDropped'
    BY <1>2 DEF HandlerOK, Licensed, DownDropped
  <2>2. CompensatingHasReason'
    BY <1>2 DEF CompensatingHasReason
  <2>3. QED
    BY <1>2, <2>1, <2>2 DEF CompInv, TypeOK, Stage
<1>3. QED
  BY <1>1, <1>2 DEF Attempt

LEMMA HandleStep == ASSUME CompInv, Handle PROVE CompInv'
<1> DEFINE t == Head(requests)
<1>1. /\ stage = "idle" /\ requests # <<>> /\ requests' = Tail(requests)
      /\ Mark(t, "COMPENSATING") /\ Attempt(t, 1)
      /\ licence' = [licence EXCEPT ![t] = @ + 1]
      /\ UNCHANGED <<running, failures, circuit, dlq, left, undone>>
  BY DEF Handle
<1>2. t \in Token /\ requests' \in Seq(Token)
  BY <1>1, HeadTailProperties DEF CompInv, TypeOK
<1> HIDE DEF t
<1>3. /\ up /\ up' = up /\ RegTypeOK'
      /\ DOMAIN records' = DOMAIN records /\ records'[t] = "COMPENSATING"
      /\ \A u \in DOMAIN records : u # t => records'[u] = records[u]
  BY <1>1, MarkEffect DEF CompInv, TypeOK, State
<1>4. /\ licence' \in [Token -> Int] /\ licence'[t] >= 1
      /\ \A u \in Token : licence'[u] >= 0
  <2>1. licence \in [Token -> Int] /\ \A u \in Token : licence[u] >= 0
    BY DEF CompInv, TypeOK, Licensed
  <2>2. QED
    BY <1>1, <1>2, <2>1
<1>5. \A u \in DOMAIN records' :
        records'[u] = "COMPENSATING" => u = t \/ u \in dropped
  <2>1. handling = NoToken /\ DOMAIN records \subseteq Token
    BY <1>1 DEF CompInv, HandlerOK, TypeOK, RegTypeOK
  <2>2. QED
    BY <1>3, <2>1 DEF CompInv, CompensatingHasReason
<1>6. /\ handling' \in Token \cup {NoToken} /\ stage' \in Stage
      /\ attempt' \in 0..MaxRetries /\ dropped' \subseteq Token
      /\ HandlerOK' /\ Licensed' /\ DownDropped' /\ CompensatingHasReason'
  BY <1>1, <1>2, <1>3, <1>4, <1>5, AttemptKeeps
<1>7. TypeOK'
  BY <1>1, <1>2, <1>3, <1>4, <1>6 DEF CompInv, TypeOK
<1>8. PastTold'
  BY <1>1, MarkKeepsPast DEF State
<1>9. QED
  BY <1>6, <1>7, <1>8 DEF CompInv

LEMMA BackoffOverStep == ASSUME CompInv, BackoffOver PROVE CompInv'
<1>1. /\ up /\ stage = "backoff" /\ Attempt(handling, attempt + 1)
      /\ UNCHANGED <<running, requests, failures, circuit, dlq, left, undone, licence>>
      /\ UNCHANGED regVars
  BY DEF BackoffOver
<1>2. RegTypeOK' /\ UNCHANGED <<records, past, up>>
  BY <1>1 DEF regVars, CompInv, TypeOK, RegTypeOK
<1>3. handling \in Token /\ attempt + 1 \in 1..MaxRetries
  BY <1>1 DEF CompInv, HandlerOK, TypeOK
<1>4. /\ licence' \in [Token -> Int] /\ licence'[handling] >= 1
      /\ \A u \in Token : licence'[u] >= 0
  BY <1>1, <1>3 DEF CompInv, TypeOK, Licensed
<1>5. \A u \in DOMAIN records' :
        records'[u] = "COMPENSATING" => u = handling \/ u \in dropped
  BY <1>2 DEF CompInv, CompensatingHasReason
<1>6. /\ handling' \in Token \cup {NoToken} /\ stage' \in Stage
      /\ attempt' \in 0..MaxRetries /\ dropped' \subseteq Token
      /\ HandlerOK' /\ Licensed' /\ DownDropped' /\ CompensatingHasReason'
  BY <1>1, <1>2, <1>3, <1>4, <1>5, AttemptKeeps
<1>7. TypeOK'
  BY <1>1, <1>2, <1>4, <1>6 DEF CompInv, TypeOK
<1>8. PastTold'
  BY <1>1, <1>2 DEF CompInv, PastTold
<1>9. QED
  BY <1>6, <1>7, <1>8 DEF CompInv

LEMMA ActionSucceedsStep == ASSUME CompInv, ActionSucceeds PROVE CompInv'
<1>1. /\ up /\ stage = "acting" /\ stage' = "succeeded"
      /\ undone' = undone \cup {handling}
      /\ licence' = [licence EXCEPT ![handling] = @ - 1]
      /\ UNCHANGED <<running, requests, handling, attempt, failures, circuit, dlq,
                     left, dropped>>
      /\ UNCHANGED regVars
  BY DEF ActionSucceeds, Undoes
<1>2. RegTypeOK' /\ UNCHANGED <<records, past, up>>
  BY <1>1 DEF regVars, CompInv, TypeOK, RegTypeOK
<1>3. handling \in Token
  BY <1>1 DEF CompInv, HandlerOK, TypeOK
<1>4. licence' \in [Token -> Int] /\ Licensed'
  <2>1. licence \in [Token -> Int] /\ Licensed
    BY DEF CompInv, TypeOK
  <2>2. licence[handling] >= 1
    BY <1>1, <1>3, <2>1 DEF Licensed
  <2>3. QED
    BY <1>1, <1>3, <2>1, <2>2 DEF Licensed
<1>5. TypeOK'
  BY <1>1, <1>2, <1>3, <1>4 DEF CompInv, TypeOK, Stage
<1>6. HandlerOK' /\ DownDropped' /\ PastTold' /\ CompensatingHasReason'
  BY <1>1, <1>2, <1>3 DEF CompInv, HandlerOK, DownDropped, PastTold,
                          CompensatingHasReason
<1>7. QED
  BY <1>4, <1>5, <1>6 DEF CompInv

LEMMA RecordSuccessStep == ASSUME CompInv, RecordSuccess PROVE CompInv'
<1>1. /\ stage = "succeeded" /\ Mark(handling, "COMPENSATED")
      /\ handling' = NoToken /\ stage' = "idle" /\ attempt' = 0
      /\ failures' = 0 /\ circuit' = FALSE
      /\ UNCHANGED <<running, requests, dlq, left, undone, licence, dropped>>
  BY DEF RecordSuccess
<1>2. /\ up /\ up' = up /\ RegTypeOK' /\ handling \in Token
      /\ DOMAIN records' = DOMAIN records /\ records'[handling] = "COMPENSATED"
      /\ \A u \in DOMAIN records : u # handling => records'[u] = records[u]
  BY <1>1, MarkEffect DEF CompInv, TypeOK, State
<1>3. TypeOK'
  <2>1. attempt' \in 0..MaxRetries /\ failures' \in Nat
    BY <1>1
  <2>2. stage' \in Stage /\ circuit' \in BOOLEAN /\ handling' \in Token \cup {NoToken}
    BY <1>1 DEF Stage
  <2>3. QED
    BY <1>1, <1>2, <2>1, <2>2 DEF CompInv, TypeOK
<1>4. HandlerOK' /\ Licensed' /\ DownDropped'
  BY <1>1, <1>2 DEF CompInv, HandlerOK, Licensed, DownDropped
<1>5. PastTold'
  BY <1>1, MarkKeepsPast DEF State, CompInv, HandlerOK
<1>6. CompensatingHasReason'
  BY <1>1, <1>2 DEF CompInv, CompensatingHasReason
<1>7. QED
  BY <1>3, <1>4, <1>5, <1>6 DEF CompInv

(* An action fails for good: handling stays, its record says FAILED. *)
LEMMA FailsKeeps ==
    ASSUME CompInv, stage = "acting", Mark(handling, "FAILED"),
           stage' \in {"permanent", "failed"},
           undone' = undone \/ undone' = undone \cup {handling},
           UNCHANGED <<running, requests, handling, attempt, failures, circuit, dlq,
                       left, licence, dropped>>
    PROVE  CompInv'
<1>1. /\ up /\ up' = up /\ RegTypeOK' /\ handling \in Token
      /\ handling \in DOMAIN records
      /\ DOMAIN records' = DOMAIN records /\ records'[handling] = "FAILED"
      /\ \A u \in DOMAIN records : u # handling => records'[u] = records[u]
      /\ past' = [past EXCEPT ![handling] = @ \cup {"FAILED"}]
  BY MarkEffect DEF CompInv, TypeOK, State
<1>2. TypeOK'
  BY <1>1 DEF CompInv, TypeOK, Stage
<1>3. HandlerOK' /\ DownDropped'
  BY <1>1 DEF CompInv, HandlerOK, DownDropped
<1>4. Licensed'
  BY DEF CompInv, Licensed
<1>5. PastTold'
  <2>1. past \in [Token -> SUBSET State] /\ DOMAIN records \subseteq Token /\ PastTold
    BY DEF CompInv, TypeOK, RegTypeOK
  <2>2. /\ \A u \in Token : past[u] \subseteq past'[u]
        /\ \A u \in Token : u # handling => past'[u] = past[u]
        /\ past'[handling] = past[handling] \cup {"FAILED"}
    BY <1>1, <2>1
  <2>3. undone \subseteq undone'
    OBVIOUS
  <2>4. QED
    BY <1>1, <2>1, <2>2, <2>3 DEF PastTold
<1>6. CompensatingHasReason'
  BY <1>1 DEF CompInv, CompensatingHasReason
<1>7. QED
  BY <1>2, <1>3, <1>4, <1>5, <1>6 DEF CompInv

LEMMA ActionTransientStep ==
    ASSUME CompInv, NEW tookEffect \in BOOLEAN, ActionTransient(tookEffect)
    PROVE  CompInv'
<1>1. /\ up /\ stage = "acting"
      /\ undone' = undone \/ undone' = undone \cup {handling}
      /\ UNCHANGED <<running, requests, handling, attempt, failures, circuit, dlq,
                     left, licence, dropped>>
  BY DEF ActionTransient
<1>2. CASE attempt < MaxRetries /\ stage' = "backoff" /\ UNCHANGED regVars
  <2>1. RegTypeOK' /\ UNCHANGED <<records, past, up>>
    BY <1>2 DEF regVars, CompInv, TypeOK, RegTypeOK
  <2>2. handling \in Token
    BY <1>1 DEF CompInv, HandlerOK, TypeOK
  <2>3. TypeOK'
    BY <1>1, <1>2, <2>1, <2>2 DEF CompInv, TypeOK, Stage
  <2>4. HandlerOK' /\ Licensed' /\ DownDropped'
    BY <1>1, <1>2, <2>1 DEF CompInv, HandlerOK, Licensed, DownDropped
  <2>5. PastTold' /\ CompensatingHasReason'
    BY <1>1, <2>1 DEF CompInv, PastTold, CompensatingHasReason
  <2>6. QED
    BY <2>3, <2>4, <2>5 DEF CompInv
<1>3. CASE Mark(handling, "FAILED") /\ stage' = "failed"
  BY <1>1, <1>3, FailsKeeps
<1>4. QED
  BY <1>2, <1>3 DEF ActionTransient

LEMMA DeadLetterStep ==
    ASSUME CompInv, NEW added \in BOOLEAN, DeadLetter(added) PROVE CompInv'
<1>1. /\ up /\ stage \in {"permanent", "failed"}
      /\ dlq' = dlq \/ dlq' = dlq \cup {handling}
      /\ failures' \in {failures, failures + 1} /\ circuit' \in BOOLEAN
      /\ handling' = NoToken /\ stage' = "idle" /\ attempt' = 0
      /\ UNCHANGED <<running, requests, left, undone, licence, dropped>>
      /\ UNCHANGED regVars
  BY DEF DeadLetter, CompInv, TypeOK
<1>2. RegTypeOK' /\ UNCHANGED <<records, past, up>>
  BY <1>1 DEF regVars, CompInv, TypeOK, RegTypeOK
<1>3. handling \in Token /\ handling \in DOMAIN records /\ records[handling] = "FAILED"
  BY <1>1 DEF CompInv, HandlerOK, TypeOK
<1>4. TypeOK'
  <2>1. attempt' \in 0..MaxRetries /\ failures' \in Nat
    BY <1>1 DEF CompInv, TypeOK
  <2>2. stage' \in Stage /\ handling' \in Token \cup {NoToken} /\ dlq' \subseteq Token
    BY <1>1, <1>3 DEF Stage, CompInv, TypeOK
  <2>3. QED
    BY <1>1, <1>2, <2>1, <2>2 DEF CompInv, TypeOK
<1>5. HandlerOK' /\ Licensed' /\ DownDropped' /\ PastTold'
  BY <1>1, <1>2 DEF CompInv, HandlerOK, Licensed, DownDropped, PastTold
<1>6. CompensatingHasReason'
  BY <1>1, <1>2, <1>3 DEF CompInv, CompensatingHasReason
<1>7. QED
  BY <1>4, <1>5, <1>6 DEF CompInv

LEMMA CancelledStep ==
    ASSUME CompInv, NEW tookEffect \in BOOLEAN, Cancelled(tookEffect) PROVE CompInv'
<1>1. /\ up /\ stage \in {"acting", "backoff"}
      /\ undone \subseteq undone' /\ undone' \subseteq undone \cup {handling}
      /\ licence' = licence \/ licence' = [licence EXCEPT ![handling] = @ - 1]
      /\ handling' = NoToken /\ stage' = "idle" /\ attempt' = 0
      /\ dropped' = dropped \cup {handling}
      /\ UNCHANGED <<running, requests, failures, circuit, dlq, left>>
      /\ UNCHANGED regVars
  BY DEF Cancelled, Undoes
<1>2. RegTypeOK' /\ UNCHANGED <<records, past, up>>
  BY <1>1 DEF regVars, CompInv, TypeOK, RegTypeOK
<1>3. handling \in Token
  BY <1>1 DEF CompInv, HandlerOK, TypeOK
<1>4. licence' \in [Token -> Int] /\ \A u \in Token : licence'[u] >= 0
  <2>1. /\ licence \in [Token -> Int] /\ licence[handling] >= 1
        /\ \A u \in Token : licence[u] >= 0
    BY <1>1, <1>3 DEF CompInv, TypeOK, Licensed
  <2>2. QED
    BY <1>1, <1>3, <2>1
<1>5. TypeOK'
  <2>1. attempt' \in 0..MaxRetries /\ stage' \in Stage
    BY <1>1 DEF Stage
  <2>2. handling' \in Token \cup {NoToken} /\ dropped' \subseteq Token /\ undone' \subseteq Token
    BY <1>1, <1>3 DEF CompInv, TypeOK
  <2>3. QED
    BY <1>1, <1>2, <1>4, <2>1, <2>2 DEF CompInv, TypeOK
<1>6. HandlerOK' /\ DownDropped' /\ PastTold'
  BY <1>1, <1>2 DEF CompInv, HandlerOK, DownDropped, PastTold
<1>7. Licensed'
  BY <1>1, <1>4 DEF Licensed
<1>8. CompensatingHasReason'
  BY <1>1, <1>2 DEF CompInv, CompensatingHasReason
<1>9. QED
  BY <1>5, <1>6, <1>7, <1>8 DEF CompInv

(* In a crash, the record that is half written is one that the next step was *)
(* to write; it says COMPENSATED only of what was undone.                    *)
LEMMA ProcessCrashStep == ASSUME CompInv, ProcessCrash PROVE CompInv'
<1>1. /\ running' = {} /\ requests' = <<>> /\ handling' = NoToken /\ stage' = "idle"
      /\ attempt' = 0 /\ failures' = 0 /\ circuit' = FALSE /\ dropped' = Token
      /\ UNCHANGED <<dlq, left, undone, licence>>
  BY DEF ProcessCrash, ProcessGone
<1>2. DOMAIN records' = {}
  BY DEF ProcessCrash, Crash, CrashInAppend
<1>3. [Next]_vars
  BY DEF Next
<1>4. RegTypeOK'
  BY <1>3, StepOfRegistry, RegTypeNext DEF CompInv, TypeOK
<1>5. TypeOK'
  <2>1. <<>> \in Seq(Token)
    BY EmptySeq
  <2>2. attempt' \in 0..MaxRetries /\ failures' \in Nat
    BY <1>1
  <2>3. stage' \in Stage /\ circuit' \in BOOLEAN /\ handling' \in Token \cup {NoToken}
    BY <1>1 DEF Stage
  <2>4. QED
    BY <1>1, <1>4, <2>1, <2>2, <2>3 DEF CompInv, TypeOK
<1>6. HandlerOK' /\ Licensed' /\ DownDropped' /\ CompensatingHasReason'
  BY <1>1, <1>2 DEF CompInv, HandlerOK, Licensed, DownDropped, CompensatingHasReason
<1>7. \A t \in Token : "COMPENSATED" \in past'[t] => t \in undone
  <2>1. PastTold /\ past \in [Token -> SUBSET State]
    BY DEF CompInv, TypeOK, RegTypeOK
  <2>2. CASE Crash
    BY <2>1, <2>2 DEF Crash, PastTold
  <2>3. ASSUME NEW t \in Token, NEW s \in State, NextAppend(t, s), CrashInAppend(t, s)
        PROVE  \A u \in Token : "COMPENSATED" \in past'[u] => u \in undone
    <3>1. past' = [past EXCEPT ![t] = @ \cup {s}]
      BY <2>3 DEF CrashInAppend
    <3>2. s = "COMPENSATED" => t \in undone
      BY <2>3 DEF NextAppend, CompInv, HandlerOK
    <3>3. QED
      BY <2>1, <3>1, <3>2 DEF PastTold
  <2>4. QED
    BY <2>2, <2>3 DEF ProcessCrash
<1>8. PastTold'
  BY <1>1, <1>2, <1>7 DEF PastTold
<1>9. QED
  BY <1>5, <1>6, <1>8 DEF CompInv

(* A restart makes up no state, by what is proved of the registry. *)
LEMMA ProcessRestartStep ==
    ASSUME CompInv, ReplayIsPast, ProcessRestart PROVE CompInv'
<1>1. /\ ~up /\ up' = TRUE /\ records' = Replay(disk) /\ past' = past /\ UNCHANGED compVars
  BY DEF ProcessRestart, Restart
<1>2. [Next]_vars
  BY DEF Next
<1>3. RegTypeOK'
  BY <1>2, StepOfRegistry, RegTypeNext DEF CompInv, TypeOK
<1>4. /\ \A t \in DOMAIN records' : records'[t] \in past[t]
      /\ DOMAIN records' \subseteq Token
  BY <1>1, <1>3 DEF ReplayIsPast, RegTypeOK
<1>5. TypeOK'
  BY <1>1, <1>3 DEF CompInv, TypeOK, compVars
<1>6. dropped' = Token /\ stage = "idle" /\ stage' = stage
  BY <1>1 DEF CompInv, DownDropped, HandlerOK, TypeOK, Stage, compVars
<1>7. HandlerOK' /\ Licensed' /\ DownDropped'
  BY <1>1, <1>6 DEF CompInv, HandlerOK, Licensed, DownDropped, compVars
<1>8. PastTold'
  BY <1>1, <1>4 DEF CompInv, PastTold, compVars
<1>9. CompensatingHasReason'
  BY <1>4, <1>6 DEF CompensatingHasReason
<1>10. QED
  BY <1>5, <1>7, <1>8, <1>9 DEF CompInv

LEMMA CompInvStep == CompInv /\ ReplayIsPast /\ [Next]_vars => CompInv'
<1> SUFFICES ASSUME CompInv, ReplayIsPast, [Next]_vars PROVE CompInv'
  OBVIOUS
<1>1. CASE \E t \in Token : OperationStarts(t)
  BY <1>1, OperationStartsStep
<1>2. CASE \E t \in Token, s \in {"COMPLETED", "FAILED"} : OperationEnds(t, s)
  BY <1>2, OperationEndsStep
<1>3. CASE \E t \in Token : Request(t)
  BY <1>3, RequestStep
<1>4. CASE HandlerStep
  <2>1. CASE Handle \/ ActionSucceeds \/ RecordSuccess \/ BackoffOver
    BY <2>1, HandleStep, ActionSucceedsStep, RecordSuccessStep, BackoffOverStep
  <2>2. CASE \E how \in {"permanent", "failed"} : ActionFails(how)
    BY <2>2, FailsKeeps DEF ActionFails
  <2>3. CASE \E e \in BOOLEAN : ActionTransient(e)
    BY <2>3, ActionTransientStep
  <2>4. CASE \E e \in BOOLEAN : Cancelled(e)
    BY <2>4, CancelledStep
  <2>5. CASE \E added \in BOOLEAN : DeadLetter(added)
    BY <2>5, DeadLetterStep
  <2>6. QED
    BY <1>4, <2>1, <2>2, <2>3, <2>4, <2>5 DEF HandlerStep
<1>5. CASE ProcessCrash
  BY <1>5, ProcessCrashStep
<1>6. CASE ProcessRestart
  BY <1>6, ProcessRestartStep
<1>7. CASE UNCHANGED vars
  <2>1. UNCHANGED <<up, records, disk, ragged, used, troubles, file, past, running,
                    requests, handling, stage, attempt, failures, circuit, dlq, left,
                    undone, licence, dropped>>
    BY <1>7 DEF vars, regVars, compVars
  <2>2. TypeOK'
    BY <2>1 DEF CompInv, TypeOK, RegTypeOK
  <2>3. HandlerOK' /\ Licensed' /\ DownDropped' /\ PastTold' /\ CompensatingHasReason'
    BY <2>1 DEF CompInv, HandlerOK, Licensed, DownDropped, PastTold, CompensatingHasReason
  <2>4. QED
    BY <2>2, <2>3 DEF CompInv
<1>8. QED
  BY <1>1, <1>2, <1>3, <1>4, <1>5, <1>6, <1>7 DEF Next

LEMMA CompInvHolds == Spec => []CompInv
<1>1. Spec => []ReplayIsPast
  BY RegistrySoundUnderCompensator, PTL
<1>2. QED
  BY <1>1, CompInvInit, CompInvStep, PTL DEF Spec

(* The compensator and the registry below it keep their types. *)
THEOREM CompensatorTypeCorrect == Spec => []TypeOK
<1>1. CompInv => TypeOK
  BY DEF CompInv
<1>2. QED
  BY <1>1, CompInvHolds, PTL

(* What the registry calls COMPENSATED has been undone, through any crashes, *)
(* restarts, failed and torn appends, late reports and repeated requests.    *)
THEOREM CompensatedWasUndone == Spec => []CompensatedIsUndone
<1>1. CompInv => CompensatedIsUndone
  BY DEF CompInv, PastTold, CompensatedIsUndone, TypeOK, RegTypeOK
<1>2. QED
  BY <1>1, CompInvHolds, PTL

(* handle() undoes an operation at most once for each request it received.   *)
THEOREM OneUndoPerRequest == Spec => []UndoneOncePerRequest
<1>1. CompInv => UndoneOncePerRequest
  BY DEF CompInv, Licensed, UndoneOncePerRequest
<1>2. QED
  BY <1>1, CompInvHolds, PTL

(* A record left in COMPENSATING has a handler at work on it, or was dropped *)
(* by an open circuit, a cancellation or a crash.                            *)
THEOREM NoVerdictForgotten == Spec => []CompensatingHasReason
<1>1. CompInv => CompensatingHasReason
  BY DEF CompInv
<1>2. QED
  BY <1>1, CompInvHolds, PTL

(* Only a restart of the process closes the circuit. *)
THEOREM OpenUntilRestart == Spec => CircuitStaysOpen
<1>1. CompInv /\ [Next]_vars => [circuit /\ up' => circuit']_vars
  <2>1. SUFFICES ASSUME CompInv, Next, circuit, up' PROVE circuit'
    OBVIOUS
  <2>2. stage = "idle"
    BY <2>1 DEF CompInv, HandlerOK
  <2>3. ~ProcessCrash
    BY <2>1 DEF ProcessCrash, Crash, CrashInAppend
  <2>4. circuit' = circuit
    BY <2>1, <2>2, <2>3
       DEF Next, OperationStarts, OperationEnds, Request, HandlerStep, Handle,
           ActionSucceeds, RecordSuccess, ActionFails, ActionTransient, Cancelled,
           BackoffOver, DeadLetter, ProcessRestart, handlerVars, compVars
  <2>5. QED
    BY <2>1, <2>4
<1>2. QED
  BY <1>1, CompInvHolds, PTL DEF Spec, CircuitStaysOpen

=============================================================================
