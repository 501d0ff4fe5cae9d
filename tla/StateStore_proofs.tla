-------------------------- MODULE StateStore_proofs --------------------------
(***************************************************************************)
(* Proofs about the store and its snapshots, for any number of keys,       *)
(* values, clients, transactions, retries and calls.                       *)
(***************************************************************************)
EXTENDS Snapshots, SequenceTheorems, TLAPS

USE StoreConstants DEF StoreConstants

(* What makes versions trustworthy: they are all below the counter, and 0 is *)
(* the version of an absent key only, in the store and in what was read.     *)
CellOK(cell) ==
    /\ cell.version < nextVersion
    /\ cell.version = 0 <=> cell = Absent

StoreTypeOK ==
    /\ store \in [Key -> Cell]
    /\ nextVersion \in Nat \ {0}
    /\ seen \in [Client -> [Key -> Cell]]

StoreInv ==
    /\ StoreTypeOK
    /\ \A k \in Key : CellOK(store[k])
    /\ \A c \in Client, k \in Key : CellOK(seen[c][k])
    /\ VersionsUnique
    /\ VersionIdentifiesValue

LEMMA StoreInvInit == Init => StoreInv
  BY DEF Init, StoreInv, StoreTypeOK, CellOK, Cell, Absent, VersionsUnique,
     VersionIdentifiesValue

(* A put gives its key a version that nobody has seen. *)
LEMMA PutKeepsStoreInv ==
    ASSUME StoreInv, NEW k \in Key, NEW v \in Value \cup {Nil},
           store' = [store EXCEPT ![k] = [version |-> nextVersion, value |-> v]],
           nextVersion' = nextVersion + 1, seen' = seen
    PROVE  StoreInv'
<1> DEFINE new == [version |-> nextVersion, value |-> v]
<1>1. new \in Cell /\ new # Absent /\ new.version = nextVersion
  BY DEF StoreInv, StoreTypeOK, Cell, Absent
<1> HIDE DEF new
<1>2. StoreTypeOK'
  BY <1>1 DEF StoreInv, StoreTypeOK, new
<1>3. store'[k] = new /\ \A j \in Key \ {k} : store'[j] = store[j]
  BY DEF StoreInv, StoreTypeOK, new
<1>4. /\ nextVersion \in Nat /\ nextVersion # 0
      /\ \A j \in Key : store[j].version \in Nat
      /\ \A c \in Client, j \in Key : seen[c][j].version \in Nat
  BY DEF StoreInv, StoreTypeOK, Cell
<1>5. (\A j \in Key : CellOK(store[j]))'
  BY <1>1, <1>3, <1>4 DEF StoreInv, CellOK
<1>6. (\A c \in Client, j \in Key : CellOK(seen[c][j]))'
  BY <1>4 DEF StoreInv, CellOK
<1>7. VersionsUnique'
  BY <1>1, <1>3, <1>4 DEF StoreInv, VersionsUnique
<1>8. VersionIdentifiesValue'
  BY <1>1, <1>3, <1>4 DEF StoreInv, VersionIdentifiesValue, CellOK
<1>9. QED
  BY <1>2, <1>5, <1>6, <1>7, <1>8 DEF StoreInv

(* A delete takes its key back to version 0, which reads as absent only. *)
LEMMA DeleteKeepsStoreInv ==
    ASSUME StoreInv, NEW k \in Key,
           store' = [store EXCEPT ![k] = Absent], UNCHANGED <<nextVersion, seen>>
    PROVE  StoreInv'
<1>1. Absent \in Cell /\ Absent.version = 0
  BY DEF Cell, Absent
<1>2. StoreTypeOK'
  BY <1>1 DEF StoreInv, StoreTypeOK
<1>3. store'[k] = Absent /\ \A j \in Key \ {k} : store'[j] = store[j]
  BY DEF StoreInv, StoreTypeOK
<1>4. nextVersion \in Nat \ {0}
  BY DEF StoreInv, StoreTypeOK
<1>5. (\A j \in Key : CellOK(store[j]))'
  BY <1>1, <1>3, <1>4 DEF StoreInv, CellOK
<1>6. (\A c \in Client, j \in Key : CellOK(seen[c][j]))'
  BY DEF StoreInv, CellOK
<1>7. VersionsUnique'
  BY <1>1, <1>3, <1>4 DEF StoreInv, VersionsUnique, CellOK
<1>8. VersionIdentifiesValue'
  BY <1>1, <1>3 DEF StoreInv, VersionIdentifiesValue, CellOK
<1>9. QED
  BY <1>2, <1>5, <1>6, <1>7, <1>8 DEF StoreInv

(* A read sees what is there. *)
LEMMA ReadKeepsStoreInv ==
    ASSUME StoreInv, NEW c \in Client, NEW k \in Key,
           seen' = [seen EXCEPT ![c][k] = store[k]], UNCHANGED <<store, nextVersion>>
    PROVE  StoreInv'
<1>1. seen' \in [Client -> [Key -> Cell]]
  BY DEF StoreInv, StoreTypeOK
<1>2. \A d \in Client, j \in Key : seen'[d][j] = seen[d][j] \/ (j = k /\ seen'[d][j] = store[k])
  BY DEF StoreInv, StoreTypeOK
<1>3. (\A d \in Client, j \in Key : CellOK(seen[d][j]))'
  BY <1>2 DEF StoreInv, CellOK
<1>4. VersionIdentifiesValue'
  BY <1>2 DEF StoreInv, VersionIdentifiesValue
<1>5. QED
  BY <1>1, <1>3, <1>4 DEF StoreInv, StoreTypeOK, CellOK, VersionsUnique

LEMMA StoreInvUnchanged ==
    ASSUME StoreInv, UNCHANGED <<store, nextVersion, seen>>
    PROVE  StoreInv'
  BY DEF StoreInv, StoreTypeOK, CellOK, VersionsUnique, VersionIdentifiesValue

----------------------------------------------------------------------------

(* A call made by rollback() knows how much is left to undo. *)
Resumes(r) == r.rollback => r.tx \in Tx /\ r.undo \in 0..Len(ops[r.tx])

(* What each client has in hand where it is suspended. *)
CallsInv ==
    /\ pc \in [Client -> PC]
    /\ call \in [Client -> Call \cup Ending \cup {NoCall}]
    /\ \A c \in Client :
         /\ pc[c] \in {"conflict", "written", "refused", "backoff"} =>
              call[c] \in Call /\ Resumes(call[c])
         /\ pc[c] = "backoff" => call[c].attempt > 0
         /\ pc[c] \in {"undo", "closing"} =>
              call[c].tx \in Tx /\ call[c].undo \in 0..Len(ops[call[c].tx])

TxInv ==
    /\ status \in [Tx -> {"new", "ACTIVE", "COMMITTED", "ROLLED_BACK"}]
    /\ ops \in [Tx -> Seq(Op)]
    /\ active \subseteq Tx
    /\ budget \in Nat

GhostInv ==
    /\ foreign \in [Tx -> SUBSET Key]
    /\ base = [t \in Tx |-> base[t]]
    /\ \A t \in Tx : /\ DOMAIN base[t] \subseteq Key
                     /\ \A k \in DOMAIN base[t] : base[t][k] \in Value \cup {Nil}

(* The undo logs may only grow. *)
LogsGrow ==
    /\ ops' \in [Tx -> Seq(Op)]
    /\ \A t \in Tx : Len(ops'[t]) \in Nat /\ Len(ops[t]) \in Nat /\ Len(ops'[t]) >= Len(ops[t])

LEMMA InterferesType ==
    ASSUME GhostInv, NEW r, NEW k \in Key, Interferes(r, k)
    PROVE  foreign' \in [Tx -> SUBSET Key]
  BY DEF Interferes, GhostInv

(* Client c moves to p with the call x, and the others stay where they are.  *)
LEMMA MoveKeepsCallsInv ==
    ASSUME CallsInv, LogsGrow, NEW c \in Client, NEW p \in PC,
           NEW x \in Call \cup Ending \cup {NoCall},
           pc' = [pc EXCEPT ![c] = p], call' = [call EXCEPT ![c] = x],
           p \in {"conflict", "written", "refused", "backoff"} => x \in Call /\ Resumes(x),
           p = "backoff" => x.attempt > 0,
           p \in {"undo", "closing"} => x.tx \in Tx /\ x.undo \in 0..Len(ops[x.tx])
    PROVE  CallsInv'
<1>1. pc' \in [Client -> PC] /\ call' \in [Client -> Call \cup Ending \cup {NoCall}]
  BY DEF CallsInv
<1>2. ASSUME NEW y, Resumes(y) PROVE y.rollback => y.tx \in Tx /\ y.undo \in 0..Len(ops'[y.tx])
  BY <1>2 DEF Resumes, LogsGrow
<1>3. ASSUME NEW d \in Client
      PROVE  /\ pc'[d] \in {"conflict", "written", "refused", "backoff"} =>
                  /\ call'[d] \in Call
                  /\ call'[d].rollback =>
                       call'[d].tx \in Tx /\ call'[d].undo \in 0..Len(ops'[call'[d].tx])
             /\ pc'[d] = "backoff" => call'[d].attempt > 0
             /\ pc'[d] \in {"undo", "closing"} =>
                  call'[d].tx \in Tx /\ call'[d].undo \in 0..Len(ops'[call'[d].tx])
  <2>1. CASE d = c
    <3>1. pc'[d] = p /\ call'[d] = x
      BY <2>1 DEF CallsInv
    <3>2. p \in {"undo", "closing"} => x.tx \in Tx /\ x.undo \in 0..Len(ops'[x.tx])
      BY DEF LogsGrow
    <3>3. QED
      BY <1>2, <3>1, <3>2
  <2>2. CASE d # c
    <3>1. pc'[d] = pc[d] /\ call'[d] = call[d]
      BY <2>2 DEF CallsInv
    <3>2. pc[d] \in {"undo", "closing"} =>
            call[d].tx \in Tx /\ call[d].undo \in 0..Len(ops'[call[d].tx])
      BY DEF LogsGrow, CallsInv
    <3>3. QED
      BY <1>2, <3>1, <3>2 DEF CallsInv
  <2>3. QED
    BY <2>1, <2>2
<1>4. QED
  BY <1>1, <1>3 DEF CallsInv, Resumes

LEMMA StayKeepsCallsInv ==
    ASSUME CallsInv, UNCHANGED <<pc, call, ops>>
    PROVE  CallsInv'
  BY DEF CallsInv, Resumes

LEMMA AttemptPutKeeps ==
    ASSUME StoreInv, CallsInv, GhostInv, LogsGrow, NEW c \in Client, NEW r \in Call, Resumes(r),
           AttemptPut(c, r), seen' = seen
    PROVE  StoreInv' /\ CallsInv' /\ foreign' \in [Tx -> SUBSET Key]
<1>1. r.key \in Key /\ r.value \in Value \cup {Nil}
  BY DEF Call
<1>2. CASE /\ store' = [store EXCEPT ![r.key] = [version |-> nextVersion, value |-> r.value]]
           /\ nextVersion' = nextVersion + 1
           /\ pc' = [pc EXCEPT ![c] = "written"]
           /\ call' = [call EXCEPT ![c] = r]
           /\ Interferes(r, r.key)
  <2>1. StoreInv'
    BY <1>1, <1>2, PutKeepsStoreInv
  <2>2. CallsInv'
    BY <1>2, MoveKeepsCallsInv DEF PC
  <2>3. QED
    BY <1>1, <1>2, <2>1, <2>2, InterferesType
<1>3. CASE /\ pc' = [pc EXCEPT ![c] = "conflict"]
           /\ call' = [call EXCEPT ![c] = [r EXCEPT !.found = store[r.key].version]]
           /\ UNCHANGED <<store, nextVersion, foreign>>
  <2> DEFINE x == [r EXCEPT !.found = store[r.key].version]
  <2>1. store[r.key].version \in Nat
    BY <1>1 DEF StoreInv, StoreTypeOK, Cell
  <2>2. x \in Call /\ Resumes(x)
    BY <2>1 DEF Call, Resumes
  <2> HIDE DEF x
  <2>3. call' = [call EXCEPT ![c] = x]
    BY <1>3 DEF x
  <2>4. CallsInv'
    BY <1>3, <2>2, <2>3, MoveKeepsCallsInv DEF PC
  <2>5. QED
    BY <1>3, <2>4, StoreInvUnchanged DEF GhostInv
<1>4. QED
  BY <1>2, <1>3 DEF AttemptPut

LEMMA ReturnKeeps ==
    ASSUME CallsInv, LogsGrow, NEW c \in Client, NEW r \in Call, Resumes(r), Return(c, r)
    PROVE  CallsInv'
<1>1. CASE r.rollback
  <2>1. r.tx \in Tx /\ r.undo \in 0..Len(ops[r.tx])
    BY <1>1 DEF Resumes
  <2>2. QED
    BY <1>1, <2>1, MoveKeepsCallsInv DEF Return, PC
<1>2. CASE ~r.rollback
  BY <1>2, MoveKeepsCallsInv DEF Return, PC
<1>3. QED
  BY <1>1, <1>2

LEMMA AttemptDeleteKeeps ==
    ASSUME StoreInv, CallsInv, GhostInv, LogsGrow, NEW c \in Client, NEW r \in Call, Resumes(r),
           AttemptDelete(c, r), seen' = seen, nextVersion' = nextVersion
    PROVE  StoreInv' /\ CallsInv' /\ foreign' \in [Tx -> SUBSET Key]
<1>1. r.key \in Key
  BY DEF Call
<1>2. CASE Return(c, r) /\ UNCHANGED <<store, foreign>>
  BY <1>2, ReturnKeeps, StoreInvUnchanged DEF GhostInv
<1>3. CASE /\ store' = [store EXCEPT ![r.key] = Absent]
           /\ Return(c, r)
           /\ Interferes(r, r.key)
  BY <1>1, <1>3, ReturnKeeps, DeleteKeepsStoreInv, InterferesType
<1>4. CASE /\ pc' = [pc EXCEPT ![c] = "refused"]
           /\ call' = [call EXCEPT ![c] = r]
           /\ UNCHANGED <<store, foreign>>
  BY <1>4, MoveKeepsCallsInv, StoreInvUnchanged DEF PC, GhostInv
<1>5. QED
  BY <1>2, <1>3, <1>4 DEF AttemptDelete

----------------------------------------------------------------------------

Inv == StoreInv /\ CallsInv /\ TxInv /\ GhostInv

LEMMA InvInit == Init => Inv
<1> SUFFICES ASSUME Init PROVE Inv
  OBVIOUS
<1>1. StoreInv
  BY StoreInvInit
<1>2. CallsInv
  BY DEF Init, CallsInv, PC
<1>3. TxInv
  BY EmptySeq DEF Init, TxInv
<1>4. GhostInv
  BY DEF Init, GhostInv, Untouched
<1>5. QED
  BY <1>1, <1>2, <1>3, <1>4 DEF Inv

LEMMA NewCallType ==
    ASSUME NEW k \in Key, NEW v \in Value \cup {Nil}, NEW exp \in Nat \cup {AnyVersion},
           NEW t \in Tx \cup {NoTx}
    PROVE  NewCall(k, v, exp, t) \in Call /\ Resumes(NewCall(k, v, exp, t))
  BY DEF NewCall, CallOf, Call, Resumes

(* The call that sleeps in its backoff, for the next attempt. *)
LEMMA NextAttemptType ==
    ASSUME NEW r \in Call, Resumes(r), r.attempt < MaxRetries,
           NEW x, x = [r EXCEPT !.expected = r.found, !.attempt = r.attempt + 1]
    PROVE  x \in Call /\ Resumes(x) /\ x.attempt > 0
<1>1. r.found \in Nat /\ r.attempt \in 0..MaxRetries /\ r.attempt + 1 \in 0..MaxRetries
  BY DEF Call
<1>2. x \in Call
  BY <1>1 DEF Call
<1>3. /\ x.rollback = r.rollback /\ x.tx = r.tx /\ x.undo = r.undo
      /\ x.attempt = r.attempt + 1
  BY DEF Call
<1>4. QED
  BY <1>1, <1>2, <1>3 DEF Resumes

LEMMA ExpectationType ==
    ASSUME StoreInv, NEW c \in Client, NEW k \in Key, NEW exp \in Expectation(c, k)
    PROVE  exp \in Nat \cup {AnyVersion}
  BY DEF Expectation, StoreInv, StoreTypeOK, Cell

LEMMA LogsUnchanged ==
    ASSUME TxInv, ops' = ops
    PROVE  LogsGrow
  BY LenProperties DEF TxInv, LogsGrow

LEMMA LogKeeps ==
    ASSUME StoreInv, TxInv, GhostInv, NEW t \in Tx, NEW k \in Key, NEW type \in {"put", "delete"},
           Log(t, type, k)
    PROVE  /\ LogsGrow
           /\ base' = [u \in Tx |-> base'[u]]
           /\ \A u \in Tx : /\ DOMAIN base'[u] \subseteq Key
                            /\ \A j \in DOMAIN base'[u] : base'[u][j] \in Value \cup {Nil}
<1> DEFINE op == [type |-> type, key |-> k, old |-> store[k].value]
<1>1. op \in Op /\ store[k].value \in Value \cup {Nil}
  BY DEF Op, StoreInv, StoreTypeOK, Cell
<1> HIDE DEF op
<1>2. ops' = [ops EXCEPT ![t] = Append(ops[t], op)] /\ ops[t] \in Seq(Op)
  BY DEF Log, TxInv, op
<1>3. Append(ops[t], op) \in Seq(Op) /\ Len(Append(ops[t], op)) = Len(ops[t]) + 1
  BY <1>1, <1>2, AppendProperties
<1>4. LogsGrow
  BY <1>2, <1>3, LenProperties DEF LogsGrow, TxInv
<1> DEFINE more == IF k \in DOMAIN base[t] THEN base[t]
                   ELSE [j \in DOMAIN base[t] \cup {k} |-> IF j = k THEN store[k].value
                                                                   ELSE base[t][j]]
<1>5. base' = [base EXCEPT ![t] = more]
  BY DEF Log
<1>6. DOMAIN more \subseteq Key /\ \A j \in DOMAIN more : more[j] \in Value \cup {Nil}
  BY <1>1 DEF GhostInv
<1> HIDE DEF more
<1>7. base = [u \in Tx |-> base[u]]
  BY DEF GhostInv
<1>8. base' = [u \in Tx |-> IF u = t THEN more ELSE base[u]]
  BY <1>5, <1>7
<1>9. QED
  BY <1>4, <1>6, <1>8 DEF GhostInv

(* The call that the loop of rollback() makes: its value is the one that the *)
(* operation found, and it expects no version.                               *)
LEMMA UndoCall ==
    ASSUME CallsInv, TxInv, NEW c \in Client, pc[c] = "undo", call[c].undo > 0
    PROVE  LET t == call[c].tx
               op == ops[t][call[c].undo]
               r == CallOf(op.key, op.old, AnyVersion, t, call[c].undo - 1, TRUE)
           IN  /\ t \in Tx /\ call[c].undo \in 1..Len(ops[t])
               /\ call[c].undo - 1 \in 0..Len(ops[t])
               /\ op \in Op
               /\ r \in Call /\ Resumes(r)
               /\ r.tx = t /\ r.undo = call[c].undo - 1 /\ r.rollback
               /\ r.key = op.key /\ r.value = op.old /\ r.expected = AnyVersion
<1> DEFINE t == call[c].tx
           op == ops[t][call[c].undo]
           r == CallOf(op.key, op.old, AnyVersion, t, call[c].undo - 1, TRUE)
<1>1. t \in Tx /\ call[c].undo \in 1..Len(ops[t]) /\ ops[t] \in Seq(Op)
  BY DEF CallsInv, TxInv
<1>2. op \in Op
  BY <1>1, ElementOfSeq
<1>3. call[c].undo - 1 \in 0..Len(ops[t]) /\ call[c].undo - 1 \in Nat
  BY <1>1, LenProperties
<1>4. op.key \in Key /\ op.old \in Value \cup {Nil}
  BY <1>2 DEF Op
<1> HIDE DEF op
<1>5. r = [key |-> op.key, value |-> op.old, given |-> AnyVersion,
           expected |-> AnyVersion, found |-> 0, attempt |-> 0, tx |-> t,
           undo |-> call[c].undo - 1, rollback |-> TRUE]
  BY DEF CallOf
<1> HIDE DEF r, t
<1>6. r \in Call
  BY <1>1, <1>3, <1>4, <1>5 DEF Call
<1>7. /\ r.tx = t /\ r.undo = call[c].undo - 1 /\ r.rollback
      /\ r.key = op.key /\ r.value = op.old /\ r.expected = AnyVersion
  BY <1>5
<1>8. Resumes(r)
  BY <1>1, <1>3, <1>7 DEF Resumes
<1>9. QED
  BY <1>1, <1>2, <1>3, <1>6, <1>7, <1>8 DEF t, op, r

(* Every step preserves the invariant. *)
LEMMA InvNext == Inv /\ [Next]_vars => Inv'
<1> SUFFICES ASSUME StoreInv, CallsInv, TxInv, GhostInv, [Next]_vars PROVE Inv'
  BY DEF Inv
<1>g. ASSUME UNCHANGED base, foreign' \in [Tx -> SUBSET Key] PROVE GhostInv'
  BY <1>g DEF GhostInv
<1>t. ASSUME NEW c \in Client, Calls(c) PROVE budget' \in Nat
  BY <1>t DEF Calls, TxInv
<1>u. ASSUME UNCHANGED txVars, budget' \in Nat PROVE TxInv' /\ LogsGrow
  BY <1>u, LogsUnchanged DEF TxInv, txVars
<1>1. ASSUME NEW c \in Client, NEW k \in Key, Read(c, k) PROVE Inv'
  BY <1>1, <1>g, <1>u, ReadKeepsStoreInv, StayKeepsCallsInv
  DEF Read, Inv, storeVars, txVars, ghosts, TxInv, GhostInv
<1>2. ASSUME NEW c \in Client, NEW k \in Key, NEW v \in Value \cup {Nil},
             NEW exp \in Expectation(c, k), Put(c, k, v, exp)
      PROVE  Inv'
  <2> DEFINE r == NewCall(k, v, exp, NoTx)
  <2>1. r \in Call /\ Resumes(r)
    BY NewCallType, ExpectationType
  <2>2. TxInv' /\ LogsGrow
    BY <1>2, <1>t, <1>u DEF Put
  <2> HIDE DEF r
  <2>3. StoreInv' /\ CallsInv' /\ foreign' \in [Tx -> SUBSET Key]
    BY <1>2, <2>1, <2>2, AttemptPutKeeps DEF Put, r
  <2>4. QED
    BY <1>2, <1>g, <2>2, <2>3 DEF Put, Inv
<1>3. ASSUME NEW c \in Client, NEW k \in Key, NEW exp \in Expectation(c, k), Delete(c, k, exp)
      PROVE  Inv'
  <2> DEFINE r == NewCall(k, Nil, exp, NoTx)
  <2>1. r \in Call /\ Resumes(r)
    BY NewCallType, ExpectationType
  <2>2. TxInv' /\ LogsGrow
    BY <1>3, <1>t, <1>u DEF Delete
  <2> HIDE DEF r
  <2>3. StoreInv' /\ CallsInv' /\ foreign' \in [Tx -> SUBSET Key]
    BY <1>3, <2>1, <2>2, AttemptDeleteKeeps DEF Delete, r
  <2>4. QED
    BY <1>3, <1>g, <2>2, <2>3 DEF Delete, Inv
<1>4. ASSUME NEW c \in Client, NEW t \in Tx, NEW k \in Key, NEW v \in Value \cup {Nil},
             NEW exp \in Expectation(c, k), TxPut(c, t, k, v, exp)
      PROVE  Inv'
  <2> DEFINE r == NewCall(k, v, exp, t)
  <2>1. r \in Call /\ Resumes(r)
    BY NewCallType, ExpectationType
  <2>2. TxInv' /\ LogsGrow
    BY <1>4, <1>t, LogKeeps DEF TxPut, TxInv, LogsGrow
  <2> HIDE DEF r
  <2>3. StoreInv' /\ CallsInv' /\ foreign' \in [Tx -> SUBSET Key]
    BY <1>4, <2>1, <2>2, AttemptPutKeeps DEF TxPut, r
  <2>4. GhostInv'
    BY <1>4, <2>3, LogKeeps DEF TxPut, GhostInv
  <2>5. QED
    BY <2>2, <2>3, <2>4 DEF Inv
<1>5. ASSUME NEW c \in Client, NEW t \in Tx, NEW k \in Key, NEW exp \in Expectation(c, k),
             TxDelete(c, t, k, exp)
      PROVE  Inv'
  <2> DEFINE r == NewCall(k, Nil, exp, t)
  <2>1. r \in Call /\ Resumes(r)
    BY NewCallType, ExpectationType
  <2>2. TxInv' /\ LogsGrow
    BY <1>5, <1>t, LogKeeps DEF TxDelete, TxInv, LogsGrow
  <2> HIDE DEF r
  <2>3. StoreInv' /\ CallsInv' /\ foreign' \in [Tx -> SUBSET Key]
    BY <1>5, <2>1, <2>2, AttemptDeleteKeeps DEF TxDelete, r
  <2>4. GhostInv'
    BY <1>5, <2>3, LogKeeps DEF TxDelete, GhostInv
  <2>5. QED
    BY <2>2, <2>3, <2>4 DEF Inv
<1>6. ASSUME NEW c \in Client, NEW t \in Tx, TxBegin(c, t) PROVE Inv'
  <2>1. StoreInv' /\ CallsInv'
    BY <1>6, StoreInvUnchanged, StayKeepsCallsInv DEF TxBegin, storeVars
  <2>2. TxInv'
    BY <1>6 DEF TxBegin, TxInv
  <2>3. QED
    BY <1>6, <1>g, <2>1, <2>2 DEF TxBegin, Inv, ghosts, GhostInv
<1>7. ASSUME NEW c \in Client, NEW t \in Tx, Commit(c, t) \/ Rollback(c, t) PROVE Inv'
  <2>1. TxInv' /\ LogsGrow
    BY <1>7, <1>t, LogsUnchanged DEF Commit, Rollback, TxInv
  <2>2. Len(ops[t]) \in Nat
    BY <2>1 DEF LogsGrow
  <2>3. CallsInv'
    <3>1. ASSUME NEW n \in 0..Len(ops[t]), NEW p \in {"closing", "undo"},
                 pc' = [pc EXCEPT ![c] = p], call' = [call EXCEPT ![c] = TxCall(t, n)]
          PROVE  CallsInv'
      <4> DEFINE x == TxCall(t, n)
      <4>1. x \in Ending /\ x.tx = t /\ x.undo = n
        BY <2>2 DEF TxCall, Ending
      <4> HIDE DEF x
      <4>2. call' = [call EXCEPT ![c] = x]
        BY <3>1 DEF x
      <4>3. QED
        BY <2>1, <3>1, <4>1, <4>2, MoveKeepsCallsInv DEF PC
    <3>2. QED
      BY <1>7, <2>2, <3>1 DEF Commit, Rollback
  <2>4. StoreInv'
    BY <1>7, StoreInvUnchanged DEF Commit, Rollback, storeVars
  <2>5. QED
    BY <1>7, <1>g, <2>1, <2>3, <2>4 DEF Commit, Rollback, Inv, ghosts, GhostInv
<1>8. ASSUME NEW c \in Client, Undo(c) PROVE Inv'
  <2> DEFINE t == call[c].tx
             op == ops[t][call[c].undo]
             r == CallOf(op.key, op.old, AnyVersion, t, call[c].undo - 1, TRUE)
  <2>1. TxInv' /\ LogsGrow
    BY <1>8, <1>u DEF Undo, TxInv
  <2>2. /\ t \in Tx /\ call[c].undo - 1 \in 0..Len(ops[t])
        /\ r \in Call /\ Resumes(r) /\ r.tx = t /\ r.undo = call[c].undo - 1
    BY <1>8, UndoCall DEF Undo
  <2> HIDE DEF r, op
  <2>3. StoreInv' /\ CallsInv' /\ foreign' \in [Tx -> SUBSET Key]
    <3>1. CASE AttemptPut(c, r)
      BY <1>8, <2>1, <2>2, <3>1, AttemptPutKeeps DEF Undo
    <3>2. CASE AttemptDelete(c, r) /\ UNCHANGED nextVersion
      BY <1>8, <2>1, <2>2, <3>2, AttemptDeleteKeeps DEF Undo
    <3>3. CASE call' = [call EXCEPT ![c] = r] /\ UNCHANGED <<storeVars, pc, foreign>>
      <4>1. pc' = [pc EXCEPT ![c] = "undo"]
        BY <1>8, <3>3 DEF Undo, CallsInv
      <4>2. CallsInv'
        BY <2>1, <2>2, <3>3, <4>1, MoveKeepsCallsInv DEF PC
      <4>3. QED
        BY <1>8, <3>3, <4>2, StoreInvUnchanged DEF Undo, storeVars, GhostInv
    <3>4. QED
      BY <1>8, <3>1, <3>2, <3>3 DEF Undo, r, op
  <2>4. QED
    BY <1>8, <1>g, <2>1, <2>3 DEF Undo, Inv
<1>9. ASSUME NEW c \in Client, UndoDone(c) PROVE Inv'
  <2>1. TxInv' /\ LogsGrow
    BY <1>9, <1>u DEF UndoDone, TxInv
  <2>2. call[c] \in Call \cup Ending \cup {NoCall} /\ call' = [call EXCEPT ![c] = call[c]]
    BY <1>9 DEF UndoDone, CallsInv
  <2>3. call[c].tx \in Tx /\ call[c].undo \in 0..Len(ops[call[c].tx])
    BY <1>9 DEF UndoDone, CallsInv
  <2>4. CallsInv'
    BY <1>9, <2>1, <2>2, <2>3, MoveKeepsCallsInv DEF UndoDone, PC
  <2>5. QED
    BY <1>9, <1>g, <2>1, <2>4, StoreInvUnchanged DEF UndoDone, Inv, storeVars, ghosts, GhostInv
<1>10. ASSUME NEW c \in Client, NEW ok \in BOOLEAN, Published(c, ok) PROVE Inv'
  <2> DEFINE r == call[c]
  <2>1. TxInv' /\ LogsGrow
    BY <1>10, <1>u DEF Published, TxInv
  <2>2. r \in Call /\ Resumes(r)
    BY <1>10 DEF Published, CallsInv
  <2>3. CallsInv'
    <3>1. CASE Return(c, r)
      BY <2>1, <2>2, <3>1, ReturnKeeps
    <3>2. CASE /\ r.attempt < MaxRetries
               /\ pc' = [pc EXCEPT ![c] = "backoff"]
               /\ call' = [call EXCEPT ![c].expected = r.found, ![c].attempt = @ + 1]
      <4> DEFINE x == [r EXCEPT !.expected = r.found, !.attempt = r.attempt + 1]
      <4>1. x \in Call /\ Resumes(x) /\ x.attempt > 0
        BY <2>2, <3>2, NextAttemptType
      <4>2. call' = [call EXCEPT ![c] = x]
        BY <3>2, <2>2 DEF CallsInv
      <4> HIDE DEF x
      <4>3. QED
        BY <2>1, <3>2, <4>1, <4>2, MoveKeepsCallsInv DEF PC
    <3>3. QED
      BY <1>10, <3>1, <3>2 DEF Published
  <2>4. QED
    BY <1>10, <1>g, <2>1, <2>3, StoreInvUnchanged
    DEF Published, Inv, storeVars, ghosts, GhostInv
<1>11. ASSUME NEW c \in Client, Retry(c) PROVE Inv'
  <2>1. TxInv' /\ LogsGrow
    BY <1>11, <1>u DEF Retry, TxInv
  <2>2. call[c] \in Call /\ Resumes(call[c])
    BY <1>11 DEF Retry, CallsInv
  <2>3. StoreInv' /\ CallsInv' /\ foreign' \in [Tx -> SUBSET Key]
    BY <1>11, <2>1, <2>2, AttemptPutKeeps DEF Retry
  <2>4. QED
    BY <1>11, <1>g, <2>1, <2>3 DEF Retry, Inv
<1>12. ASSUME NEW c \in Client, NEW ok \in BOOLEAN, Closed(c, ok) PROVE Inv'
  <2>1. TxInv'
    BY <1>12 DEF Closed, TxInv
  <2>2. LogsGrow
    BY <1>12, LogsUnchanged DEF Closed
  <2>3. CallsInv'
    BY <1>12, <2>2, MoveKeepsCallsInv DEF Closed, PC
  <2>4. QED
    BY <1>12, <1>g, <2>1, <2>3, StoreInvUnchanged
    DEF Closed, Inv, storeVars, ghosts, GhostInv
<1>13. CASE UNCHANGED vars
  BY <1>13, <1>g, <1>u, StoreInvUnchanged, StayKeepsCallsInv
  DEF vars, txVars, Inv, TxInv, GhostInv
<1>14. QED
  BY <1>1, <1>2, <1>3, <1>4, <1>5, <1>6, <1>7, <1>8, <1>9, <1>10, <1>11, <1>12, <1>13
  DEF Next, ClientStep

(* The types of the store, its transactions and its callers. *)
THEOREM StoreTypeCorrect == Spec => []TypeOK
<1>1. Inv => TypeOK
  BY DEF Inv, StoreInv, StoreTypeOK, CallsInv, TxInv, GhostInv, TypeOK
<1>2. QED
  BY <1>1, InvInit, InvNext, PTL DEF Spec

(* No version is ever given twice, by any number of keys and clients.        *)
THEOREM VersionsAreUnique == Spec => []VersionsUnique
<1>1. Inv => VersionsUnique
  BY DEF Inv, StoreInv
<1>2. QED
  BY <1>1, InvInit, InvNext, PTL DEF Spec

(* A client that meets a version again meets the value it read with it.      *)
THEOREM VersionsIdentifyValues == Spec => []VersionIdentifiesValue
<1>1. Inv => VersionIdentifiesValue
  BY DEF Inv, StoreInv
<1>2. QED
  BY <1>1, InvInit, InvNext, PTL DEF Spec

(* Where the other clients are, a step of one does not change. *)
LEMMA OthersStay ==
    ASSUME CallsInv, NEW c \in Client, ClientStep(c), NEW d \in Client, d # c
    PROVE  pc'[d] = pc[d] /\ call'[d] = call[d]
<1>1. ASSUME NEW p, NEW x, pc' = [pc EXCEPT ![c] = p] \/ UNCHANGED pc,
             call' = [call EXCEPT ![c] = x] \/ UNCHANGED call
      PROVE  pc'[d] = pc[d] /\ call'[d] = call[d]
  BY <1>1 DEF CallsInv
<1>2. ASSUME NEW r, AttemptPut(c, r) \/ AttemptDelete(c, r) \/ Return(c, r)
      PROVE  pc'[d] = pc[d] /\ call'[d] = call[d]
  BY <1>1, <1>2 DEF AttemptPut, AttemptDelete, Return
<1>3. ASSUME NEW k \in Key, NEW v \in Value \cup {Nil}, NEW exp \in Expectation(c, k),
             Put(c, k, v, exp) \/ \E t \in Tx : TxPut(c, t, k, v, exp)
      PROVE  pc'[d] = pc[d] /\ call'[d] = call[d]
  BY <1>2, <1>3 DEF Put, TxPut
<1>4. ASSUME NEW k \in Key, NEW exp \in Expectation(c, k),
             Delete(c, k, exp) \/ \E t \in Tx : TxDelete(c, t, k, exp)
      PROVE  pc'[d] = pc[d] /\ call'[d] = call[d]
  BY <1>2, <1>4 DEF Delete, TxDelete
<1>5. ASSUME \/ \E k \in Key : Read(c, k)
             \/ \E t \in Tx : TxBegin(c, t) \/ Commit(c, t) \/ Rollback(c, t)
             \/ UndoDone(c)
             \/ \E ok \in BOOLEAN : Closed(c, ok)
      PROVE  pc'[d] = pc[d] /\ call'[d] = call[d]
  BY <1>1, <1>5 DEF Read, TxBegin, Commit, Rollback, UndoDone, Closed
<1>6. ASSUME Undo(c) PROVE pc'[d] = pc[d] /\ call'[d] = call[d]
  BY <1>1, <1>2, <1>6 DEF Undo
<1>7. ASSUME NEW ok \in BOOLEAN, Published(c, ok) PROVE pc'[d] = pc[d] /\ call'[d] = call[d]
  <2>1. CASE Return(c, call[c])
    BY <1>2, <2>1
  <2>2. CASE /\ pc' = [pc EXCEPT ![c] = "backoff"]
             /\ call' = [call EXCEPT ![c].expected = call[c].found, ![c].attempt = @ + 1]
    BY <2>2 DEF CallsInv
  <2>3. QED
    BY <1>7, <2>1, <2>2 DEF Published
<1>8. ASSUME Retry(c) PROVE pc'[d] = pc[d] /\ call'[d] = call[d]
  BY <1>2, <1>8 DEF Retry
<1>9. QED
  BY <1>3, <1>4, <1>5, <1>6, <1>7, <1>8 DEF ClientStep

----------------------------------------------------------------------------

(* A call that writes is the one that was tried, and its comparison held.    *)
LEMMA WriterPuts ==
    ASSUME CallsInv, NEW c \in Client, NEW d \in Client, NEW r, AttemptPut(d, r), Writes(c)
    PROVE  /\ d = c
           /\ call'[c] = r
           /\ r.expected = AnyVersion \/ r.expected = store[r.key].version
<1>1. /\ pc' = [pc EXCEPT ![d] = "written"]
      /\ call' = [call EXCEPT ![d] = r]
      /\ r.expected = AnyVersion \/ r.expected = store[r.key].version
  BY DEF AttemptPut, Writes
<1>2. d = c
  BY <1>1 DEF CallsInv, Writes
<1>3. QED
  BY <1>1, <1>2 DEF CallsInv

(* A new call that writes under an expectation writes over what it read. *)
LEMMA ExpectedIsSeen ==
    ASSUME StoreInv, NEW c \in Client, NEW k \in Key, NEW exp \in Expectation(c, k),
           exp # AnyVersion, exp = store[k].version
    PROVE  store[k] = seen[c][k]
  BY DEF Expectation, StoreInv, VersionIdentifiesValue

(* No conditional put that was never refused loses an update: it replaces    *)
(* the value its caller last read, whatever other clients and transactions   *)
(* did in between.                                                           *)
THEOREM NoUpdateLostSilently == Spec => NoSilentLostUpdate
<1> DEFINE A == \A c \in Client : LET r == call'[c] IN
                  Writes(c) /\ r.given # AnyVersion /\ r.attempt = 0
                    => store[r.key] = seen[c][r.key]
<1>1. Inv /\ [Next]_vars => [A]_vars
  <2> SUFFICES ASSUME StoreInv, CallsInv, Next, NEW c \in Client, Writes(c),
                      call'[c].given # AnyVersion, call'[c].attempt = 0
               PROVE  store[call'[c].key] = seen[c][call'[c].key]
    BY DEF Inv, Writes, vars
  <2>1. PICK d \in Client : ClientStep(d)
    BY DEF Next
  <2>a. ASSUME NEW k \in Key, NEW v, NEW t, NEW exp \in Expectation(d, k),
               AttemptPut(d, NewCall(k, v, exp, t))
        PROVE  store[call'[c].key] = seen[c][call'[c].key]
    <3> DEFINE r == NewCall(k, v, exp, t)
    <3>1. d = c /\ call'[c] = r /\ (r.expected = AnyVersion \/ r.expected = store[r.key].version)
      BY <2>a, WriterPuts
    <3>2. r.key = k /\ r.given = exp /\ r.expected = exp
      BY DEF NewCall, CallOf
    <3> HIDE DEF r
    <3>3. QED
      BY <3>1, <3>2, ExpectedIsSeen
  <2>2. ASSUME NEW k \in Key, NEW v \in Value \cup {Nil}, NEW exp \in Expectation(d, k),
               Put(d, k, v, exp) \/ \E t \in Tx : TxPut(d, t, k, v, exp)
        PROVE  store[call'[c].key] = seen[c][call'[c].key]
    BY <2>2, <2>a DEF Put, TxPut
  <2>3. ASSUME Undo(d) PROVE FALSE
    <3> DEFINE op == ops[call[d].tx][call[d].undo]
               r == CallOf(op.key, op.old, AnyVersion, call[d].tx, call[d].undo - 1, TRUE)
    <3>1. AttemptPut(d, r)
      BY <2>3 DEF Undo, Writes, storeVars
    <3>2. r.given = AnyVersion
      BY DEF CallOf
    <3> HIDE DEF r
    <3>3. QED
      BY <3>1, <3>2, WriterPuts
  <2>4. ASSUME Retry(d) PROVE FALSE
    <3>1. AttemptPut(d, call[d]) /\ call[d] \in Call /\ call[d].attempt > 0
      BY <2>4 DEF Retry, CallsInv
    <3>2. QED
      BY <3>1, WriterPuts DEF Call
  <2>5. nextVersion' # nextVersion
    BY DEF Writes
  <2>6. QED
    BY <2>1, <2>2, <2>3, <2>4, <2>5 DEF ClientStep, Read, Delete, TxDelete, TxBegin, Commit,
       Rollback, UndoDone, Published, Closed, storeVars
<1>2. QED
  BY <1>1, InvInit, InvNext, PTL DEF Spec, NoSilentLostUpdate

----------------------------------------------------------------------------
(* What a rollback gives back.  The undo log says what each operation of a   *)
(* transaction found; undoing leads to the value of the first one, provided  *)
(* nobody else wrote the key, and provided the operations that rollback()    *)
(* passes over had nothing to undo.                                          *)

(* rollback() passes over the delete of a key that held None. *)
PassedOver(op) == op.type = "delete" /\ op.old = Nil

(* Among the first n operations of t, none on k is undone. *)
NoneUpTo(t, k, n) == \A i \in 1..n : ops[t][i].key = k => PassedOver(ops[t][i])

(* The keys of t that only t has written. *)
Own(t) == DOMAIN base[t] \ foreign[t]

(* The log knows every key of the transaction, and the first operation on a  *)
(* key that would be undone found the value that was there at the beginning. *)
LogInv ==
    \A t \in Tx : \A i \in 1..Len(ops[t]) :
        /\ ops[t][i].key \in DOMAIN base[t]
        /\ \A k \in Own(t) :
             ops[t][i].key = k /\ NoneUpTo(t, k, i - 1) => ops[t][i].old = base[t][k]

(* Client c is in commit() or rollback(), and in that rollback() of t. *)
Ends(c) == pc[c] \in {"undo", "closing"} \/ (pc[c] = "written" /\ call[c].rollback)
RollsBack(c, t) == Ends(c) /\ call[c].tx = t /\ status[t] = "ROLLED_BACK"

EndInv ==
    /\ \A c \in Client :
         /\ pc[c] \in {"conflict", "refused", "backoff"} => ~call[c].rollback
         /\ Ends(c) => \/ status[call[c].tx] = "ROLLED_BACK"
                       \/ status[call[c].tx] = "COMMITTED" /\ pc[c] = "closing"
         /\ pc[c] = "closing" => call[c].undo = 0
    /\ \A c, d \in Client : \A t \in Tx : RollsBack(c, t) /\ RollsBack(d, t) => c = d

(* A put that is tried again was logged. *)
RetryInv ==
    \A c \in Client : pc[c] \in {"conflict", "backoff"} /\ call[c].tx \in Tx =>
        \E i \in 1..Len(ops[call[c].tx]) : /\ ops[call[c].tx][i].key = call[c].key
                                           /\ ops[call[c].tx][i].type = "put"

(* n operations of t may still be undone: all of them, or what the client    *)
(* that rolls t back has left.                                               *)
Left(t, n) ==
    \/ n = Len(ops[t])
    \/ \E c \in Client : RollsBack(c, t) /\ call[c].undo = n

(* Once no operation on a key is left to undo, the key is as it was. *)
UndoneInv ==
    \A t \in Tx : \A n \in 0..Len(ops[t]) : Left(t, n) =>
        \A k \in Own(t) : NoneUpTo(t, k, n) => store[k].value = base[t][k]

RollbackInv == LogInv /\ EndInv /\ RetryInv /\ UndoneInv

(* How the log grows. *)
LEMMA LogAppends ==
    ASSUME TxInv, GhostInv, NEW t \in Tx, NEW k \in Key, NEW type, Log(t, type, k)
    PROVE  /\ \A u \in Tx \ {t} : ops'[u] = ops[u] /\ base'[u] = base[u]
           /\ Len(ops[t]) \in Nat /\ Len(ops'[t]) = Len(ops[t]) + 1
           /\ \A i \in 1..Len(ops[t]) : ops'[t][i] = ops[t][i]
           /\ ops'[t][Len(ops[t]) + 1].type = type
           /\ ops'[t][Len(ops[t]) + 1].key = k
           /\ ops'[t][Len(ops[t]) + 1].old = store[k].value
           /\ DOMAIN base'[t] = DOMAIN base[t] \cup {k}
           /\ \A j \in DOMAIN base[t] : base'[t][j] = base[t][j]
           /\ k \notin DOMAIN base[t] => base'[t][k] = store[k].value
<1> DEFINE op == [type |-> type, key |-> k, old |-> store[k].value]
<1>1. ops' = [ops EXCEPT ![t] = Append(ops[t], op)] /\ ops[t] \in Seq(Op)
  BY DEF Log, TxInv
<1> HIDE DEF op
<1>2. /\ Len(ops[t]) \in Nat /\ Len(Append(ops[t], op)) = Len(ops[t]) + 1
      /\ \A i \in 1..Len(ops[t]) : Append(ops[t], op)[i] = ops[t][i]
      /\ Append(ops[t], op)[Len(ops[t]) + 1] = op
  BY <1>1
<1>3. ops'[t] = Append(ops[t], op) /\ \A u \in Tx \ {t} : ops'[u] = ops[u]
  BY <1>1 DEF TxInv
<1> DEFINE more == IF k \in DOMAIN base[t] THEN base[t]
                   ELSE [j \in DOMAIN base[t] \cup {k} |-> IF j = k THEN store[k].value
                                                                   ELSE base[t][j]]
<1>4. base' = [base EXCEPT ![t] = more]
  BY DEF Log
<1>5. /\ DOMAIN more = DOMAIN base[t] \cup {k}
      /\ \A j \in DOMAIN base[t] : more[j] = base[t][j]
      /\ k \notin DOMAIN base[t] => more[k] = store[k].value
  OBVIOUS
<1> HIDE DEF more
<1>6. base'[t] = more /\ \A u \in Tx \ {t} : base'[u] = base[u]
  BY <1>4 DEF GhostInv
<1>7. op.type = type /\ op.key = k /\ op.old = store[k].value
  BY DEF op
<1>8. QED
  BY <1>2, <1>3, <1>5, <1>6, <1>7

(* What a put and a delete do to their caller and to their key. *)
LEMMA PutMoves ==
    ASSUME CallsInv, NEW c \in Client, NEW r \in Call, AttemptPut(c, r)
    PROVE  \/ /\ pc'[c] = "written" /\ call'[c] = r
              /\ store' = [store EXCEPT ![r.key] = [version |-> nextVersion, value |-> r.value]]
              /\ Interferes(r, r.key)
           \/ /\ pc'[c] = "conflict" /\ r.expected # AnyVersion
              /\ call'[c].key = r.key /\ call'[c].tx = r.tx /\ call'[c].rollback = r.rollback
              /\ UNCHANGED <<store, foreign>>
<1> DEFINE x == [r EXCEPT !.found = store[r.key].version]
<1>1. x.key = r.key /\ x.tx = r.tx /\ x.rollback = r.rollback
  BY DEF Call
<1> HIDE DEF x
<1>2. CASE /\ store' = [store EXCEPT ![r.key] = [version |-> nextVersion, value |-> r.value]]
           /\ pc' = [pc EXCEPT ![c] = "written"]
           /\ call' = [call EXCEPT ![c] = r]
           /\ Interferes(r, r.key)
  BY <1>2 DEF CallsInv
<1>3. CASE /\ r.expected # AnyVersion
           /\ pc' = [pc EXCEPT ![c] = "conflict"]
           /\ call' = [call EXCEPT ![c] = x]
           /\ UNCHANGED <<store, foreign>>
  BY <1>1, <1>3 DEF CallsInv
<1>4. QED
  BY <1>2, <1>3 DEF AttemptPut, x

LEMMA DeleteMoves ==
    ASSUME CallsInv, NEW c \in Client, NEW r \in Call, AttemptDelete(c, r)
    PROVE  \/ /\ pc'[c] = "refused" /\ call'[c] = r /\ r.expected # AnyVersion
              /\ UNCHANGED <<store, foreign>>
           \/ /\ r.rollback => pc'[c] = "undo" /\ call'[c] = r
              /\ ~r.rollback => pc'[c] = "idle"
              /\ \/ store[r.key] = Absent /\ UNCHANGED <<store, foreign>>
                 \/ store' = [store EXCEPT ![r.key] = Absent] /\ Interferes(r, r.key)
<1>1. ASSUME Return(c, r)
      PROVE  /\ r.rollback => pc'[c] = "undo" /\ call'[c] = r
             /\ ~r.rollback => pc'[c] = "idle"
  BY <1>1 DEF Return, CallsInv
<1>2. ASSUME pc' = [pc EXCEPT ![c] = "refused"], call' = [call EXCEPT ![c] = r]
      PROVE  pc'[c] = "refused" /\ call'[c] = r
  BY <1>2 DEF CallsInv
<1>3. QED
  BY <1>1, <1>2 DEF AttemptDelete

(* A step of client c that changes the status of t, if of any, changes it    *)
(* while nobody is ending t.                                                 *)
LEMMA EndKeeps ==
    ASSUME CallsInv, EndInv, NEW c \in Client, ClientStep(c),
           \A t \in Tx : status'[t] = status[t] \/ status[t] \in {"new", "ACTIVE"},
           pc'[c] \in {"conflict", "refused", "backoff"} => ~call'[c].rollback,
           Ends(c)' => \/ status'[call'[c].tx] = "ROLLED_BACK"
                       \/ status'[call'[c].tx] = "COMMITTED" /\ pc'[c] = "closing",
           pc'[c] = "closing" => call'[c].undo = 0,
           \A t \in Tx : RollsBack(c, t)' => RollsBack(c, t) \/ status[t] = "ACTIVE"
    PROVE  EndInv'
<1>1. ASSUME NEW d \in Client \ {c}
      PROVE  /\ pc'[d] = pc[d] /\ call'[d] = call[d]
             /\ Ends(d)' <=> Ends(d)
             /\ Ends(d) => call[d].tx \in Tx /\ status'[call[d].tx] = status[call[d].tx]
             /\ \A t \in Tx : RollsBack(d, t)' <=> RollsBack(d, t)
  <2>1. pc'[d] = pc[d] /\ call'[d] = call[d]
    BY OthersStay
  <2>2. Ends(d)' <=> Ends(d)
    BY <2>1 DEF Ends
  <2>3. Ends(d) => call[d].tx \in Tx /\ status'[call[d].tx] = status[call[d].tx]
    BY DEF Ends, CallsInv, Resumes, EndInv
  <2>4. QED
    BY <2>1, <2>2, <2>3 DEF RollsBack
<1>2. ASSUME NEW d \in Client
      PROVE  /\ pc'[d] \in {"conflict", "refused", "backoff"} => ~call'[d].rollback
             /\ Ends(d)' => \/ status'[call'[d].tx] = "ROLLED_BACK"
                            \/ status'[call'[d].tx] = "COMMITTED" /\ pc'[d] = "closing"
             /\ pc'[d] = "closing" => call'[d].undo = 0
  BY <1>1 DEF EndInv
<1>3. ASSUME NEW d \in Client, NEW e \in Client, NEW t \in Tx, RollsBack(d, t)', RollsBack(e, t)'
      PROVE  d = e
  <2>1. ASSUME NEW f \in Client \ {c}, RollsBack(f, t)', RollsBack(c, t)' PROVE FALSE
    <3>1. RollsBack(f, t) /\ status[t] = "ROLLED_BACK"
      BY <1>1, <2>1 DEF RollsBack
    <3>2. RollsBack(c, t)
      BY <2>1, <3>1
    <3>3. QED
      BY <3>1, <3>2 DEF EndInv
  <2>2. QED
    BY <1>1, <1>3, <2>1 DEF EndInv
<1>4. QED
  BY <1>2, <1>3 DEF EndInv

LEMMA PlainCallKeepsEnds ==
    ASSUME CallsInv, EndInv, NEW c \in Client, ClientStep(c), NEW r \in Call, ~r.rollback,
           AttemptPut(c, r) \/ AttemptDelete(c, r), status' = status
    PROVE  EndInv'
<1>1. /\ pc'[c] \in {"written", "conflict", "refused"} => ~call'[c].rollback
      /\ pc'[c] \in {"written", "conflict", "refused", "idle"}
  BY PutMoves, DeleteMoves
<1>2. ~Ends(c)'
  BY <1>1 DEF Ends
<1>3. QED
  BY <1>1, <1>2, EndKeeps DEF RollsBack

(* No two clients roll the same transaction back, and nobody is in a         *)
(* rollback of a transaction that is not rolled back.                        *)
LEMMA EndInvNext == Inv /\ EndInv /\ [Next]_vars => EndInv'
<1> SUFFICES ASSUME StoreInv, CallsInv, TxInv, EndInv, [Next]_vars PROVE EndInv'
  BY DEF Inv
<1>1. CASE UNCHANGED vars
  BY <1>1 DEF vars, EndInv, Ends, RollsBack
<1>2. ASSUME NEW c \in Client, ClientStep(c) PROVE EndInv'
  <2>c. ASSUME NEW k \in Key, NEW v \in Value \cup {Nil}, NEW exp \in Expectation(c, k),
               NEW t \in Tx \cup {NoTx}, status' = status,
               \/ AttemptPut(c, NewCall(k, v, exp, t))
               \/ AttemptDelete(c, NewCall(k, v, exp, t))
        PROVE  EndInv'
    <3> DEFINE r == NewCall(k, v, exp, t)
    <3>1. r \in Call /\ ~r.rollback
      BY NewCallType, ExpectationType DEF NewCall, CallOf
    <3> HIDE DEF r
    <3>2. QED
      BY <1>2, <2>c, <3>1, PlainCallKeepsEnds DEF r
  <2>m. ASSUME status' = status, ~Ends(c)',
               pc'[c] \in {"conflict", "refused", "backoff"} => ~call'[c].rollback
        PROVE  EndInv'
    BY <1>2, <2>m, EndKeeps DEF Ends, RollsBack
  <2>s. ASSUME NEW t \in Tx, NEW s, NEW p, NEW x, status[t] = "ACTIVE", x.tx = t, x.undo = 0 \/ p = "undo",
               \/ s = "COMMITTED" /\ p = "closing"
               \/ s = "ROLLED_BACK" /\ p = "undo",
               status' = [status EXCEPT ![t] = s],
               pc' = [pc EXCEPT ![c] = p], call' = [call EXCEPT ![c] = x]
        PROVE  EndInv'
    <3>1. pc'[c] = p /\ call'[c] = x
      BY <2>s DEF CallsInv
    <3>2. status'[t] = s /\ \A u \in Tx : u # t => status'[u] = status[u]
      BY <2>s DEF TxInv
    <3>3. QED
      BY <1>2, <2>s, <3>1, <3>2, EndKeeps DEF RollsBack
  <2>1. ASSUME NEW k \in Key, Read(c, k) PROVE EndInv'
    BY <2>1 DEF Read, EndInv, Ends, RollsBack, txVars
  <2>2. ASSUME NEW k \in Key, NEW v \in Value \cup {Nil}, NEW exp \in Expectation(c, k),
               Put(c, k, v, exp) \/ \E t \in Tx : TxPut(c, t, k, v, exp)
        PROVE  EndInv'
    BY <2>2, <2>c DEF Put, TxPut, txVars
  <2>3. ASSUME NEW k \in Key, NEW exp \in Expectation(c, k),
               Delete(c, k, exp) \/ \E t \in Tx : TxDelete(c, t, k, exp)
        PROVE  EndInv'
    BY <2>3, <2>c DEF Delete, TxDelete, txVars
  <2>4. ASSUME NEW t \in Tx, TxBegin(c, t) PROVE EndInv'
    <3>1. /\ pc'[c] = "idle"
          /\ \A u \in Tx : status'[u] = status[u] \/ status[u] = "new"
      BY <2>4 DEF TxBegin, TxInv
    <3>2. QED
      BY <1>2, <3>1, EndKeeps DEF Ends, RollsBack
  <2>5. ASSUME NEW t \in Tx, Commit(c, t) \/ Rollback(c, t) PROVE EndInv'
    <3>1. ASSUME NEW n PROVE TxCall(t, n).tx = t /\ TxCall(t, n).undo = n
      BY DEF TxCall
    <3>2. QED
      BY <2>5, <2>s, <3>1 DEF Commit, Rollback
  <2>6. ASSUME Undo(c) PROVE EndInv'
    <3> DEFINE t == call[c].tx
               op == ops[t][call[c].undo]
               r == CallOf(op.key, op.old, AnyVersion, t, call[c].undo - 1, TRUE)
    <3>1. t \in Tx /\ r \in Call /\ r.tx = t /\ r.rollback /\ r.expected = AnyVersion
      BY <2>6, UndoCall DEF Undo
    <3>2. RollsBack(c, t) /\ pc[c] = "undo" /\ status' = status
      BY <2>6, <3>1 DEF Undo, EndInv, RollsBack, Ends, txVars
    <3> HIDE DEF r, op
    <3>3. pc'[c] \in {"written", "undo"} /\ call'[c] = r
      <4>1. CASE AttemptPut(c, r)
        BY <3>1, <4>1, PutMoves
      <4>2. CASE AttemptDelete(c, r)
        BY <3>1, <4>2, DeleteMoves
      <4>3. CASE call' = [call EXCEPT ![c] = r] /\ pc' = pc
        BY <3>2, <4>3 DEF CallsInv
      <4>4. QED
        BY <2>6, <4>1, <4>2, <4>3 DEF Undo, r, op
    <3>4. QED
      BY <1>2, <3>1, <3>2, <3>3, EndKeeps DEF RollsBack
  <2>7. ASSUME UndoDone(c) PROVE EndInv'
    <3>1. /\ pc'[c] = "closing" /\ call'[c] = call[c] /\ status' = status
          /\ call[c].undo = 0 /\ call[c].tx \in Tx /\ Ends(c) /\ pc[c] = "undo"
      BY <2>7 DEF UndoDone, CallsInv, Ends, txVars
    <3>2. status[call[c].tx] = "ROLLED_BACK"
      BY <3>1 DEF EndInv
    <3>3. QED
      BY <1>2, <3>1, <3>2, EndKeeps DEF RollsBack
  <2>8. ASSUME NEW ok \in BOOLEAN, Published(c, ok) PROVE EndInv'
    <3> DEFINE r == call[c]
    <3>1. r \in Call /\ status' = status /\ pc[c] \in {"conflict", "written", "refused"}
      BY <2>8 DEF Published, CallsInv, txVars
    <3>2. CASE Return(c, r) /\ r.rollback
      <4>1. pc'[c] = "undo" /\ call'[c] = r
        BY <3>2 DEF Return, CallsInv
      <4>2. Ends(c)
        BY <3>1, <3>2 DEF Ends, EndInv
      <4>3. status[r.tx] = "ROLLED_BACK"
        BY <3>1, <4>2 DEF EndInv
      <4>4. QED
        BY <1>2, <3>1, <4>1, <4>2, <4>3, EndKeeps DEF RollsBack
    <3>3. CASE Return(c, r) /\ ~r.rollback
      <4>1. pc'[c] = "idle"
        BY <3>3 DEF Return, CallsInv
      <4>2. QED
        BY <2>m, <3>1, <4>1 DEF Ends
    <3>4. CASE /\ pc[c] = "conflict"
               /\ pc' = [pc EXCEPT ![c] = "backoff"]
               /\ call' = [call EXCEPT ![c].expected = r.found, ![c].attempt = @ + 1]
      <4>1. pc'[c] = "backoff" /\ call'[c].rollback = r.rollback
        BY <3>1, <3>4 DEF CallsInv, Call
      <4>2. QED
        BY <2>m, <3>1, <3>4, <4>1 DEF Ends, EndInv
    <3>5. QED
      BY <2>8, <3>2, <3>3, <3>4 DEF Published
  <2>9. ASSUME Retry(c) PROVE EndInv'
    <3>1. call[c] \in Call /\ ~call[c].rollback /\ AttemptPut(c, call[c]) /\ status' = status
      BY <2>9 DEF Retry, CallsInv, EndInv, txVars
    <3>2. QED
      BY <1>2, <3>1, PlainCallKeepsEnds
  <2>10. ASSUME NEW ok \in BOOLEAN, Closed(c, ok) PROVE EndInv'
    <3>1. pc'[c] = "idle" /\ status' = status
      BY <2>10 DEF Closed, CallsInv
    <3>2. QED
      BY <2>m, <3>1 DEF Ends
  <2>11. QED
    BY <1>2, <2>1, <2>2, <2>3, <2>4, <2>5, <2>6, <2>7, <2>8, <2>9, <2>10 DEF ClientStep
<1>3. QED
  BY <1>1, <1>2 DEF Next

(* No step takes anything out of a log. *)
LEMMA LogsKeep ==
    ASSUME TxInv, GhostInv, NEW c \in Client, ClientStep(c), NEW t \in Tx
    PROVE  /\ Len(ops[t]) \in Nat /\ Len(ops'[t]) \in Nat /\ Len(ops[t]) <= Len(ops'[t])
           /\ \A i \in 1..Len(ops[t]) : ops'[t][i] = ops[t][i]
<1>1. Len(ops[t]) \in Nat
  BY LenProperties DEF TxInv
<1>2. ASSUME NEW u \in Tx, NEW k \in Key, NEW type, Log(u, type, k)
      PROVE  /\ Len(ops'[t]) \in Nat /\ Len(ops[t]) <= Len(ops'[t])
             /\ \A i \in 1..Len(ops[t]) : ops'[t][i] = ops[t][i]
  <2>1. CASE t = u
    <3>1. Len(ops'[t]) = Len(ops[t]) + 1 /\ \A i \in 1..Len(ops[t]) : ops'[t][i] = ops[t][i]
      BY <1>2, <2>1, LogAppends
    <3>2. QED
      BY <1>1, <3>1
  <2>2. CASE t # u
    <3>1. ops'[t] = ops[t]
      BY <1>2, <2>2, LogAppends
    <3>2. QED
      BY <1>1, <3>1
  <2>3. QED
    BY <2>1, <2>2
<1>3. CASE ops' = ops
  BY <1>1, <1>3
<1>4. QED
  BY <1>1, <1>2, <1>3 DEF ClientStep, Read, Put, Delete, TxBegin, TxPut, TxDelete, Commit,
     Rollback, Undo, UndoDone, Published, Retry, Closed, txVars

LEMMA RetryInvNext == Inv /\ EndInv /\ RetryInv /\ [Next]_vars => RetryInv'
<1> SUFFICES ASSUME StoreInv, CallsInv, TxInv, GhostInv, EndInv, RetryInv, [Next]_vars
             PROVE  RetryInv'
  BY DEF Inv
<1>1. CASE UNCHANGED vars
  BY <1>1 DEF vars, RetryInv
<1>2. ASSUME NEW c \in Client, ClientStep(c) PROVE RetryInv'
  <2> DEFINE Logged(r) == r.tx \in Tx =>
                 \E i \in 1..Len(ops[r.tx]) : ops[r.tx][i].key = r.key /\ ops[r.tx][i].type = "put"
  <2>1. ASSUME NEW r, Logged(r) PROVE Logged(r)'
    BY <1>2, <2>1, LogsKeep
  <2>2. SUFFICES pc'[c] \in {"conflict", "backoff"} => Logged(call[c])'
    <3>1. ASSUME NEW d \in Client \ {c}, pc'[d] \in {"conflict", "backoff"} PROVE Logged(call[d])'
      <4>1. pc'[d] = pc[d] /\ call'[d] = call[d]
        BY <1>2, OthersStay
      <4>2. Logged(call[d])
        BY <3>1, <4>1 DEF RetryInv
      <4>3. QED
        BY <2>1, <4>1, <4>2
    <3>2. QED
      BY <2>2, <3>1 DEF RetryInv
  <2> SUFFICES ASSUME pc'[c] \in {"conflict", "backoff"} PROVE Logged(call[c])'
    OBVIOUS
  <2>3. ASSUME NEW r \in Call, Logged(r)', AttemptPut(c, r) PROVE Logged(call[c])'
    <3>1. call'[c].key = r.key /\ call'[c].tx = r.tx
      BY <2>3, PutMoves
    <3>2. QED
      BY <2>3, <3>1
  <2>4. ASSUME NEW r \in Call, AttemptDelete(c, r) PROVE FALSE
    BY <2>4, DeleteMoves
  <2>5. ASSUME NEW k \in Key, NEW v \in Value \cup {Nil}, NEW exp \in Expectation(c, k),
               NEW t \in Tx \cup {NoTx}
        PROVE  /\ NewCall(k, v, exp, t) \in Call
               /\ NewCall(k, v, exp, t).key = k /\ NewCall(k, v, exp, t).tx = t
    BY NewCallType, ExpectationType DEF NewCall, CallOf
  <2>6. ASSUME NEW k \in Key, NEW v \in Value \cup {Nil}, NEW exp \in Expectation(c, k),
               Put(c, k, v, exp)
        PROVE  Logged(call[c])'
    BY <2>3, <2>5, <2>6 DEF Put
  <2>7. ASSUME NEW k \in Key, NEW v \in Value \cup {Nil}, NEW exp \in Expectation(c, k),
               NEW t \in Tx, TxPut(c, t, k, v, exp)
        PROVE  Logged(call[c])'
    <3>1. PICK r : r = NewCall(k, v, exp, t)
      OBVIOUS
    <3>2. r \in Call /\ r.key = k /\ r.tx = t /\ AttemptPut(c, r) /\ Log(t, "put", k)
      BY <2>5, <2>7, <3>1 DEF TxPut
    <3>3. Logged(r)'
      <4> DEFINE n == Len(ops[t]) + 1
      <4>1. Len(ops[t]) \in Nat /\ Len(ops'[t]) = n /\ ops'[t][n].key = k /\ ops'[t][n].type = "put"
        BY <3>2, LogAppends
      <4>2. n \in 1..Len(ops'[t])
        BY <4>1
      <4>3. QED
        BY <3>2, <4>1, <4>2
    <3>4. QED
      BY <2>3, <3>1, <3>2, <3>3
  <2>8. ASSUME NEW k \in Key, NEW exp \in Expectation(c, k),
               Delete(c, k, exp) \/ \E t \in Tx : TxDelete(c, t, k, exp)
        PROVE  FALSE
    BY <2>4, <2>5, <2>8 DEF Delete, TxDelete
  <2>9. ASSUME Undo(c) PROVE FALSE
    <3> DEFINE t == call[c].tx
               op == ops[t][call[c].undo]
               r == CallOf(op.key, op.old, AnyVersion, t, call[c].undo - 1, TRUE)
    <3>1. r \in Call /\ r.expected = AnyVersion /\ pc[c] = "undo"
      BY <2>9, UndoCall DEF Undo
    <3> HIDE DEF r, op
    <3>2. ~AttemptPut(c, r)
      BY <3>1, PutMoves
    <3>3. ~AttemptDelete(c, r)
      BY <3>1, <2>4
    <3>4. QED
      BY <2>9, <3>1, <3>2, <3>3 DEF Undo, r, op
  <2>10. ASSUME NEW ok \in BOOLEAN, Published(c, ok) PROVE Logged(call[c])'
    <3>0. PICK r : r = call[c]
      OBVIOUS
    <3>1. r \in Call
      BY <2>10, <3>0 DEF Published, CallsInv
    <3>2. ~Return(c, r)
      BY DEF Return, CallsInv
    <3>3. /\ pc[c] = "conflict"
          /\ call' = [call EXCEPT ![c].expected = r.found, ![c].attempt = @ + 1]
      BY <2>10, <3>0, <3>2 DEF Published
    <3>4. call'[c].key = r.key /\ call'[c].tx = r.tx
      BY <3>0, <3>1, <3>3 DEF CallsInv, Call
    <3>5. Logged(r)'
      <4>1. Logged(r)
        BY <3>0, <3>3 DEF RetryInv
      <4>2. QED
        BY <2>1, <4>1
    <3>6. QED
      BY <3>4, <3>5
  <2>11. ASSUME Retry(c) PROVE Logged(call[c])'
    <3>1. call[c] \in Call /\ AttemptPut(c, call[c]) /\ pc[c] = "backoff"
      BY <2>11 DEF Retry, CallsInv
    <3>2. PICK r : r = call[c]
      OBVIOUS
    <3>3. r \in Call /\ AttemptPut(c, r) /\ Logged(r)
      BY <3>1, <3>2 DEF RetryInv
    <3>4. QED
      BY <2>1, <2>3, <3>3
  <2>12. ASSUME \/ \E k \in Key : Read(c, k)
                \/ \E t \in Tx : TxBegin(c, t) \/ Commit(c, t) \/ Rollback(c, t)
                \/ UndoDone(c)
                \/ \E ok \in BOOLEAN : Closed(c, ok)
         PROVE  FALSE
    BY <2>12 DEF Read, TxBegin, Commit, Rollback, UndoDone, Closed, CallsInv
  <2>13. QED
    BY <1>2, <2>6, <2>7, <2>8, <2>9, <2>10, <2>11, <2>12 DEF ClientStep
<1>3. QED
  BY <1>1, <1>2 DEF Next

(* A key that another has written stays one. *)
LEMMA ForeignGrows ==
    ASSUME GhostInv, NEW c \in Client, ClientStep(c), NEW t \in Tx
    PROVE  foreign[t] \subseteq foreign'[t]
<1>1. ASSUME NEW r, NEW k, Interferes(r, k) PROVE foreign[t] \subseteq foreign'[t]
  BY <1>1 DEF Interferes
<1>2. ASSUME NEW r, AttemptPut(c, r) \/ AttemptDelete(c, r) PROVE foreign[t] \subseteq foreign'[t]
  BY <1>1, <1>2 DEF AttemptPut, AttemptDelete
<1>3. CASE foreign' = foreign
  BY <1>3
<1>4. QED
  BY <1>2, <1>3 DEF ClientStep, Read, Put, Delete, TxBegin, TxPut, TxDelete, Commit,
     Rollback, Undo, UndoDone, Published, Retry, Closed, ghosts

(* While a transaction is not logged, its own keys are what they were. *)
LEMMA OwnKept ==
    ASSUME GhostInv, NEW c \in Client, ClientStep(c), NEW t \in Tx, base'[t] = base[t]
    PROVE  Own(t)' \subseteq Own(t) /\ Own(t)' \subseteq Key
  BY ForeignGrows DEF Own, GhostInv

LEMMA LogInvNext == Inv /\ LogInv /\ UndoneInv /\ [Next]_vars => LogInv'
<1> SUFFICES ASSUME TxInv, GhostInv, LogInv, UndoneInv, [Next]_vars PROVE LogInv'
  BY DEF Inv
<1>1. CASE UNCHANGED vars
  BY <1>1 DEF vars, LogInv, Own, NoneUpTo
<1>2. ASSUME NEW c \in Client, ClientStep(c) PROVE LogInv'
  <2> SUFFICES ASSUME NEW t \in Tx, NEW i \in 1..Len(ops'[t])
               PROVE  /\ ops'[t][i].key \in DOMAIN base'[t]
                      /\ \A k \in Own(t)' : ops'[t][i].key = k /\ NoneUpTo(t, k, i - 1)' =>
                           ops'[t][i].old = base'[t][k]
    BY DEF LogInv
  <2>1. CASE ops'[t] = ops[t] /\ base'[t] = base[t]
    <3>1. ASSUME NEW k, NoneUpTo(t, k, i - 1)' PROVE NoneUpTo(t, k, i - 1)
      BY <2>1, <3>1 DEF NoneUpTo
    <3>2. QED
      BY <1>2, <2>1, <3>1, OwnKept DEF LogInv
  <2>2. ASSUME NEW k \in Key, NEW type, Log(t, type, k)
        PROVE  /\ ops'[t][i].key \in DOMAIN base'[t]
               /\ \A j \in Own(t)' : ops'[t][i].key = j /\ NoneUpTo(t, j, i - 1)' =>
                    ops'[t][i].old = base'[t][j]
    <3>0. PICK len : len = Len(ops[t])
      OBVIOUS
    <3>1. /\ len \in Nat /\ Len(ops'[t]) = len + 1
          /\ \A j \in 1..len : ops'[t][j] = ops[t][j]
          /\ ops'[t][len + 1].key = k
          /\ ops'[t][len + 1].old = store[k].value
          /\ DOMAIN base'[t] = DOMAIN base[t] \cup {k}
          /\ \A j \in DOMAIN base[t] : base'[t][j] = base[t][j]
          /\ k \notin DOMAIN base[t] => base'[t][k] = store[k].value
      BY <2>2, <3>0, LogAppends
    <3>2. foreign[t] \subseteq foreign'[t]
      BY <1>2, ForeignGrows
    <3>3. CASE i \in 1..len
      <4>1. ops'[t][i] = ops[t][i] /\ ops[t][i].key \in DOMAIN base[t]
        BY <3>0, <3>1, <3>3 DEF LogInv
      <4>2. ASSUME NEW j \in Own(t)', j \in DOMAIN base[t], NoneUpTo(t, j, i - 1)'
            PROVE  j \in Own(t) /\ NoneUpTo(t, j, i - 1) /\ base'[t][j] = base[t][j]
        BY <3>0, <3>1, <3>2, <3>3, <4>2 DEF Own, NoneUpTo
      <4>3. QED
        BY <3>0, <3>1, <3>3, <4>1, <4>2 DEF LogInv
    <3>4. CASE i = len + 1
      <4>1. ASSUME k \in Own(t)', NoneUpTo(t, k, len)', k \in DOMAIN base[t]
            PROVE  store[k].value = base[t][k]
        <5>1. k \in Own(t) /\ NoneUpTo(t, k, len)
          BY <3>1, <3>2, <4>1 DEF Own, NoneUpTo
        <5>2. Left(t, len) /\ len \in 0..len
          BY <3>0, <3>1 DEF Left
        <5>3. QED
          BY <3>0, <5>1, <5>2 DEF UndoneInv
      <4>2. i - 1 = len /\ ops'[t][i].key = k
        BY <3>1, <3>4
      <4>3. ASSUME k \in Own(t)', NoneUpTo(t, k, len)'
            PROVE  ops'[t][i].old = base'[t][k]
        BY <3>1, <3>4, <4>1, <4>3
      <4>4. QED
        BY <3>1, <4>2, <4>3
    <3>5. QED
      BY <3>1, <3>3, <3>4
  <2>3. ASSUME NEW u \in Tx \ {t}, NEW k \in Key, NEW type, Log(u, type, k)
        PROVE  ops'[t] = ops[t] /\ base'[t] = base[t]
    BY <2>3, LogAppends
  <2>4. \/ ops'[t] = ops[t] /\ base'[t] = base[t]
        \/ \E u \in Tx, k \in Key : Log(u, "put", k) \/ Log(u, "delete", k)
    BY <1>2 DEF ClientStep, Read, Put, Delete, TxBegin, TxPut, TxDelete, Commit,
       Rollback, Undo, UndoDone, Published, Retry, Closed, txVars, ghosts
  <2>5. QED
    BY <2>1, <2>2, <2>3, <2>4
<1>3. QED
  BY <1>1, <1>2 DEF Next

(* What others have left to undo, a step of client c does not change.        *)
LEMMA LeftByOthers ==
    ASSUME CallsInv, EndInv, NEW c \in Client, ClientStep(c), NEW t \in Tx, NEW n,
           status'[t] = status[t] \/ status[t] \in {"new", "ACTIVE"},
           ops'[t] = ops[t], Left(t, n)'
    PROVE  Left(t, n) \/ (RollsBack(c, t)' /\ call'[c].undo = n)
<1>1. ASSUME NEW d \in Client \ {c}, RollsBack(d, t)'
      PROVE  RollsBack(d, t) /\ call'[d].undo = call[d].undo
  <2>1. pc'[d] = pc[d] /\ call'[d] = call[d]
    BY OthersStay
  <2>2. Ends(d) /\ call[d].tx = t
    BY <1>1, <2>1 DEF RollsBack, Ends
  <2>3. status[t] \notin {"new", "ACTIVE"}
    BY <2>2 DEF EndInv
  <2>4. QED
    BY <1>1, <2>1, <2>2, <2>3 DEF RollsBack
<1>2. QED
  BY <1>1 DEF Left

(* Nobody rolls back an active transaction. *)
LEMMA AllLeft ==
    ASSUME NEW t \in Tx, status[t] = "ACTIVE", NEW n, Left(t, n)
    PROVE  n = Len(ops[t])
  BY DEF Left, RollsBack

(* A call outside of a rollback, but for what it logs. *)
LEMMA PlainCallKeepsUndone ==
    ASSUME Inv, RollbackInv, NEW c \in Client, ClientStep(c), NEW r \in Call, ~r.rollback,
           AttemptPut(c, r) \/ AttemptDelete(c, r), status' = status,
           NEW t \in Tx, ops'[t] = ops[t], base'[t] = base[t],
           r.tx = t => \E i \in 1..Len(ops[t]) : ops[t][i].key = r.key /\ ops[t][i].type = "put",
           NEW n \in 0..Len(ops[t]), Left(t, n)', NEW k \in Own(t)', NoneUpTo(t, k, n)
    PROVE  store'[k].value = base[t][k]
<1> USE DEF Inv, RollbackInv
<1>1. pc'[c] \in {"written", "conflict", "refused", "idle"}
      /\ (pc'[c] = "written" => ~call'[c].rollback)
  BY PutMoves, DeleteMoves
<1>2. Left(t, n)
  BY <1>1, LeftByOthers DEF RollsBack, Ends
<1>3. k \in Own(t) /\ k \in Key
  BY OwnKept
<1>4. store[k].value = base[t][k]
  BY <1>2, <1>3 DEF UndoneInv
<1>5. CASE store' = store
  BY <1>4, <1>5
<1>6. ASSUME NEW x, store' = [store EXCEPT ![r.key] = x], Interferes(r, r.key)
      PROVE  store'[k].value = base[t][k]
  <2>1. CASE k # r.key
    BY <1>3, <1>4, <1>6, <2>1 DEF StoreInv, StoreTypeOK
  <2>2. CASE k = r.key
    <3>1. k \in DOMAIN base[t] /\ k \notin foreign'[t]
      BY <1>3 DEF Own
    <3>2. r.tx = t /\ status[t] = "ACTIVE"
      BY <1>6, <2>2, <3>1 DEF Interferes
    <3>3. n = Len(ops[t])
      BY <1>2, <3>2, AllLeft
    <3>4. QED
      BY <2>2, <3>2, <3>3 DEF NoneUpTo, PassedOver
  <2>3. QED
    BY <2>1, <2>2
<1>7. QED
  BY <1>5, <1>6, PutMoves, DeleteMoves

(* A call that is logged. *)
LEMMA LoggedCallKeepsUndone ==
    ASSUME Inv, RollbackInv, NEW c \in Client, ClientStep(c), NEW t \in Tx, status[t] = "ACTIVE",
           status' = status, NEW k \in Key, NEW type \in {"put", "delete"}, Log(t, type, k),
           store' = store \/ \E x : store' = [store EXCEPT ![k] = x],
           type = "delete" => store' = store \/ store' = [store EXCEPT ![k] = Absent],
           NEW n \in 0..Len(ops'[t]), Left(t, n)', NEW j \in Own(t)', NoneUpTo(t, j, n)'
    PROVE  store'[j].value = base'[t][j]
<1> USE DEF Inv, RollbackInv
<1>0. PICK len : len = Len(ops[t])
  OBVIOUS
<1>1. /\ len \in Nat /\ Len(ops'[t]) = len + 1
      /\ \A i \in 1..len : ops'[t][i] = ops[t][i]
      /\ ops'[t][len + 1].type = type
      /\ ops'[t][len + 1].key = k
      /\ ops'[t][len + 1].old = store[k].value
      /\ DOMAIN base'[t] = DOMAIN base[t] \cup {k}
      /\ \A i \in DOMAIN base[t] : base'[t][i] = base[t][i]
      /\ k \notin DOMAIN base[t] => base'[t][k] = store[k].value
  BY <1>0, LogAppends
<1>2. n = len + 1
  <2>1. status'[t] = "ACTIVE"
    OBVIOUS
  <2>2. QED
    BY <1>1, <2>1 DEF Left, RollsBack
<1>3. j \in DOMAIN base[t] => j \in Own(t)
  BY ForeignGrows DEF Own
<1>4. NoneUpTo(t, j, len)
  BY <1>1, <1>2 DEF NoneUpTo
<1>5. Left(t, len) /\ len \in 0..Len(ops[t])
  BY <1>0, <1>1 DEF Left
<1>6. j \in DOMAIN base[t] => store[j].value = base[t][j]
  BY <1>3, <1>4, <1>5 DEF UndoneInv
<1>7. j \in DOMAIN base[t] \cup {k} /\ j \in Key
  BY <1>1 DEF Own, GhostInv
<1>8. CASE j # k
  BY <1>1, <1>6, <1>7, <1>8 DEF StoreInv, StoreTypeOK
<1>9. CASE j = k
  <2>1. type = "delete" /\ store[k].value = Nil
    BY <1>1, <1>2, <1>9 DEF NoneUpTo, PassedOver
  <2>2. base'[t][k] = Nil
    BY <1>1, <1>6, <1>9, <2>1
  <2>3. store'[k].value = Nil
    BY <2>1 DEF StoreInv, StoreTypeOK, Absent
  <2>4. QED
    BY <1>9, <2>2, <2>3
<1>10. QED
  BY <1>8, <1>9

LEMMA UndoKeepsUndone ==
    ASSUME Inv, RollbackInv, NEW c \in Client, ClientStep(c), Undo(c), NEW t \in Tx,
           NEW n \in 0..Len(ops[t]), Left(t, n)', NEW k \in Own(t)', NoneUpTo(t, k, n)
    PROVE  store'[k].value = base[t][k]
<1> USE DEF Inv, RollbackInv
<1> DEFINE u == call[c].tx
           m == call[c].undo
           op == ops[u][m]
           r == CallOf(op.key, op.old, AnyVersion, u, m - 1, TRUE)
<1>1. /\ u \in Tx /\ m \in 1..Len(ops[u]) /\ m - 1 \in 0..Len(ops[u])
      /\ op \in Op
      /\ r \in Call /\ r.tx = u /\ r.undo = m - 1 /\ r.rollback
      /\ r.key = op.key /\ r.value = op.old /\ r.expected = AnyVersion
  BY UndoCall DEF Undo
<1>2. RollsBack(c, u) /\ status' = status /\ ops' = ops /\ base' = base
  BY <1>1 DEF Undo, EndInv, RollsBack, Ends, txVars
<1> HIDE DEF r
<1>3. \/ op.old # Nil /\ AttemptPut(c, r)
      \/ op.old = Nil /\ op.type = "put" /\ AttemptDelete(c, r)
      \/ /\ op.old = Nil /\ op.type = "delete"
         /\ call' = [call EXCEPT ![c] = r] /\ UNCHANGED <<store, pc, foreign>>
  BY DEF Undo, r, storeVars
<1> HIDE DEF op
<1>4. call'[c] = r
  BY <1>1, <1>3, PutMoves, DeleteMoves DEF CallsInv
<1>5. op.key \in Key /\ DOMAIN store = Key
  BY <1>1 DEF Op, StoreInv, StoreTypeOK
<1>6. \/ store' = store /\ PassedOver(op)
      \/ /\ ~PassedOver(op)
         /\ \A j \in Key \ {op.key} : store'[j] = store[j]
         /\ store'[op.key].value = op.old
         /\ store' = store \/ Interferes(r, op.key)
  <2>1. CASE op.old # Nil /\ AttemptPut(c, r)
    <3>1. store' = [store EXCEPT ![op.key] = [version |-> nextVersion, value |-> op.old]]
          /\ Interferes(r, op.key)
      BY <1>1, <2>1, PutMoves
    <3>2. QED
      BY <1>5, <2>1, <3>1 DEF PassedOver
  <2>2. CASE op.old = Nil /\ op.type = "put" /\ AttemptDelete(c, r)
    <3>1. \/ store[op.key] = Absent /\ store' = store
          \/ store' = [store EXCEPT ![op.key] = Absent] /\ Interferes(r, op.key)
      BY <1>1, <2>2, DeleteMoves
    <3>2. QED
      BY <1>5, <2>2, <3>1 DEF Absent, PassedOver
  <2>3. CASE op.old = Nil /\ op.type = "delete" /\ store' = store
    BY <2>3 DEF PassedOver
  <2>4. QED
    BY <1>3, <2>1, <2>2, <2>3
<1>7. k \in Own(t) /\ k \in Key
  BY <1>2, OwnKept
<1>8. Left(t, n) \/ (u = t /\ n = m - 1)
  BY <1>1, <1>2, <1>4, LeftByOthers DEF RollsBack
(* A key that the step has not brought back was back before. *)
<1>9. ASSUME u = t /\ n = m - 1 => k # op.key \/ PassedOver(op)
      PROVE  store[k].value = base[t][k]
  <2>1. CASE Left(t, n)
    BY <1>7, <2>1 DEF UndoneInv
  <2>2. CASE u = t /\ n = m - 1
    <3>1. NoneUpTo(t, k, m)
      BY <1>1, <1>9, <2>2 DEF NoneUpTo, op
    <3>2. Left(t, m) /\ m \in 0..Len(ops[t])
      BY <1>1, <1>2, <2>2 DEF Left
    <3>3. QED
      BY <1>7, <3>1, <3>2 DEF UndoneInv
  <2>3. QED
    BY <1>8, <2>1, <2>2
<1>10. CASE store' = store /\ (PassedOver(op) \/ u # t)
  BY <1>9, <1>10
<1>11. CASE k # op.key /\ \A j \in Key \ {op.key} : store'[j] = store[j]
  BY <1>7, <1>9, <1>11
<1>12. CASE k = op.key /\ u # t /\ Interferes(r, op.key)
  BY <1>1, <1>7, <1>12 DEF Interferes, Own
<1>13. CASE k = op.key /\ u = t /\ ~PassedOver(op) /\ store'[op.key].value = op.old
  <2>1. n < m
    BY <1>1, <1>13 DEF NoneUpTo, op
  <2>2. n # Len(ops'[t])
    BY <1>1, <1>2, <1>13, <2>1
  <2>3. PICK d \in Client : RollsBack(d, t)' /\ call'[d].undo = n
    BY <2>2 DEF Left
  <2>4. d = c
    <3>1. ASSUME d # c PROVE FALSE
      <4>1. pc'[d] = pc[d] /\ call'[d] = call[d]
        BY <3>1, OthersStay
      <4>2. RollsBack(d, t)
        BY <1>2, <2>3, <4>1 DEF RollsBack, Ends
      <4>3. QED
        BY <1>2, <1>13, <3>1, <4>2 DEF EndInv
    <3>2. QED
      BY <3>1
  <2>5. n = m - 1
    BY <1>1, <1>4, <2>3, <2>4
  <2>6. op.old = base[t][k]
    BY <1>1, <1>7, <1>13, <2>5 DEF LogInv, op
  <2>7. QED
    BY <1>13, <2>6
<1>14. QED
  BY <1>6, <1>10, <1>11, <1>12, <1>13

(* Whatever step is taken, what a rollback has undone is as it was. *)
LEMMA UndoneInvNext == Inv /\ RollbackInv /\ [Next]_vars => UndoneInv'
<1> SUFFICES ASSUME Inv, RollbackInv, [Next]_vars PROVE UndoneInv'
  OBVIOUS
<1> USE DEF Inv, RollbackInv
<1>1. CASE UNCHANGED vars
  BY <1>1 DEF vars, UndoneInv, Left, RollsBack, Ends, Own, NoneUpTo
<1>2. ASSUME NEW c \in Client, ClientStep(c) PROVE UndoneInv'
  <2> SUFFICES ASSUME NEW t \in Tx, NEW n \in 0..Len(ops'[t]), Left(t, n)',
                      NEW k \in Own(t)', NoneUpTo(t, k, n)'
               PROVE  store'[k].value = base'[t][k]
    BY DEF UndoneInv
  <2>n. ASSUME ops'[t] = ops[t] PROVE n \in 0..Len(ops[t]) /\ NoneUpTo(t, k, n)
    BY <2>n DEF NoneUpTo
  <2>c. ASSUME NEW j \in Key, NEW v \in Value \cup {Nil}, NEW exp \in Expectation(c, j),
               NEW u \in Tx \cup {NoTx}, u # t, status' = status, ops'[t] = ops[t], base'[t] = base[t],
               \/ AttemptPut(c, NewCall(j, v, exp, u))
               \/ AttemptDelete(c, NewCall(j, v, exp, u))
        PROVE  store'[k].value = base'[t][k]
    <3>1. PICK r : r = NewCall(j, v, exp, u)
      OBVIOUS
    <3>2. r \in Call /\ ~r.rollback /\ r.tx # t
      BY <2>c, <3>1, NewCallType, ExpectationType DEF NewCall, CallOf
    <3>3. QED
      BY <1>2, <2>c, <2>n, <3>1, <3>2, PlainCallKeepsUndone
  <2>m. ASSUME store' = store, ops'[t] = ops[t], base'[t] = base[t],
               status'[t] = status[t] \/ status[t] \in {"new", "ACTIVE"},
               RollsBack(c, t)' => \/ RollsBack(c, t) /\ call'[c].undo = call[c].undo
                                   \/ call'[c].undo = Len(ops[t])
        PROVE  store'[k].value = base'[t][k]
    <3>1. Left(t, n)
      <4>1. Left(t, n) \/ (RollsBack(c, t)' /\ call'[c].undo = n)
        BY <1>2, <2>m, LeftByOthers
      <4>2. QED
        BY <2>m, <4>1 DEF Left
    <3>2. k \in Own(t)
      BY <1>2, <2>m, OwnKept
    <3>3. QED
      BY <2>m, <2>n, <3>1, <3>2 DEF UndoneInv
  <2>1. ASSUME NEW j \in Key, Read(c, j) PROVE store'[k].value = base'[t][k]
    BY <2>1, <2>m DEF Read, RollsBack, Ends, storeVars, txVars, ghosts
  <2>2. ASSUME NEW j \in Key, NEW v \in Value \cup {Nil}, NEW exp \in Expectation(c, j),
               Put(c, j, v, exp)
        PROVE  store'[k].value = base'[t][k]
    BY <2>2, <2>c DEF Put, txVars
  <2>3. ASSUME NEW j \in Key, NEW exp \in Expectation(c, j), Delete(c, j, exp)
        PROVE  store'[k].value = base'[t][k]
    BY <2>3, <2>c DEF Delete, txVars
  <2>4. ASSUME NEW j \in Key, NEW v \in Value \cup {Nil}, NEW exp \in Expectation(c, j),
               NEW u \in Tx, TxPut(c, u, j, v, exp)
        PROVE  store'[k].value = base'[t][k]
    <3>1. CASE u # t
      <4>1. ops'[t] = ops[t] /\ base'[t] = base[t]
        BY <2>4, <3>1, LogAppends DEF TxPut
      <4>2. QED
        BY <2>4, <2>c, <3>1, <4>1 DEF TxPut
    <3>2. CASE u = t
      <4>1. PICK r : r = NewCall(j, v, exp, t)
        OBVIOUS
      <4>2. r \in Call /\ r.key = j
        BY <4>1, NewCallType, ExpectationType DEF NewCall, CallOf
      <4>3. store' = store \/ \E x : store' = [store EXCEPT ![j] = x]
        BY <2>4, <3>2, <4>1, <4>2, PutMoves DEF TxPut
      <4>4. status[t] = "ACTIVE" /\ status' = status /\ Log(t, "put", j)
        BY <2>4, <3>2 DEF TxPut
      <4>5. QED
        BY <1>2, <4>3, <4>4, LoggedCallKeepsUndone
    <3>3. QED
      BY <3>1, <3>2
  <2>5. ASSUME NEW j \in Key, NEW exp \in Expectation(c, j), NEW u \in Tx, TxDelete(c, u, j, exp)
        PROVE  store'[k].value = base'[t][k]
    <3>1. CASE u # t
      <4>1. ops'[t] = ops[t] /\ base'[t] = base[t]
        BY <2>5, <3>1, LogAppends DEF TxDelete
      <4>2. QED
        BY <2>5, <2>c, <3>1, <4>1 DEF TxDelete
    <3>2. CASE u = t
      <4>1. PICK r : r = NewCall(j, Nil, exp, t)
        OBVIOUS
      <4>2. r \in Call /\ r.key = j
        BY <4>1, NewCallType, ExpectationType DEF NewCall, CallOf
      <4>3. store' = store \/ store' = [store EXCEPT ![j] = Absent]
        BY <2>5, <3>2, <4>1, <4>2, DeleteMoves DEF TxDelete
      <4>4. status[t] = "ACTIVE" /\ status' = status /\ Log(t, "delete", j)
        BY <2>5, <3>2 DEF TxDelete
      <4>5. QED
        BY <1>2, <4>3, <4>4, LoggedCallKeepsUndone
    <3>3. QED
      BY <3>1, <3>2
  <2>6. ASSUME NEW u \in Tx, TxBegin(c, u) PROVE store'[k].value = base'[t][k]
    <3>1. status'[t] = status[t] \/ status[t] = "new"
      BY <2>6 DEF TxBegin, TxInv
    <3>2. QED
      BY <2>6, <2>m, <3>1 DEF TxBegin, RollsBack, Ends, storeVars, ghosts
  <2>7. ASSUME NEW u \in Tx, Commit(c, u) \/ Rollback(c, u) PROVE store'[k].value = base'[t][k]
    <3>1. status'[t] = status[t] \/ status[t] = "ACTIVE"
      BY <2>7 DEF Commit, Rollback, TxInv
    <3>2. RollsBack(c, t)' => call'[c].undo = Len(ops[t])
      <4>1. TxCall(u, 0).tx = u /\ TxCall(u, Len(ops[u])).tx = u
            /\ TxCall(u, Len(ops[u])).undo = Len(ops[u])
        BY DEF TxCall
      <4>2. CASE Commit(c, u)
        BY <4>1, <4>2 DEF Commit, RollsBack, CallsInv, TxInv
      <4>3. CASE Rollback(c, u)
        BY <4>1, <4>3 DEF Rollback, RollsBack, CallsInv
      <4>4. QED
        BY <2>7, <4>2, <4>3
    <3>3. QED
      BY <2>7, <2>m, <3>1, <3>2 DEF Commit, Rollback, storeVars, ghosts
  <2>8. ASSUME Undo(c) PROVE store'[k].value = base'[t][k]
    <3>1. ops' = ops /\ base' = base
      BY <2>8 DEF Undo, txVars
    <3>2. QED
      BY <1>2, <2>8, <2>n, <3>1, UndoKeepsUndone
  <2>9. ASSUME UndoDone(c) PROVE store'[k].value = base'[t][k]
    <3>1. RollsBack(c, t)' => RollsBack(c, t) /\ call' = call
      BY <2>9 DEF UndoDone, RollsBack, Ends, txVars
    <3>2. QED
      BY <2>9, <2>m, <3>1 DEF UndoDone, storeVars, txVars, ghosts
  <2>10. ASSUME NEW ok \in BOOLEAN, Published(c, ok) PROVE store'[k].value = base'[t][k]
    <3>1. PICK r : r = call[c]
      OBVIOUS
    <3>2. pc[c] \in {"conflict", "written", "refused"} /\ status' = status
      BY <2>10 DEF Published, txVars
    <3>3. ASSUME RollsBack(c, t)' PROVE RollsBack(c, t) /\ call'[c].undo = call[c].undo
      <4>1. pc'[c] = "undo" /\ call'[c] = r /\ r.rollback
        BY <2>10, <3>1, <3>3 DEF Published, Return, RollsBack, Ends, CallsInv
      <4>2. pc[c] = "written"
        BY <3>1, <3>2, <4>1 DEF EndInv
      <4>3. QED
        BY <3>1, <3>2, <3>3, <4>1, <4>2 DEF RollsBack, Ends
    <3>4. QED
      BY <2>10, <2>m, <3>2, <3>3 DEF Published, storeVars, txVars, ghosts
  <2>11. ASSUME Retry(c) PROVE store'[k].value = base'[t][k]
    <3>1. PICK r : r = call[c]
      OBVIOUS
    <3>2. /\ r \in Call /\ ~r.rollback /\ AttemptPut(c, r)
          /\ status' = status /\ ops' = ops /\ base' = base /\ pc[c] = "backoff"
      BY <2>11, <3>1 DEF Retry, CallsInv, EndInv, txVars
    <3>3. r.tx = t => \E i \in 1..Len(ops[t]) : ops[t][i].key = r.key /\ ops[t][i].type = "put"
      BY <3>1, <3>2 DEF RetryInv
    <3>4. QED
      BY <1>2, <2>n, <3>2, <3>3, PlainCallKeepsUndone
  <2>12. ASSUME NEW ok \in BOOLEAN, Closed(c, ok) PROVE store'[k].value = base'[t][k]
    <3>1. pc'[c] = "idle"
      BY <2>12 DEF Closed, CallsInv
    <3>2. QED
      BY <2>12, <2>m, <3>1 DEF Closed, RollsBack, Ends, storeVars, ghosts
  <2>13. QED
    BY <1>2, <2>1, <2>2, <2>3, <2>4, <2>5, <2>6, <2>7, <2>8, <2>9, <2>10, <2>11, <2>12
    DEF ClientStep
<1>3. QED
  BY <1>1, <1>2 DEF Next

LEMMA RollbackInvInit == Init => RollbackInv
  BY DEF Init, RollbackInv, LogInv, EndInv, RetryInv, UndoneInv, Left, RollsBack, Ends, Own,
     NoneUpTo, Untouched

(* When rollback() is through, each key that the transaction touched has the *)
(* value it had before, whatever conflicts, retries, late puts, other        *)
(* transactions and refused publications there were in between, unless       *)
(* somebody else wrote it or a put of the transaction reached it late.       *)
THEOREM RollbackIsRestoring == Spec => []RollbackRestores
<1>1. Inv /\ RollbackInv /\ [Next]_vars => RollbackInv'
  BY LogInvNext, EndInvNext, RetryInvNext, UndoneInvNext DEF RollbackInv
<1>2. Inv /\ RollbackInv => RollbackRestores
  <2> SUFFICES ASSUME Inv, RollbackInv, NEW c \in Client, NEW t \in Tx, pc[c] = "closing",
                      call[c].tx = t, status[t] = "ROLLED_BACK",
                      NEW k \in DOMAIN base[t] \ foreign[t]
               PROVE  store[k].value = base[t][k]
    BY DEF RollbackRestores
  <2>1. RollsBack(c, t) /\ call[c].undo = 0
    BY DEF RollsBack, Ends, RollbackInv, EndInv
  <2>2. Left(t, 0) /\ 0 \in 0..Len(ops[t])
    BY <2>1, LenProperties DEF Left, Inv, TxInv
  <2>3. NoneUpTo(t, k, 0)
    BY DEF NoneUpTo
  <2>4. QED
    BY <2>2, <2>3 DEF RollbackInv, UndoneInv, Own
<1>3. QED
  BY <1>1, <1>2, InvInit, InvNext, RollbackInvInit, PTL DEF Spec

----------------------------------------------------------------------------

SnapType ==
    /\ file \in Data \cup {NoSnapshot}
    /\ loaded \in [Client -> Data \cup {NoSnapshot}]
    /\ todo \in [Client -> SUBSET Key]
    /\ overwritten \in [Client -> SUBSET Key]

(* A client that restores is in the loop or in one of its puts, which expect *)
(* no version and are therefore never refused.                               *)
RestoringCalls ==
    \A c \in Client : Restoring(c) =>
        /\ pc[c] \in {"idle", "written"}
        /\ pc[c] = "written" => ~call[c].rollback
        /\ todo[c] \subseteq DOMAIN loaded[c]

SnapInv == Inv /\ SnapType /\ RestoringCalls

LEMMA SnapInvInit == SnapInit => SnapInv
  BY InvInit DEF SnapInit, SnapInv, SnapType, RestoringCalls, Restoring

LEMMA DataElements ==
    ASSUME NEW d \in Data
    PROVE  DOMAIN d \subseteq Key /\ \A k \in DOMAIN d : d[k] \in Value \cup {Nil}
  BY DEF Data

(* A snapshot is data that can be put back. *)
LEMMA FileType ==
    ASSUME StoreInv
    PROVE  [k \in Visible |-> Reloaded[store[k].value]] \in Data
<1>1. Visible \subseteq Key
  BY DEF Visible
<1>2. \A k \in Visible : Reloaded[store[k].value] \in Value \cup {Nil}
  BY <1>1, SnapshotConstants DEF SnapshotConstants, StoreInv, StoreTypeOK, Cell
<1>3. QED
  BY <1>1, <1>2 DEF Data

(* The put of a restore is a put that any client could make. *)
LEMMA RestoreKeyPuts ==
    ASSUME SnapInv, NEW c \in Client, NEW k \in Key, RestoreKey(c, k)
    PROVE  /\ loaded[c][k] \in Value \cup {Nil}
           /\ AnyVersion \in Expectation(c, k)
           /\ ClientStep(c)
           /\ store' = [store EXCEPT ![k] = [version |-> nextVersion, value |-> loaded[c][k]]]
           /\ pc' = [pc EXCEPT ![c] = "written"]
           /\ call' = [call EXCEPT ![c] = NewCall(k, loaded[c][k], AnyVersion, NoTx)]
<1>1. loaded[c] \in Data /\ k \in DOMAIN loaded[c]
  BY DEF RestoreKey, Between, Restoring, SnapInv, SnapType, RestoringCalls
<1>2. loaded[c][k] \in Value \cup {Nil}
  BY <1>1, DataElements
<1>3. AnyVersion \in Expectation(c, k)
  BY DEF Expectation
<1>4. ClientStep(c)
  BY <1>2, <1>3 DEF RestoreKey, ClientStep
<1> DEFINE r == NewCall(k, loaded[c][k], AnyVersion, NoTx)
<1>5. r.key = k /\ r.value = loaded[c][k] /\ r.expected = AnyVersion
  BY DEF NewCall, CallOf
<1>6. AttemptPut(c, r)
  BY DEF RestoreKey, Put
<1> HIDE DEF r
<1>7. /\ store' = [store EXCEPT ![k] = [version |-> nextVersion, value |-> loaded[c][k]]]
      /\ pc' = [pc EXCEPT ![c] = "written"]
      /\ call' = [call EXCEPT ![c] = r]
  BY <1>5, <1>6 DEF AttemptPut
<1>8. QED
  BY <1>2, <1>3, <1>4, <1>7 DEF r

LEMMA StepsOfStore == SnapInv /\ [SnapNext]_<<vars, snapVars>> => [Next]_vars
<1> SUFFICES ASSUME SnapInv, NEW c \in Client, SnapStep(c) PROVE [Next]_vars
  BY DEF SnapNext
<1>1. CASE StoreStep(c)
  BY <1>1 DEF StoreStep, Next
<1>2. CASE \E k \in Key : RestoreKey(c, k)
  BY <1>2, RestoreKeyPuts DEF Next
<1>3. CASE CreateSnapshot(c) \/ RestoreSnapshot(c) \/ RestoreReturns(c)
  BY <1>3 DEF CreateSnapshot, RestoreSnapshot, RestoreReturns
<1>4. QED
  BY <1>1, <1>2, <1>3 DEF SnapStep

(* What a step in the store does to a client that restores: its put returns, *)
(* and nothing else of it moves.                                             *)
LEMMA RestoringStoreStep ==
    ASSUME SnapInv, NEW c \in Client, StoreStep(c), NEW d \in Client, Restoring(d)
    PROVE  /\ d = c => pc'[d] = "idle" /\ store' = store
           /\ d # c => pc'[d] = pc[d] /\ call'[d] = call[d]
<1>1. CASE d = c
  <2>1. pc[c] = "written" /\ ~call[c].rollback
    BY <1>1 DEF StoreStep, Between, SnapInv, RestoringCalls
  <2>2. PICK ok \in BOOLEAN : Published(c, ok)
    BY <2>1 DEF StoreStep, ClientStep, Read, Put, TxPut, Delete, TxDelete, TxBegin, Commit,
       Rollback, Undo, UndoDone, Retry, Closed, Calls
  <2>3. pc' = [pc EXCEPT ![c] = "idle"] /\ store' = store
    BY <2>1, <2>2 DEF Published, Return, storeVars
  <2>4. QED
    BY <1>1, <2>3 DEF SnapInv, Inv, CallsInv
<1>2. CASE d # c
  BY <1>2, OthersStay DEF StoreStep, SnapInv, Inv
<1>3. QED
  BY <1>1, <1>2

LEMMA SnapInvNext == SnapInv /\ [SnapNext]_<<vars, snapVars>> => SnapInv'
<1> SUFFICES ASSUME SnapInv, [SnapNext]_<<vars, snapVars>> PROVE SnapType' /\ RestoringCalls'
  BY StepsOfStore, InvNext DEF SnapInv
<1>t. SnapType
  BY DEF SnapInv
<1>o. ASSUME NEW c \in Client, Overwrites(c) PROVE overwritten' \in [Client -> SUBSET Key]
  BY <1>o, <1>t DEF Overwrites, SnapType
<1>1. ASSUME NEW c \in Client, StoreStep(c) PROVE SnapType' /\ RestoringCalls'
  <2>1. SnapType'
    BY <1>1, <1>o, <1>t DEF StoreStep, SnapType
  <2>2. RestoringCalls'
    BY <1>1, RestoringStoreStep DEF StoreStep, SnapInv, RestoringCalls, Restoring
  <2>3. QED
    BY <2>1, <2>2
<1>2. ASSUME NEW c \in Client, CreateSnapshot(c) PROVE SnapType' /\ RestoringCalls'
  BY <1>2, FileType DEF CreateSnapshot, SnapInv, Inv, SnapType, RestoringCalls, Restoring, vars
<1>3. ASSUME NEW c \in Client, RestoreSnapshot(c) PROVE SnapType' /\ RestoringCalls'
  <2>1. DOMAIN file \subseteq Key
    BY <1>3, <1>t, DataElements DEF RestoreSnapshot, SnapType
  <2>2. SnapType'
    BY <1>3, <1>t, <2>1 DEF RestoreSnapshot, SnapType
  <2>3. RestoringCalls'
    BY <1>3, <1>t DEF RestoreSnapshot, SnapInv, SnapType, RestoringCalls, Restoring, vars
  <2>4. QED
    BY <2>2, <2>3
<1>4. ASSUME NEW c \in Client, NEW k \in Key, RestoreKey(c, k) PROVE SnapType' /\ RestoringCalls'
  <2>1. SnapType'
    BY <1>4, <1>o, <1>t DEF RestoreKey, SnapType
  <2> DEFINE r == NewCall(k, loaded[c][k], AnyVersion, NoTx)
  <2>2. ~r.rollback
    BY DEF NewCall, CallOf
  <2> HIDE DEF r
  <2>3. pc' = [pc EXCEPT ![c] = "written"] /\ call' = [call EXCEPT ![c] = r]
    BY <1>4, RestoreKeyPuts DEF r
  <2>4. RestoringCalls'
    BY <1>4, <1>t, <2>2, <2>3 DEF RestoreKey, SnapInv, Inv, CallsInv, SnapType,
       RestoringCalls, Restoring
  <2>5. QED
    BY <2>1, <2>4
<1>5. ASSUME NEW c \in Client, RestoreReturns(c) PROVE SnapType' /\ RestoringCalls'
  BY <1>5, <1>t DEF RestoreReturns, SnapInv, SnapType, RestoringCalls, Restoring, vars
<1>6. CASE UNCHANGED <<vars, snapVars>>
  BY <1>6 DEF SnapInv, SnapType, RestoringCalls, Restoring, vars, snapVars
<1>7. QED
  BY <1>1, <1>2, <1>3, <1>4, <1>5, <1>6 DEF SnapNext, SnapStep

(* A store with snapshots is a store: a restore does to it what puts do, so  *)
(* every theorem above holds of it.                                          *)
THEOREM SnapshotsRefineStore == SnapSpec => Spec
<1>1. SnapInit => Init
  BY DEF SnapInit
<1>2. QED
  BY <1>1, SnapInvInit, SnapInvNext, StepsOfStore, PTL DEF SnapSpec, Spec

LEMMA SnapshotRestoresNext ==
    SnapInv /\ SnapshotRestores /\ [SnapNext]_<<vars, snapVars>> => SnapshotRestores'
<1> SUFFICES ASSUME SnapInv, SnapshotRestores, [SnapNext]_<<vars, snapVars>>,
                    NEW d \in Client, Restoring(d)',
                    NEW k \in DOMAIN loaded'[d] \ (todo'[d] \cup overwritten'[d])
             PROVE  store'[k].value = loaded'[d][k]
  BY DEF SnapshotRestores
<1>t. SnapType
  BY DEF SnapInv
<1>k. ASSUME loaded'[d] = loaded[d] PROVE k \in Key
  BY <1>k, <1>t, DataElements DEF SnapType, Restoring
<1>1. ASSUME NEW c \in Client, StoreStep(c) PROVE store'[k].value = loaded'[d][k]
  <2>1. loaded' = loaded /\ todo' = todo /\ Restoring(d)
    BY <1>1 DEF StoreStep, Restoring
  <2>2. k \notin overwritten[d] /\ store'[k] = store[k]
    BY <1>1, <1>k, <1>t, <2>1, RestoringStoreStep DEF StoreStep, Overwrites, SnapType
  <2>3. QED
    BY <2>1, <2>2 DEF SnapshotRestores
<1>2. ASSUME NEW c \in Client, NEW j \in Key, RestoreKey(c, j) PROVE store'[k].value = loaded'[d][k]
  <2>1. /\ loaded' = loaded /\ Restoring(d)
        /\ store' = [store EXCEPT ![j] = [version |-> nextVersion, value |-> loaded[c][j]]]
    BY <1>2, RestoreKeyPuts DEF RestoreKey, Restoring
  <2>2. CASE d = c /\ k = j
    BY <1>k, <2>1, <2>2 DEF SnapInv, Inv, StoreInv, StoreTypeOK
  <2>3. CASE d = c /\ k # j
    <3>1. k \notin todo[d] /\ k \notin overwritten[d]
      BY <1>2, <1>t, <2>3 DEF RestoreKey, Overwrites, SnapType
    <3>2. store'[k] = store[k]
      BY <1>k, <2>1, <2>3 DEF SnapInv, Inv, StoreInv, StoreTypeOK
    <3>3. QED
      BY <2>1, <3>1, <3>2 DEF SnapshotRestores
  <2>4. CASE d # c
    <3>1. k \notin todo[d] /\ k \notin overwritten[d] /\ store'[k] = store[k]
      BY <1>2, <1>k, <1>t, <2>1, <2>4 DEF RestoreKey, Overwrites, SnapType
    <3>2. QED
      BY <2>1, <3>1 DEF SnapshotRestores
  <2>5. QED
    BY <2>2, <2>3, <2>4
<1>3. ASSUME NEW c \in Client, RestoreSnapshot(c) PROVE store'[k].value = loaded'[d][k]
  <2>1. d # c
    BY <1>3, <1>t DEF RestoreSnapshot, SnapType
  <2>2. QED
    BY <1>3, <1>t, <2>1 DEF RestoreSnapshot, SnapType, SnapshotRestores, Restoring, vars
<1>4. ASSUME NEW c \in Client, RestoreReturns(c) PROVE store'[k].value = loaded'[d][k]
  <2>1. d # c
    BY <1>4, <1>t DEF RestoreReturns, SnapType, Restoring
  <2>2. QED
    BY <1>4, <1>t, <2>1 DEF RestoreReturns, SnapType, SnapshotRestores, Restoring, vars
<1>5. CASE \/ \E c \in Client : CreateSnapshot(c)
           \/ UNCHANGED <<vars, snapVars>>
  BY <1>5 DEF CreateSnapshot, SnapshotRestores, Restoring, vars, snapVars
<1>6. QED
  BY <1>1, <1>2, <1>3, <1>4, <1>5 DEF SnapNext, SnapStep

(* While and after a restore runs among other clients, what it has put back  *)
(* stays put back, unless somebody else changes it.                          *)
THEOREM RestoredStaysRestored == SnapSpec => []SnapshotRestores
<1>1. SnapInit => SnapshotRestores
  BY DEF SnapInit, SnapshotRestores, Restoring
<1>2. QED
  BY <1>1, SnapInvInit, SnapInvNext, SnapshotRestoresNext, PTL DEF SnapSpec

=============================================================================
