---------------------------- MODULE StateStore -----------------------------
(***************************************************************************)
(* The versioned store of state/store.py and the transactions of           *)
(* state/transaction.py, used by coroutines of one event loop.             *)
(*                                                                         *)
(* The body of put() and delete() between two awaits is one step: nothing  *)
(* is awaited while the store's lock is held, so the lock is never         *)
(* contended and is not modelled.  A call gives up the event loop when it  *)
(* publishes (the queue may be full, and the publication may raise) and in *)
(* its backoff.  The store has a bus, as the kernel gives it one.          *)
(***************************************************************************)
EXTENDS Integers, Sequences

CONSTANTS Key, Value,   (* keys, and the values written                         *)
          Nil,          (* Python's None: the value of an absent key            *)
          Client,       (* the coroutines that call the store                   *)
          Tx,           (* the transactions they may begin                      *)
          NoTx,         (* a call outside of any transaction                    *)
          NoCall,       (* the client is in no call                             *)
          AnyVersion,   (* expected_version=None                                *)
          MaxRetries,   (* max_retries of put()                                 *)
          Budget        (* bound: the number of calls clients make              *)

VARIABLES
    store,        (* [Key -> Cell]; version 0 stands for an absent key          *)
    nextVersion,  (* _next_version                                              *)
    pc,           (* where each client is suspended                             *)
    call,         (* the call each client is in                                 *)
    seen,         (* what each client last read under each key                  *)
    status,       (* the status of each transaction, "new" before begin()       *)
    ops,          (* tx.operations, the undo log                                *)
    active,       (* _active_transactions                                       *)
    budget,       (* calls that clients may still make                          *)
    base,         (* ghost: the value before a transaction's first operation    *)
    foreign       (* ghost: keys of a transaction that others wrote meanwhile   *)

storeVars == <<store, nextVersion>>
txVars == <<status, ops, active>>
ghosts == <<base, foreign>>
vars == <<store, nextVersion, pc, call, seen, status, ops, active, budget, base,
          foreign>>

Cell == [version : Nat, value : Value \cup {Nil}]
Absent == [version |-> 0, value |-> Nil]

(* A TxOperation; "put" and "delete" are its op_type. *)
Op == [type : {"put", "delete"}, key : Key, old : Value \cup {Nil}]

(* "idle": not in a call; "conflict", "written", "refused": publishing the   *)
(* conflict, the state.put, the conflict of a delete; "backoff": in the      *)
(* sleep before a retry; "undo": in the loop of rollback(), and running;     *)
(* "closing": publishing tx.committed or tx.rolled_back.                     *)
PC == {"idle", "conflict", "written", "refused", "backoff", "undo", "closing"}

(* The locals of a call: given is the caller's expected_version, expected    *)
(* the one put() compares with, found the version a conflict reported; undo  *)
(* counts the operations that rollback() has still to undo.                  *)
Call == [key : Key, value : Value \cup {Nil}, given : Nat \cup {AnyVersion},
         expected : Nat \cup {AnyVersion}, found : Nat, attempt : 0..MaxRetries,
         tx : Tx \cup {NoTx}, undo : Nat, rollback : BOOLEAN]
        (* rollback: put() or delete() was called by rollback() *)

CallOf(k, v, exp, t, n, inRollback) ==
    [key |-> k, value |-> v, given |-> exp, expected |-> exp, found |-> 0,
     attempt |-> 0, tx |-> t, undo |-> n, rollback |-> inRollback]
NewCall(k, v, exp, t) == CallOf(k, v, exp, t, 0, FALSE)

(* A call of commit() or rollback() itself. *)
Ending == [tx : Tx, undo : Nat]
TxCall(t, n) == [tx |-> t, undo |-> n]

ASSUME StoreConstants ==
    /\ Nil \notin Value
    /\ NoTx \notin Tx
    /\ NoCall \notin Call
    /\ AnyVersion \notin Nat
    /\ MaxRetries \in Nat
    /\ Budget \in Nat

Untouched == [k \in {} |-> Nil]

Init ==
    /\ store = [k \in Key |-> Absent]
    /\ nextVersion = 1
    /\ pc = [c \in Client |-> "idle"]
    /\ call = [c \in Client |-> NoCall]
    /\ seen = [c \in Client |-> [k \in Key |-> Absent]]
    /\ status = [t \in Tx |-> "new"]
    /\ ops = [t \in Tx |-> <<>>]
    /\ active = {}
    /\ budget = Budget
    /\ base = [t \in Tx |-> Untouched]
    /\ foreign = [t \in Tx |-> {}]

----------------------------------------------------------------------------

(* One thread: while a client runs, no other does. *)
MayRun(c) == \A d \in Client : pc[d] = "undo" => d = c

(* A client makes a new call. *)
Calls(c) ==
    /\ MayRun(c)
    /\ pc[c] = "idle"
    /\ budget > 0
    /\ budget' = budget - 1

(* Control goes back to the loop of rollback() or to the client's own code. *)
Return(c, r) ==
    IF r.rollback
    THEN /\ pc' = [pc EXCEPT ![c] = "undo"]
         /\ call' = [call EXCEPT ![c] = r]
    ELSE /\ pc' = [pc EXCEPT ![c] = "idle"]
         /\ call' = [call EXCEPT ![c] = NoCall]

(* Ghost: key k changes by call r of a client. *)
Interferes(r, k) ==
    foreign' = [t \in Tx |->
        IF /\ k \in DOMAIN base[t]
           /\ r.tx # t \/ (status[t] # "ACTIVE" /\ ~r.rollback)
        THEN foreign[t] \cup {k} ELSE foreign[t]]

(* Mutants of AttemptPut: versions are counted per key, from its current     *)
(* one; the comparison is left out.                                          *)
AttemptPutKeyVersion(c, r) ==
    LET k == r.key IN
    \/ /\ r.expected = AnyVersion \/ r.expected = store[k].version
       /\ store' = [store EXCEPT ![k] = [version |-> store[k].version + 1,
                                         value |-> r.value]]
       /\ nextVersion' = nextVersion + 1
       /\ pc' = [pc EXCEPT ![c] = "written"]
       /\ call' = [call EXCEPT ![c] = r]
       /\ Interferes(r, k)
    \/ /\ r.expected # AnyVersion
       /\ r.expected # store[k].version
       /\ pc' = [pc EXCEPT ![c] = "conflict"]
       /\ call' = [call EXCEPT ![c] = [r EXCEPT !.found = store[k].version]]
       /\ UNCHANGED <<store, nextVersion, foreign>>
AttemptPutUnchecked(c, r) ==
    /\ store' = [store EXCEPT ![r.key] = [version |-> nextVersion, value |-> r.value]]
    /\ nextVersion' = nextVersion + 1
    /\ pc' = [pc EXCEPT ![c] = "written"]
    /\ call' = [call EXCEPT ![c] = r]
    /\ Interferes(r, r.key)

(* put(), from the comparison of the versions to the publication. *)
AttemptPut(c, r) ==
    LET k == r.key IN
    \/ /\ r.expected = AnyVersion \/ r.expected = store[k].version
       /\ store' = [store EXCEPT ![k] = [version |-> nextVersion, value |-> r.value]]
       /\ nextVersion' = nextVersion + 1
       /\ pc' = [pc EXCEPT ![c] = "written"]
       /\ call' = [call EXCEPT ![c] = r]
       /\ Interferes(r, k)
    \/ /\ r.expected # AnyVersion
       /\ r.expected # store[k].version
       /\ pc' = [pc EXCEPT ![c] = "conflict"]
       /\ call' = [call EXCEPT ![c] = [r EXCEPT !.found = store[k].version]]
       /\ UNCHANGED <<store, nextVersion, foreign>>

(* delete(), which publishes only its conflicts. *)
AttemptDelete(c, r) ==
    LET k == r.key IN
    \/ /\ store[k] = Absent
       /\ Return(c, r)
       /\ UNCHANGED <<store, foreign>>
    \/ /\ store[k] # Absent
       /\ r.expected = AnyVersion \/ r.expected = store[k].version
       /\ store' = [store EXCEPT ![k] = Absent]
       /\ Return(c, r)
       /\ Interferes(r, k)
    \/ /\ store[k] # Absent
       /\ r.expected # AnyVersion
       /\ r.expected # store[k].version
       /\ pc' = [pc EXCEPT ![c] = "refused"]
       /\ call' = [call EXCEPT ![c] = r]
       /\ UNCHANGED <<store, foreign>>

(* get() *)
Read(c, k) ==
    /\ MayRun(c)
    /\ pc[c] = "idle"
    /\ seen' = [seen EXCEPT ![c][k] = store[k]]
    /\ UNCHANGED <<storeVars, pc, call, txVars, budget, ghosts>>

(* What a client may expect: nothing, or the version it last read. *)
Expectation(c, k) == {AnyVersion, seen[c][k].version}

Put(c, k, v, exp) ==
    /\ Calls(c)
    /\ AttemptPut(c, NewCall(k, v, exp, NoTx))
    /\ UNCHANGED <<seen, txVars, base>>

Delete(c, k, exp) ==
    /\ Calls(c)
    /\ AttemptDelete(c, NewCall(k, Nil, exp, NoTx))
    /\ UNCHANGED <<nextVersion, seen, txVars, base>>

----------------------------------------------------------------------------

(* begin() *)
TxBegin(c, t) ==
    /\ MayRun(c)
    /\ pc[c] = "idle"
    /\ status[t] = "new"
    /\ status' = [status EXCEPT ![t] = "ACTIVE"]
    /\ active' = active \cup {t}
    /\ UNCHANGED <<storeVars, pc, call, seen, ops, budget, ghosts>>

(* The undo log is written before the operation is tried, and the ghost base *)
(* remembers the value before the first one.                                 *)
Log(t, type, k) ==
    /\ ops' = [ops EXCEPT ![t] = Append(@, [type |-> type, key |-> k,
                                            old |-> store[k].value])]
    /\ base' = [base EXCEPT ![t] =
                  IF k \in DOMAIN @ THEN @
                  ELSE [j \in DOMAIN @ \cup {k} |-> IF j = k THEN store[k].value
                                                             ELSE @[j]]]

TxPut(c, t, k, v, exp) ==
    /\ Calls(c)
    /\ status[t] = "ACTIVE"
    /\ Log(t, "put", k)
    /\ AttemptPut(c, NewCall(k, v, exp, t))
    /\ UNCHANGED <<seen, status, active>>

TxDelete(c, t, k, exp) ==
    /\ Calls(c)
    /\ status[t] = "ACTIVE"
    /\ store[k] # Absent
    /\ Log(t, "delete", k)
    /\ AttemptDelete(c, NewCall(k, Nil, exp, t))
    /\ UNCHANGED <<nextVersion, seen, status, active>>

Commit(c, t) ==
    /\ Calls(c)
    /\ status[t] = "ACTIVE"
    /\ status' = [status EXCEPT ![t] = "COMMITTED"]
    /\ pc' = [pc EXCEPT ![c] = "closing"]
    /\ call' = [call EXCEPT ![c] = TxCall(t, 0)]
    /\ UNCHANGED <<storeVars, seen, ops, active, ghosts>>

Rollback(c, t) ==
    /\ Calls(c)
    /\ status[t] = "ACTIVE"
    /\ status' = [status EXCEPT ![t] = "ROLLED_BACK"]
    /\ pc' = [pc EXCEPT ![c] = "undo"]
    /\ call' = [call EXCEPT ![c] = TxCall(t, Len(ops[t]))]
    /\ UNCHANGED <<storeVars, seen, ops, active, ghosts>>

(* Mutant: the operations are undone in the order they were made. *)
UndoForward(c) ==
    /\ MayRun(c)
    /\ pc[c] = "undo"
    /\ call[c].undo > 0
    /\ LET t == call[c].tx
           op == ops[t][Len(ops[t]) + 1 - call[c].undo]
           r == CallOf(op.key, op.old, AnyVersion, t, call[c].undo - 1, TRUE)
       IN  \/ op.old # Nil /\ AttemptPut(c, r)
           \/ op.old = Nil /\ op.type = "put" /\ AttemptDelete(c, r) /\ UNCHANGED nextVersion
           \/ /\ op.old = Nil
              /\ op.type = "delete"
              /\ call' = [call EXCEPT ![c] = r]
              /\ UNCHANGED <<storeVars, pc, foreign>>
    /\ UNCHANGED <<seen, txVars, budget, base>>

(* One turn of the loop of rollback(): put the old value back, or delete the *)
(* key when the old value is None, whatever version the key has now.         *)
Undo(c) ==
    /\ MayRun(c)
    /\ pc[c] = "undo"
    /\ call[c].undo > 0
    /\ LET t == call[c].tx
           op == ops[t][call[c].undo]
           r == CallOf(op.key, op.old, AnyVersion, t, call[c].undo - 1, TRUE)
       IN  \/ /\ op.old # Nil
              /\ AttemptPut(c, r)
           \/ /\ op.old = Nil
              /\ op.type = "put"
              /\ AttemptDelete(c, r)
              /\ UNCHANGED nextVersion
           \/ /\ op.old = Nil
              /\ op.type = "delete"
              /\ call' = [call EXCEPT ![c] = r]
              /\ UNCHANGED <<storeVars, pc, foreign>>
    /\ UNCHANGED <<seen, txVars, budget, base>>

UndoDone(c) ==
    /\ MayRun(c)
    /\ pc[c] = "undo"
    /\ call[c].undo = 0
    /\ pc' = [pc EXCEPT ![c] = "closing"]
    /\ UNCHANGED <<storeVars, call, seen, txVars, budget, ghosts>>

----------------------------------------------------------------------------

(* The publication of a call is over; ok says that it did not raise.  After  *)
(* a conflict put() sleeps and then tries again with the version it found,   *)
(* or raises after its last attempt.  Whatever raises in rollback() is       *)
(* logged there, and otherwise reaches the client: either way the call ends. *)
Published(c, ok) ==
    /\ MayRun(c)
    /\ pc[c] \in {"conflict", "written", "refused"}
    /\ LET r == call[c]
           retries == ok /\ pc[c] = "conflict" /\ r.attempt < MaxRetries
       IN  \/ /\ retries
              /\ pc' = [pc EXCEPT ![c] = "backoff"]
              /\ call' = [call EXCEPT ![c].expected = r.found, ![c].attempt = @ + 1]
           \/ /\ ~retries
              /\ Return(c, r)
    /\ UNCHANGED <<storeVars, seen, txVars, budget, ghosts>>

(* The backoff is over. *)
Retry(c) ==
    /\ MayRun(c)
    /\ pc[c] = "backoff"
    /\ AttemptPut(c, call[c])
    /\ UNCHANGED <<seen, txVars, budget, base>>

(* commit() or rollback() has published, and forgets the transaction unless  *)
(* the publication raised.                                                   *)
Closed(c, ok) ==
    /\ MayRun(c)
    /\ pc[c] = "closing"
    /\ pc' = [pc EXCEPT ![c] = "idle"]
    /\ call' = [call EXCEPT ![c] = NoCall]
    /\ active' = IF ok THEN active \ {call[c].tx} ELSE active
    /\ UNCHANGED <<storeVars, seen, status, ops, budget, ghosts>>

ClientStep(c) ==
    \/ \E k \in Key : Read(c, k)
    \/ \E k \in Key, v \in Value \cup {Nil} : \E exp \in Expectation(c, k) :
         \/ Put(c, k, v, exp)
         \/ \E t \in Tx : TxPut(c, t, k, v, exp)
    \/ \E k \in Key : \E exp \in Expectation(c, k) :
         \/ Delete(c, k, exp)
         \/ \E t \in Tx : TxDelete(c, t, k, exp)
    \/ \E t \in Tx : TxBegin(c, t) \/ Commit(c, t) \/ Rollback(c, t)
    \/ Undo(c) \/ UndoDone(c) \/ Retry(c)
    \/ \E ok \in BOOLEAN : Published(c, ok) \/ Closed(c, ok)

Next == \E c \in Client : ClientStep(c)

Spec == Init /\ [][Next]_vars

----------------------------------------------------------------------------

(* The types of the variables. *)
TypeOK ==
    /\ store \in [Key -> Cell]
    /\ nextVersion \in Nat \ {0}
    /\ pc \in [Client -> PC]
    /\ call \in [Client -> Call \cup Ending \cup {NoCall}]
    /\ seen \in [Client -> [Key -> Cell]]
    /\ status \in [Tx -> {"new", "ACTIVE", "COMMITTED", "ROLLED_BACK"}]
    /\ ops \in [Tx -> Seq(Op)]
    /\ active \subseteq Tx
    /\ budget \in Nat
    /\ foreign \in [Tx -> SUBSET Key]
    /\ \A t \in Tx : /\ DOMAIN base[t] \subseteq Key
                     /\ \A k \in DOMAIN base[t] : base[t][k] \in Value \cup {Nil}

(* A version is given to one key only, and never again: not even a delete    *)
(* followed by a put lets a key return to a version it had.                  *)
VersionsUnique ==
    /\ \A k \in Key : store[k].version < nextVersion
    /\ \A j, k \in Key : store[j].version = store[k].version /\ store[j] # Absent => j = k

(* A client that finds the version it read earlier finds the value it read   *)
(* earlier: comparing versions, as put() does, is comparing values, over any *)
(* number of writes, deletes, retries and rollbacks in between.              *)
VersionIdentifiesValue ==
    \A c \in Client, k \in Key :
        store[k].version = seen[c][k].version => store[k] = seen[c][k]

(* The call of client c writes in this step. *)
Writes(c) == pc'[c] = "written" /\ nextVersion' # nextVersion /\ pc[c] # "written"

(* A conditional put that was never refused replaces the very value its      *)
(* caller last read: no update is lost without a state.conflict before it.   *)
NoSilentLostUpdate ==
    [][\A c \in Client : LET r == call'[c] IN
         Writes(c) /\ r.given # AnyVersion /\ r.attempt = 0
           => store[r.key] = seen[c][r.key]]_vars

(* A conditional put replaces only the version its caller gave ("without     *)
(* sacrificing the safety of optimistic locking", put()).                    *)
OptimisticLocking ==
    [][\A c \in Client : LET r == call'[c] IN
         Writes(c) /\ r.given # AnyVersion => store[r.key].version = r.given]_vars

(* When rollback() is through, every key of the transaction that nobody else *)
(* wrote meanwhile, and that no put of the transaction reached late, has the *)
(* value it had before the transaction touched it.                           *)
RollbackRestores ==
    \A c \in Client, t \in Tx :
        pc[c] = "closing" /\ call[c].tx = t /\ status[t] = "ROLLED_BACK" =>
            \A k \in DOMAIN base[t] \ foreign[t] : store[k].value = base[t][k]

=============================================================================
