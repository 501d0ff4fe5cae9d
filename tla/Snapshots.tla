----------------------------- MODULE Snapshots -----------------------------
(***************************************************************************)
(* The snapshots of state/snapshot.py over the store.  create_snapshot()   *)
(* copies the visible keys without giving up the event loop.               *)
(* restore_snapshot() puts them back one by one; each put publishes, and   *)
(* other clients run meanwhile.  Between a put and the next one of a       *)
(* restore nothing is awaited.                                             *)
(***************************************************************************)
EXTENDS StateStore

CONSTANTS NoSnapshot,  (* there is no snapshot file; no restore is under way *)
          Reloaded     (* what a value reads as after json.dump(default=str) *)
                       (* and json.load()                                    *)

(* The data of a StateSnapshot; the keys' versions are saved and not used. *)
Data == UNION {[K -> Value \cup {Nil}] : K \in SUBSET Key}

ASSUME SnapshotConstants ==
    /\ Reloaded \in [Value \cup {Nil} -> Value \cup {Nil}]
    /\ NoSnapshot \notin Data

VARIABLES
    file,        (* the data of the snapshot last written, or NoSnapshot       *)
    loaded,      (* the data that each client's restore works from             *)
    todo,        (* the keys that it has still to put                          *)
    overwritten  (* ghost: the keys that others changed since it put them      *)

snapVars == <<file, loaded, todo, overwritten>>

SnapInit ==
    /\ Init
    /\ file = NoSnapshot
    /\ loaded = [c \in Client |-> NoSnapshot]
    /\ todo = [c \in Client |-> {}]
    /\ overwritten = [c \in Client |-> {}]

Restoring(c) == loaded[c] # NoSnapshot

(* c is in the loop of restore_snapshot(), and running. *)
Between(c) == Restoring(c) /\ pc[c] = "idle"

(* A step of client c: what it changes is no longer as another's restore     *)
(* left it.                                                                  *)
Overwrites(c) ==
    overwritten' = [d \in Client |->
        IF d # c /\ Restoring(d)
        THEN overwritten[d] \cup {k \in Key \ todo[d] : store'[k] # store[k]}
        ELSE overwritten[d]]

(* A client, in a restore or not, goes on in the store. *)
StoreStep(c) ==
    /\ ~Between(c)
    /\ ClientStep(c)
    /\ Overwrites(c)
    /\ UNCHANGED <<file, loaded, todo>>

(* snapshot_state() lists the keys that hold a version. *)
Visible == {k \in Key : store[k] # Absent}

CreateSnapshot(c) ==
    /\ MayRun(c)
    /\ pc[c] = "idle"
    /\ ~Restoring(c)
    /\ file' = [k \in Visible |-> Reloaded[store[k].value]]
    /\ UNCHANGED <<vars, loaded, todo, overwritten>>

(* load_snapshot() and the head of restore_snapshot(). *)
RestoreSnapshot(c) ==
    /\ MayRun(c)
    /\ pc[c] = "idle"
    /\ ~Restoring(c)
    /\ file # NoSnapshot
    /\ loaded' = [loaded EXCEPT ![c] = file]
    /\ todo' = [todo EXCEPT ![c] = DOMAIN file]
    /\ UNCHANGED <<vars, file, overwritten>>

(* Mutant: a key is put only if the store has lost it. *)
RestoreMissing(c, k) ==
    /\ Between(c)
    /\ k \in todo[c]
    /\ IF store[k] = Absent THEN Put(c, k, loaded[c][k], AnyVersion) ELSE UNCHANGED vars
    /\ todo' = [todo EXCEPT ![c] = @ \ {k}]
    /\ Overwrites(c)
    /\ UNCHANGED <<file, loaded>>

(* The next key is put, whatever version it has now.  An exception of the    *)
(* put is logged, and the loop goes on.                                      *)
RestoreKey(c, k) ==
    /\ Between(c)
    /\ k \in todo[c]
    /\ Put(c, k, loaded[c][k], AnyVersion)
    /\ todo' = [todo EXCEPT ![c] = @ \ {k}]
    /\ Overwrites(c)
    /\ UNCHANGED <<file, loaded>>

RestoreReturns(c) ==
    /\ Between(c)
    /\ todo[c] = {}
    /\ loaded' = [loaded EXCEPT ![c] = NoSnapshot]
    /\ overwritten' = [overwritten EXCEPT ![c] = {}]
    /\ UNCHANGED <<vars, file, todo>>

SnapStep(c) ==
    \/ StoreStep(c)
    \/ CreateSnapshot(c)
    \/ RestoreSnapshot(c)
    \/ \E k \in Key : RestoreKey(c, k)
    \/ RestoreReturns(c)

SnapNext ==
    \E c \in Client : (\A d \in Client : Between(d) => d = c) /\ SnapStep(c)

SnapSpec == SnapInit /\ [][SnapNext]_<<vars, snapVars>>

----------------------------------------------------------------------------

(* When restore_snapshot() is through its keys, every key of the snapshot    *)
(* that nobody else changed after its put has the snapshot's value, also if  *)
(* the put was reported to have failed.                                      *)
SnapshotRestores ==
    \A c \in Client : Restoring(c) =>
        \A k \in DOMAIN loaded[c] \ (todo[c] \cup overwritten[c]) :
            store[k].value = loaded[c][k]

=============================================================================
