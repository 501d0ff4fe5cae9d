--------------------------- MODULE MCStateStore ----------------------------
(* Clients and keys are interchangeable, and no liveness is checked.  The    *)
(* values are such as JSON keeps.                                            *)
EXTENDS Snapshots, TLC

Symmetry == Permutations(Client) \cup Permutations(Key)

MCReloaded == [v \in Value \cup {Nil} |-> v]

(* Bounds: transactions or a snapshot, and a client has read one key at most. *)
Bounds ==
    /\ file = NoSnapshot \/ \A t \in Tx : status[t] = "new"
    /\ \A c \in Client : \A j, k \in Key : seen[c][j] # Absent /\ seen[c][k] # Absent => j = k

============================================================================
