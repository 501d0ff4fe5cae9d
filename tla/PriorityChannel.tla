-------------------------- MODULE PriorityChannel --------------------------
(***************************************************************************)
(* What the event plane promises, without saying how: a channel with one   *)
(* server.  Items of one priority are served in the order they arrived,    *)
(* one at a time, each at most once.  The server chooses the best line     *)
(* that is not empty and then serves its head; what arrives between the    *)
(* choice and the service, however good, comes after it.                   *)
(* PriorityScheduler implements the channel with tasks, flags and          *)
(* cancellations that are not seen here; SafeModeNotices relies on it.     *)
(***************************************************************************)
EXTENDS Naturals, Sequences

CONSTANTS Item,    (* what is handed to the channel *)
          Lowest,  (* priorities are 0 .. Lowest    *)
          PrioOf   (* the priority of an item       *)

VARIABLES
    line,     (* [0..Lowest -> Seq(Item)], who waits, the oldest first     *)
    choice,   (* the priority that is served next, once it is chosen       *)
    serving,  (* the item being served, if there is one                    *)
    served,   (* the items whose service is complete                       *)
    dropped   (* the items whose service was broken off                    *)

vars == <<line, choice, serving, served, dropped>>

Waiting(p) == {line[p][n] : n \in 1..Len(line[p])}
AnyWaiting == UNION {Waiting(p) : p \in 0..Lowest}
Known == AnyWaiting \cup serving \cup served \cup dropped

Init ==
    /\ line = [p \in 0..Lowest |-> <<>>]
    /\ choice = {}
    /\ serving = {}
    /\ served = {}
    /\ dropped = {}

(* A new item joins the line of its priority. *)
Arrive(i) ==
    /\ i \notin Known
    /\ line' = [line EXCEPT ![PrioOf[i]] = Append(@, i)]
    /\ UNCHANGED <<choice, serving, served, dropped>>

IsBest(p) == line[p] # <<>> /\ \A q \in 0..Lowest : q < p => line[q] = <<>>

Chooses == \E p \in 0..Lowest : IsBest(p) /\ choice' = {p}

(* The idle server chooses. *)
Choose ==
    /\ choice = {}
    /\ serving = {}
    /\ Chooses
    /\ UNCHANGED <<line, serving, served, dropped>>

(* The head of the chosen line is served. *)
Serve(p) ==
    /\ choice = {p}
    /\ line[p] # <<>>
    /\ serving' = {Head(line[p])}
    /\ line' = [line EXCEPT ![p] = Tail(@)]
    /\ choice' = {}
    /\ UNCHANGED <<served, dropped>>

(* The service is complete, and the server may choose at once. *)
Complete ==
    /\ serving # {}
    /\ served' = served \cup serving
    /\ serving' = {}
    /\ Chooses \/ UNCHANGED choice
    /\ UNCHANGED <<line, dropped>>

(* The service is broken off. *)
Drop ==
    /\ serving # {}
    /\ dropped' = dropped \cup serving
    /\ serving' = {}
    /\ UNCHANGED <<line, choice, served>>

(* Items that are through make way for the next of their shape. *)
Renew(S) ==
    /\ served' = served \ S
    /\ dropped' = dropped \ S
    /\ UNCHANGED <<line, choice, serving>>

Next ==
    \/ \E i \in Item : Arrive(i)
    \/ Choose
    \/ \E p \in 0..Lowest : Serve(p)
    \/ Complete
    \/ Drop
    \/ \E S \in SUBSET (served \cup dropped) : Renew(S)

Spec == Init /\ [][Next]_vars

=============================================================================
