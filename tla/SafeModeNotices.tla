-------------------------- MODULE SafeModeNotices --------------------------
(***************************************************************************)
(* The safe mode together with the bus that tells of its changes.  Every   *)
(* transition of the manager is published, an escalation at P0 and a       *)
(* de-escalation at P1, and the subscribers hear of the transitions in the *)
(* order in which the bus, a PriorityChannel, delivers them.               *)
(* Other events on the bus would only fill its queues sooner.              *)
(***************************************************************************)
EXTENDS SafeMode

CONSTANT MaxQueueSize  (* capacity of each queue of the scheduler *)

ASSUME CapacityAssumption == MaxQueueSize \in Nat \ {0}

(* The notice of the n-th transition, with its priority. *)
Notice == (Nat \ {0}) \X {0, 1}

VARIABLES
    line, choice, serving, served, dropped,  (* see PriorityChannel             *)
    onTheWay,  (* the notices that wait for room, of each coroutine             *)
    waited,    (* ghost: the notices that found their queue full                *)
    heard      (* ghost: the notices in the order in which they were delivered  *)

channel == <<line, choice, serving, served, dropped>>

Channel == INSTANCE PriorityChannel
           WITH Item <- Notice, Lowest <- 1, PrioOf <- [i \in Notice |-> i[2]]

busVars == <<channel, onTheWay, waited, heard>>

NoticesInit ==
    /\ Init
    /\ Channel!Init
    /\ onTheWay = [c \in Call |-> {}]
    /\ waited = {}
    /\ heard = <<>>

(* Mutant: the priorities of the two publications are exchanged. *)
PriorityExchanged(t) == IF t.to > t.from THEN 1 ELSE 0
PriorityOf(t) == IF t.to > t.from THEN 0 ELSE 1

(* The notice of the last transition of the history h. *)
NoticeOf(h) == <<Len(h), PriorityOf(h[Len(h)])>>

HasRoom(i) == Len(line[i[2]]) < MaxQueueSize

(* c publishes the transition that its step has made, if it made one: the    *)
(* notice enters its queue at once, or waits for room.  It never gets there  *)
(* when the bus rejects it, or raises before.                                *)
Publish(c) ==
    LET i == NoticeOf(history')
    IN  \/ /\ history' = history
           /\ UNCHANGED <<channel, onTheWay, waited>>
        \/ /\ history' # history
           /\ HasRoom(i)
           /\ Channel!Arrive(i)
           /\ UNCHANGED <<onTheWay, waited>>
        \/ UNCHANGED <<channel, onTheWay, waited>>
        \/ /\ history' # history
           /\ ~HasRoom(i)
           /\ onTheWay' = [onTheWay EXCEPT ![c] = {i}]
           /\ waited' = waited \cup {i}
           /\ UNCHANGED channel

CallStep(c) ==
    /\ Calls(c)
    /\ Publish(c)
    /\ UNCHANGED heard

(* The put of a waiting notice finds room; those that wait are not served in *)
(* order, and a new one may go before them.                                  *)
FindRoom(c, i) ==
    /\ i \in onTheWay[c]
    /\ HasRoom(i)
    /\ Channel!Arrive(i)
    /\ onTheWay' = [onTheWay EXCEPT ![c] = {}]
    /\ UNCHANGED <<vars, waited, heard>>

ResumeStep(c) ==
    /\ onTheWay[c] = {}
    /\ Resume(c)
    /\ Publish(c)
    /\ UNCHANGED heard

(* A publication that raises leaves a notice that waits behind. *)
RaiseStep(c) ==
    /\ Raise(c)
    /\ onTheWay' = [onTheWay EXCEPT ![c] = {}]
    /\ UNCHANGED <<channel, waited, heard>>

ResetStep == ResetToNormal /\ UNCHANGED busVars

(* The subscribers hear of the transition when its notice is delivered. *)
Deliver(p) ==
    /\ Channel!Serve(p)
    /\ heard' = Append(heard, Head(line[p]))
    /\ UNCHANGED <<vars, onTheWay, waited>>

(* The other steps of the scheduler.  Nobody stops it, so no delivery is     *)
(* broken off.                                                               *)
BusStep ==
    /\ Channel!Choose \/ Channel!Complete
    /\ UNCHANGED <<vars, onTheWay, waited, heard>>

NoticesNext ==
    \/ \E c \in Call :
          \/ CallStep(c)
          \/ \E i \in onTheWay[c] : FindRoom(c, i)
          \/ ResumeStep(c)
          \/ RaiseStep(c)
    \/ ResetStep
    \/ \E p \in 0..1 : Deliver(p)
    \/ BusStep

NoticesSpec == NoticesInit /\ [][NoticesNext]_<<vars, busVars>>

----------------------------------------------------------------------------

(* Subscribers hear of the transitions in their order, but for two cases: an *)
(* escalation may overtake earlier de-escalations, and a notice that found   *)
(* its queue full may come late.  A de-escalation that was put at once is    *)
(* never heard before an earlier escalation that was, so a subscriber does   *)
(* not take the mode for lower than it is except by such an overtaking       *)
(* (safe_mode.py:91-104, 125-138).                                           *)
OnlyEscalationsOvertake ==
    LET Raised(i) == history[i[1]].to > history[i[1]].from
    IN  \A m, n \in 1..Len(heard) :
            m < n /\ heard[m][1] > heard[n][1] =>
                \/ Raised(heard[m]) /\ ~Raised(heard[n])
                \/ heard[n] \in waited

=============================================================================
