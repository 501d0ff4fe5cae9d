----------------------- MODULE CompensationRegistry ------------------------
(***************************************************************************)
(* The registry of external operations of core/compensation.py: a map in   *)
(* memory from tokens to records, and an append-only file that receives    *)
(* the whole record at each change and is replayed by the constructor.     *)
(* Of a record only the state is kept.                                     *)
(*                                                                         *)
(* The file is a sequence of lines.  An append that is cut short leaves a  *)
(* line without its newline, and the next append runs on in that line.     *)
(***************************************************************************)
EXTENDS Naturals, Sequences

CONSTANTS Token,         (* the tokens register() draws, never the same twice    *)
          Bad,           (* a line json.loads() fails on                         *)
          TroubleBudget  (* bound: how many crashes and failed appends there are *)

State == {"PENDING", "COMPLETED", "COMPENSATING", "COMPENSATED", "FAILED"}
Line == [token : Token, state : State]

ASSUME RegistryConstants ==
    /\ Bad \notin Line
    /\ TroubleBudget \in Nat

VARIABLES
    up,       (* the process is running                                          *)
    records,  (* _records: a partial map from tokens to states                   *)
    disk,     (* the lines of the file                                           *)
    ragged,   (* the last line of the file lacks its newline                     *)
    used,     (* the tokens drawn so far                                         *)
    troubles, (* what is left of the bound                                       *)
    file,     (* ghost: "whole" while every append went through, "cut" once a    *)
              (* crash has cut one short, "lossy" once the write of one failed   *)
    past      (* ghost: the states each token has been in                        *)

regVars == <<up, records, disk, ragged, used, troubles, file, past>>

RegInit ==
    /\ up = TRUE
    /\ records = [t \in {} |-> "PENDING"]
    /\ disk = <<>>
    /\ ragged = FALSE
    /\ used = {}
    /\ troubles = TroubleBudget
    /\ file = "whole"
    /\ past = [t \in Token |-> {}]

----------------------------------------------------------------------------

(* _load(): the lines up to the first bad one, the last of a token winning. *)
Readable(f) == {n \in 1..Len(f) : \A m \in 1..n : f[m] # Bad}
(* Mutants: the first line of a token wins; the last line of all wins.       *)
ReplayFirst(f) ==
    [t \in {f[n].token : n \in Readable(f)} |->
       f[CHOOSE n \in Readable(f) :
           /\ f[n].token = t
           /\ \A m \in Readable(f) : f[m].token = t => n <= m].state]
ReplayLatest(f) ==
    [t \in {f[n].token : n \in Readable(f)} |->
       f[CHOOSE n \in Readable(f) : \A m \in Readable(f) : m <= n].state]

Replay(f) ==
    [t \in {f[n].token : n \in Readable(f)} |->
       f[CHOOSE n \in Readable(f) :
           /\ f[n].token = t
           /\ \A m \in Readable(f) : f[m].token = t => m <= n].state]

(* The file after a write of l: into the unfinished line, or as a new line. *)
Written(l) ==
    IF ragged THEN [disk EXCEPT ![Len(disk)] = Bad] ELSE Append(disk, l)

With(t, s) == [u \in DOMAIN records \cup {t} |-> IF u = t THEN s ELSE records[u]]

(* The record of t goes to state s, in memory and then in the file.  An      *)
(* error of the append is logged only; it leaves nothing in the file (that   *)
(* it could leave a part of the line is modelled for crashes alone).         *)
Persist(t, s) ==
    /\ up
    /\ records' = With(t, s)
    /\ past' = [past EXCEPT ![t] = @ \cup {s}]
    /\ \/ /\ disk' = Written([token |-> t, state |-> s])
          /\ ragged' = FALSE
          /\ UNCHANGED <<troubles, file>>
       \/ /\ troubles > 0
          /\ troubles' = troubles - 1
          /\ file' = "lossy"
          /\ UNCHANGED <<disk, ragged>>
    /\ UNCHANGED up

(* register() *)
Register(t) ==
    /\ t \notin used
    /\ used' = used \cup {t}
    /\ Persist(t, "PENDING")

(* mark_completed(), begin_compensation(), mark_compensated() and            *)
(* mark_failed(): no state is refused, only an unknown token.                *)
Mark(t, s) ==
    /\ t \in DOMAIN records
    /\ Persist(t, s)
    /\ UNCHANGED used

(* The process dies between two appends. *)
Crash ==
    /\ up
    /\ troubles > 0
    /\ troubles' = troubles - 1
    /\ up' = FALSE
    /\ records' = [t \in {} |-> "PENDING"]
    /\ UNCHANGED <<disk, ragged, used, file, past>>

(* The process dies in the append of a record: the file has got a part of    *)
(* the line, or all of it but the newline.                                   *)
CrashInAppend(t, s) ==
    /\ up
    /\ t \in DOMAIN records \/ (t \notin used /\ s = "PENDING")
    /\ used' = used \cup {t}
    /\ troubles > 0
    /\ troubles' = troubles - 1
    /\ up' = FALSE
    /\ records' = [u \in {} |-> "PENDING"]
    /\ past' = [past EXCEPT ![t] = @ \cup {s}]
    /\ \E l \in {Bad, [token |-> t, state |-> s]} : disk' = Written(l)
    /\ ragged' = TRUE
    /\ file' = IF file = "whole" THEN "cut" ELSE file

(* A new process reads the file. *)
Restart ==
    /\ ~up
    /\ up' = TRUE
    /\ records' = Replay(disk)
    /\ UNCHANGED <<disk, ragged, used, troubles, file, past>>

RegNext ==
    \/ \E t \in Token : Register(t)
    \/ \E t \in Token, s \in State \ {"PENDING"} : Mark(t, s)
    \/ \E t \in Token, s \in State : CrashInAppend(t, s)
    \/ Crash
    \/ Restart

RegSpec == RegInit /\ [][RegNext]_regVars

----------------------------------------------------------------------------

(* The types of the registry's variables; only the last line can be ragged. *)
RegTypeOK ==
    /\ up \in BOOLEAN
    /\ DOMAIN records \subseteq Token
    /\ \A t \in DOMAIN records : records[t] \in State
    /\ disk \in Seq(Line \cup {Bad})
    /\ ragged \in BOOLEAN
    /\ ragged => disk # <<>>
    /\ used \subseteq Token
    /\ troubles \in Nat
    /\ file \in {"whole", "cut", "lossy"}
    /\ past \in [Token -> SUBSET State]

(* As long as no append failed or was cut short, the file replays to exactly *)
(* what is in memory, through any number of crashes between appends and of   *)
(* restarts: nothing is forgotten and no state is stale.                     *)
ReplayIsMemory ==
    file = "whole" /\ up => Replay(disk) = records

(* Whatever happens to the file, a restart never makes up a state: each      *)
(* token comes back in a state it has been in.                               *)
ReplayIsPast ==
    \A t \in DOMAIN Replay(disk) : t \in used /\ Replay(disk)[t] \in past[t]

(* The file knows every token that is in memory ("The registry is persistent *)
(* and can be used during recovery to find operations that were left in      *)
(* PENDING or COMPENSATING state"), unless the write of an append failed.    *)
PersistentAfterCrash ==
    up /\ file # "lossy" => DOMAIN records \subseteq DOMAIN Replay(disk)

=============================================================================
