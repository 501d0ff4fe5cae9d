---------------------------- MODULE BlobManager ----------------------------
(***************************************************************************)
(* core/blob.py: the bus hands the large values of a payload to the        *)
(* BlobManager, which keeps them in a cache of bounded size, counts the    *)
(* bytes of each emitter against a quota, and writes each blob to a        *)
(* directory that the next process loads.                                  *)
(*                                                                         *)
(* Of a blob only its bytes and its owner are kept, the owner being the    *)
(* emitter in its metadata; metadata that is lost or unreadable is the     *)
(* same as metadata without an emitter.  The methods are synchronous, so   *)
(* nothing but a crash comes between the stores of one payload.  The       *)
(* directory is configured (blob_persist_dir), the cache is limited, and   *)
(* the quotas that _get_emitter_quota() derives are a constant.            *)
(***************************************************************************)
EXTENDS Integers, SequencesExt

CONSTANTS
    Blob,          (* the identifiers store() draws, never the same twice        *)
    Emitter,       (* names publish() may pass as authenticated_emitter          *)
    Anonymous,     (* no emitter is passed                                       *)
    SizeOf,        (* the bytes of the value stored under each identifier        *)
    Quota,         (* _get_emitter_quota() of each emitter                       *)
    MaxCacheSize,  (* max_cache_size_bytes                                       *)
    TroubleBudget  (* bound: how many errors of the file system there are        *)

ASSUME BlobConstants ==
    /\ Anonymous \notin Emitter
    /\ SizeOf \in [Blob -> Nat \ {0}]
    /\ Quota \in [Emitter -> Nat]
    /\ MaxCacheSize \in Nat \ {0}
    /\ TroubleBudget \in Nat

Entry == [bytes : Nat, owner : Emitter \cup {Anonymous}]

VARIABLES
    up,        (* the process is running                                         *)
    lru,       (* the keys of _blobs, the least recently used first              *)
    held,      (* _blobs and _metadata: a partial map from blobs to entries      *)
    cacheSize, (* _current_cache_size                                            *)
    usage,     (* _per_emitter_usage                                             *)
    disk,      (* the blobs with a .bin file: a partial map to entries           *)
    payload,   (* the values that replace_large_payloads() still has to store    *)
    emitter,   (* and the emitter it was called with                             *)
    drawn,     (* the identifiers drawn so far                                   *)
    troubles,  (* what is left of the bound                                      *)
    erased     (* ghost: blobs that were deleted together with their .bin file   *)

vars == <<up, lru, held, cacheSize, usage, disk, payload, emitter, drawn, troubles, erased>>
cache == <<lru, held, cacheSize, usage>>
job == <<payload, emitter>>

Only(f, S) == [b \in DOMAIN f \cap S |-> f[b]]
With(f, b, x) == [c \in DOMAIN f \cup {b} |-> IF c = b THEN x ELSE f[c]]
NotNegative(n) == IF n < 0 THEN 0 ELSE n
BytesOf(f, S) == MapThenSumSet(LAMBDA b : f[b].bytes, S)
Owned(f, e) == {b \in DOMAIN f : f[b].owner = e}
Empty == [b \in {} |-> [bytes |-> 0, owner |-> Anonymous]]

Init ==
    /\ up = TRUE
    /\ lru = <<>>
    /\ held = Empty
    /\ cacheSize = 0
    /\ usage = [e \in Emitter |-> 0]
    /\ disk = Empty
    /\ payload = <<>>
    /\ emitter = Anonymous
    /\ drawn = {}
    /\ troubles = TroubleBudget
    /\ erased = {}

----------------------------------------------------------------------------

(* The bus calls replace_large_payloads() on a payload with large values. *)
Offer(e, values) ==
    /\ up /\ payload = <<>>
    /\ payload' = values
    /\ emitter' = e
    /\ UNCHANGED <<up, cache, disk, drawn, troubles, erased>>

(* The test against the quota; without an emitter there is none. *)
(* Mutant: the bytes in use are left out.                        *)
FitsAlone(e, b) == e \in Emitter => SizeOf[b] <= Quota[e]
FitsQuota(e, b) == e \in Emitter => usage[e] + SizeOf[b] <= Quota[e]

(* What is left of the counted size when the n oldest of s have gone. *)
SizeAfter(s, f, size, n) == size - BytesOf(f, Range(SubSeq(s, 1, n)))

(* How many blobs of s, the oldest first, the eviction loop removes: it goes *)
(* by the counter, and stops at the latest when there is none left.          *)
(* Mutant: the loop is an if, and removes at most one.                       *)
EvictOne(s, f, size) == IF size > MaxCacheSize THEN 1 ELSE 0
Evictions(s, f, size) ==
    CHOOSE n \in 0..Len(s) :
        /\ n = Len(s) \/ SizeAfter(s, f, size, n) <= MaxCacheSize
        /\ \A k \in 0..(n - 1) : SizeAfter(s, f, size, k) > MaxCacheSize

(* The usage of each emitter after the entries of f for S have gone. *)
(* Mutant: usage is counted for as long as the process lives.        *)
UsageKept(use, f, S) == use
UsageWithout(use, f, S) ==
    [e \in Emitter |-> NotNegative(use[e] - BytesOf(f, S \cap Owned(f, e)))]

(* _persist_blob(): the bytes, then the metadata.  An error of either, or a *)
(* crash (a Crash step that follows), leaves what was written so far.       *)
Persist(b) ==
    \/ /\ disk' = With(disk, b, [bytes |-> SizeOf[b], owner |-> emitter])
       /\ UNCHANGED troubles
    \/ /\ troubles > 0 /\ troubles' = troubles - 1
       /\ \/ UNCHANGED disk
          \/ \E n \in 0..SizeOf[b] :
                disk' = With(disk, b, [bytes |-> n, owner |-> Anonymous])

(* store() of the next value, when the quota lets it in: insert, evict, persist. *)
StoreNext ==
    /\ up /\ payload # <<>>
    /\ LET b == Head(payload)
           all == Append(lru, b)
           entries == With(held, b, [bytes |-> SizeOf[b], owner |-> emitter])
           grown == [e \in Emitter |-> usage[e] + (IF e = emitter THEN SizeOf[b] ELSE 0)]
           n == Evictions(all, entries, cacheSize + SizeOf[b])
           gone == Range(SubSeq(all, 1, n))
       IN  /\ FitsQuota(emitter, b)
           /\ lru' = SubSeq(all, n + 1, Len(all))
           /\ held' = Only(entries, Range(lru'))
           /\ cacheSize' = cacheSize + SizeOf[b] - BytesOf(entries, gone)
           /\ usage' = UsageWithout(grown, entries, gone)
           /\ Persist(b)
           /\ drawn' = drawn \cup {b}
    /\ payload' = Tail(payload)
    /\ UNCHANGED <<up, emitter, erased>>

(* store() raises PermissionError: the payload is given up, and what was  *)
(* stored for its earlier values stays.                                   *)
Refuse ==
    /\ up /\ payload # <<>>
    /\ ~FitsQuota(emitter, Head(payload))
    /\ payload' = <<>>
    /\ drawn' = drawn \cup {Head(payload)}
    /\ UNCHANGED <<up, cache, disk, emitter, troubles, erased>>

(* The order without a key that is in it. *)
Without(s, b) == RemoveAt(s, CHOOSE i \in DOMAIN s : s[i] = b)

(* retrieve(): a blob that is held becomes the most recently used. *)
(* Mutant: its key is added and not moved.                         *)
RetrieveAdding(b) ==
    /\ up /\ payload = <<>>
    /\ b \in DOMAIN held
    /\ lru' = Append(lru, b)
    /\ UNCHANGED <<up, held, cacheSize, usage, disk, job, drawn, troubles, erased>>

Retrieve(b) ==
    /\ up /\ payload = <<>>
    /\ b \in DOMAIN held
    /\ lru' = Append(Without(lru, b), b)
    /\ UNCHANGED <<up, held, cacheSize, usage, disk, job, drawn, troubles, erased>>

Forget(b) ==
    /\ lru' = Without(lru, b)
    /\ held' = Only(held, Blob \ {b})
    /\ cacheSize' = NotNegative(cacheSize - BytesOf(held, {b}))
    /\ usage' = UsageWithout(usage, held, {b})

(* The unlink of the files of b; an error is passed over and leaves the bytes. *)
Unlink(b) ==
    \/ /\ disk' = Only(disk, Blob \ {b})
       /\ erased' = erased \cup {b}
       /\ UNCHANGED troubles
    \/ /\ troubles > 0 /\ troubles' = troubles - 1
       /\ UNCHANGED <<disk, erased>>

(* Mutant: delete() returns early for a blob that is not in the cache. *)
DeleteHeld(b) ==
    /\ up /\ payload = <<>>
    /\ b \in drawn
    /\ IF b \in DOMAIN held
       THEN Forget(b) /\ Unlink(b)
       ELSE UNCHANGED <<cache, disk, troubles>> /\ erased' = erased \cup {b}
    /\ UNCHANGED <<up, job, drawn>>

(* delete() of a blob that was stored once, whether the cache has it or not. *)
Delete(b) ==
    /\ up /\ payload = <<>>
    /\ b \in drawn
    /\ IF b \in DOMAIN held THEN Forget(b) ELSE UNCHANGED cache
    /\ Unlink(b)
    /\ UNCHANGED <<up, job, drawn>>

(* The process ends at any point, between two stores of a payload too. *)
Crash ==
    /\ up /\ up' = FALSE
    /\ lru' = <<>>
    /\ held' = Empty
    /\ cacheSize' = 0
    /\ usage' = [e \in Emitter |-> 0]
    /\ payload' = <<>>
    /\ UNCHANGED <<disk, emitter, drawn, troubles, erased>>

(* _load_persisted_blobs(), in the order of the directory.  A file that *)
(* cannot be read is passed over.                                       *)
Load(readable) ==
    /\ held' = Only(disk, readable)
    /\ lru' \in SetToSeqs(readable)
    /\ cacheSize' = BytesOf(disk, readable)
    /\ usage' = [e \in Emitter |-> BytesOf(disk, readable \cap Owned(disk, e))]

Restart ==
    /\ ~up /\ up' = TRUE
    /\ \/ /\ Load(DOMAIN disk)
          /\ UNCHANGED troubles
       \/ /\ troubles > 0 /\ troubles' = troubles - 1
          /\ \E b \in DOMAIN disk : Load(DOMAIN disk \ {b})
    /\ UNCHANGED <<disk, job, drawn, erased>>

Next ==
    \/ \E e \in Emitter \cup {Anonymous} :
          \/ \E b \in Blob \ drawn : Offer(e, <<b>>)
          \/ \E b, c \in Blob \ drawn : b # c /\ Offer(e, <<b, c>>)
    \/ StoreNext
    \/ Refuse
    \/ \E b \in Blob : Retrieve(b) \/ Delete(b)
    \/ Crash
    \/ Restart

Spec == Init /\ [][Next]_vars

----------------------------------------------------------------------------

(* Types; the cache and its metadata have the same keys, each once in the *)
(* LRU order.                                                             *)
TypeOK ==
    /\ up \in BOOLEAN
    /\ \A f \in {held, disk} : DOMAIN f \subseteq drawn /\ Range(f) \subseteq Entry
    /\ IsInjective(lru) /\ Range(lru) = DOMAIN held
    /\ cacheSize \in Nat
    /\ usage \in [Emitter -> Nat]
    /\ payload \in Seq(Blob \ drawn) /\ IsInjective(payload)
    /\ emitter \in Emitter \cup {Anonymous}
    /\ drawn \subseteq Blob /\ erased \subseteq drawn
    /\ troubles \in 0..TroubleBudget

(* The counters say what the cache holds, in all and for each emitter, after *)
(* any stores, evictions, deletions and reloads: the subtractions that are   *)
(* clamped at zero are never clamped (blob.py:139-153, 183-190, 216-226).    *)
AccountsExact ==
    /\ cacheSize = BytesOf(held, DOMAIN held)
    /\ \A e \in Emitter : usage[e] = BytesOf(held, Owned(held, e))

(* A store leaves the cache within its limit, also when a reload had filled *)
(* it beyond, and evicts no more than that takes: with the last evicted the *)
(* limit would be exceeded.  So a new blob that fits is in the cache        *)
(* (blob.py:146-154).                                                       *)
EvictsJustEnough ==
    [][ drawn' # drawn /\ held' # held =>
          LET all == Append(lru, Head(payload))
              kept == DOMAIN held'
              gone == {i \in 1..Len(all) : all[i] \notin kept}
              last == CHOOSE i \in gone : \A j \in gone : j <= i
          IN  /\ cacheSize' <= MaxCacheSize
              /\ gone # {} =>
                    cacheSize' + (IF all[last] = Head(payload) THEN SizeOf[all[last]]
                                  ELSE held[all[last]].bytes) > MaxCacheSize ]_vars

(* An emitter cannot crowd the others out: however often it stores, the    *)
(* bytes that the others have in the cache do not fall below the limit less *)
(* its quota, but for the last blob evicted (blob.py:6-12, 115-124).       *)
(* Nothing of the kind holds for anonymous publishers.                     *)
OthersKeepTheirShare ==
    [][ \A e \in Emitter :
          LET before == cacheSize - usage[e]
              after == cacheSize' - usage'[e]
          IN  emitter = e /\ payload # <<>> /\ up' /\ after < before =>
                 \E b \in DOMAIN held \ DOMAIN held' :
                    after > MaxCacheSize - Quota[e] - held[b].bytes ]_vars

(* A blob whose deletion reached its file is never in the cache again, even *)
(* when it had been evicted before and the process restarts (blob.py:181).  *)
DeletedStaysGone == erased \cap DOMAIN held = {}
=============================================================================
