-------------------------- MODULE BlobManager_proofs --------------------------
(***************************************************************************)
(* Proofs about the blob manager, for any blobs, sizes, emitters, quotas   *)
(* and cache size.                                                         *)
(*                                                                         *)
(* The counters of the manager are sums over sets of blobs.  What a sum    *)
(* over a finite set is follows from the definition of the fold, by least  *)
(* counterexamples: the recursion has a solution, which does not depend on *)
(* the order in which the elements are taken.                              *)
(***************************************************************************)
EXTENDS BlobManager, SequenceTheorems, FiniteSetTheorems, WellFoundedInduction, TLAPS

(* A nonempty set of natural numbers has a least element, and a nonempty set *)
(* of subsets of a finite set a minimal one.                                 *)
LEMMA LeastNatural ==
  ASSUME NEW S, S \subseteq Nat, S # {}
  PROVE  \E m \in S : \A n \in S : m <= n
  <1>1. PICK m \in S : \A n \in S : <<n, m>> \notin OpToRel(<, Nat)
    BY NatLessThanWellFounded, WFMin
  <1>2. \A n \in S : ~(n < m)
    BY <1>1 DEF OpToRel
  <1> QED
    BY <1>2

LEMMA MinimalSubset ==
  ASSUME NEW S, IsFiniteSet(S), NEW F, F \subseteq SUBSET S, F # {}
  PROVE  \E T \in F : \A U \in SUBSET T : U # T => U \notin F
  <1>1. F \subseteq FiniteSubsetsOf(S)
    BY FS_Subset DEF FiniteSubsetsOf
  <1>2. PICK T \in F : \A U \in F : <<U, T>> \notin StrictSubsetOrdering(S)
    BY <1>1, FS_StrictSubsetOrderingWellFounded, WFMin
  <1> QED
    BY <1>2 DEF StrictSubsetOrdering

----------------------------------------------------------------------------

(* The recursion of the fold that BytesOf() is. *)
Some(s) == CHOOSE x \in s : TRUE
Added(f, g, s) == IF s = {} THEN 0 ELSE f[Some(s)].bytes + g[s \ {Some(s)}]
Adder(f, S) == CHOOSE g : g = [s \in SUBSET S |-> Added(f, g, s)]

LEMMA BytesOfIsAdder ==
  ASSUME NEW f, NEW S
  PROVE  BytesOf(f, S) = Adder(f, S)[S]
  BY DEF BytesOf, MapThenSumSet, MapThenFoldSet, Adder, Added, Some

LEMMA SomeMember ==
  ASSUME NEW s, s # {}
  PROVE  Some(s) \in s
  BY DEF Some

LEMMA AdderExists ==
  ASSUME NEW f, NEW S, IsFiniteSet(S)
  PROVE  \E g : g = [s \in SUBSET S |-> Added(f, g, s)]
  <1> DEFINE UpTo(n, g) == \A s \in SUBSET S : Cardinality(s) <= n => g[s] = Added(f, g, s)
             Bad == {n \in Nat : ~ \E g : UpTo(n, g)}
  <1>1. \A s \in SUBSET S : IsFiniteSet(s) /\ Cardinality(s) \in Nat
    BY FS_Subset, FS_CardinalityType
  <1>2. ASSUME Bad # {} PROVE FALSE
    <2>1. PICK m \in Bad : \A n \in Bad : m <= n
      BY <1>2, LeastNatural
    <2>2. m # 0
      <3> DEFINE g == [s \in SUBSET S |-> 0]
      <3>1. \A s \in SUBSET S : Cardinality(s) <= 0 => s = {}
        BY <1>1, FS_EmptySet
      <3>2. UpTo(0, g)
        BY <3>1 DEF Added
      <3> QED
        BY <2>1, <3>2
    <2>3. m - 1 \in Nat /\ m - 1 \notin Bad
      BY <2>1, <2>2
    <2>4. PICK g : UpTo(m - 1, g)
      BY <2>3
    <2> DEFINE h == [s \in SUBSET S |-> Added(f, g, s)]
    <2>5. ASSUME NEW s \in SUBSET S, Cardinality(s) <= m
          PROVE  h[s] = Added(f, h, s)
      <3>1. CASE s = {}
        BY <3>1 DEF Added
      <3>2. CASE s # {}
        <4> DEFINE t == s \ {Some(s)}
        <4>1. t \in SUBSET S /\ Cardinality(t) <= m - 1
          BY <1>1, <2>1, <2>5, <3>2, SomeMember, FS_RemoveElement
        <4>2. g[t] = Added(f, g, t)
          BY <2>4, <4>1
        <4>3. h[t] = g[t]
          BY <4>1, <4>2
        <4> QED
          BY <3>2, <4>3 DEF Added
      <3> QED
        BY <3>1, <3>2
    <2>6. UpTo(m, h)
      BY <2>5
    <2> QED
      BY <2>1, <2>6
  <1>3. PICK g : UpTo(Cardinality(S), g)
    BY <1>1, <1>2
  <1>4. \A s \in SUBSET S : g[s] = Added(f, g, s)
    BY <1>1, <1>3, FS_Subset
  <1> DEFINE h == [s \in SUBSET S |-> g[s]]
  <1>5. \A s \in SUBSET S : s \ {Some(s)} \in SUBSET S
    OBVIOUS
  <1>6. h = [s \in SUBSET S |-> Added(f, h, s)]
    BY <1>4, <1>5 DEF Added
  <1> QED
    BY <1>6

LEMMA AdderAdds ==
  ASSUME NEW f, NEW S, IsFiniteSet(S), NEW s \in SUBSET S
  PROVE  Adder(f, S)[s] = Added(f, Adder(f, S), s)
  <1>1. Adder(f, S) = [t \in SUBSET S |-> Added(f, Adder(f, S), t)]
    BY AdderExists DEF Adder
  <1> QED
    BY <1>1

(* One solution for all sets that have the element in common. *)
LEMMA AddersAgree ==
  ASSUME NEW f, NEW g, NEW S, IsFiniteSet(S), NEW T, IsFiniteSet(T), NEW V \in SUBSET (S \cap T),
         \A b \in V : f[b].bytes = g[b].bytes
  PROVE  Adder(f, S)[V] = Adder(g, T)[V]
  <1> DEFINE Bad == {s \in SUBSET V : Adder(f, S)[s] # Adder(g, T)[s]}
  <1>1. IsFiniteSet(V)
    BY FS_Subset
  <1>2. ASSUME Bad # {} PROVE FALSE
    <2>1. PICK s \in Bad : \A t \in SUBSET s : t # s => t \notin Bad
      <3>1. Bad \subseteq SUBSET V
        OBVIOUS
      <3> HIDE DEF Bad
      <3> QED
        BY <1>1, <1>2, <3>1, MinimalSubset
    <2>2. /\ Adder(f, S)[s] = Added(f, Adder(f, S), s)
          /\ Adder(g, T)[s] = Added(g, Adder(g, T), s)
      BY <2>1, AdderAdds
    <2>3. s # {}
      BY <2>1, <2>2 DEF Added
    <2> DEFINE t == s \ {Some(s)}
    <2>4. Some(s) \in s /\ t \in SUBSET s /\ t # s
      BY <2>3, SomeMember
    <2>5. Adder(f, S)[t] = Adder(g, T)[t]
      BY <2>1, <2>4
    <2>6. f[Some(s)].bytes = g[Some(s)].bytes
      BY <2>1, <2>4
    <2> QED
      BY <2>1, <2>2, <2>3, <2>5, <2>6 DEF Added
  <1> QED
    BY <1>2

----------------------------------------------------------------------------

(* What the sum of the bytes is.  The sum over a set depends on its elements *)
(* only, whichever is taken first.                                           *)
Sized(f, S) == \A b \in S : f[b].bytes \in Nat

LEMMA BytesOfNone ==
  ASSUME NEW f
  PROVE  BytesOf(f, {}) = 0
  BY BytesOfIsAdder, AdderAdds, FS_EmptySet DEF Added

LEMMA BytesOfSame ==
  ASSUME NEW f, NEW g, NEW S, IsFiniteSet(S), \A b \in S : f[b].bytes = g[b].bytes
  PROVE  BytesOf(f, S) = BytesOf(g, S)
  BY BytesOfIsAdder, AddersAgree

LEMMA BytesOfSome ==
  ASSUME NEW f, NEW S, IsFiniteSet(S), S # {}
  PROVE  BytesOf(f, S) = f[Some(S)].bytes + BytesOf(f, S \ {Some(S)})
  <1> DEFINE T == S \ {Some(S)}
  <1>1. IsFiniteSet(T) /\ T \in SUBSET (S \cap T)
    BY FS_RemoveElement
  <1>2. Adder(f, S)[T] = Adder(f, T)[T]
    BY <1>1, AddersAgree
  <1>3. Adder(f, S)[S] = f[Some(S)].bytes + Adder(f, S)[T]
    BY AdderAdds DEF Added
  <1> QED
    BY <1>2, <1>3, BytesOfIsAdder

LEMMA BytesOfType ==
  ASSUME NEW f, NEW S, IsFiniteSet(S), Sized(f, S)
  PROVE  BytesOf(f, S) \in Nat
  <1> DEFINE Bad == {s \in SUBSET S : BytesOf(f, s) \notin Nat}
  <1>1. ASSUME Bad # {} PROVE FALSE
    <2>1. PICK s \in Bad : \A t \in SUBSET s : t # s => t \notin Bad
      <3>1. Bad \subseteq SUBSET S
        OBVIOUS
      <3> HIDE DEF Bad
      <3> QED
        BY <1>1, <3>1, MinimalSubset
    <2>2. s # {} /\ IsFiniteSet(s)
      <3>1. BytesOf(f, {}) \in Nat
        BY BytesOfNone
      <3>2. BytesOf(f, s) \notin Nat
        BY <2>1
      <3> QED
        BY <2>1, <3>1, <3>2, FS_Subset, Zenon
    <2>3. /\ BytesOf(f, s) = f[Some(s)].bytes + BytesOf(f, s \ {Some(s)})
          /\ Some(s) \in s
      BY <2>2, BytesOfSome, SomeMember
    <2>4. BytesOf(f, s \ {Some(s)}) \in Nat /\ f[Some(s)].bytes \in Nat
      BY <2>1, <2>3 DEF Sized
    <2> QED
      BY <2>1, <2>3, <2>4
  <1> QED
    BY <1>1

LEMMA BytesOfAny ==
  ASSUME NEW f, NEW S, IsFiniteSet(S), Sized(f, S), NEW x \in S
  PROVE  BytesOf(f, S) = f[x].bytes + BytesOf(f, S \ {x})
  <1> DEFINE Fine(s) == \A y \in s : BytesOf(f, s) = f[y].bytes + BytesOf(f, s \ {y})
             Bad == {s \in SUBSET S : ~Fine(s)}
  <1>1. ASSUME Bad # {} PROVE FALSE
    <2>1. PICK s \in Bad : \A t \in SUBSET s : t # s => t \notin Bad
      <3>1. Bad \subseteq SUBSET S
        OBVIOUS
      <3> HIDE DEF Bad
      <3> QED
        BY <1>1, <3>1, MinimalSubset
    <2>2. PICK y \in s : BytesOf(f, s) # f[y].bytes + BytesOf(f, s \ {y})
      BY <2>1
    <2> DEFINE z == Some(s)
    <2>3. /\ IsFiniteSet(s) /\ z \in s
          /\ BytesOf(f, s) = f[z].bytes + BytesOf(f, s \ {z})
      BY <2>1, <2>2, BytesOfSome, SomeMember, FS_Subset
    <2> HIDE DEF z
    <2>4. y # z
      BY <2>2, <2>3
    <2>5. Fine(s \ {y}) /\ Fine(s \ {z})
      BY <2>1, <2>2, <2>3
    <2>6. /\ BytesOf(f, s \ {z}) = f[y].bytes + BytesOf(f, (s \ {z}) \ {y})
          /\ BytesOf(f, s \ {y}) = f[z].bytes + BytesOf(f, (s \ {y}) \ {z})
      BY <2>2, <2>3, <2>4, <2>5
    <2>7. BytesOf(f, (s \ {z}) \ {y}) = BytesOf(f, (s \ {y}) \ {z})
      <3>1. (s \ {z}) \ {y} = (s \ {y}) \ {z}
        OBVIOUS
      <3> QED
        BY <3>1, Zenon
    <2>8. /\ f[y].bytes \in Nat /\ f[z].bytes \in Nat
          /\ BytesOf(f, (s \ {y}) \ {z}) \in Nat
      <3>1. IsFiniteSet((s \ {y}) \ {z}) /\ Sized(f, (s \ {y}) \ {z})
        BY <2>1, <2>3, FS_Subset DEF Sized
      <3> QED
        BY <2>1, <2>2, <2>3, <3>1, BytesOfType DEF Sized
    <2> QED
      BY <2>2, <2>3, <2>6, <2>7, <2>8
  <1>2. Fine(S)
    BY <1>1
  <1> QED
    BY <1>2

LEMMA BytesOfParts ==
  ASSUME NEW f, NEW S, IsFiniteSet(S), Sized(f, S), NEW T \in SUBSET S
  PROVE  BytesOf(f, S) = BytesOf(f, T) + BytesOf(f, S \ T)
  <1> DEFINE Fine(t) == BytesOf(f, S) = BytesOf(f, t) + BytesOf(f, S \ t)
             Bad == {t \in SUBSET S : ~Fine(t)}
  <1>1. \A t \in SUBSET S : IsFiniteSet(t) /\ BytesOf(f, t) \in Nat
    BY FS_Subset, BytesOfType DEF Sized
  <1>2. \A t \in SUBSET S : \A x \in t : BytesOf(f, t) = f[x].bytes + BytesOf(f, t \ {x})
    BY <1>1, BytesOfAny DEF Sized
  <1>3. ASSUME Bad # {} PROVE FALSE
    <2>1. PICK s \in Bad : \A t \in SUBSET s : t # s => t \notin Bad
      <3>1. Bad \subseteq SUBSET S
        OBVIOUS
      <3> HIDE DEF Bad
      <3> QED
        BY <1>3, <3>1, MinimalSubset
    <2>2. s # {}
      <3>1. S \ {} = S /\ BytesOf(f, {}) = 0 /\ BytesOf(f, S) \in Nat
        BY <1>1, BytesOfNone
      <3>2. BytesOf(f, S) = BytesOf(f, {}) + BytesOf(f, S)
        BY <3>1
      <3>3. Fine({})
        BY <3>1, <3>2, Zenon
      <3> QED
        BY <2>1, <3>3, Zenon
    <2>3. PICK x \in s : TRUE
      BY <2>2
    <2>4. Fine(s \ {x})
      BY <2>1, <2>3
    <2>5. (S \ (s \ {x})) \ {x} = S \ s /\ x \in S \ (s \ {x})
      BY <2>1, <2>3
    <2>6. /\ BytesOf(f, s) = f[x].bytes + BytesOf(f, s \ {x})
          /\ BytesOf(f, S \ (s \ {x})) = f[x].bytes + BytesOf(f, S \ s)
      BY <1>2, <2>1, <2>3, <2>5
    <2>7. /\ f[x].bytes \in Nat /\ BytesOf(f, s \ {x}) \in Nat /\ BytesOf(f, S \ s) \in Nat
      BY <1>1, <2>1, <2>3 DEF Sized
    <2> QED
      BY <2>1, <2>4, <2>6, <2>7
  <1> QED
    BY <1>3

(* A part of a set has no more bytes than the set. *)
LEMMA BytesOfFewer ==
  ASSUME NEW f, NEW S, IsFiniteSet(S), Sized(f, S), NEW T \in SUBSET S
  PROVE  BytesOf(f, T) <= BytesOf(f, S)
  <1>1. BytesOf(f, T) \in Nat /\ BytesOf(f, S \ T) \in Nat
    BY FS_Subset, BytesOfType DEF Sized
  <1> QED
    BY <1>1, BytesOfParts

----------------------------------------------------------------------------

(* Orders of keys: sequences without repetition. *)
LEMMA RangeMembers ==
  ASSUME NEW S, NEW s \in Seq(S)
  PROVE  /\ Len(s) \in Nat /\ DOMAIN s = 1..Len(s)
         /\ Range(s) \in SUBSET S /\ IsFiniteSet(Range(s))
         /\ \A x : x \in Range(s) <=> \E i \in 1..Len(s) : s[i] = x
         /\ IsInjective(s) <=> \A i, j \in 1..Len(s) : s[i] = s[j] => i = j
  <1>1. Len(s) \in Nat /\ DOMAIN s = 1..Len(s) /\ s \in [1..Len(s) -> S]
    BY LenProperties
  <1>2. s \in Surjection(1..Len(s), Range(s)) /\ IsFiniteSet(1..Len(s))
    <2>1. 1 \in Int /\ Len(s) \in Int
      BY <1>1
    <2>2. IsFiniteSet(1..Len(s))
      BY <2>1, FS_Interval
    <2>3. s \in [1..Len(s) -> Range(s)]
      BY <1>1 DEF Range
    <2>4. \A x \in Range(s) : \E i \in 1..Len(s) : s[i] = x
      BY <1>1 DEF Range
    <2> QED
      BY <2>2, <2>3, <2>4 DEF Surjection
  <1>3. IsFiniteSet(Range(s))
    BY <1>2, FS_Surjection
  <1> QED
    BY <1>1, <1>3 DEF Range, IsInjective

LEMMA AppendedKey ==
  ASSUME NEW S, NEW s \in Seq(S), IsInjective(s), NEW x \in S, x \notin Range(s)
  PROVE  /\ Append(s, x) \in Seq(S) /\ IsInjective(Append(s, x))
         /\ Range(Append(s, x)) = Range(s) \cup {x}
         /\ Len(Append(s, x)) = Len(s) + 1 /\ Len(s) \in Nat
         /\ Append(s, x)[Len(s) + 1] = x
  <1> DEFINE all == Append(s, x)
  <1>1. /\ all \in Seq(S) /\ Len(all) = Len(s) + 1 /\ all[Len(s) + 1] = x
        /\ \A i \in 1..Len(s) : all[i] = s[i]
    BY AppendProperties
  <1> HIDE DEF all
  <1>2. /\ Len(s) \in Nat
        /\ \A i \in 1..Len(s) : s[i] # x
        /\ \A i, j \in 1..Len(s) : s[i] = s[j] => i = j
    BY RangeMembers
  <1>3. \A i \in 1..Len(all) : i \in 1..Len(s) \/ i = Len(s) + 1
    BY <1>1, <1>2
  <1>4. IsInjective(all)
    <2>1. \A i, j \in 1..Len(all) : all[i] = all[j] => i = j
      BY <1>1, <1>2, <1>3
    <2> QED
      BY <1>1, <2>1, RangeMembers
  <1>5. Range(all) = Range(s) \cup {x}
    <2>1. ASSUME NEW y PROVE y \in Range(all) <=> y \in Range(s) \cup {x}
      <3>1. y \in Range(all) <=> \E i \in 1..Len(all) : all[i] = y
        BY <1>1, RangeMembers
      <3>2. y \in Range(s) <=> \E i \in 1..Len(s) : s[i] = y
        BY RangeMembers
      <3>3. 1..Len(s) \subseteq 1..Len(all) /\ Len(s) + 1 \in 1..Len(all)
        BY <1>1, <1>2
      <3>4. ASSUME y \in Range(all) PROVE y \in Range(s) \cup {x}
        BY <1>1, <1>3, <3>1, <3>2, <3>4
      <3>5. ASSUME y \in Range(s) PROVE y \in Range(all)
        BY <1>1, <3>1, <3>2, <3>3, <3>5
      <3>6. x \in Range(all)
        BY <1>1, <3>3, RangeMembers
      <3> QED
        BY <3>4, <3>5, <3>6
    <2> QED
      BY <2>1
  <1> QED
    BY <1>1, <1>2, <1>4, <1>5 DEF all

(* The order is cut: the older keys and the newer ones. *)
Newer(s, n) == {s[i] : i \in (n + 1)..Len(s)}

LEMMA CutKeys ==
  ASSUME NEW S, NEW s \in Seq(S), IsInjective(s), NEW n \in 0..Len(s)
  PROVE  /\ SubSeq(s, n + 1, Len(s)) \in Seq(S)
         /\ IsInjective(SubSeq(s, n + 1, Len(s)))
         /\ Range(SubSeq(s, n + 1, Len(s))) = Newer(s, n)
         /\ Range(SubSeq(s, 1, n)) = {s[i] : i \in 1..n}
         /\ Range(SubSeq(s, n + 1, Len(s))) = Range(s) \ Range(SubSeq(s, 1, n))
         /\ Range(SubSeq(s, 1, n)) \subseteq Range(s)
  <1> DEFINE l == Len(s)
             new == SubSeq(s, n + 1, l)
             old == SubSeq(s, 1, n)
  <1>1. /\ l \in Nat /\ n \in Nat /\ \A i \in 1..l : s[i] \in S
        /\ \A i, j \in 1..l : s[i] = s[j] => i = j
        /\ \A x : x \in Range(s) <=> \E i \in 1..l : s[i] = x
    BY RangeMembers, ElementOfSeq
  <1>2. /\ new \in Seq(S) /\ Len(new) = l - n
        /\ \A i \in 1..(l - n) : new[i] = s[n + i]
    <2>1. n + 1 \in Int /\ l \in Int /\ \A i \in (n + 1)..l : s[i] \in S
      BY <1>1
    <2>2. /\ new \in Seq(S)
          /\ Len(new) = IF n + 1 <= l THEN l - (n + 1) + 1 ELSE 0
          /\ \A i \in 1..(l - (n + 1) + 1) : new[i] = s[(n + 1) + i - 1]
      BY <2>1, SubSeqProperties
    <2> HIDE DEF new
    <2> QED
      BY <1>1, <2>2
  <1>3. /\ old \in Seq(S) /\ Len(old) = n
        /\ \A i \in 1..n : old[i] = s[i]
    <2>1. n \in Int /\ \A i \in 1..n : s[i] \in S
      BY <1>1
    <2>2. /\ old \in Seq(S)
          /\ Len(old) = IF 1 <= n THEN n - 1 + 1 ELSE 0
          /\ \A i \in 1..(n - 1 + 1) : old[i] = s[1 + i - 1]
      BY <2>1, SubSeqProperties
    <2> HIDE DEF old
    <2> QED
      BY <1>1, <2>2
  <1> HIDE DEF new, old, l
  <1>4. IsInjective(new)
    <2>1. \A i, j \in 1..Len(new) : new[i] = new[j] => i = j
      BY <1>1, <1>2
    <2> QED
      BY <1>2, <2>1, RangeMembers
  <1>5. Range(new) = {s[i] : i \in (n + 1)..l}
    <2>1. ASSUME NEW i \in (n + 1)..l PROVE s[i] \in Range(new)
      <3>1. i - n \in 1..(l - n) /\ n + (i - n) = i
        BY <1>1
      <3>2. new[i - n] = s[n + (i - n)]
        BY <1>2, <3>1
      <3> QED
        BY <1>2, <3>1, <3>2, RangeMembers
    <2>2. ASSUME NEW x \in Range(new) PROVE \E i \in (n + 1)..l : s[i] = x
      <3>1. PICK i \in 1..Len(new) : new[i] = x
        BY <1>2, RangeMembers
      <3>2. n + i \in (n + 1)..l /\ s[n + i] = x
        BY <1>1, <1>2, <3>1
      <3> QED
        BY <3>2
    <2> QED
      BY <2>1, <2>2
  <1>6. Range(old) = {s[i] : i \in 1..n}
    <2>1. \A x : x \in Range(old) <=> \E i \in 1..n : old[i] = x
      BY <1>3, RangeMembers
    <2> QED
      BY <1>3, <2>1
  <1>7. Range(new) = Range(s) \ Range(old) /\ Range(old) \subseteq Range(s)
    <2>1. \A i \in 1..l : i \in 1..n \/ i \in (n + 1)..l
      BY <1>1
    <2>2. 1..n \subseteq 1..l /\ (n + 1)..l \subseteq 1..l
      BY <1>1 DEF l
    <2>3. \A i \in 1..n : \A j \in (n + 1)..l : s[i] # s[j]
      BY <1>1, <2>2
    <2> QED
      BY <1>1, <1>5, <1>6, <2>1, <2>2, <2>3
  <1> QED
    BY <1>2, <1>4, <1>5, <1>6, <1>7 DEF new, old, l, Newer

(* A key is taken out. *)
LEMMA WithoutKey ==
  ASSUME NEW S, NEW s \in Seq(S), IsInjective(s), NEW b \in Range(s)
  PROVE  /\ Without(s, b) \in Seq(S) /\ IsInjective(Without(s, b))
         /\ Range(Without(s, b)) = Range(s) \ {b}
  <1> DEFINE k == CHOOSE i \in DOMAIN s : s[i] = b
             l == Len(s)
             t == Without(s, b)
  <1>1. /\ l \in Nat /\ \A i \in 1..l : s[i] \in S
        /\ \A i, j \in 1..l : s[i] = s[j] => i = j
        /\ \A x : x \in Range(s) <=> \E i \in 1..l : s[i] = x
        /\ DOMAIN s = 1..l
    BY RangeMembers, ElementOfSeq
  <1>2. k \in 1..l /\ s[k] = b
    BY <1>1
  <1>3. t = SubSeq(s, 1, k - 1) \o SubSeq(s, k + 1, l)
    BY DEF Without, RemoveAt
  <1> HIDE DEF k, t
  <1>4. /\ t \in Seq(S) /\ Len(t) = l - 1
        /\ \A i \in 1..(l - 1) : t[i] = IF i < k THEN s[i] ELSE s[i + 1]
    <2> DEFINE u == SubSeq(s, 1, k - 1)
               v == SubSeq(s, k + 1, l)
    <2>1. k - 1 \in Int /\ \A i \in 1..(k - 1) : s[i] \in S
      BY <1>1, <1>2
    <2>2. /\ u \in Seq(S)
          /\ Len(u) = IF 1 <= k - 1 THEN (k - 1) - 1 + 1 ELSE 0
          /\ \A i \in 1..((k - 1) - 1 + 1) : u[i] = s[1 + i - 1]
      BY <2>1, SubSeqProperties
    <2>3. k + 1 \in Int /\ l \in Int /\ \A i \in (k + 1)..l : s[i] \in S
      BY <1>1, <1>2
    <2>4. /\ v \in Seq(S)
          /\ Len(v) = IF k + 1 <= l THEN l - (k + 1) + 1 ELSE 0
          /\ \A i \in 1..(l - (k + 1) + 1) : v[i] = s[(k + 1) + i - 1]
      BY <2>3, SubSeqProperties
    <2> HIDE DEF u, v
    <2>5. /\ Len(u) = k - 1 /\ Len(v) = l - k
          /\ \A i \in 1..(k - 1) : u[i] = s[i]
          /\ \A i \in 1..(l - k) : v[i] = s[k + i]
      <3>1. Len(u) = k - 1 /\ Len(v) = l - k
        <4>1. k \in Int /\ l \in Int /\ 1 <= k /\ k <= l
          BY <1>1, <1>2
        <4>2. (IF 1 <= k - 1 THEN (k - 1) - 1 + 1 ELSE 0) = k - 1
          BY <4>1
        <4>3. (IF k + 1 <= l THEN l - (k + 1) + 1 ELSE 0) = l - k
          BY <4>1
        <4> QED
          BY <2>2, <2>4, <4>2, <4>3
      <3>2. ASSUME NEW i \in 1..(k - 1) PROVE u[i] = s[i]
        <4>1. i \in 1..((k - 1) - 1 + 1) /\ 1 + i - 1 = i
          BY <1>1, <1>2
        <4> QED
          BY <2>2, <4>1
      <3>3. ASSUME NEW i \in 1..(l - k) PROVE v[i] = s[k + i]
        <4>1. i \in 1..(l - (k + 1) + 1) /\ (k + 1) + i - 1 = k + i
          BY <1>1, <1>2
        <4> QED
          BY <2>4, <4>1
      <3> QED
        BY <3>1, <3>2, <3>3
    <2>6. /\ t \in Seq(S) /\ Len(t) = Len(u) + Len(v)
          /\ \A i \in 1..(Len(u) + Len(v)) :
                t[i] = IF i <= Len(u) THEN u[i] ELSE v[i - Len(u)]
      BY <1>3, <2>2, <2>4, ConcatProperties DEF u, v
    <2>7. ASSUME NEW i \in 1..(l - 1) PROVE t[i] = IF i < k THEN s[i] ELSE s[i + 1]
      <3>1. CASE i < k
        <4>1. i \in 1..(k - 1) /\ i <= k - 1 /\ i \in 1..(Len(u) + Len(v))
          BY <1>1, <1>2, <2>5, <3>1
        <4>2. t[i] = u[i] /\ u[i] = s[i]
          BY <2>5, <2>6, <4>1
        <4> QED
          BY <3>1, <4>2
      <3>2. CASE ~(i < k)
        <4>1. i - (k - 1) \in 1..(l - k) /\ ~(i <= k - 1) /\ i \in 1..(Len(u) + Len(v))
          BY <1>1, <1>2, <2>5, <3>2
        <4>2. t[i] = v[i - (k - 1)] /\ v[i - (k - 1)] = s[k + (i - (k - 1))]
          BY <2>5, <2>6, <4>1
        <4>3. k + (i - (k - 1)) = i + 1
          BY <1>1, <1>2
        <4> QED
          BY <3>2, <4>2, <4>3
      <3> QED
        BY <3>1, <3>2
    <2> QED
      BY <1>1, <1>2, <2>5, <2>6, <2>7
  <1> HIDE DEF l
  <1>5. IsInjective(t)
    <2>1. \A i, j \in 1..Len(t) : t[i] = t[j] => i = j
      BY <1>1, <1>2, <1>4
    <2> QED
      BY <1>4, <2>1, RangeMembers
  <1>6. Range(t) = Range(s) \ {b}
    <2>1. ASSUME NEW x \in Range(t) PROVE x \in Range(s) \ {b}
      <3>1. PICK i \in 1..(l - 1) : t[i] = x
        BY <1>4, RangeMembers
      <3>2. PICK j \in 1..l : j # k /\ s[j] = x
        BY <1>1, <1>2, <1>4, <3>1
      <3> QED
        BY <1>1, <1>2, <3>2
    <2>2. ASSUME NEW x \in Range(s) \ {b} PROVE x \in Range(t)
      <3>1. PICK j \in 1..l : s[j] = x /\ j # k
        BY <1>1, <1>2
      <3>2. \E i \in 1..(l - 1) : t[i] = x
        <4>1. CASE j < k
          BY <1>1, <1>2, <1>4, <3>1, <4>1
        <4>2. CASE j > k
          <5>1. j - 1 \in 1..(l - 1) /\ ~(j - 1 < k) /\ (j - 1) + 1 = j
            BY <1>1, <1>2, <3>1, <4>2
          <5> QED
            BY <1>4, <3>1, <5>1
        <4> QED
          BY <1>2, <3>1, <4>1, <4>2
      <3> QED
        BY <1>4, <3>2, RangeMembers
    <2> QED
      BY <2>1, <2>2
  <1> QED
    BY <1>4, <1>5, <1>6 DEF t

(* The orders in which a directory may be read. *)
LEMMA OrdersOfSet ==
  ASSUME NEW S, IsFiniteSet(S), NEW s \in SetToSeqs(S)
  PROVE  s \in Seq(S) /\ IsInjective(s) /\ Range(s) = S
  <1> DEFINE n == Cardinality(S)
  <1>1. n \in Nat /\ s \in [1..n -> S] /\ \A i, j \in 1..n : i # j => s[i] # s[j]
    BY FS_CardinalityType DEF SetToSeqs
  <1>2. s \in Injection(1..n, S) /\ Cardinality(1..n) = n /\ IsFiniteSet(1..n)
    <2>1. 1 \in Int /\ n \in Int /\ (1 > n => n = 0) /\ n - 1 + 1 = n
      BY <1>1
    <2>2. IsFiniteSet(1..n) /\ Cardinality(1..n) = n
      BY <2>1, FS_Interval
    <2>3. s \in Injection(1..n, S)
      BY <1>1 DEF Injection, IsInjective
    <2> QED
      BY <2>2, <2>3
  <1>3. s \in Surjection(1..n, S)
    BY <1>2, FS_Injection
  <1>4. s \in Seq(S)
    BY <1>1
  <1> QED
    BY <1>1, <1>3, <1>4 DEF IsInjective, Range, Surjection

----------------------------------------------------------------------------

(* The cache: the order has the keys that are held, and the counters are the *)
(* sums of the entries.                                                      *)
CacheOK(order, h, size, use) ==
    /\ order \in Seq(Blob) /\ IsInjective(order) /\ Range(order) = DOMAIN h
    /\ h \in [DOMAIN h -> Entry]
    /\ size = BytesOf(h, DOMAIN h)
    /\ use = [e \in Emitter |-> BytesOf(h, Owned(h, e))]

LEMMA EntriesSized ==
  ASSUME NEW h, h \in [DOMAIN h -> Entry], IsFiniteSet(DOMAIN h)
  PROVE  /\ Sized(h, DOMAIN h)
         /\ \A S \in SUBSET DOMAIN h :
               /\ IsFiniteSet(S) /\ Sized(h, S) /\ BytesOf(h, S) \in Nat
               /\ BytesOf(h, S) <= BytesOf(h, DOMAIN h)
         /\ \A e : Owned(h, e) \in SUBSET DOMAIN h
  <1>1. Sized(h, DOMAIN h)
    BY DEF Sized, Entry
  <1>2. ASSUME NEW S \in SUBSET DOMAIN h
        PROVE  IsFiniteSet(S) /\ Sized(h, S)
    BY <1>1, FS_Subset DEF Sized
  <1>3. ASSUME NEW S \in SUBSET DOMAIN h
        PROVE  BytesOf(h, S) \in Nat /\ BytesOf(h, S) <= BytesOf(h, DOMAIN h)
    BY <1>1, <1>2, BytesOfType, BytesOfFewer
  <1> QED
    BY <1>1, <1>2, <1>3 DEF Owned

LEMMA CacheSized ==
  ASSUME NEW order, NEW h, NEW size, NEW use, CacheOK(order, h, size, use)
  PROVE  /\ IsFiniteSet(DOMAIN h) /\ DOMAIN h \subseteq Blob
         /\ size \in Nat /\ use \in [Emitter -> Nat]
  <1>1. IsFiniteSet(DOMAIN h) /\ DOMAIN h \subseteq Blob
    BY RangeMembers DEF CacheOK
  <1>2. h \in [DOMAIN h -> Entry]
    BY DEF CacheOK
  <1> QED
    BY <1>1, <1>2, EntriesSized DEF CacheOK

(* Entries leave the cache, and the counters are brought down: no subtraction *)
(* is clamped.                                                                *)
Leaves(h, gone, rest) ==
    /\ gone \subseteq DOMAIN h
    /\ rest \in Seq(Blob) /\ IsInjective(rest) /\ Range(rest) = DOMAIN h \ gone

LEMMA CacheAfterRemoval ==
  ASSUME NEW order, NEW h, NEW size, NEW use, CacheOK(order, h, size, use),
         NEW gone, NEW rest, Leaves(h, gone, rest)
  PROVE  /\ CacheOK(rest, Only(h, DOMAIN h \ gone), size - BytesOf(h, gone),
                    UsageWithout(use, h, gone))
         /\ BytesOf(h, gone) \in Nat /\ BytesOf(h, gone) <= size
         /\ size - BytesOf(h, gone) = BytesOf(h, DOMAIN h \ gone)
  <1> DEFINE T == DOMAIN h \ gone
             k == Only(h, T)
  <1>0. gone \in SUBSET DOMAIN h /\ rest \in Seq(Blob) /\ IsInjective(rest) /\ Range(rest) = T
    BY DEF Leaves
  <1>1. /\ IsFiniteSet(DOMAIN h) /\ h \in [DOMAIN h -> Entry]
        /\ size \in Nat /\ use \in [Emitter -> Nat]
    BY CacheSized DEF CacheOK
  <1>2. /\ DOMAIN k = T /\ k \in [T -> Entry] /\ T \subseteq DOMAIN h
        /\ \A x \in T : k[x] = h[x]
    BY <1>1 DEF Only
  <1>3. IsFiniteSet(T) /\ T \in SUBSET DOMAIN h
    BY <1>1, FS_Subset
  <1> HIDE DEF k
  <1>4. BytesOf(k, T) = BytesOf(h, T)
    BY <1>2, <1>3, BytesOfSame
  <1>5. /\ BytesOf(h, DOMAIN h) = BytesOf(h, gone) + BytesOf(h, T)
        /\ BytesOf(h, gone) \in Nat /\ BytesOf(h, T) \in Nat
    BY <1>0, <1>1, <1>3, BytesOfParts, EntriesSized
  <1>6. size - BytesOf(h, gone) = BytesOf(k, DOMAIN k) /\ BytesOf(h, gone) <= size
    <2>1. size = BytesOf(h, gone) + BytesOf(h, T)
      BY <1>5 DEF CacheOK
    <2>2. BytesOf(k, DOMAIN k) = BytesOf(h, T)
      BY <1>2, <1>4, Zenon
    <2> HIDE DEF T
    <2> QED
      BY <1>5, <2>1, <2>2
  <1>7. ASSUME NEW e \in Emitter
        PROVE  UsageWithout(use, h, gone)[e] = BytesOf(k, Owned(k, e))
    <2> DEFINE O == Owned(h, e)
    <2>1. Owned(k, e) = O \ gone /\ O \in SUBSET DOMAIN h /\ gone \cap O \in SUBSET O
      BY <1>0, <1>2 DEF Owned
    <2>2. O \ (gone \cap O) = O \ gone
      BY Zenon
    <2>3. IsFiniteSet(O) /\ Sized(h, O) /\ O \ gone \in SUBSET DOMAIN h
      BY <1>1, <2>1, EntriesSized
    <2>4. /\ BytesOf(h, O) = BytesOf(h, gone \cap O) + BytesOf(h, O \ (gone \cap O))
          /\ BytesOf(h, gone \cap O) \in Nat /\ BytesOf(h, O \ gone) \in Nat
      <3>1. BytesOf(h, O) = BytesOf(h, gone \cap O) + BytesOf(h, O \ (gone \cap O))
        BY <2>1, <2>3, BytesOfParts
      <3>2. gone \cap O \in SUBSET DOMAIN h
        BY <2>1
      <3>3. BytesOf(h, gone \cap O) \in Nat /\ BytesOf(h, O \ gone) \in Nat
        BY <1>1, <2>3, <3>2, EntriesSized
      <3> QED
        BY <3>1, <3>3
    <2>5. BytesOf(k, O \ gone) = BytesOf(h, O \ gone)
      <3>1. IsFiniteSet(O \ gone) /\ \A x \in O \ gone : k[x] = h[x]
        BY <1>1, <1>2, <2>1, <2>3, EntriesSized
      <3> QED
        BY <3>1, BytesOfSame
    <2>6. use[e] = BytesOf(h, O)
      BY DEF CacheOK
    <2>7. UsageWithout(use, h, gone)[e] = NotNegative(use[e] - BytesOf(h, gone \cap O))
      BY DEF UsageWithout
    <2>8. BytesOf(k, Owned(k, e)) = BytesOf(h, O \ gone)
      BY <2>1, <2>5, Zenon
    <2>9. BytesOf(h, O) = BytesOf(h, gone \cap O) + BytesOf(h, O \ gone)
      BY <2>2, <2>4, Zenon
    <2> HIDE DEF O
    <2> QED
      BY <2>4, <2>6, <2>7, <2>8, <2>9 DEF NotNegative
  <1>8. UsageWithout(use, h, gone) = [e \in Emitter |-> BytesOf(k, Owned(k, e))]
    BY <1>7 DEF UsageWithout
  <1>9. k \in [DOMAIN k -> Entry] /\ Range(rest) = DOMAIN k
    BY <1>0, <1>2
  <1>10. size - BytesOf(h, gone) = BytesOf(h, T)
    BY <1>2, <1>4, <1>6, Zenon
  <1> QED
    BY <1>0, <1>5, <1>6, <1>8, <1>9, <1>10, Zenon DEF CacheOK, k

(* A new entry enters the cache, and its bytes are added. *)
LEMMA CacheAfterInsertion ==
  ASSUME NEW order, NEW h, NEW size, NEW use, CacheOK(order, h, size, use),
         NEW b \in Blob \ DOMAIN h, NEW o \in Emitter \cup {Anonymous}
  PROVE  CacheOK(Append(order, b), With(h, b, [bytes |-> SizeOf[b], owner |-> o]),
                 size + SizeOf[b],
                 [e \in Emitter |-> use[e] + (IF e = o THEN SizeOf[b] ELSE 0)])
  <1> DEFINE x == [bytes |-> SizeOf[b], owner |-> o]
             k == With(h, b, x)
             D == DOMAIN h \cup {b}
  <1>1. /\ IsFiniteSet(DOMAIN h) /\ h \in [DOMAIN h -> Entry]
        /\ size \in Nat /\ use \in [Emitter -> Nat]
    BY CacheSized DEF CacheOK
  <1>2. SizeOf[b] \in Nat /\ x \in Entry /\ x.bytes = SizeOf[b] /\ x.owner = o
    BY BlobConstants DEF Entry
  <1> HIDE DEF x
  <1>3. /\ DOMAIN k = D /\ k \in [D -> Entry]
        /\ k[b] = x /\ \A c \in DOMAIN h : k[c] = h[c]
    BY <1>1, <1>2 DEF With
  <1>4. IsFiniteSet(D)
    BY <1>1, FS_AddElement
  <1> HIDE DEF k
  <1>5. \A S \in SUBSET DOMAIN h : BytesOf(k, S) = BytesOf(h, S)
    <2>1. ASSUME NEW S \in SUBSET DOMAIN h PROVE IsFiniteSet(S) /\ \A c \in S : k[c] = h[c]
      BY <1>1, <1>3, FS_Subset
    <2> QED
      BY <2>1, BytesOfSame
  <1>6. \A S \in SUBSET DOMAIN h : BytesOf(k, S \cup {b}) = SizeOf[b] + BytesOf(h, S)
    <2> SUFFICES ASSUME NEW S \in SUBSET DOMAIN h
                 PROVE  BytesOf(k, S \cup {b}) = SizeOf[b] + BytesOf(h, S)
      OBVIOUS
    <2>1. IsFiniteSet(S \cup {b}) /\ Sized(k, S \cup {b})
      <3>1. S \cup {b} \in SUBSET DOMAIN k /\ k \in [DOMAIN k -> Entry] /\ IsFiniteSet(DOMAIN k)
        BY <1>3, <1>4
      <3> QED
        BY <3>1, EntriesSized
    <2>2. b \in S \cup {b} /\ (S \cup {b}) \ {b} = S
      OBVIOUS
    <2>3. BytesOf(k, S \cup {b}) = k[b].bytes + BytesOf(k, (S \cup {b}) \ {b})
      BY <2>1, <2>2, BytesOfAny
    <2> QED
      BY <1>2, <1>3, <1>5, <2>2, <2>3
  <1>7. BytesOf(k, DOMAIN k) = size + SizeOf[b]
    <2>1. BytesOf(k, D) = SizeOf[b] + size
      BY <1>6 DEF CacheOK
    <2> QED
      BY <1>1, <1>2, <1>3, <2>1
  <1>8. ASSUME NEW e \in Emitter
        PROVE  use[e] + (IF e = o THEN SizeOf[b] ELSE 0) = BytesOf(k, Owned(k, e))
    <2>1. use[e] = BytesOf(h, Owned(h, e)) /\ use[e] \in Nat /\ Owned(h, e) \in SUBSET DOMAIN h
      BY <1>1 DEF CacheOK, Owned
    <2>2. CASE e = o
      <3>1. Owned(k, e) = Owned(h, e) \cup {b}
        BY <1>2, <1>3, <2>2 DEF Owned
      <3>2. BytesOf(k, Owned(k, e)) = SizeOf[b] + use[e]
        BY <1>6, <2>1, <3>1
      <3> QED
        BY <1>2, <2>1, <2>2, <3>2
    <2>3. CASE e # o
      <3>1. Owned(k, e) = Owned(h, e)
        BY <1>2, <1>3, <2>3 DEF Owned
      <3>2. BytesOf(k, Owned(k, e)) = use[e]
        BY <1>5, <2>1, <3>1
      <3> QED
        BY <2>1, <2>3, <3>2
    <2> QED
      BY <2>2, <2>3
  <1>9. [e \in Emitter |-> use[e] + (IF e = o THEN SizeOf[b] ELSE 0)]
            = [e \in Emitter |-> BytesOf(k, Owned(k, e))]
    BY <1>8
  <1>10. /\ Append(order, b) \in Seq(Blob) /\ IsInjective(Append(order, b))
         /\ Range(Append(order, b)) = DOMAIN k
    <2>1. order \in Seq(Blob) /\ IsInjective(order) /\ Range(order) = DOMAIN h /\ b \in Blob
      BY DEF CacheOK
    <2> QED
      BY <1>3, <2>1, AppendedKey
  <1>11. k \in [DOMAIN k -> Entry]
    BY <1>3
  <1> QED
    BY <1>7, <1>9, <1>10, <1>11, Zenon DEF CacheOK, k, x

(* Entries are loaded from the directory. *)
LEMMA CacheAfterLoad ==
  ASSUME NEW d, d \in [DOMAIN d -> Entry], IsFiniteSet(DOMAIN d), DOMAIN d \subseteq Blob,
         NEW S \in SUBSET DOMAIN d, NEW order \in SetToSeqs(S)
  PROVE  CacheOK(order, Only(d, S), BytesOf(d, S),
                 [e \in Emitter |-> BytesOf(d, S \cap Owned(d, e))])
  <1> DEFINE k == Only(d, S)
  <1>1. /\ DOMAIN k = S /\ k \in [S -> Entry]
        /\ \A x \in S : k[x] = d[x]
    BY DEF Only
  <1>2. IsFiniteSet(S)
    BY FS_Subset
  <1>3. order \in Seq(S) /\ IsInjective(order) /\ Range(order) = S
    BY <1>2, OrdersOfSet
  <1>4. order \in Seq(Blob)
    BY <1>3, SeqDef
  <1> HIDE DEF k
  <1>5. \A T \in SUBSET S : BytesOf(k, T) = BytesOf(d, T)
    <2>1. ASSUME NEW T \in SUBSET S PROVE IsFiniteSet(T) /\ \A c \in T : k[c] = d[c]
      BY <1>1, <1>2, FS_Subset
    <2> QED
      BY <2>1, BytesOfSame
  <1>6. \A e : Owned(k, e) = S \cap Owned(d, e)
    BY <1>1 DEF Owned
  <1>7. [e \in Emitter |-> BytesOf(d, S \cap Owned(d, e))]
            = [e \in Emitter |-> BytesOf(k, Owned(k, e))]
    BY <1>5, <1>6
  <1>8. BytesOf(d, S) = BytesOf(k, DOMAIN k)
    BY <1>1, <1>5
  <1>9. k \in [DOMAIN k -> Entry]
    BY <1>1
  <1> QED
    BY <1>1, <1>3, <1>4, <1>7, <1>8, <1>9, Zenon DEF CacheOK, k

(* The loop goes by the counter, which is what the cache holds: it stops with *)
(* what is left within the limit, and no sooner than it has to.               *)
LEMMA EvictionsStop ==
  ASSUME NEW s \in Seq(Blob), NEW f, f \in [DOMAIN f -> Entry], IsFiniteSet(DOMAIN f),
         IsInjective(s), Range(s) = DOMAIN f, NEW size, size = BytesOf(f, DOMAIN f)
  PROVE  /\ Evictions(s, f, size) \in 0..Len(s)
         /\ BytesOf(f, Range(SubSeq(s, Evictions(s, f, size) + 1, Len(s)))) <= MaxCacheSize
         /\ \A k \in 0..(Evictions(s, f, size) - 1) :
               BytesOf(f, Range(SubSeq(s, k + 1, Len(s)))) > MaxCacheSize
  <1> DEFINE Left(k) == BytesOf(f, Range(SubSeq(s, k + 1, Len(s))))
             Enough == {k \in 0..Len(s) : Left(k) <= MaxCacheSize}
             Counted(k) == SizeAfter(s, f, size, k)
  <1>1. Len(s) \in Nat /\ MaxCacheSize \in Nat
    BY BlobConstants
  <1>2. \A k \in 0..Len(s) : Left(k) \in Nat /\ Counted(k) = Left(k)
    <2> SUFFICES ASSUME NEW k \in 0..Len(s) PROVE Left(k) \in Nat /\ Counted(k) = Left(k)
      OBVIOUS
    <2> DEFINE old == Range(SubSeq(s, 1, k))
               young == Range(SubSeq(s, k + 1, Len(s)))
    <2>1. old \in SUBSET DOMAIN f /\ young \in SUBSET DOMAIN f /\ young = DOMAIN f \ old
      BY CutKeys
    <2> HIDE DEF old, young
    <2>2. BytesOf(f, old) \in Nat /\ BytesOf(f, young) \in Nat /\ Sized(f, DOMAIN f)
      BY <2>1, EntriesSized
    <2>3. size = BytesOf(f, old) + BytesOf(f, young)
      BY <2>1, <2>2, BytesOfParts
    <2>4. size - BytesOf(f, old) = BytesOf(f, young)
      BY <2>2, <2>3
    <2> QED
      BY <2>2, <2>4, Zenon DEF SizeAfter, old, young
  <1>3. Left(Len(s)) = 0
    <2>1. Len(s) \in 0..Len(s)
      BY <1>1
    <2>2. Range(SubSeq(s, Len(s) + 1, Len(s))) = {s[i] : i \in (Len(s) + 1)..Len(s)}
      BY <2>1, CutKeys DEF Newer
    <2>3. (Len(s) + 1)..Len(s) = {}
      BY <1>1
    <2>4. Range(SubSeq(s, Len(s) + 1, Len(s))) = {}
      BY <2>2, <2>3
    <2> QED
      BY <2>4, BytesOfNone
  <1> HIDE DEF Left, Counted
  <1>4. PICK m \in Enough : \A n \in Enough : m <= n
    <2>1. Len(s) \in Enough /\ Enough \subseteq Nat
      BY <1>1, <1>3
    <2> QED
      BY <2>1, LeastNatural
  <1>5. \A k \in 0..(m - 1) : Counted(k) > MaxCacheSize
    BY <1>1, <1>2, <1>4
  <1>6. Evictions(s, f, size) = CHOOSE n \in 0..Len(s) :
            /\ n = Len(s) \/ Counted(n) <= MaxCacheSize
            /\ \A k \in 0..(n - 1) : Counted(k) > MaxCacheSize
    BY Zenon DEF Evictions, Counted
  <1>7. Counted(m) <= MaxCacheSize
    BY <1>2, <1>4
  <1> DEFINE last == Evictions(s, f, size)
  <1>8. /\ last \in 0..Len(s)
        /\ last = Len(s) \/ Counted(last) <= MaxCacheSize
        /\ \A k \in 0..(last - 1) : Counted(k) > MaxCacheSize
    BY <1>4, <1>5, <1>6, <1>7
  <1> HIDE DEF last
  <1>9. last \in 0..Len(s) /\ Left(last) <= MaxCacheSize
    BY <1>1, <1>2, <1>3, <1>8
  <1>10. \A k \in 0..(last - 1) : Left(k) > MaxCacheSize
    BY <1>1, <1>2, <1>8
  <1> QED
    BY <1>9, <1>10, Zenon DEF Left, last

----------------------------------------------------------------------------

(* The inductive invariant.  The accounts are exact only because the order   *)
(* lists each key that is held once; a blob that was deleted does not return *)
(* because it is neither held nor on the disk, and is never drawn again.     *)
CacheInv == CacheOK(lru, held, cacheSize, usage)
DiskInv == disk \in [DOMAIN disk -> Entry] /\ IsFiniteSet(DOMAIN disk)
DrawnInv ==
    /\ DOMAIN held \cup DOMAIN disk \subseteq drawn \ erased
    /\ drawn \subseteq Blob /\ erased \subseteq drawn
JobInv ==
    /\ up \in BOOLEAN
    /\ payload \in Seq(Blob \ drawn) /\ IsInjective(payload)
    /\ ~up => payload = <<>>
    /\ emitter \in Emitter \cup {Anonymous}
    /\ troubles \in 0..TroubleBudget

BlobInv == CacheInv /\ DiskInv /\ DrawnInv /\ JobInv

LEMMA EmptyCacheOK ==
  CacheOK(<<>>, Empty, 0, [e \in Emitter |-> 0])
  <1>1. DOMAIN Empty = {} /\ Empty \in [{} -> Entry]
    BY DEF Empty
  <1>2. \A e : Owned(Empty, e) = {}
    BY <1>1 DEF Owned
  <1>3. [e \in Emitter |-> 0] = [e \in Emitter |-> BytesOf(Empty, Owned(Empty, e))]
    BY <1>2, BytesOfNone
  <1>4. 0 = BytesOf(Empty, DOMAIN Empty)
    BY <1>1, BytesOfNone
  <1>5. /\ <<>> \in Seq(Blob) /\ IsInjective(<<>>) /\ Range(<<>>) = {}
    BY DEF IsInjective, Range
  <1>6. Empty \in [DOMAIN Empty -> Entry] /\ Range(<<>>) = DOMAIN Empty
    BY <1>1, <1>5
  <1> QED
    BY <1>3, <1>4, <1>5, <1>6, Zenon DEF CacheOK

LEMMA NoPayload ==
  ASSUME NEW S
  PROVE  <<>> \in Seq(S) /\ IsInjective(<<>>)
  BY DEF IsInjective

LEMMA InitialBlobs ==
  ASSUME Init
  PROVE  BlobInv
  <1>1. CacheInv
    BY EmptyCacheOK, Zenon DEF Init, CacheInv
  <1>2. DOMAIN Empty = {} /\ Empty \in [DOMAIN Empty -> Entry]
    BY DEF Empty
  <1>3. DiskInv
    BY <1>2, FS_EmptySet DEF Init, DiskInv
  <1>4. DrawnInv
    BY <1>2 DEF Init, DrawnInv
  <1>5. JobInv
    BY NoPayload, BlobConstants DEF Init, JobInv
  <1> QED
    BY <1>1, <1>3, <1>4, <1>5 DEF BlobInv

(* The next value of a payload, and the values after it. *)
LEMMA NextValue ==
  ASSUME BlobInv, payload # <<>>
  PROVE  /\ Head(payload) \in Blob \ drawn
         /\ Tail(payload) \in Seq(Blob \ (drawn \cup {Head(payload)}))
         /\ IsInjective(Tail(payload))
  <1> DEFINE S == Blob \ drawn
             b == Head(payload)
             r == Tail(payload)
             l == Len(payload)
  <1>1. payload \in Seq(S) /\ IsInjective(payload) /\ l \in Nat /\ l # 0
    BY EmptySeq, LenProperties DEF BlobInv, JobInv
  <1>2. /\ \A i \in 1..l : payload[i] \in S
        /\ \A i, j \in 1..l : payload[i] = payload[j] => i = j
    BY <1>1, RangeMembers, ElementOfSeq
  <1>3. /\ b \in S /\ b = payload[1] /\ r \in Seq(S)
        /\ Len(r) = l - 1 /\ \A i \in 1..Len(r) : r[i] = payload[i + 1]
    BY <1>1, HeadTailProperties
  <1> HIDE DEF b, r, l
  <1>4. \A i \in 1..(l - 1) : i + 1 \in 1..l /\ i + 1 # 1 /\ 1 \in 1..l
    BY <1>1
  <1>5. \A i \in 1..(l - 1) : r[i] \in S \ {b}
    BY <1>2, <1>3, <1>4
  <1>6. r \in Seq(S \ {b})
    <2>1. r = [i \in 1..(l - 1) |-> r[i]]
      BY <1>3, LenProperties
    <2>2. l - 1 \in Nat
      BY <1>1
    <2> QED
      BY <1>5, <2>1, <2>2
  <1>7. \A i, j \in 1..(l - 1) : r[i] = r[j] => i = j
    BY <1>1, <1>2, <1>3, <1>4
  <1>8. IsInjective(r)
    BY <1>3, <1>7, RangeMembers
  <1>9. S \ {b} = Blob \ (drawn \cup {b})
    OBVIOUS
  <1> QED
    BY <1>3, <1>6, <1>8, <1>9 DEF b, r

(* Which blobs a store evicts, and what is left in the cache. *)
LEMMA CacheAfterEviction ==
  ASSUME NEW all, NEW entries, NEW size, NEW use, CacheOK(all, entries, size, use)
  PROVE  LET n == Evictions(all, entries, size)
             gone == Range(SubSeq(all, 1, n))
             left == SubSeq(all, n + 1, Len(all))
         IN  /\ n \in 0..Len(all)
             /\ CacheOK(left, Only(entries, Range(left)), size - BytesOf(entries, gone),
                        UsageWithout(use, entries, gone))
             /\ DOMAIN Only(entries, Range(left)) = Newer(all, n)
             /\ Newer(all, n) \subseteq DOMAIN entries
             /\ BytesOf(entries, gone) \in Nat
             /\ size - BytesOf(entries, gone) = BytesOf(entries, Newer(all, n))
             /\ BytesOf(entries, Newer(all, n)) <= MaxCacheSize
             /\ \A k \in 0..(n - 1) : BytesOf(entries, Newer(all, k)) > MaxCacheSize
  <1> DEFINE n == Evictions(all, entries, size)
             gone == Range(SubSeq(all, 1, n))
             left == SubSeq(all, n + 1, Len(all))
  <1>1. /\ IsFiniteSet(DOMAIN entries) /\ entries \in [DOMAIN entries -> Entry]
        /\ all \in Seq(Blob) /\ IsInjective(all) /\ Range(all) = DOMAIN entries
        /\ size = BytesOf(entries, DOMAIN entries)
    BY CacheSized DEF CacheOK
  <1>2. /\ n \in 0..Len(all)
        /\ BytesOf(entries, Range(left)) <= MaxCacheSize
        /\ \A k \in 0..(n - 1) :
              BytesOf(entries, Range(SubSeq(all, k + 1, Len(all)))) > MaxCacheSize
    BY <1>1, EvictionsStop
  <1> HIDE DEF n
  <1>3. /\ left \in Seq(Blob) /\ IsInjective(left) /\ Range(left) = Newer(all, n)
        /\ Range(left) = Range(all) \ gone /\ gone \subseteq Range(all)
    BY <1>1, <1>2, CutKeys
  <1>4. \A k \in 0..(n - 1) : BytesOf(entries, Newer(all, k)) > MaxCacheSize
    <2> SUFFICES ASSUME NEW k \in 0..(n - 1)
                 PROVE  BytesOf(entries, Newer(all, k)) > MaxCacheSize
      OBVIOUS
    <2>1. k \in 0..Len(all)
      BY <1>1, <1>2, LenProperties
    <2>2. Range(SubSeq(all, k + 1, Len(all))) = Newer(all, k)
      BY <1>1, <2>1, CutKeys
    <2> QED
      BY <1>2, <2>2, Zenon
  <1> HIDE DEF gone, left
  <1>5. /\ CacheOK(left, Only(entries, DOMAIN entries \ gone), size - BytesOf(entries, gone),
                   UsageWithout(use, entries, gone))
        /\ size - BytesOf(entries, gone) = BytesOf(entries, DOMAIN entries \ gone)
        /\ BytesOf(entries, gone) \in Nat
    <2>1. Leaves(entries, gone, left)
      BY <1>1, <1>3, Zenon DEF Leaves
    <2> QED
      BY <2>1, CacheAfterRemoval
  <1>6. DOMAIN entries \ gone = Range(left) /\ Newer(all, n) \subseteq DOMAIN entries
    BY <1>1, <1>3
  <1>7. DOMAIN Only(entries, Range(left)) = Newer(all, n)
    BY <1>3, <1>6 DEF Only
  <1>8. CacheOK(left, Only(entries, Range(left)), size - BytesOf(entries, gone),
                UsageWithout(use, entries, gone))
    BY <1>5, <1>6, Zenon
  <1>9. /\ size - BytesOf(entries, gone) = BytesOf(entries, Newer(all, n))
        /\ BytesOf(entries, Newer(all, n)) <= MaxCacheSize
    BY <1>2, <1>3, <1>5, <1>6, Zenon
  <1> QED
    BY <1>2, <1>4, <1>5, <1>6, <1>7, <1>8, <1>9, Zenon DEF n, gone, left

(* What a store does to the cache. *)
LEMMA StoredBlobs ==
  ASSUME BlobInv, StoreNext
  PROVE  LET b == Head(payload)
             all == Append(lru, b)
             entries == With(held, b, [bytes |-> SizeOf[b], owner |-> emitter])
             n == Evictions(all, entries, cacheSize + SizeOf[b])
         IN  /\ CacheInv' /\ DOMAIN held' = Newer(all, n)
             /\ cacheSize' = BytesOf(entries, Newer(all, n)) /\ cacheSize' <= MaxCacheSize
             /\ n \in 0..Len(all)
             /\ \A k \in 0..(n - 1) : BytesOf(entries, Newer(all, k)) > MaxCacheSize
             /\ CacheOK(all, entries, cacheSize + SizeOf[b],
                        [e \in Emitter |-> usage[e] + (IF e = emitter THEN SizeOf[b] ELSE 0)])
             /\ b \in Blob \ drawn /\ SizeOf[b] \in Nat
             /\ DOMAIN entries = DOMAIN held \cup {b}
             /\ entries[b].bytes = SizeOf[b] /\ \A c \in DOMAIN held : entries[c] = held[c]
             /\ Newer(all, n) \subseteq DOMAIN entries
  <1> DEFINE b == Head(payload)
             all == Append(lru, b)
             entries == With(held, b, [bytes |-> SizeOf[b], owner |-> emitter])
             grown == [e \in Emitter |-> usage[e] + (IF e = emitter THEN SizeOf[b] ELSE 0)]
             more == cacheSize + SizeOf[b]
             n == Evictions(all, entries, more)
             gone == Range(SubSeq(all, 1, n))
             left == SubSeq(all, n + 1, Len(all))
  <1>1. /\ lru' = left /\ held' = Only(entries, Range(lru'))
        /\ cacheSize' = cacheSize + (SizeOf[b] - BytesOf(entries, gone))
        /\ usage' = UsageWithout(grown, entries, gone)
    BY Zenon DEF StoreNext
  <1>2. b \in Blob \ drawn /\ SizeOf[b] \in Nat
    BY NextValue, BlobConstants DEF StoreNext
  <1>3. b \in Blob \ DOMAIN held /\ CacheOK(lru, held, cacheSize, usage)
    BY <1>2 DEF BlobInv, DrawnInv, CacheInv
  <1>4. emitter \in Emitter \cup {Anonymous}
    BY DEF BlobInv, JobInv
  <1> HIDE DEF b
  <1>5. CacheOK(all, entries, more, grown)
    BY <1>3, <1>4, CacheAfterInsertion
  <1>6. /\ DOMAIN entries = DOMAIN held \cup {b}
        /\ entries[b].bytes = SizeOf[b] /\ \A c \in DOMAIN held : entries[c] = held[c]
    BY <1>3 DEF With
  <1> HIDE DEF all, entries, more, grown
  <1>7. /\ n \in 0..Len(all)
        /\ CacheOK(left, Only(entries, Range(left)), more - BytesOf(entries, gone),
                   UsageWithout(grown, entries, gone))
        /\ DOMAIN Only(entries, Range(left)) = Newer(all, n)
        /\ Newer(all, n) \subseteq DOMAIN entries /\ BytesOf(entries, gone) \in Nat
        /\ more - BytesOf(entries, gone) = BytesOf(entries, Newer(all, n))
        /\ BytesOf(entries, Newer(all, n)) <= MaxCacheSize
        /\ \A k \in 0..(n - 1) : BytesOf(entries, Newer(all, k)) > MaxCacheSize
    BY <1>5, CacheAfterEviction, Zenon
  <1> HIDE DEF n, gone, left
  <1>8. held' = Only(entries, Range(left)) /\ cacheSize' = more - BytesOf(entries, gone)
    <2>1. cacheSize \in Nat
      BY <1>3, CacheSized
    <2>2. cacheSize' = more - BytesOf(entries, gone)
      BY <1>1, <1>2, <1>7, <2>1 DEF more
    <2> QED
      BY <1>1, <2>2
  <1>9. CacheOK(lru', held', cacheSize', usage')
    BY <1>1, <1>7, <1>8, Zenon
  <1>10. /\ DOMAIN held' = Newer(all, n)
         /\ cacheSize' = BytesOf(entries, Newer(all, n)) /\ cacheSize' <= MaxCacheSize
    BY <1>1, <1>7, <1>8, Zenon
  <1> QED
    BY <1>2, <1>5, <1>6, <1>7, <1>9, <1>10, Zenon DEF CacheInv, n, all, entries, more, grown, b

----------------------------------------------------------------------------

(* The steps, one lemma for each action. *)
USE DEF cache, job

LEMMA OfferKeepsBlobs ==
  ASSUME BlobInv, NEW e \in Emitter \cup {Anonymous}, NEW values,
         values \in Seq(Blob \ drawn), IsInjective(values), Offer(e, values)
  PROVE  BlobInv'
  BY DEF BlobInv, Offer, CacheInv, DiskInv, DrawnInv, JobInv

LEMMA PersistKeepsDisk ==
  ASSUME NEW b \in Blob, DiskInv, emitter \in Emitter \cup {Anonymous},
         troubles \in 0..TroubleBudget, Persist(b)
  PROVE  DiskInv' /\ DOMAIN disk' \subseteq DOMAIN disk \cup {b} /\ troubles' \in 0..TroubleBudget
  <1>1. ASSUME NEW x \in Entry, disk' = With(disk, b, x)
        PROVE  DiskInv' /\ DOMAIN disk' \subseteq DOMAIN disk \cup {b}
    <2>1. IsFiniteSet(DOMAIN disk \cup {b})
      BY FS_AddElement DEF DiskInv
    <2>2. DOMAIN disk' = DOMAIN disk \cup {b} /\ disk' \in [DOMAIN disk' -> Entry]
      BY <1>1 DEF With, DiskInv
    <2> QED
      BY <2>1, <2>2 DEF DiskInv
  <1>2. CASE disk' = With(disk, b, [bytes |-> SizeOf[b], owner |-> emitter])
    <2>1. [bytes |-> SizeOf[b], owner |-> emitter] \in Entry
      BY BlobConstants DEF Entry
    <2>2. DiskInv' /\ DOMAIN disk' \subseteq DOMAIN disk \cup {b}
      BY <1>1, <1>2, <2>1
    <2> QED
      BY <2>2, BlobConstants DEF Persist
  <1>3. CASE UNCHANGED disk
    BY <1>3, BlobConstants DEF Persist, DiskInv
  <1>4. CASE \E n \in 0..SizeOf[b] : disk' = With(disk, b, [bytes |-> n, owner |-> Anonymous])
    <2>1. PICK n \in 0..SizeOf[b] : disk' = With(disk, b, [bytes |-> n, owner |-> Anonymous])
      BY <1>4
    <2>2. [bytes |-> n, owner |-> Anonymous] \in Entry
      BY BlobConstants DEF Entry
    <2>3. DiskInv' /\ DOMAIN disk' \subseteq DOMAIN disk \cup {b}
      BY <1>1, <2>1, <2>2
    <2> QED
      BY <2>3, BlobConstants DEF Persist
  <1> QED
    BY <1>2, <1>3, <1>4 DEF Persist

LEMMA StoreKeepsBlobs ==
  ASSUME BlobInv, StoreNext
  PROVE  BlobInv'
  <1> DEFINE b == Head(payload)
  <1>1. CacheInv' /\ b \in Blob \ drawn /\ DOMAIN held' \subseteq DOMAIN held \cup {b}
    BY StoredBlobs, Zenon
  <1>2. Persist(b) /\ drawn' = drawn \cup {b} /\ payload' = Tail(payload) /\ payload # <<>>
        /\ UNCHANGED <<up, emitter, erased>> /\ up
    BY Zenon DEF StoreNext
  <1>3. /\ Tail(payload) \in Seq(Blob \ (drawn \cup {b}))
        /\ IsInjective(Tail(payload))
    BY <1>2, NextValue
  <1> HIDE DEF b
  <1>4. /\ DiskInv' /\ DOMAIN disk' \subseteq DOMAIN disk \cup {b}
        /\ troubles' \in 0..TroubleBudget
    BY <1>1, <1>2, PersistKeepsDisk DEF BlobInv, JobInv
  <1>5. DrawnInv'
    BY <1>1, <1>2, <1>4 DEF BlobInv, DrawnInv
  <1>6. payload' \in Seq(Blob \ drawn') /\ IsInjective(payload')
    BY <1>2, <1>3
  <1>7. JobInv'
    BY <1>2, <1>4, <1>6 DEF BlobInv, JobInv
  <1> QED
    BY <1>1, <1>4, <1>5, <1>7 DEF BlobInv

LEMMA RefuseKeepsBlobs ==
  ASSUME BlobInv, Refuse
  PROVE  BlobInv'
  <1>1. Head(payload) \in Blob
    BY NextValue DEF Refuse
  <1>2. CacheInv' /\ DiskInv'
    BY DEF BlobInv, Refuse, CacheInv, DiskInv
  <1>3. DrawnInv'
    BY <1>1 DEF BlobInv, Refuse, DrawnInv
  <1>4. JobInv'
    BY NoPayload DEF BlobInv, Refuse, JobInv
  <1> QED
    BY <1>2, <1>3, <1>4 DEF BlobInv

LEMMA RetrieveKeepsBlobs ==
  ASSUME BlobInv, NEW b \in Blob, Retrieve(b)
  PROVE  BlobInv'
  <1>1. CacheOK(lru, held, cacheSize, usage) /\ b \in DOMAIN held
    BY DEF BlobInv, CacheInv, Retrieve
  <1>2. /\ lru \in Seq(Blob) /\ IsInjective(lru) /\ Range(lru) = DOMAIN held
    BY <1>1 DEF CacheOK
  <1>3. /\ Without(lru, b) \in Seq(Blob) /\ IsInjective(Without(lru, b))
        /\ Range(Without(lru, b)) = DOMAIN held \ {b}
    BY <1>1, <1>2, WithoutKey
  <1>4. /\ lru' \in Seq(Blob) /\ IsInjective(lru') /\ Range(lru') = DOMAIN held
    <2>1. b \notin Range(Without(lru, b))
      BY <1>3
    <2>2. /\ Append(Without(lru, b), b) \in Seq(Blob) /\ IsInjective(Append(Without(lru, b), b))
          /\ Range(Append(Without(lru, b), b)) = Range(Without(lru, b)) \cup {b}
      BY <1>3, <2>1, AppendedKey
    <2>3. lru' = Append(Without(lru, b), b)
      BY DEF Retrieve
    <2> QED
      BY <1>1, <1>3, <2>2, <2>3
  <1>5. CacheInv'
    BY <1>1, <1>4 DEF CacheInv, CacheOK, Retrieve
  <1>6. DiskInv' /\ DrawnInv' /\ JobInv'
    BY DEF BlobInv, DiskInv, DrawnInv, JobInv, Retrieve
  <1> QED
    BY <1>5, <1>6 DEF BlobInv

LEMMA ForgetKeepsCache ==
  ASSUME CacheInv, NEW b \in DOMAIN held, Forget(b)
  PROVE  CacheInv' /\ DOMAIN held' = DOMAIN held \ {b}
  <1>1. CacheOK(lru, held, cacheSize, usage)
    BY DEF CacheInv
  <1>2. /\ lru \in Seq(Blob) /\ IsInjective(lru) /\ Range(lru) = DOMAIN held
        /\ DOMAIN held \subseteq Blob /\ cacheSize \in Nat
    BY <1>1, CacheSized DEF CacheOK
  <1>3. Leaves(held, {b}, Without(lru, b))
    BY <1>2, WithoutKey DEF Leaves
  <1>4. /\ CacheOK(Without(lru, b), Only(held, DOMAIN held \ {b}), cacheSize - BytesOf(held, {b}),
                   UsageWithout(usage, held, {b}))
        /\ BytesOf(held, {b}) \in Nat /\ BytesOf(held, {b}) <= cacheSize
    BY <1>1, <1>3, CacheAfterRemoval
  <1>5. DOMAIN held \cap (Blob \ {b}) = DOMAIN held \cap (DOMAIN held \ {b})
    BY <1>2
  <1>6. Only(held, Blob \ {b}) = Only(held, DOMAIN held \ {b})
    BY <1>5, Zenon DEF Only
  <1>7. NotNegative(cacheSize - BytesOf(held, {b})) = cacheSize - BytesOf(held, {b})
    BY <1>2, <1>4 DEF NotNegative
  <1>8. CacheOK(lru', held', cacheSize', usage')
    BY <1>4, <1>6, <1>7, Zenon DEF Forget
  <1>9. DOMAIN held' = DOMAIN held \ {b}
    BY <1>2 DEF Forget, Only
  <1> QED
    BY <1>8, <1>9 DEF CacheInv

LEMMA DeleteKeepsBlobs ==
  ASSUME BlobInv, NEW b \in Blob, Delete(b)
  PROVE  BlobInv'
  <1>1. CacheInv' /\ DOMAIN held' \subseteq DOMAIN held \ {b}
    <2>1. CASE b \in DOMAIN held
      BY <2>1, ForgetKeepsCache DEF BlobInv, Delete
    <2>2. CASE b \notin DOMAIN held
      BY <2>2 DEF BlobInv, Delete, CacheInv
    <2> QED
      BY <2>1, <2>2
  <1>2. DiskInv' /\ DrawnInv' /\ troubles' \in 0..TroubleBudget
    <2>1. CASE disk' = Only(disk, Blob \ {b}) /\ erased' = erased \cup {b} /\ UNCHANGED troubles
      <3>1. DOMAIN disk' = DOMAIN disk \ {b} /\ disk' \in [DOMAIN disk' -> Entry]
        BY <2>1 DEF BlobInv, DiskInv, DrawnInv, Only
      <3>2. DiskInv'
        BY <3>1, FS_RemoveElement DEF BlobInv, DiskInv
      <3>3. DrawnInv'
        BY <1>1, <2>1, <3>1 DEF BlobInv, DrawnInv, Delete
      <3> QED
        BY <2>1, <3>2, <3>3 DEF BlobInv, JobInv
    <2>2. CASE troubles > 0 /\ troubles' = troubles - 1 /\ UNCHANGED <<disk, erased>>
      <3>1. DiskInv' /\ DrawnInv'
        BY <1>1, <2>2 DEF BlobInv, DiskInv, DrawnInv, Delete
      <3> QED
        BY <2>2, <3>1, BlobConstants DEF BlobInv, JobInv
    <2> QED
      BY <2>1, <2>2 DEF Delete, Unlink
  <1>3. JobInv'
    BY <1>2 DEF BlobInv, JobInv, Delete
  <1> QED
    BY <1>1, <1>2, <1>3 DEF BlobInv

LEMMA CrashKeepsBlobs ==
  ASSUME BlobInv, Crash
  PROVE  BlobInv'
  <1>1. CacheInv'
    BY EmptyCacheOK, Zenon DEF Crash, CacheInv
  <1>2. DOMAIN held' = {}
    BY DEF Crash, Empty
  <1>3. DiskInv' /\ DrawnInv'
    BY <1>2 DEF BlobInv, Crash, DiskInv, DrawnInv
  <1>4. JobInv'
    BY NoPayload DEF BlobInv, Crash, JobInv
  <1> QED
    BY <1>1, <1>3, <1>4 DEF BlobInv

LEMMA RestartKeepsBlobs ==
  ASSUME BlobInv, Restart
  PROVE  BlobInv'
  <1>1. ASSUME NEW S \in SUBSET DOMAIN disk, Load(S)
        PROVE  CacheInv' /\ DOMAIN held' \subseteq DOMAIN disk
    <2>1. /\ disk \in [DOMAIN disk -> Entry] /\ IsFiniteSet(DOMAIN disk) /\ DOMAIN disk \subseteq Blob
      BY DEF BlobInv, DiskInv, DrawnInv
    <2>2. lru' \in SetToSeqs(S)
      BY <1>1 DEF Load
    <2>3. PICK order \in SetToSeqs(S) : order = lru'
      BY <2>2
    <2>4. CacheOK(order, Only(disk, S), BytesOf(disk, S),
                  [e \in Emitter |-> BytesOf(disk, S \cap Owned(disk, e))])
      BY <2>1, CacheAfterLoad
    <2>5. CacheInv'
      BY <1>1, <2>3, <2>4, Zenon DEF Load, CacheInv
    <2>6. DOMAIN held' \subseteq DOMAIN disk
      BY <1>1 DEF Load, Only
    <2> QED
      BY <2>5, <2>6
  <1>2. CacheInv' /\ DOMAIN held' \subseteq DOMAIN disk
    <2>1. CASE Load(DOMAIN disk)
      BY <1>1, <2>1
    <2>2. CASE \E b \in DOMAIN disk : Load(DOMAIN disk \ {b})
      <3>1. PICK b \in DOMAIN disk : Load(DOMAIN disk \ {b})
        BY <2>2
      <3>2. DOMAIN disk \ {b} \in SUBSET DOMAIN disk
        OBVIOUS
      <3> QED
        BY <1>1, <3>1, <3>2
    <2> QED
      BY <2>1, <2>2 DEF Restart
  <1>3. UNCHANGED <<disk, job, drawn, erased>> /\ up' = TRUE
    BY DEF Restart
  <1>4. troubles' \in 0..TroubleBudget
    BY BlobConstants DEF BlobInv, JobInv, Restart
  <1>5. DiskInv' /\ DrawnInv'
    BY <1>2, <1>3 DEF BlobInv, DiskInv, DrawnInv
  <1>6. JobInv'
    BY <1>3, <1>4 DEF BlobInv, JobInv
  <1> QED
    BY <1>2, <1>5, <1>6 DEF BlobInv

LEMMA BlobStep ==
  ASSUME BlobInv, [Next]_vars
  PROVE  BlobInv'
  <1>1. CASE Next
    <2>1. ASSUME NEW e \in Emitter \cup {Anonymous}, NEW b \in Blob \ drawn, Offer(e, <<b>>)
          PROVE  BlobInv'
      <3>1. <<b>> \in Seq(Blob \ drawn) /\ IsInjective(<<b>>)
        BY DEF IsInjective
      <3> QED
        BY <2>1, <3>1, OfferKeepsBlobs
    <2>2. ASSUME NEW e \in Emitter \cup {Anonymous}, NEW b \in Blob \ drawn,
                 NEW c \in Blob \ drawn, b # c, Offer(e, <<b, c>>)
          PROVE  BlobInv'
      <3>1. <<b, c>> \in Seq(Blob \ drawn) /\ IsInjective(<<b, c>>)
        BY <2>2 DEF IsInjective
      <3> QED
        BY <2>2, <3>1, OfferKeepsBlobs
    <2>3. CASE StoreNext
      BY <2>3, StoreKeepsBlobs
    <2>4. CASE Refuse
      BY <2>4, RefuseKeepsBlobs
    <2>5. ASSUME NEW b \in Blob, Retrieve(b) PROVE BlobInv'
      BY <2>5, RetrieveKeepsBlobs
    <2>6. ASSUME NEW b \in Blob, Delete(b) PROVE BlobInv'
      BY <2>6, DeleteKeepsBlobs
    <2>7. CASE Crash
      BY <2>7, CrashKeepsBlobs
    <2>8. CASE Restart
      BY <2>8, RestartKeepsBlobs
    <2> QED
      BY <1>1, <2>1, <2>2, <2>3, <2>4, <2>5, <2>6, <2>7, <2>8 DEF Next
  <1>2. CASE UNCHANGED vars
    BY <1>2 DEF vars, BlobInv, CacheInv, DiskInv, DrawnInv, JobInv
  <1> QED
    BY <1>1, <1>2

LEMMA BlobsInvariant == Spec => []BlobInv
  <1>1. Init => BlobInv
    BY InitialBlobs
  <1>2. BlobInv /\ [Next]_vars => BlobInv'
    BY BlobStep
  <1> QED
    BY <1>1, <1>2, PTL DEF Spec

----------------------------------------------------------------------------

(* Types; the cache and its metadata have the same keys, each once in the *)
(* order (blob.py:68-75).                                                 *)
THEOREM TypeCorrect == Spec => []TypeOK
  <1>1. BlobInv => TypeOK
    <2> SUFFICES ASSUME BlobInv PROVE TypeOK
      OBVIOUS
    <2>1. CacheOK(lru, held, cacheSize, usage)
      BY DEF BlobInv, CacheInv
    <2>2. cacheSize \in Nat /\ usage \in [Emitter -> Nat]
      BY <2>1, CacheSized
    <2>3. /\ IsInjective(lru) /\ Range(lru) = DOMAIN held /\ held \in [DOMAIN held -> Entry]
      BY <2>1 DEF CacheOK
    <2>4. \A f \in {held, disk} : DOMAIN f \subseteq drawn /\ Range(f) \subseteq Entry
      BY <2>3 DEF BlobInv, DiskInv, DrawnInv, Range
    <2> QED
      BY <2>2, <2>3, <2>4 DEF TypeOK, BlobInv, DrawnInv, JobInv
  <1> QED
    BY <1>1, BlobsInvariant, PTL

(* The counters are the sums of what the cache holds, in all and for each *)
(* emitter, so that no subtraction is ever clamped (blob.py:139-153,      *)
(* 183-190, 216-226).                                                     *)
THEOREM CountersExact == Spec => []AccountsExact
  <1>1. BlobInv => AccountsExact
    BY DEF BlobInv, CacheInv, CacheOK, AccountsExact
  <1> QED
    BY <1>1, BlobsInvariant, PTL

(* A blob whose deletion reached its file never comes back to the cache,  *)
(* over any restarts (blob.py:181-203).                                   *)
THEOREM DeletionIsFinal == Spec => []DeletedStaysGone
  <1>1. BlobInv => DeletedStaysGone
    BY DEF BlobInv, DrawnInv, DeletedStaysGone
  <1> QED
    BY <1>1, BlobsInvariant, PTL

(* The blobs that a store evicts are the n oldest, and the last of them had *)
(* to go.                                                                   *)
LEMMA EvictedKeys ==
  ASSUME NEW all \in Seq(Blob), IsInjective(all), NEW n \in 0..Len(all)
  PROVE  /\ {i \in 1..Len(all) : all[i] \notin Newer(all, n)} = 1..n
         /\ n # 0 =>
               /\ n \in 1..Len(all) /\ n - 1 \in 0..(n - 1)
               /\ Newer(all, n - 1) = Newer(all, n) \cup {all[n]}
               /\ all[n] \notin Newer(all, n)
  <1>1. /\ Len(all) \in Nat /\ n \in Nat /\ n <= Len(all)
        /\ \A i, j \in 1..Len(all) : all[i] = all[j] => i = j
    BY RangeMembers
  <1>2. ASSUME NEW i \in 1..Len(all) PROVE all[i] \notin Newer(all, n) <=> i \in 1..n
    <2>1. CASE i \in 1..n
      <3>1. \A j \in (n + 1)..Len(all) : j \in 1..Len(all) /\ j # i
        BY <1>1, <2>1
      <3> QED
        BY <1>1, <2>1, <3>1 DEF Newer
    <2>2. CASE i \notin 1..n
      <3>1. i \in (n + 1)..Len(all)
        BY <1>1, <2>2
      <3> QED
        BY <2>2, <3>1 DEF Newer
    <2> QED
      BY <2>1, <2>2
  <1>3. 1..n \subseteq 1..Len(all)
    BY <1>1
  <1>4. ASSUME n # 0
        PROVE  /\ n \in 1..Len(all) /\ n - 1 \in 0..(n - 1)
               /\ Newer(all, n - 1) = Newer(all, n) \cup {all[n]}
               /\ all[n] \notin Newer(all, n)
    <2>1. n \in 1..Len(all) /\ n - 1 \in 0..(n - 1) /\ n \in 1..n
      BY <1>1, <1>4
    <2>2. ((n - 1) + 1)..Len(all) = (n + 1)..Len(all) \cup {n}
      BY <1>1, <2>1
    <2>3. Newer(all, n - 1) = Newer(all, n) \cup {all[n]}
      BY <2>2 DEF Newer
    <2> QED
      BY <1>2, <2>1, <2>3
  <1> QED
    BY <1>2, <1>3, <1>4

LEMMA LastEvicted ==
  ASSUME BlobInv, StoreNext
  PROVE  LET b == Head(payload)
             all == Append(lru, b)
             entries == With(held, b, [bytes |-> SizeOf[b], owner |-> emitter])
             n == Evictions(all, entries, cacheSize + SizeOf[b])
         IN  /\ {i \in 1..Len(all) : all[i] \notin DOMAIN held'} = 1..n
             /\ n \in 0..Len(all) /\ Len(all) \in Nat
             /\ n # 0 =>
                   /\ all[n] \in DOMAIN held \cup {b} /\ all[n] \notin DOMAIN held'
                   /\ entries[all[n]].bytes \in Nat
                   /\ cacheSize' \in Nat /\ cacheSize' + entries[all[n]].bytes > MaxCacheSize
             /\ n # 0 /\ all[n] = b => cacheSize' = 0
             /\ entries[b].bytes = SizeOf[b] /\ \A c \in DOMAIN held : entries[c] = held[c]
             /\ b \notin DOMAIN held
  <1> DEFINE b == Head(payload)
             all == Append(lru, b)
             entries == With(held, b, [bytes |-> SizeOf[b], owner |-> emitter])
             n == Evictions(all, entries, cacheSize + SizeOf[b])
             grown == [e \in Emitter |-> usage[e] + (IF e = emitter THEN SizeOf[b] ELSE 0)]
  <1>1. /\ CacheInv' /\ DOMAIN held' = Newer(all, n)
        /\ cacheSize' = BytesOf(entries, Newer(all, n))
        /\ n \in 0..Len(all)
        /\ \A k \in 0..(n - 1) : BytesOf(entries, Newer(all, k)) > MaxCacheSize
        /\ CacheOK(all, entries, cacheSize + SizeOf[b], grown)
        /\ DOMAIN entries = DOMAIN held \cup {b}
        /\ entries[b].bytes = SizeOf[b] /\ \A c \in DOMAIN held : entries[c] = held[c]
        /\ b \in Blob \ drawn
    BY StoredBlobs, Zenon
  <1>0. all[Len(all)] = b
    <2>1. lru \in Seq(Blob) /\ b \in Blob
      BY <1>1 DEF BlobInv, CacheInv, CacheOK
    <2> HIDE DEF b
    <2> QED
      BY <2>1, AppendProperties, LenProperties
  <1> HIDE DEF b, all, entries, n, grown
  <1>2. /\ IsFiniteSet(DOMAIN entries) /\ entries \in [DOMAIN entries -> Entry]
        /\ all \in Seq(Blob) /\ IsInjective(all) /\ Range(all) = DOMAIN entries
        /\ Len(all) \in Nat
    BY <1>1, CacheSized, LenProperties DEF CacheOK
  <1>3. /\ {i \in 1..Len(all) : all[i] \notin Newer(all, n)} = 1..n
        /\ n # 0 =>
              /\ n \in 1..Len(all) /\ n - 1 \in 0..(n - 1)
              /\ Newer(all, n - 1) = Newer(all, n) \cup {all[n]}
              /\ all[n] \notin Newer(all, n)
    BY <1>1, <1>2, EvictedKeys
  <1>4. ASSUME n # 0
        PROVE  /\ all[n] \in DOMAIN entries /\ entries[all[n]].bytes \in Nat
               /\ cacheSize' \in Nat /\ cacheSize' + entries[all[n]].bytes > MaxCacheSize
    <2> DEFINE S == Newer(all, n)
               d == all[n]
    <2>1. d \in DOMAIN entries
      BY <1>2, <1>3, <1>4, RangeMembers
    <2>2. entries[d].bytes \in Nat
      BY <1>2, <2>1 DEF Entry
    <2>3. S \cup {d} \in SUBSET DOMAIN entries
      <3>1. \A i \in 1..Len(all) : all[i] \in DOMAIN entries
        BY <1>2, RangeMembers
      <3>2. (n + 1)..Len(all) \subseteq 1..Len(all)
        BY <1>1, <1>2
      <3> QED
        BY <2>1, <3>1, <3>2 DEF Newer
    <2>4. d \notin S /\ Newer(all, n - 1) = S \cup {d} /\ n - 1 \in 0..(n - 1)
      BY <1>3, <1>4
    <2> HIDE DEF S, d
    <2>5. /\ IsFiniteSet(S \cup {d}) /\ Sized(entries, S \cup {d})
          /\ S \in SUBSET DOMAIN entries /\ BytesOf(entries, S) \in Nat
      BY <1>2, <2>3, EntriesSized
    <2>6. (S \cup {d}) \ {d} = S
      BY <2>4
    <2>7. BytesOf(entries, S \cup {d}) = entries[d].bytes + BytesOf(entries, (S \cup {d}) \ {d})
      BY <2>5, BytesOfAny
    <2>8. BytesOf(entries, S \cup {d}) = entries[d].bytes + BytesOf(entries, S)
      BY <2>6, <2>7, Zenon
    <2>9. BytesOf(entries, S \cup {d}) > MaxCacheSize
      BY <1>1, <2>4, Zenon
    <2>10. cacheSize' = BytesOf(entries, S)
      BY <1>1 DEF S
    <2>11. cacheSize' \in Nat /\ cacheSize' + entries[d].bytes > MaxCacheSize
      BY <2>2, <2>5, <2>8, <2>9, <2>10, BlobConstants
    <2> QED
      BY <2>1, <2>2, <2>11 DEF d
  <1>5. b \notin DOMAIN held
    BY <1>1 DEF BlobInv, DrawnInv
  <1>6. ASSUME n # 0, all[n] = b PROVE cacheSize' = 0
    <2>1. n = Len(all)
      <3>1. n \in 1..Len(all) /\ Len(all) \in 1..Len(all)
        BY <1>2, <1>3, <1>6
      <3> QED
        BY <1>0, <1>2, <1>6, <3>1, RangeMembers
    <2>2. Newer(all, n) = {}
      BY <1>2, <2>1 DEF Newer
    <2> QED
      BY <1>1, <2>2, BytesOfNone
  <1> QED
    BY <1>1, <1>2, <1>3, <1>4, <1>5, <1>6, Zenon DEF n, all, entries, b

(* A store leaves the cache within its limit, and the last blob it evicts had *)
(* to go (blob.py:146-154).                                                   *)
THEOREM EvictionIsMinimal == Spec => EvictsJustEnough
  <1> DEFINE all == Append(lru, Head(payload))
             gone == {i \in 1..Len(all) : all[i] \notin DOMAIN held'}
             last == CHOOSE i \in gone : \A j \in gone : j <= i
             Fine == /\ cacheSize' <= MaxCacheSize
                     /\ gone # {} =>
                           cacheSize' + (IF all[last] = Head(payload) THEN SizeOf[all[last]]
                                         ELSE held[all[last]].bytes) > MaxCacheSize
  <1>1. ASSUME BlobInv, StoreNext PROVE Fine
    <2> DEFINE b == Head(payload)
               entries == With(held, b, [bytes |-> SizeOf[b], owner |-> emitter])
               n == Evictions(all, entries, cacheSize + SizeOf[b])
    <2>1. cacheSize' <= MaxCacheSize
      BY <1>1, StoredBlobs, Zenon
    <2>2. /\ gone = 1..n
          /\ n \in 0..Len(all) /\ Len(all) \in Nat
          /\ n # 0 =>
                /\ all[n] \in DOMAIN held \cup {b}
                /\ cacheSize' + entries[all[n]].bytes > MaxCacheSize
          /\ entries[b].bytes = SizeOf[b] /\ \A c \in DOMAIN held : entries[c] = held[c]
      BY <1>1, LastEvicted, Zenon
    <2> HIDE DEF all, entries, n, gone, b
    <2>3. ASSUME gone # {} PROVE last = n /\ n # 0
      <3>1. n \in 1..n /\ \A j \in 1..n : j <= n
        BY <2>2, <2>3
      <3>2. \A i \in 1..n : (\A j \in 1..n : j <= i) => i = n
        BY <2>2, <3>1
      <3> QED
        BY <2>2, <3>1, <3>2
    <2> HIDE DEF last
    <2>4. ASSUME gone # {}
          PROVE  entries[all[n]].bytes = IF all[last] = b THEN SizeOf[all[last]]
                                         ELSE held[all[last]].bytes
      BY <2>2, <2>3, <2>4
    <2> QED
      BY <2>1, <2>2, <2>3, <2>4 DEF b
  <1>2. ASSUME BlobInv, [Next]_vars, drawn' # drawn, held' # held PROVE StoreNext
    BY <1>2 DEF Next, vars, Offer, Refuse, Retrieve, Delete, Crash, Restart
  <1>3. BlobInv /\ [Next]_vars =>
           [drawn' # drawn /\ held' # held => Fine]_vars
    BY <1>1, <1>2
  <1> QED
    BY <1>3, BlobsInvariant, PTL DEF Spec, EvictsJustEnough

(* The bytes of the others are those of the entries they own. *)
Others(h, e) == DOMAIN h \ Owned(h, e)

LEMMA BytesOfOthers ==
  ASSUME NEW order, NEW h, NEW size, NEW use, CacheOK(order, h, size, use), NEW e \in Emitter
  PROVE  /\ size - use[e] = BytesOf(h, Others(h, e)) /\ size - use[e] \in Nat
         /\ size \in Nat /\ use[e] \in Nat
  <1>1. /\ IsFiniteSet(DOMAIN h) /\ h \in [DOMAIN h -> Entry]
        /\ size \in Nat /\ use[e] \in Nat
        /\ size = BytesOf(h, DOMAIN h) /\ use[e] = BytesOf(h, Owned(h, e))
    BY CacheSized DEF CacheOK
  <1>2. Owned(h, e) \in SUBSET DOMAIN h /\ Others(h, e) \in SUBSET DOMAIN h
    BY DEF Owned, Others
  <1>3. BytesOf(h, Others(h, e)) \in Nat /\ Sized(h, DOMAIN h)
    BY <1>1, <1>2, EntriesSized
  <1>4. BytesOf(h, DOMAIN h) = BytesOf(h, Owned(h, e)) + BytesOf(h, Others(h, e))
    BY <1>1, <1>2, <1>3, BytesOfParts DEF Others
  <1> QED
    BY <1>1, <1>3, <1>4

(* A store leaves its emitter within its quota. *)
LEMMA WithinQuota ==
  ASSUME BlobInv, StoreNext, NEW e \in Emitter, emitter = e
  PROVE  /\ usage'[e] \in Nat /\ usage'[e] <= Quota[e] /\ Quota[e] \in Nat
         /\ SizeOf[Head(payload)] <= Quota[e]
  <1> DEFINE b == Head(payload)
             all == Append(lru, b)
             entries == With(held, b, [bytes |-> SizeOf[b], owner |-> emitter])
             n == Evictions(all, entries, cacheSize + SizeOf[b])
             grown == [x \in Emitter |-> usage[x] + (IF x = emitter THEN SizeOf[b] ELSE 0)]
             gone == Range(SubSeq(all, 1, n))
  <1>1. /\ CacheInv' /\ n \in 0..Len(all) /\ SizeOf[b] \in Nat
        /\ CacheOK(all, entries, cacheSize + SizeOf[b], grown)
    BY StoredBlobs, Zenon
  <1>2. FitsQuota(emitter, b) /\ usage' = UsageWithout(grown, entries, gone)
    BY Zenon DEF StoreNext
  <1>3. usage[e] + SizeOf[b] <= Quota[e]
    BY <1>2 DEF FitsQuota
  <1> HIDE DEF b, all, entries, n
  <1>4. /\ IsFiniteSet(DOMAIN entries) /\ entries \in [DOMAIN entries -> Entry]
        /\ all \in Seq(Blob) /\ IsInjective(all) /\ Range(all) = DOMAIN entries
    BY <1>1, CacheSized DEF CacheOK
  <1>5. gone \subseteq DOMAIN entries
    BY <1>1, <1>4, CutKeys
  <1> HIDE DEF gone
  <1>6. BytesOf(entries, gone \cap Owned(entries, e)) \in Nat
    <2>1. gone \cap Owned(entries, e) \in SUBSET DOMAIN entries
      BY <1>5
    <2> QED
      BY <1>4, <2>1, EntriesSized
  <1>7. grown[e] = usage[e] + SizeOf[b]
    OBVIOUS
  <1> HIDE DEF grown
  <1>8. usage'[e] = NotNegative(grown[e] - BytesOf(entries, gone \cap Owned(entries, e)))
    BY <1>2 DEF UsageWithout
  <1>9. usage[e] \in Nat /\ Quota[e] \in Nat
    BY CacheSized, BlobConstants DEF BlobInv, CacheInv
  <1> QED
    BY <1>1, <1>3, <1>6, <1>7, <1>8, <1>9 DEF NotNegative, b

(* The others lose bytes only when a blob that was held is evicted. *)
LEMMA LossIsEviction ==
  ASSUME BlobInv, StoreNext, NEW e \in Emitter, emitter = e,
         cacheSize' - usage'[e] < cacheSize - usage[e]
  PROVE  \E c \in DOMAIN held : c \notin DOMAIN held'
  <1> DEFINE b == Head(payload)
             entries == With(held, b, [bytes |-> SizeOf[b], owner |-> emitter])
  <1> SUFFICES ASSUME DOMAIN held \subseteq DOMAIN held' PROVE FALSE
    OBVIOUS
  <1>1. /\ CacheInv' /\ b \notin DOMAIN held
        /\ \A c \in DOMAIN held : entries[c] = held[c]
    BY StoredBlobs, LastEvicted, Zenon
  <1>2. held' = Only(entries, Range(lru'))
    BY Zenon DEF StoreNext
  <1> HIDE DEF entries
  <1>3. \A c \in DOMAIN held : held'[c] = held[c]
    BY <1>1, <1>2 DEF Only
  <1>4. Others(held, e) \subseteq Others(held', e)
    BY <1>3 DEF Others, Owned
  <1>5. /\ CacheOK(lru, held, cacheSize, usage) /\ CacheOK(lru', held', cacheSize', usage')
    BY <1>1 DEF BlobInv, CacheInv
  <1>6. BytesOf(held, Others(held, e)) = BytesOf(held', Others(held, e))
    <2>1. IsFiniteSet(Others(held, e))
      BY <1>5, CacheSized, FS_Subset DEF Others
    <2>2. \A c \in Others(held, e) : held[c] = held'[c]
      BY <1>3 DEF Others
    <2> QED
      BY <2>1, <2>2, BytesOfSame
  <1>7. BytesOf(held', Others(held, e)) <= BytesOf(held', Others(held', e))
    <2>1. /\ IsFiniteSet(DOMAIN held') /\ held' \in [DOMAIN held' -> Entry]
          /\ Others(held', e) \in SUBSET DOMAIN held'
      BY <1>5, CacheSized DEF CacheOK, Others
    <2>2. IsFiniteSet(Others(held', e)) /\ Sized(held', Others(held', e))
      BY <2>1, EntriesSized
    <2> QED
      BY <1>4, <2>2, BytesOfFewer
  <1>8. /\ cacheSize - usage[e] = BytesOf(held, Others(held, e))
        /\ cacheSize' - usage'[e] = BytesOf(held', Others(held', e))
        /\ cacheSize - usage[e] \in Nat /\ cacheSize' - usage'[e] \in Nat
    BY <1>5, BytesOfOthers
  <1> QED
    BY <1>6, <1>7, <1>8

(* An emitter cannot crowd the others out of the cache (blob.py:6-12, *)
(* 115-124): the last blob its store evicts had to go, and its own    *)
(* bytes are within its quota.                                        *)
THEOREM OthersAreNotCrowdedOut == Spec => OthersKeepTheirShare
  <1> DEFINE before(e) == cacheSize - usage[e]
             after(e) == cacheSize' - usage'[e]
             Room(e, d) == after(e) > MaxCacheSize - Quota[e] - held[d].bytes
             Share == \A e \in Emitter :
                         emitter = e /\ payload # <<>> /\ up' /\ cacheSize' - usage'[e] < cacheSize - usage[e] =>
                           \E b \in DOMAIN held \ DOMAIN held' :
                              cacheSize' - usage'[e] > MaxCacheSize - Quota[e] - held[b].bytes
  <1>1. ASSUME BlobInv, StoreNext, NEW e \in Emitter, emitter = e, after(e) < before(e)
        PROVE  \E b \in DOMAIN held \ DOMAIN held' : Room(e, b)
    <2> DEFINE stored == Head(payload)
               all == Append(lru, stored)
               entries == With(held, stored, [bytes |-> SizeOf[stored], owner |-> emitter])
               n == Evictions(all, entries, cacheSize + SizeOf[stored])
    <2>1. /\ {i \in 1..Len(all) : all[i] \notin DOMAIN held'} = 1..n
          /\ n \in 0..Len(all) /\ Len(all) \in Nat
          /\ n # 0 =>
                /\ all[n] \in DOMAIN held \cup {stored} /\ all[n] \notin DOMAIN held'
                /\ entries[all[n]].bytes \in Nat
                /\ cacheSize' \in Nat /\ cacheSize' + entries[all[n]].bytes > MaxCacheSize
          /\ n # 0 /\ all[n] = stored => cacheSize' = 0
          /\ entries[stored].bytes = SizeOf[stored] /\ \A c \in DOMAIN held : entries[c] = held[c]
      BY <1>1, LastEvicted, Zenon
    <2>2. /\ CacheInv' /\ DOMAIN entries = DOMAIN held \cup {stored}
          /\ CacheOK(all, entries, cacheSize + SizeOf[stored],
                     [x \in Emitter |-> usage[x] + (IF x = emitter THEN SizeOf[stored] ELSE 0)])
      BY <1>1, StoredBlobs, Zenon
    <2>3. all \in Seq(Blob) /\ Range(all) = DOMAIN held \cup {stored}
      BY <2>2 DEF CacheOK
    <2>4. PICK c \in DOMAIN held : c \notin DOMAIN held'
      BY <1>1, LossIsEviction
    <2>5. /\ usage'[e] \in Nat /\ usage'[e] <= Quota[e] /\ Quota[e] \in Nat
          /\ SizeOf[stored] <= Quota[e]
      BY <1>1, WithinQuota
    <2>6. after(e) \in Nat /\ held[c].bytes \in Nat
      <3>1. CacheOK(lru, held, cacheSize, usage) /\ CacheOK(lru', held', cacheSize', usage')
        BY <1>1, <2>2 DEF BlobInv, CacheInv
      <3>2. after(e) \in Nat
        BY <3>1, BytesOfOthers
      <3> QED
        BY <3>1, <3>2 DEF CacheOK, Entry
    <2> HIDE DEF all, entries, n, stored
    <2>7. n # 0
      <3>1. PICK i \in 1..Len(all) : all[i] = c
        BY <2>3, RangeMembers
      <3> QED
        BY <2>1, <2>4, <3>1
    <2>8. CASE all[n] \in DOMAIN held
      <3>1. Room(e, all[n])
        BY <2>1, <2>5, <2>7, <2>8, BlobConstants
      <3> QED
        BY <2>1, <2>7, <2>8, <3>1
    <2>9. CASE all[n] = stored
      <3>1. cacheSize' = 0 /\ cacheSize' + SizeOf[stored] > MaxCacheSize /\ SizeOf[stored] \in Nat
        BY <2>1, <2>7, <2>9
      <3>2. MaxCacheSize < Quota[e]
        BY <2>5, <3>1, BlobConstants
      <3>3. Room(e, c)
        BY <2>5, <2>6, <3>2, BlobConstants
      <3> QED
        BY <2>4, <3>3
    <2> QED
      BY <2>1, <2>7, <2>8, <2>9
  <1>2. ASSUME BlobInv, [Next]_vars, NEW e \in Emitter, emitter = e, payload # <<>>, up',
               after(e) < before(e)
        PROVE  StoreNext
    <2>1. before(e) \in Int
      BY <1>2, BytesOfOthers DEF BlobInv, CacheInv
    <2>2. ~(UNCHANGED cache)
      BY <1>2, <2>1
    <2>3. up
      BY <1>2 DEF BlobInv, JobInv
    <2> QED
      BY <1>2, <2>2, <2>3 DEF Next, vars, Offer, Refuse, Retrieve, Delete, Crash, Restart
  <1>3. BlobInv /\ [Next]_vars => [Share]_vars
    BY <1>1, <1>2
  <1> QED
    BY <1>3, BlobsInvariant, PTL DEF Spec, OthersKeepTheirShare
=============================================================================
