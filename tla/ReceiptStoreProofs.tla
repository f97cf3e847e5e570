------------------------- MODULE ReceiptStoreProofs -------------------------
(***************************************************************************)
(* Proofs about ReceiptStore, for any receipts, callers, batches and       *)
(* queries: both backends implement ReceiptLog, two sealers never wait for *)
(* each other, and readers get whole receipts and complete pages.          *)
(***************************************************************************)
EXTENDS ReceiptStore, FiniteSetTheorems, TLAPS

-----------------------------------------------------------------------------
(* The canonical order *)

\* Entries with the times and ids that the sort compares.
Keyed(s, len) ==
    /\ len \in Nat /\ DOMAIN s = 1 .. len
    /\ \A i \in 1 .. len : s[i].ns \in Int /\ s[i].n \in Int

\* No two entries have the same id.
Distinct(s) == \A i, j \in DOMAIN s : i # j => s[i].n # s[j].n

\* Being below, in the sense of a stable sort, is a strict total order.
LEMMA BelowOrder ==
    ASSUME NEW s, NEW len, Keyed(s, len),
           NEW i \in 1 .. len, NEW j \in 1 .. len, NEW k \in 1 .. len
    PROVE  /\ i \notin Below(s, i)
           /\ j \in Below(s, i) /\ k \in Below(s, j) => k \in Below(s, i)
           /\ i # j => j \in Below(s, i) \/ i \in Below(s, j)
<1>1. \A x, y \in 1 .. len :
         y \in Below(s, x) <=> IF y < x THEN ~Precedes(s[x], s[y]) ELSE Precedes(s[y], s[x])
  BY DEF Below, Keyed
<1>2. \A x \in 1 .. len : x \in Int /\ s[x].ns \in Int /\ s[x].n \in Int
  BY DEF Keyed
<1>3. PICK a, b, c, p, q, r \in Int :
         /\ a = s[i].ns /\ b = s[j].ns /\ c = s[k].ns
         /\ p = s[i].n /\ q = s[j].n /\ r = s[k].n
  BY <1>2
<1>4. i \in Int /\ j \in Int /\ k \in Int
  BY <1>2
<1>5. /\ Precedes(s[i], s[i]) <=> a < a \/ (a = a /\ p < p)
      /\ Precedes(s[i], s[j]) <=> a < b \/ (a = b /\ p < q)
      /\ Precedes(s[j], s[i]) <=> b < a \/ (b = a /\ q < p)
      /\ Precedes(s[i], s[k]) <=> a < c \/ (a = c /\ p < r)
      /\ Precedes(s[k], s[i]) <=> c < a \/ (c = a /\ r < p)
      /\ Precedes(s[j], s[k]) <=> b < c \/ (b = c /\ q < r)
      /\ Precedes(s[k], s[j]) <=> c < b \/ (c = b /\ r < q)
  BY <1>3 DEF Precedes
<1>6. i \notin Below(s, i)
  BY <1>1, <1>3, <1>4, <1>5
<1>7. j \in Below(s, i) /\ k \in Below(s, j) => k \in Below(s, i)
  BY <1>1, <1>3, <1>4, <1>5
<1>8. i # j => j \in Below(s, i) \/ i \in Below(s, j)
  BY <1>1, <1>3, <1>4, <1>5
<1> QED
  BY <1>6, <1>7, <1>8

\* The places are a permutation that agrees with the order.
LEMMA PlacePermutes ==
    ASSUME NEW s, NEW len, Keyed(s, len)
    PROVE  /\ Place(s) \in Bijection(1 .. len, 1 .. len)
           /\ \A i, j \in 1 .. len : j \in Below(s, i) <=> Place(s)[j] < Place(s)[i]
<1> DEFINE D == 1 .. len
<1>1. len \in Nat /\ DOMAIN s = D
  BY DEF Keyed
<1>2. IsFiniteSet(D) /\ Cardinality(D) = len
  <2>1. Cardinality(1 .. len) = IF 1 > len THEN 0 ELSE len - 1 + 1
    BY <1>1, FS_Interval
  <2>2. IsFiniteSet(1 .. len)
    BY <1>1, FS_Interval
  <2> QED
    BY <1>1, <2>1, <2>2
<1>3. ASSUME NEW i \in D
      PROVE  /\ IsFiniteSet(Below(s, i)) /\ Cardinality(Below(s, i)) \in Nat
             /\ Cardinality(Below(s, i)) < len
  <2>1. Below(s, i) \in SUBSET D /\ i \notin Below(s, i)
    BY <1>1, BelowOrder DEF Below
  <2>2. /\ IsFiniteSet(Below(s, i)) /\ Cardinality(Below(s, i)) <= Cardinality(D)
        /\ Cardinality(D) = Cardinality(Below(s, i)) => D = Below(s, i)
    BY <1>2, <2>1, FS_Subset
  <2>3. Cardinality(Below(s, i)) \in Nat
    BY <2>2, FS_CardinalityType
  <2> QED
    BY <1>1, <1>2, <2>1, <2>2, <2>3
<1>4. ASSUME NEW i \in D, NEW j \in D, j \in Below(s, i)
      PROVE  Cardinality(Below(s, j)) < Cardinality(Below(s, i))
  <2>1. Below(s, j) \in SUBSET Below(s, i)
    <3> SUFFICES ASSUME NEW k \in Below(s, j) PROVE k \in Below(s, i)
      OBVIOUS
    <3>1. k \in D
      BY <1>1 DEF Below
    <3> QED
      BY <1>4, <3>1, BelowOrder
  <2>2. j \notin Below(s, j)
    BY BelowOrder
  <2>3. /\ Cardinality(Below(s, j)) <= Cardinality(Below(s, i))
        /\ Cardinality(Below(s, i)) = Cardinality(Below(s, j)) => Below(s, i) = Below(s, j)
    BY <1>3, <2>1, FS_Subset
  <2> QED
    BY <1>3, <1>4, <2>2, <2>3
<1>5. \A i \in D : Place(s)[i] = Cardinality(Below(s, i)) + 1
  BY <1>1 DEF Place
<1>6. DOMAIN Place(s) = D
  BY <1>1 DEF Place
<1>7. ASSUME NEW i \in D, NEW j \in D
      PROVE  j \in Below(s, i) <=> Place(s)[j] < Place(s)[i]
  <2>1. j \in Below(s, i) => Place(s)[j] < Place(s)[i]
    BY <1>3, <1>4, <1>5
  <2>2. i \in Below(s, j) => Place(s)[i] < Place(s)[j]
    BY <1>3, <1>4, <1>5
  <2>3. Place(s)[i] \in Nat /\ Place(s)[j] \in Nat
    BY <1>3, <1>5
  <2>4. i # j => j \in Below(s, i) \/ i \in Below(s, j)
    BY BelowOrder
  <2>5. CASE i = j
    <3>1. i \notin Below(s, i)
      BY BelowOrder
    <3> QED
      BY <2>3, <2>5, <3>1
  <2>6. CASE i # j
    BY <2>1, <2>2, <2>3, <2>4, <2>6
  <2> QED
    BY <2>5, <2>6
<1>8. Place(s) \in [D -> D]
  <2>1. ASSUME NEW i \in D PROVE Place(s)[i] \in D
    <3>1. /\ Cardinality(Below(s, i)) \in Nat /\ Cardinality(Below(s, i)) < len
          /\ Place(s)[i] = Cardinality(Below(s, i)) + 1
      BY <1>3, <1>5
    <3> QED
      BY <1>1, <3>1
  <2>2. Place(s) = [i \in D |-> Place(s)[i]]
    BY <1>1 DEF Place
  <2> HIDE DEF D
  <2> QED
    BY <2>1, <2>2
<1>9. Place(s) \in Injection(D, D)
  <2>1. ASSUME NEW i \in D, NEW j \in D, Place(s)[i] = Place(s)[j] PROVE i = j
    <3>1. Place(s)[i] \in Nat
      BY <1>3, <1>5
    <3> QED
      BY <1>7, <2>1, <3>1, BelowOrder
  <2> QED
    BY <1>6, <1>8, <2>1 DEF Injection, IsInjective
<1>10. Place(s) \in Surjection(D, D)
  BY <1>2, <1>9, FS_Injection
<1> QED
  BY <1>7, <1>9, <1>10 DEF Bijection

\* A sequence in the strict order, and one that lists a set.
Sorted(t, len) == Keyed(t, len) /\ \A k, l \in 1 .. len : k < l => Precedes(t[k], t[l])
Lists(t, len, E) == \A e : e \in E <=> \E k \in 1 .. len : t[k] = e

\* Sorting keeps the entries and puts them in order.
LEMMA CanonicalFacts ==
    ASSUME NEW s, NEW len, Keyed(s, len)
    PROVE  /\ Keyed(Canonically(s), len)
           /\ \A E : Lists(s, len, E) => Lists(Canonically(s), len, E)
           /\ Distinct(s) => Sorted(Canonically(s), len)
<1> DEFINE D == 1 .. len
           at(k) == CHOOSE i \in D : Place(s)[i] = k
<1>1. len \in Nat /\ DOMAIN s = D /\ \A i \in D : s[i].ns \in Int /\ s[i].n \in Int
  BY DEF Keyed
<1>2. Place(s) \in Bijection(D, D)
  BY PlacePermutes
<1>3. /\ \A i \in D : Place(s)[i] \in D
      /\ \A k \in D : \E i \in D : Place(s)[i] = k
      /\ \A i, j \in D : Place(s)[i] = Place(s)[j] => i = j
  BY <1>2 DEF Bijection, Injection, Surjection, IsInjective
<1>4. Canonically(s) = [k \in D |-> s[at(k)]]
  BY <1>1 DEF Canonically
<1>5. \A k \in D : at(k) \in D /\ Place(s)[at(k)] = k
  BY <1>3
<1>6. \A i \in D : at(Place(s)[i]) = i
  BY <1>3, <1>5
<1> HIDE DEF at
<1>7. DOMAIN Canonically(s) = D /\ \A k \in D : Canonically(s)[k] = s[at(k)]
  BY <1>4
<1>8. Keyed(Canonically(s), len)
  BY <1>1, <1>5, <1>7 DEF Keyed
<1>9. \A i \in D : \E k \in D : Canonically(s)[k] = s[i]
  BY <1>3, <1>6, <1>7
<1>10. ASSUME Distinct(s), NEW k \in D, NEW l \in D, k < l
       PROVE  Precedes(Canonically(s)[k], Canonically(s)[l])
  <2> DEFINE i == at(k)
             j == at(l)
  <2>1. i \in D /\ j \in D /\ Place(s)[i] = k /\ Place(s)[j] = l
    BY <1>5
  <2> HIDE DEF i, j
  <2>2. i \in Below(s, j)
    BY <1>10, <2>1, PlacePermutes
  <2>3. IF i < j THEN ~Precedes(s[j], s[i]) ELSE Precedes(s[i], s[j])
    BY <2>2 DEF Below
  <2>4. i # j
    BY <1>10, <2>1
  <2>5. s[i].n # s[j].n
    BY <1>1, <1>10, <2>1, <2>4 DEF Distinct
  <2>6. s[i].ns \in Int /\ s[j].ns \in Int /\ s[i].n \in Int /\ s[j].n \in Int
    BY <1>1, <2>1
  <2>7. Precedes(s[i], s[j])
    BY <2>3, <2>5, <2>6 DEF Precedes
  <2> QED
    BY <1>7, <2>7 DEF i, j
<1>11. ASSUME NEW E, Lists(s, len, E) PROVE Lists(Canonically(s), len, E)
  <2>1. ASSUME NEW e \in E PROVE \E k \in D : Canonically(s)[k] = e
    <3>1. PICK i \in D : s[i] = e
      BY <1>11 DEF Lists
    <3> QED
      BY <1>9, <3>1
  <2>2. ASSUME NEW k \in D PROVE Canonically(s)[k] \in E
    <3>1. at(k) \in D /\ Canonically(s)[k] = s[at(k)]
      BY <1>5, <1>7
    <3> QED
      BY <1>11, <3>1 DEF Lists
  <2> QED
    BY <2>1, <2>2 DEF Lists
<1> QED
  BY <1>8, <1>10, <1>11 DEF Sorted

\* In sorted order an entry's index counts the entries that precede it.
LEMMA SortedIndex ==
    ASSUME NEW t, NEW len, Sorted(t, len), NEW E, Lists(t, len, E), NEW k \in 1 .. len
    PROVE  Cardinality({d \in E : Precedes(d, t[k])}) = k - 1
<1> USE DEF Sorted, Lists
<1> DEFINE B == {d \in E : Precedes(d, t[k])}
           f == [j \in 1 .. k - 1 |-> t[j]]
<1>1. len \in Nat /\ k \in Nat /\ k - 1 \in Nat /\ 1 .. k - 1 \subseteq 1 .. len
  BY DEF Keyed
<1>2. \A i, j \in 1 .. len : ~(Precedes(t[i], t[j]) /\ Precedes(t[j], t[i]))
  <2> SUFFICES ASSUME NEW i \in 1 .. len, NEW j \in 1 .. len
               PROVE  ~(Precedes(t[i], t[j]) /\ Precedes(t[j], t[i]))
    OBVIOUS
  <2>1. t[i].ns \in Int /\ t[j].ns \in Int /\ t[i].n \in Int /\ t[j].n \in Int
    BY DEF Keyed
  <2> QED
    BY <2>1 DEF Precedes
<1>3. \A j \in 1 .. k - 1 : j \in 1 .. len /\ j < k
  BY <1>1
<1>4. f \in [1 .. k - 1 -> B]
  BY <1>3
<1>5. ASSUME NEW d \in B PROVE \E j \in 1 .. k - 1 : f[j] = d
  <2>1. PICK j \in 1 .. len : t[j] = d
    OBVIOUS
  <2>2. Precedes(t[j], t[k])
    BY <2>1
  <2>3. ~(k < j) /\ j # k
    BY <1>2, <2>2
  <2>4. j \in 1 .. k - 1
    BY <1>1, <2>3
  <2> QED
    BY <2>1, <2>4
<1>6. ASSUME NEW i \in 1 .. k - 1, NEW j \in 1 .. k - 1, f[i] = f[j] PROVE i = j
  <2>1. i \in 1 .. len /\ j \in 1 .. len /\ t[i] = t[j] /\ i \in Int /\ j \in Int
    BY <1>3, <1>6
  <2>2. ~(i < j)
    BY <1>2, <2>1
  <2>3. ~(j < i)
    BY <1>2, <2>1
  <2> QED
    BY <2>1, <2>2, <2>3
<1>7. DOMAIN f = 1 .. k - 1
  OBVIOUS
<1> HIDE DEF f, B
<1>8. f \in Bijection(1 .. k - 1, B)
  BY <1>4, <1>5, <1>6, <1>7 DEF Bijection, Injection, Surjection, IsInjective
<1>9. ExistsBijection(1 .. k - 1, B)
  BY <1>8 DEF ExistsBijection
<1>10. Cardinality(B) = k - 1
  BY <1>1, <1>9, FS_CountingElements
<1> QED
  BY <1>10 DEF B

\* A batch sorts to the same sequence in whatever order its receipts were read.
LEMMA CanonicalUnique ==
    ASSUME NEW s, NEW m, Keyed(s, m), Distinct(s),
           NEW t, NEW n, Keyed(t, n), Distinct(t),
           NEW E, Lists(s, m, E), Lists(t, n, E)
    PROVE  Canonically(s) = Canonically(t)
<1> DEFINE c == Canonically(s)
           d == Canonically(t)
<1>1. Sorted(c, m) /\ Sorted(d, n) /\ Lists(c, m, E) /\ Lists(d, n, E)
  BY CanonicalFacts
<1> HIDE DEF c, d
<1>4. m \in Nat /\ n \in Nat /\ DOMAIN c = 1 .. m /\ DOMAIN d = 1 .. n
  BY <1>1 DEF Sorted, Keyed
<1>5. ASSUME NEW k \in 1 .. m, NEW l \in 1 .. n, c[k] = d[l] PROVE k = l
  <2>1. Cardinality({e \in E : Precedes(e, c[k])}) = k - 1
    BY <1>1, SortedIndex
  <2>2. Cardinality({e \in E : Precedes(e, d[l])}) = l - 1
    BY <1>1, SortedIndex
  <2>3. k - 1 = l - 1
    BY <1>5, <2>1, <2>2
  <2> QED
    BY <1>4, <2>3
<1>6. ASSUME NEW k \in 1 .. m PROVE k \in 1 .. n /\ d[k] = c[k]
  <2>1. PICK l \in 1 .. n : d[l] = c[k]
    BY <1>1 DEF Lists
  <2> QED
    BY <1>5, <2>1
<1>7. ASSUME NEW l \in 1 .. n PROVE l \in 1 .. m
  <2>1. PICK k \in 1 .. m : c[k] = d[l]
    BY <1>1 DEF Lists
  <2> QED
    BY <1>5, <2>1
<1>8. 1 .. m = 1 .. n
  BY <1>6, <1>7
<1>9. c = [k \in 1 .. m |-> c[k]] /\ d = [k \in 1 .. n |-> d[k]]
  BY <1>4 DEF c, d, Canonically
<1>10. c = d
  BY <1>6, <1>8, <1>9
<1> QED
  BY <1>10 DEF c, d

-----------------------------------------------------------------------------
(* Sets as sequences, and batches *)

\* SetToSeq lists a finite set, each element once.
LEMMA SetToSeqFacts ==
    ASSUME NEW S, IsFiniteSet(S)
    PROVE  /\ Cardinality(S) \in Nat
           /\ DOMAIN SetToSeq(S) = 1 .. Cardinality(S)
           /\ Lists(SetToSeq(S), Cardinality(S), S)
           /\ IsInjective(SetToSeq(S))
<1> DEFINE n == Cardinality(S)
<1>1. n \in Nat /\ ExistsBijection(1 .. n, S)
  BY FS_CardinalityType
<1>2. PICK f : f \in Bijection(1 .. n, S)
  BY <1>1 DEF ExistsBijection
<1>3. \E g \in [1 .. n -> S] : IsInjective(g)
  BY <1>2 DEF Bijection, Injection
<1>4. SetToSeq(S) \in [1 .. n -> S] /\ IsInjective(SetToSeq(S))
  BY <1>3 DEF SetToSeq
<1>5. SetToSeq(S) \in Injection(1 .. n, S)
  BY <1>4 DEF Injection
<1>6. IsFiniteSet(1 .. n) /\ Cardinality(1 .. n) = n
  <2>1. Cardinality(1 .. n) = IF 1 > n THEN 0 ELSE n - 1 + 1
    BY <1>1, FS_Interval
  <2>2. IsFiniteSet(1 .. n)
    BY <1>1, FS_Interval
  <2> QED
    BY <1>1, <2>1, <2>2
<1>7. SetToSeq(S) \in Surjection(1 .. n, S)
  BY <1>5, <1>6, FS_Injection
<1>8. \A x \in S : \E i \in 1 .. n : SetToSeq(S)[i] = x
  BY <1>7 DEF Surjection
<1>9. DOMAIN SetToSeq(S) = 1 .. n /\ \A i \in 1 .. n : SetToSeq(S)[i] \in S
  BY <1>4
<1> QED
  BY <1>1, <1>4, <1>8, <1>9 DEF Lists

\* The leaves of a tree are the addresses of its entries, in their order.
LEMMA TreeLeaves ==
    ASSUME NEW s
    PROVE  /\ DOMAIN Tree(s).leaves = DOMAIN s
           /\ \A i \in DOMAIN s : Tree(s).leaves[i].leaf = s[i].address
  BY DEF Tree

\* Entries as seal_batch and RootOf make them: the key is part of the address.
IsEntry(e) ==
    /\ e = [n |-> e.n, ns |-> e.ns, address |-> e.address]
    /\ e.n = e.address.n /\ e.ns = e.address.ns

LEMMA MerkleFacts ==
    ASSUME NEW s, NEW len, Keyed(s, len), Distinct(s), len # 0,
           \A i \in 1 .. len : IsEntry(s[i])
    PROVE  build_merkle(s) = Tree(Canonically(s))
<1>1. DOMAIN s = 1 .. len /\ len \in Nat
  BY DEF Keyed
<1>2. s # <<>>
  BY <1>1
<1>3. ASSUME NEW i \in 1 .. len, NEW j \in 1 .. len, s[i].address = s[j].address
      PROVE  i = j
  <2>1. s[i].n = s[i].address.n /\ s[j].n = s[j].address.n
    BY DEF IsEntry
  <2> QED
    BY <1>1, <1>3, <2>1 DEF Distinct
<1>4. IsInjective([i \in DOMAIN s |-> s[i].address])
  BY <1>1, <1>3 DEF IsInjective
<1> QED
  BY <1>2, <1>4 DEF build_merkle

LeafSet(b) == {b.leaves[i].leaf : i \in DOMAIN b.leaves}

\* What record_sealed_batch relies on: leaves in canonical order, under their root.
GoodBatch(b) ==
    /\ Len(b.leaves) \in Nat \ {0} /\ DOMAIN b.leaves = 1 .. Len(b.leaves)
    /\ \A i \in DOMAIN b.leaves : b.leaves[i].leaf.ns \in Int /\ b.leaves[i].leaf.n \in Int
    /\ \A i, j \in DOMAIN b.leaves : i < j => Precedes(b.leaves[i].leaf, b.leaves[j].leaf)
    /\ RootOf(LeafSet(b)) = b.root

\* LocalSealer::seal_batch builds such a batch from distinct receipts.
LEMMA SealBatchFacts ==
    ASSUME NEW receipts, NEW len, Keyed(receipts, len), Distinct(receipts), len # 0
    PROVE  /\ GoodBatch(seal_batch(receipts))
           /\ LeafSet(seal_batch(receipts)) = {content_address(receipts[i]) : i \in 1 .. len}
<1> DEFINE D == 1 .. len
           e == [i \in DOMAIN receipts |-> Entry(receipts[i])]
           c == Canonically(e)
           b == seal_batch(receipts)
           E == {e[i] : i \in D}
           A == {content_address(receipts[i]) : i \in D}
<1>1. len \in Nat /\ len # 0 /\ DOMAIN receipts = D /\ DOMAIN e = D
  BY DEF Keyed
<1>2. ASSUME NEW i \in D
      PROVE  /\ e[i].n = receipts[i].n /\ e[i].ns = receipts[i].ns
             /\ e[i].address = content_address(receipts[i]) /\ IsEntry(e[i])
  BY <1>1 DEF Entry, content_address, IsEntry
<1>3. Keyed(e, len) /\ Distinct(e)
  BY <1>1, <1>2 DEF Keyed, Distinct
<1>4. Lists(e, len, E)
  BY DEF Lists
<1>5. b = build_merkle(e)
  BY DEF seal_batch
<1> HIDE DEF e, E, b
<1>6. b = Tree(c)
  BY <1>1, <1>2, <1>3, <1>5, MerkleFacts
<1>7. Sorted(c, len) /\ Lists(c, len, E)
  BY <1>3, <1>4, CanonicalFacts
<1> HIDE DEF c
<1>8. DOMAIN c = D
  BY <1>7 DEF Sorted, Keyed
<1>9. DOMAIN b.leaves = D /\ \A i \in D : b.leaves[i].leaf = c[i].address
  BY <1>6, <1>8, TreeLeaves
<1>10. ASSUME NEW k \in D
       PROVE  \E i \in D : c[k] = e[i]
  <2>1. c[k] \in E
    BY <1>7 DEF Lists
  <2> QED
    BY <1>4, <2>1 DEF Lists
<1>11. \A i \in D : \E k \in D : c[k] = e[i]
  BY <1>7, <1>4 DEF Lists
<1>12. LeafSet(b) = A
  <2>1. ASSUME NEW k \in D PROVE b.leaves[k].leaf \in A
    BY <1>2, <1>9, <1>10
  <2>2. ASSUME NEW i \in D PROVE \E k \in D : b.leaves[k].leaf = content_address(receipts[i])
    BY <1>2, <1>9, <1>11
  <2> QED
    BY <1>9, <2>1, <2>2 DEF LeafSet
<1>13. ASSUME NEW k \in D
       PROVE  /\ c[k].n = c[k].address.n /\ c[k].ns = c[k].address.ns
              /\ c[k].n \in Int /\ c[k].ns \in Int
  <2>1. PICK i \in D : c[k] = e[i]
    BY <1>10
  <2>2. IsEntry(c[k])
    BY <1>2, <2>1
  <2>3. c[k].n \in Int /\ c[k].ns \in Int
    BY <1>7 DEF Sorted, Keyed
  <2> QED
    BY <2>2, <2>3 DEF IsEntry
<1>14. ASSUME NEW i \in D, NEW j \in D, i < j
       PROVE  Precedes(b.leaves[i].leaf, b.leaves[j].leaf)
  <2>1. Precedes(c[i], c[j])
    BY <1>7, <1>14 DEF Sorted
  <2> QED
    BY <1>9, <1>13, <2>1 DEF Precedes
<1>15. Len(b.leaves) = len
  BY <1>1, <1>9
<1>16. IsFiniteSet(A) /\ A # {}
  <2> DEFINE f == [i \in D |-> content_address(receipts[i])]
  <2>1. f \in Surjection(D, A)
    BY DEF Surjection
  <2>2. IsFiniteSet(D)
    BY <1>1, FS_Interval
  <2>3. 1 \in D
    BY <1>1
  <2> QED
    BY <2>1, <2>2, <2>3, FS_Surjection
<1>17. RootOf(A) = b.root
  <2> DEFINE order == SetToSeq(A)
             m == Cardinality(A)
             r == [i \in DOMAIN order |->
                     [n |-> order[i].n, ns |-> order[i].ns, address |-> order[i]]]
  <2>1. m \in Nat /\ DOMAIN order = 1 .. m /\ Lists(order, m, A) /\ IsInjective(order)
    BY <1>16, SetToSeqFacts
  <2>2. RootOf(A) = build_merkle(r).root
    BY DEF RootOf
  <2> HIDE DEF order, m
  <2>3. DOMAIN r = 1 .. m
    BY <2>1
  <2>4. ASSUME NEW i \in 1 .. m
        PROVE  \E k \in D : r[i] = e[k]
    <3>1. order[i] \in A
      BY <2>1 DEF Lists
    <3>2. PICK k \in D : order[i] = e[k].address
      BY <1>2, <3>1
    <3>3. r[i] = [n |-> order[i].n, ns |-> order[i].ns, address |-> order[i]]
      BY <2>1
    <3>4. /\ e[k] = [n |-> e[k].n, ns |-> e[k].ns, address |-> e[k].address]
          /\ e[k].n = e[k].address.n /\ e[k].ns = e[k].address.ns
      BY <1>2 DEF IsEntry
    <3>5. r[i] = e[k]
      BY <3>2, <3>3, <3>4
    <3> QED
      BY <3>5
  <2>5. ASSUME NEW k \in D
        PROVE  \E i \in 1 .. m : r[i] = e[k]
    <3>1. e[k].address \in A
      BY <1>2
    <3>2. PICK i \in 1 .. m : order[i] = e[k].address
      BY <2>1, <3>1 DEF Lists
    <3>3. r[i] = [n |-> order[i].n, ns |-> order[i].ns, address |-> order[i]]
      BY <2>1
    <3>4. /\ e[k] = [n |-> e[k].n, ns |-> e[k].ns, address |-> e[k].address]
          /\ e[k].n = e[k].address.n /\ e[k].ns = e[k].address.ns
      BY <1>2 DEF IsEntry
    <3> QED
      BY <3>2, <3>3, <3>4
  <2>6. \A i \in 1 .. m : r[i].address = order[i]
    BY <2>1
  <2> HIDE DEF r
  <2>7. Lists(r, m, E)
    <3>1. ASSUME NEW x \in E PROVE \E i \in 1 .. m : r[i] = x
      BY <1>4, <2>5 DEF Lists
    <3>2. ASSUME NEW i \in 1 .. m PROVE r[i] \in E
      BY <1>4, <2>4 DEF Lists
    <3> QED
      BY <3>1, <3>2 DEF Lists
  <2>8. Keyed(r, m)
    BY <1>3, <2>1, <2>3, <2>4 DEF Keyed
  <2>9. Distinct(r)
    <3>1. ASSUME NEW i \in 1 .. m, NEW j \in 1 .. m, r[i].n = r[j].n PROVE i = j
      <4>1. PICK k \in D : r[i] = e[k]
        BY <2>4
      <4>2. PICK l \in D : r[j] = e[l]
        BY <2>4
      <4>3. k = l
        BY <1>1, <1>3, <3>1, <4>1, <4>2 DEF Distinct, Keyed
      <4>4. order[i] = order[j]
        BY <2>6, <4>1, <4>2, <4>3
      <4> QED
        BY <2>1, <4>4 DEF IsInjective
    <3> QED
      BY <2>3, <3>1 DEF Distinct
  <2>10. m # 0
    BY <1>16, <2>1 DEF Lists
  <2>11. \A i \in 1 .. m : IsEntry(r[i])
    BY <1>2, <2>4
  <2>12. build_merkle(r) = Tree(Canonically(r))
    BY <2>8, <2>9, <2>10, <2>11, MerkleFacts
  <2>13. Canonically(r) = c
    BY <1>3, <1>4, <2>7, <2>8, <2>9, CanonicalUnique DEF c
  <2> QED
    BY <1>6, <2>2, <2>12, <2>13
<1>18. GoodBatch(b)
  BY <1>1, <1>9, <1>12, <1>13, <1>14, <1>15, <1>17 DEF GoodBatch
<1> QED
  BY <1>12, <1>18 DEF b

-----------------------------------------------------------------------------
(* The inductive invariant *)

Calls == Appenders \union Sealers

Types ==
    /\ backend \in {"memory", "postgres"}
    /\ DOMAIN pc = Calls /\ DOMAIN staged = Calls
    /\ DOMAIN batch = Sealers /\ DOMAIN leaf = Sealers /\ DOMAIN locked = Sealers
    /\ IsFiniteSet(rows) /\ rows \subseteq Receipts

\* Stored receipts were verified, and no two have one id.
RowInv ==
    /\ \A r \in rows : verify_pre_append(r)
    /\ \A r, q \in rows : r.n = q.n => r = q

\* What an open append holds is its own receipt, new to the store and to the others.
AppendInv(p) ==
    /\ pc[p] \in {"insert", "related", "commit"} =>
          backend = "postgres" /\ verify_pre_append(Writes[p])
    /\ pc[p] \notin {"related", "commit"} => staged[p] = {}
    /\ pc[p] = "related" => staged[p] = {[Writes[p] EXCEPT !.sigs = <<>>]}
    /\ pc[p] = "commit" => staged[p] = {} \/ staged[p] = {Writes[p]}
    /\ staged[p] # {} =>
          /\ content_address(Writes[p]) \notin StoredAddresses
          /\ \A q \in Appenders \ {p} :
                staged[q] # {} => content_address(Writes[q]) # content_address(Writes[p])

Recording(s) == pc[s] \in {"lookup", "fill", "commit"}

\* The leaves of its batch that a sealer has dealt with.
Done(s) == {i \in DOMAIN batch[s].leaves : pc[s] = "commit" \/ i < leaf[s]}

DoneLeaves(s) == {batch[s].leaves[i].leaf : i \in Done(s)}

\* What a sealer holds are leaves it has dealt with; these are sealed under its
\* root or about to be, and nobody else is about to seal them.
SealInv(s) ==
    /\ Recording(s) => GoodBatch(batch[s])
    /\ ~Recording(s) => staged[s] = {} /\ locked[s] = {}
    /\ pc[s] \in {"lookup", "fill"} => leaf[s] \in DOMAIN batch[s].leaves
    /\ backend = "memory" =>
          /\ pc[s] \notin {"fill", "commit"} /\ staged[s] = {} /\ locked[s] = {}
          /\ pc[s] = "lookup" => LeafSet(batch[s]) \subseteq StoredAddresses
    /\ locked[s] \subseteq DoneLeaves(s)
    /\ \A l \in staged[s] :
          /\ l.address \in DoneLeaves(s) /\ l.seal.root = batch[s].root
          /\ l.address \in StoredAddresses \ DOMAIN seals
    /\ backend = "postgres" /\ Recording(s) =>
          \A a \in DoneLeaves(s) :
             LeafStaged(s, a) \/ (a \in DOMAIN seals /\ seals[a].root = batch[s].root)
    /\ \A t \in Sealers \ {s} : \A l \in staged[s] : ~LeafStaged(t, l.address)

SealedStored == DOMAIN seals \subseteq StoredAddresses

WalkInv ==
    /\ DOMAIN walk = {"on", "query", "cursor", "had", "got", "end"}
    /\ \E S : walk.got \in Seq(S)
    /\ \A i \in DOMAIN walk.got : \E r \in rows : walk.got[i] \in rehydrate_receipt(r)

IInv ==
    /\ Types /\ RowInv /\ SealedStored /\ WalkInv
    /\ \A p \in Appenders : AppendInv(p)
    /\ \A s \in Sealers : SealInv(s)

\* The times of all receipts fit a BIGINT.
TimesFit == \A r \in Receipts : r.ns <= MaxI64

IsKey(k) == k = <<k[1], k[2]>> /\ k[1] \in Int /\ k[2] \in Int

Keys == [i \in DOMAIN walk.got |-> Key(walk.got[i])]

\* Of what the reader is owed, it has what is not after its cursor.
PageInv ==
    /\ walk.cursor = <<>> \/ IsKey(walk.cursor)
    /\ \A i \in DOMAIN walk.got : IsKey(Key(walk.got[i]))
    /\ IsInjective(Keys)
    /\ ~walk.end => IF walk.cursor = <<>> THEN walk.got = <<>>
                    ELSE \A i \in DOMAIN walk.got : ~Before(walk.cursor, Key(walk.got[i]))
    /\ \A k \in walk.had :
          \/ \E i \in DOMAIN walk.got : Key(walk.got[i]) = k
          \/ /\ ~walk.end
             /\ \E r \in rows : /\ Key(r) = k /\ Matches(walk.query, r)
                                /\ walk.cursor = <<>> \/ Before(walk.cursor, k)

-----------------------------------------------------------------------------
(* Consequences of the invariant *)

LEMMA NoCycle == ASSUME IInv PROVE NoLockCycle
<1> SUFFICES ASSUME NEW s \in Sealers, NEW t \in Sealers, s # t,
                    WaitsFor(s, t), WaitsFor(t, s)
             PROVE  FALSE
  BY DEF NoLockCycle
<1>1. ASSUME NEW x \in Sealers, NEW y \in Sealers, WaitsFor(x, y), WaitsFor(y, x)
      PROVE  Precedes(AtLeaf(x).leaf, AtLeaf(y).leaf)
  <2>1. SealInv(y)
    BY DEF IInv
  <2>2. AtLeaf(x).leaf \in DoneLeaves(y)
    BY <1>1, <2>1 DEF WaitsFor, LeafStaged, SealInv
  <2>3. pc[y] \in {"lookup", "fill"}
    BY <1>1 DEF WaitsFor
  <2>4. PICK i \in Done(y) : AtLeaf(x).leaf = batch[y].leaves[i].leaf
    BY <2>2 DEF DoneLeaves
  <2>5. i \in DOMAIN batch[y].leaves /\ i < leaf[y] /\ leaf[y] \in DOMAIN batch[y].leaves
    BY <2>1, <2>3, <2>4 DEF Done, SealInv
  <2>6. GoodBatch(batch[y])
    BY <2>1, <2>3 DEF SealInv, Recording
  <2> QED
    BY <2>4, <2>5, <2>6 DEF GoodBatch, AtLeaf
<1>2. ASSUME NEW x \in Sealers, NEW y \in Sealers, WaitsFor(x, y)
      PROVE  AtLeaf(x).leaf.ns \in Int /\ AtLeaf(x).leaf.n \in Int
  <2>1. SealInv(x) /\ pc[x] \in {"lookup", "fill"}
    BY <1>2 DEF IInv, WaitsFor
  <2>2. GoodBatch(batch[x]) /\ leaf[x] \in DOMAIN batch[x].leaves
    BY <2>1 DEF SealInv, Recording
  <2> QED
    BY <2>2 DEF GoodBatch, AtLeaf
<1>3. Precedes(AtLeaf(s).leaf, AtLeaf(t).leaf) /\ Precedes(AtLeaf(t).leaf, AtLeaf(s).leaf)
  BY <1>1
<1>4. /\ AtLeaf(s).leaf.ns \in Int /\ AtLeaf(s).leaf.n \in Int
      /\ AtLeaf(t).leaf.ns \in Int /\ AtLeaf(t).leaf.n \in Int
  BY <1>2
<1> QED
  BY <1>3, <1>4 DEF Precedes

-----------------------------------------------------------------------------
(* Steps of the appenders *)

\* What a sealer's invariant survives: its own state kept, the stores grown.
SealFrame(t) ==
    /\ pc'[t] = pc[t] /\ staged'[t] = staged[t] /\ batch'[t] = batch[t]
    /\ leaf'[t] = leaf[t] /\ locked'[t] = locked[t] /\ backend' = backend
    /\ StoredAddresses \subseteq StoredAddresses'
    /\ \A a \in DOMAIN seals : a \in DOMAIN seals' /\ seals'[a].root = seals[a].root
    /\ \A l \in staged[t] : l.address \notin DOMAIN seals'
    /\ \A u \in Sealers \ {t} : \A l \in staged[t] : ~LeafStaged(u, l.address)'

LEMMA SealKept ==
    ASSUME NEW t \in Sealers, SealInv(t), SealFrame(t)
    PROVE  SealInv(t)'
<1>1. Done(t)' = Done(t)
  BY DEF SealFrame, Done
<1>2. DoneLeaves(t)' = DoneLeaves(t)
  BY <1>1 DEF SealFrame, DoneLeaves
<1>3. Recording(t)' <=> Recording(t)
  BY DEF SealFrame, Recording
<1>4. \A a : LeafStaged(t, a)' <=> LeafStaged(t, a)
  BY DEF SealFrame, LeafStaged
<1>5. (Recording(t) => GoodBatch(batch[t]))' 
  <2>1. batch'[t] = batch[t]
    BY DEF SealFrame
  <2>2. GoodBatch(batch[t]) => GoodBatch(batch'[t])
    BY <2>1
  <2> QED
    BY <1>3, <2>2 DEF SealInv
<1>6. (~Recording(t) => staged[t] = {} /\ locked[t] = {})'
  BY <1>3 DEF SealFrame, SealInv
<1>7. (pc[t] \in {"lookup", "fill"} => leaf[t] \in DOMAIN batch[t].leaves)'
  BY DEF SealFrame, SealInv
<1>8. (backend = "memory" =>
          /\ pc[t] \notin {"fill", "commit"} /\ staged[t] = {} /\ locked[t] = {}
          /\ pc[t] = "lookup" => LeafSet(batch[t]) \subseteq StoredAddresses)'
  BY DEF SealFrame, SealInv
<1>9. (locked[t] \subseteq DoneLeaves(t))'
  BY <1>2 DEF SealFrame, SealInv
<1>10. (\A l \in staged[t] :
          /\ l.address \in DoneLeaves(t) /\ l.seal.root = batch[t].root
          /\ l.address \in StoredAddresses \ DOMAIN seals)'
  BY <1>2 DEF SealFrame, SealInv
<1>11. (backend = "postgres" /\ Recording(t) =>
          \A a \in DoneLeaves(t) :
             LeafStaged(t, a) \/ (a \in DOMAIN seals /\ seals[a].root = batch[t].root))'
  BY <1>2, <1>3, <1>4 DEF SealFrame, SealInv
<1>12. (\A u \in Sealers \ {t} : \A l \in staged[t] : ~LeafStaged(u, l.address))'
  BY DEF SealFrame
<1> QED
  BY <1>5, <1>6, <1>7, <1>8, <1>9, <1>10, <1>11, <1>12 DEF SealInv

\* A step of an append: its own call moves, and at most its receipt is stored.
AppendStep(p) ==
    /\ backend' = backend /\ seals' = seals /\ batch' = batch
    /\ leaf' = leaf /\ locked' = locked /\ walk' = walk
    /\ DOMAIN pc' = Calls /\ DOMAIN staged' = Calls
    /\ \A q \in Calls \ {p} : pc'[q] = pc[q] /\ staged'[q] = staged[q]
    /\ \/ rows' = rows
       \/ /\ rows' = rows \union {Writes[p]}
          /\ verify_pre_append(Writes[p])
          /\ content_address(Writes[p]) \notin StoredAddresses
          /\ backend = "memory" \/ staged[p] # {}
    /\ pc'[p] \in {"insert", "related", "commit"} =>
          backend = "postgres" /\ verify_pre_append(Writes[p])
    /\ pc'[p] \notin {"related", "commit"} => staged'[p] = {}
    /\ pc'[p] = "related" => staged'[p] = {[Writes[p] EXCEPT !.sigs = <<>>]}
    /\ pc'[p] = "commit" => staged'[p] = {} \/ staged'[p] = {Writes[p]}
    /\ staged'[p] # {} =>
          /\ rows' = rows /\ content_address(Writes[p]) \notin StoredAddresses
          /\ \A q \in Appenders \ {p} :
                staged[q] # {} => content_address(Writes[q]) # content_address(Writes[p])

\* What a walk has stays read from rows that are still there.
LEMMA WalkKept ==
    ASSUME WalkInv, walk' = walk, backend' = backend, rows \subseteq rows'
    PROVE  WalkInv'
<1>1. \A r : rehydrate_receipt(r)' = rehydrate_receipt(r)
  BY DEF rehydrate_receipt, u64_to_i64
<1> QED
  BY <1>1 DEF WalkInv

LEMMA AppendKeeps ==
    ASSUME IInv, NEW p \in Appenders, AppendStep(p)
    PROVE  IInv'
<1> USE ReceiptStoreAssumption
<1>1. Types /\ RowInv /\ SealedStored /\ WalkInv /\ p \in Calls
  BY DEF IInv, Calls
<1>2. /\ \/ rows' = rows /\ StoredAddresses' = StoredAddresses
         \/ /\ rows' = rows \union {Writes[p]}
            /\ StoredAddresses' = StoredAddresses \union {content_address(Writes[p])}
      /\ StoredAddresses \subseteq StoredAddresses'
  BY DEF AppendStep, StoredAddresses
<1>3. Writes[p] \in Receipts
  OBVIOUS
<1>4. Types'
  <2>1. IsFiniteSet(rows') /\ rows' \subseteq Receipts
    BY <1>1, <1>2, <1>3, FS_AddElement DEF Types
  <2> QED
    BY <1>1, <2>1 DEF Types, AppendStep
<1>5. RowInv'
  <2>1. CASE rows' = rows
    BY <1>1, <2>1 DEF RowInv
  <2>2. CASE rows' # rows
    <3>1. /\ rows' = rows \union {Writes[p]} /\ verify_pre_append(Writes[p])
          /\ content_address(Writes[p]) \notin StoredAddresses
      BY <2>2 DEF AppendStep
    <3>2. ASSUME NEW r \in rows PROVE r.n # Writes[p].n
      <4>1. r \in Receipts /\ content_address(r) \in StoredAddresses
        BY <1>1 DEF Types, StoredAddresses
      <4> QED
        BY <1>3, <3>1, <4>1
    <3> QED
      BY <1>1, <3>1, <3>2 DEF RowInv
  <2> QED
    BY <2>1, <2>2
<1>6. SealedStored'
  BY <1>1, <1>2 DEF SealedStored, AppendStep
<1>7. WalkInv'
  BY <1>1, WalkKept DEF AppendStep
<1>8. ASSUME NEW q \in Appenders PROVE AppendInv(q)'
  <2>1. AppendInv(q) /\ AppendInv(p) /\ q \in Calls
    BY DEF IInv, Calls
  <2>2. CASE q = p
    <3>1. ASSUME staged'[p] # {}
          PROVE  /\ content_address(Writes[p]) \notin StoredAddresses'
                 /\ \A o \in Appenders \ {p} :
                      staged'[o] # {} => content_address(Writes[o]) # content_address(Writes[p])
      <4>1. \A o \in Appenders \ {p} : staged'[o] = staged[o]
        BY DEF AppendStep, Calls
      <4>2. rows' = rows /\ StoredAddresses' = StoredAddresses
        BY <3>1 DEF AppendStep, StoredAddresses
      <4> QED
        BY <3>1, <4>1, <4>2 DEF AppendStep
    <3> QED
      BY <2>2, <3>1 DEF AppendInv, AppendStep
  <2>3. CASE q # p
    <3>1. pc'[q] = pc[q] /\ staged'[q] = staged[q] /\ backend' = backend
      BY <2>1, <2>3 DEF AppendStep
    <3>2. ASSUME staged'[q] # {}
          PROVE  content_address(Writes[q]) \notin StoredAddresses'
      <4>1. staged[q] # {} /\ backend = "postgres" /\ content_address(Writes[q]) \notin StoredAddresses
        BY <2>1, <3>1, <3>2 DEF AppendInv
      <4>2. CASE rows' = rows
        BY <1>2, <4>1, <4>2 DEF StoredAddresses
      <4>3. CASE rows' # rows
        <5>1. staged[p] # {} /\ StoredAddresses' = StoredAddresses \union {content_address(Writes[p])}
          BY <1>2, <4>1, <4>3 DEF AppendStep
        <5>2. content_address(Writes[q]) # content_address(Writes[p])
          BY <2>1, <2>3, <4>1, <5>1 DEF AppendInv
        <5> QED
          BY <4>1, <5>1, <5>2
      <4> QED
        BY <4>2, <4>3
    <3>3. ASSUME staged'[q] # {}, NEW o \in Appenders \ {q}, staged'[o] # {}
          PROVE  content_address(Writes[o]) # content_address(Writes[q])
      <4>1. staged[q] # {}
        BY <3>1, <3>3
      <4>2. CASE o = p
        BY <2>3, <3>3, <4>1, <4>2 DEF AppendStep
      <4>3. CASE o # p
        <5>1. staged'[o] = staged[o]
          BY <4>3 DEF AppendStep, Calls
        <5> QED
          BY <2>1, <3>3, <4>1, <5>1 DEF AppendInv
      <4> QED
        BY <4>2, <4>3
    <3> QED
      BY <2>1, <3>1, <3>2, <3>3 DEF AppendInv
  <2> QED
    BY <2>2, <2>3
<1>9. ASSUME NEW s \in Sealers PROVE SealInv(s)'
  <2>1. s \in Calls /\ s # p /\ SealInv(s)
    BY DEF Calls, IInv
  <2>2. \A u \in Sealers : u \in Calls \ {p}
    BY DEF Calls
  <2>3. \A u \in Sealers : \A a : LeafStaged(u, a)' <=> LeafStaged(u, a)
    BY <2>2 DEF AppendStep, LeafStaged
  <2>4. SealFrame(s)
    BY <1>2, <2>1, <2>2, <2>3 DEF SealFrame, AppendStep, SealInv
  <2> QED
    BY <2>1, <2>4, SealKept
<1> QED
  BY <1>4, <1>5, <1>6, <1>7, <1>8, <1>9 DEF IInv

\* A receipt without its signatures still has its address.
LEMMA SameAddress ==
    ASSUME NEW r \in Receipts
    PROVE  content_address([r EXCEPT !.sigs = <<>>]) = content_address(r)
<1>1. r = [n |-> r.n, spec |-> r.spec, ns |-> r.ns, actor |-> r.actor, kind |-> r.kind,
           preds |-> r.preds, sigs |-> r.sigs]
  BY ReceiptStoreAssumption DEF IsReceipt
<1>2. DOMAIN r = {"n", "spec", "ns", "actor", "kind", "preds", "sigs"}
  BY <1>1
<1> QED
  BY <1>2 DEF content_address

\* Every action of an append is such a step.
LEMMA AppendSteps ==
    ASSUME IInv, NEW p \in Appenders,
           MemoryAppend(p) \/ AppendBegin(p) \/ insert_receipt(p) \/ insert_related(p)
              \/ AppendCommit(p) \/ AppendLost(p)
    PROVE  AppendStep(p)
<1>1. /\ DOMAIN pc = Calls /\ DOMAIN staged = Calls /\ p \in Calls /\ p \notin Sealers
      /\ AppendInv(p) /\ backend \in {"memory", "postgres"}
  BY ReceiptStoreAssumption DEF IInv, Types, Calls
<1>2. CASE MemoryAppend(p)
  BY <1>1, <1>2 DEF MemoryAppend, Called, Goto, AppendStep, AppendInv
<1>3. CASE AppendBegin(p)
  BY <1>1, <1>3 DEF AppendBegin, Called, Goto, AppendStep, AppendInv
<1>4. CASE insert_receipt(p)
  <2>1. ASSUME NEW q \in Appenders \ {p}, staged[q] # {}
        PROVE  content_address(Writes[q]) # content_address(Writes[p])
    <3>1. AppendInv(q) /\ Writes[q] \in Receipts
      BY ReceiptStoreAssumption DEF IInv
    <3>2. staged[q] = {[Writes[q] EXCEPT !.sigs = <<>>]} \/ staged[q] = {Writes[q]}
      BY <2>1, <3>1 DEF AppendInv
    <3>3. \A r \in staged[q] : content_address(r) = content_address(Writes[q])
      BY <3>1, <3>2, SameAddress
    <3> QED
      BY <1>4, <2>1, <3>3 DEF insert_receipt
  <2>2. CASE content_address(Writes[p]) \in StoredAddresses
    BY <1>1, <1>4, <2>2 DEF insert_receipt, Called, Goto, AppendStep, AppendInv
  <2>3. CASE content_address(Writes[p]) \notin StoredAddresses
    <3>1. /\ pc[p] = "insert" /\ pc' = [pc EXCEPT ![p] = "related"]
          /\ staged' = [staged EXCEPT ![p] = {[Writes[p] EXCEPT !.sigs = <<>>]}]
          /\ rows' = rows
          /\ backend' = backend /\ seals' = seals /\ batch' = batch
          /\ leaf' = leaf /\ locked' = locked /\ walk' = walk
      BY <1>4, <2>3 DEF insert_receipt, Called, Goto
    <3>2. /\ pc'[p] = "related" /\ staged'[p] = {[Writes[p] EXCEPT !.sigs = <<>>]}
          /\ DOMAIN pc' = Calls /\ DOMAIN staged' = Calls
          /\ \A q \in Calls \ {p} : pc'[q] = pc[q] /\ staged'[q] = staged[q]
      BY <1>1, <3>1
    <3> QED
      BY <1>1, <2>1, <2>3, <3>1, <3>2 DEF AppendStep, AppendInv
  <2> QED
    BY <2>2, <2>3
<1>5. CASE insert_related(p)
  <2>1. \/ pc' = [pc EXCEPT ![p] = "commit"] /\ staged' = [staged EXCEPT ![p] = {Writes[p]}]
        \/ pc' = [pc EXCEPT ![p] = "failed"] /\ staged' = [staged EXCEPT ![p] = {}]
    BY <1>5 DEF insert_related, Goto, Drop
  <2>2. /\ pc[p] = "related" /\ rows' = rows
        /\ backend' = backend /\ seals' = seals /\ batch' = batch
        /\ leaf' = leaf /\ locked' = locked /\ walk' = walk
    BY <1>5 DEF insert_related, Called
  <2> QED
    BY <1>1, <2>1, <2>2 DEF AppendStep, AppendInv
<1>6. CASE AppendCommit(p)
  <2>1. rows' = rows \/ (rows' = rows \union {Writes[p]} /\ staged[p] # {})
    BY <1>1, <1>6 DEF AppendCommit, Called, AppendInv
  <2> QED
    BY <1>1, <1>6, <2>1 DEF AppendCommit, Called, Goto, Drop, AppendStep, AppendInv
<1>7. CASE AppendLost(p)
  <2>1. rows' = rows \/ (rows' = rows \union {Writes[p]} /\ staged[p] # {})
    BY <1>1, <1>7 DEF AppendLost, AppendInv
  <2>2. /\ pc[p] \in {"insert", "related", "commit"}
        /\ pc' = [pc EXCEPT ![p] = "failed"] /\ staged' = [staged EXCEPT ![p] = {}]
        /\ backend' = backend /\ seals' = seals /\ batch' = batch
        /\ leaf' = leaf /\ locked' = locked /\ walk' = walk
    BY <1>7 DEF AppendLost, Goto, Drop
  <2> QED
    BY <1>1, <2>1, <2>2 DEF AppendStep, AppendInv
<1> QED
  BY <1>2, <1>3, <1>4, <1>5, <1>6, <1>7

-----------------------------------------------------------------------------
(* Steps of the sealers *)

\* A step of record_sealed_batch: only its call moves, and seals are only added.
SealStep(s) ==
    /\ backend' = backend /\ rows' = rows /\ walk' = walk
    /\ DOMAIN pc' = Calls /\ DOMAIN staged' = Calls
    /\ DOMAIN batch' = Sealers /\ DOMAIN leaf' = Sealers /\ DOMAIN locked' = Sealers
    /\ \A t \in Calls \ {s} : pc'[t] = pc[t] /\ staged'[t] = staged[t]
    /\ \A t \in Sealers \ {s} :
          batch'[t] = batch[t] /\ leaf'[t] = leaf[t] /\ locked'[t] = locked[t]
    /\ \A a \in DOMAIN seals : a \in DOMAIN seals' /\ seals'[a].root = seals[a].root
    /\ \A a \in DOMAIN seals' \ DOMAIN seals :
          a \in StoredAddresses /\ \A t \in Sealers \ {s} : ~LeafStaged(t, a)
    /\ \A l \in staged'[s] : \A t \in Sealers \ {s} : ~LeafStaged(t, l.address)
    /\ SealInv(s)'

LEMMA SealKeeps ==
    ASSUME IInv, NEW s \in Sealers, SealStep(s)
    PROVE  IInv'
<1> USE ReceiptStoreAssumption
<1>1. Types /\ RowInv /\ SealedStored /\ WalkInv
  BY DEF IInv
<1>2. StoredAddresses' = StoredAddresses
  BY DEF StoredAddresses, SealStep
<1>3. Types'
  BY <1>1 DEF Types, SealStep
<1>4. RowInv'
  BY <1>1 DEF RowInv, SealStep
<1>5. SealedStored'
  BY <1>1, <1>2 DEF SealedStored, SealStep
<1>6. WalkInv'
  BY <1>1, WalkKept DEF SealStep
<1>7. ASSUME NEW p \in Appenders PROVE AppendInv(p)'
  <2>1. \A q \in Appenders : q \in Calls \ {s}
    BY DEF Calls
  <2>2. AppendInv(p) /\ pc'[p] = pc[p] /\ staged'[p] = staged[p] /\ backend' = backend
    BY <2>1 DEF IInv, SealStep
  <2>3. \A q \in Appenders : staged'[q] = staged[q]
    BY <2>1 DEF SealStep
  <2> QED
    BY <1>2, <2>2, <2>3 DEF AppendInv
<1>8. ASSUME NEW t \in Sealers PROVE SealInv(t)'
  <2>1. CASE t = s
    BY <2>1 DEF SealStep
  <2>2. CASE t # s
    <3>1. SealInv(t) /\ t \in Calls \ {s}
      BY <2>2 DEF IInv, Calls
    <3>2. /\ pc'[t] = pc[t] /\ staged'[t] = staged[t] /\ batch'[t] = batch[t]
          /\ leaf'[t] = leaf[t] /\ locked'[t] = locked[t] /\ backend' = backend
      BY <2>2, <3>1 DEF SealStep
    <3>3. ASSUME NEW l \in staged[t] PROVE l.address \notin DOMAIN seals'
      <4>1. l.address \notin DOMAIN seals /\ LeafStaged(t, l.address)
        BY <3>1 DEF SealInv, LeafStaged
      <4> QED
        BY <2>2, <4>1 DEF SealStep
    <3>4. ASSUME NEW u \in Sealers \ {t}, NEW l \in staged[t]
          PROVE  ~LeafStaged(u, l.address)'
      <4>1. CASE u = s
        <5>1. LeafStaged(t, l.address)
          BY DEF LeafStaged
        <5>2. ASSUME NEW m \in staged'[s] PROVE m.address # l.address
          BY <2>2, <5>1, <5>2 DEF SealStep
        <5> QED
          BY <4>1, <5>2 DEF LeafStaged
      <4>2. CASE u # s
        <5>1. staged'[u] = staged[u]
          BY <4>2 DEF SealStep, Calls
        <5>2. ~LeafStaged(u, l.address)
          BY <3>1 DEF SealInv
        <5> QED
          BY <5>1, <5>2 DEF LeafStaged
      <4> QED
        BY <4>1, <4>2
    <3>5. \A a \in DOMAIN seals : a \in DOMAIN seals' /\ seals'[a].root = seals[a].root
      BY DEF SealStep
    <3>6. SealFrame(t)
      BY <1>2, <3>2, <3>3, <3>4, <3>5 DEF SealFrame
    <3> QED
      BY <3>1, <3>6, SealKept
  <2> QED
    BY <2>1, <2>2
<1> QED
  BY <1>3, <1>4, <1>5, <1>6, <1>7, <1>8 DEF IInv

\* A receipt read back keeps its id, actor and signatures.
LEMMA RehydrateFacts ==
    ASSUME NEW r \in Receipts, NEW x \in rehydrate_receipt(r)
    PROVE  /\ x.n = r.n /\ x.actor = r.actor /\ x.sigs = r.sigs
           /\ x.n \in Int /\ x.ns \in Int
           /\ r.ns <= MaxI64 => x.ns = r.ns
           /\ backend = "memory" => x = r
<1>1. /\ r = [n |-> r.n, spec |-> r.spec, ns |-> r.ns, actor |-> r.actor, kind |-> r.kind,
              preds |-> r.preds, sigs |-> r.sigs]
      /\ r.n \in Nat /\ r.ns \in Nat /\ MaxI64 \in Nat
  BY ReceiptStoreAssumption DEF IsReceipt
<1>2. DOMAIN r = {"n", "spec", "ns", "actor", "kind", "preds", "sigs"}
  BY <1>1
<1>3. CASE backend = "memory"
  BY <1>1, <1>3 DEF rehydrate_receipt
<1>4. CASE backend # "memory"
  <2>1. PICK order :
           x = [r EXCEPT !.preds = order, !.ns = u64_to_i64(r.ns), !.spec = "1.0.0"]
    BY <1>4 DEF rehydrate_receipt
  <2>2. x.n = r.n /\ x.actor = r.actor /\ x.sigs = r.sigs /\ x.ns = u64_to_i64(r.ns)
    BY <1>2, <2>1
  <2>3. u64_to_i64(r.ns) \in Int /\ (r.ns <= MaxI64 => u64_to_i64(r.ns) = r.ns)
    BY <1>1 DEF u64_to_i64
  <2> QED
    BY <1>1, <1>4, <2>2, <2>3
<1> QED
  BY <1>3, <1>4

\* A call that is over holds nothing.
LEMMA Released ==
    ASSUME NEW s \in Sealers, ~Recording(s)', staged'[s] = {}, locked'[s] = {}
    PROVE  SealInv(s)'
<1>1. pc'[s] \notin {"lookup", "fill", "commit"}
  BY DEF Recording
<1> QED
  BY <1>1 DEF SealInv

LEMMA SealBeginStep ==
    ASSUME IInv, NEW s \in Sealers, SealBegin(s)
    PROVE  SealStep(s) /\ seals' = seals
<1> USE ReceiptStoreAssumption
<1>1. PICK chosen \in SUBSET rows :
         /\ chosen # {}
         /\ \E read \in [chosen -> UNION {rehydrate_receipt(r) : r \in chosen}] :
                /\ \A r \in chosen : read[r] \in rehydrate_receipt(r)
                /\ batch' = [batch EXCEPT ![s] =
                      seal_batch(LET order == SetToSeq(chosen)
                                 IN  [i \in DOMAIN order |-> read[order[i]]])]
  BY DEF SealBegin
<1>2. PICK read \in [chosen -> UNION {rehydrate_receipt(r) : r \in chosen}] :
                /\ \A r \in chosen : read[r] \in rehydrate_receipt(r)
                /\ batch' = [batch EXCEPT ![s] =
                      seal_batch(LET order == SetToSeq(chosen)
                                 IN  [i \in DOMAIN order |-> read[order[i]]])]
  BY <1>1
<1> DEFINE order == SetToSeq(chosen)
           list == [i \in DOMAIN order |-> read[order[i]]]
           len == Cardinality(chosen)
           b == seal_batch(list)
<1>3. batch' = [batch EXCEPT ![s] = b]
  BY <1>2
<1>4. IsFiniteSet(chosen)
  BY FS_Subset DEF IInv, Types
<1>5. len \in Nat /\ DOMAIN order = 1 .. len /\ Lists(order, len, chosen) /\ IsInjective(order)
  BY <1>4, SetToSeqFacts
<1> HIDE DEF order, len
<1>6. ASSUME NEW i \in 1 .. len
      PROVE  /\ order[i] \in chosen /\ order[i] \in rows /\ order[i] \in Receipts
             /\ list[i] = read[order[i]] /\ list[i] \in rehydrate_receipt(order[i])
  <2>1. order[i] \in chosen
    BY <1>5 DEF Lists
  <2>2. order[i] \in rows /\ order[i] \in Receipts
    BY <2>1 DEF IInv, Types
  <2> QED
    BY <1>2, <1>5, <2>1, <2>2
<1>7. DOMAIN list = 1 .. len
  BY <1>5
<1> HIDE DEF list
<1>8. ASSUME NEW i \in 1 .. len
      PROVE  /\ list[i].n = order[i].n /\ list[i].n \in Int /\ list[i].ns \in Int
             /\ backend = "memory" => list[i] = order[i]
  BY <1>6, RehydrateFacts
<1>9. Keyed(list, len)
  BY <1>5, <1>7, <1>8 DEF Keyed
<1>10. Distinct(list)
  <2>1. ASSUME NEW i \in 1 .. len, NEW j \in 1 .. len, list[i].n = list[j].n
        PROVE  i = j
    <3>1. order[i].n = order[j].n
      BY <1>8, <2>1
    <3>2. order[i] = order[j]
      BY <1>6, <3>1 DEF IInv, RowInv
    <3> QED
      BY <1>5, <3>2 DEF IsInjective
  <2> QED
    BY <1>7, <2>1 DEF Distinct
<1>11. len # 0
  BY <1>1, <1>5 DEF Lists
<1>12. GoodBatch(b) /\ LeafSet(b) = {content_address(list[i]) : i \in 1 .. len}
  BY <1>9, <1>10, <1>11, SealBatchFacts
<1> HIDE DEF b
<1>13. backend = "memory" => LeafSet(b) \subseteq StoredAddresses
  BY <1>6, <1>8, <1>12 DEF StoredAddresses
<1>14. /\ pc[s] = "seal" /\ pc' = [pc EXCEPT ![s] = "lookup"] /\ leaf' = [leaf EXCEPT ![s] = 1]
       /\ backend' = backend /\ rows' = rows /\ seals' = seals /\ staged' = staged
       /\ locked' = locked /\ walk' = walk
  BY DEF SealBegin, Called, Goto
<1>15. /\ DOMAIN pc = Calls /\ DOMAIN staged = Calls /\ s \in Calls
       /\ DOMAIN batch = Sealers /\ DOMAIN leaf = Sealers /\ DOMAIN locked = Sealers
       /\ SealInv(s)
  BY DEF IInv, Types, Calls
<1>16. /\ pc'[s] = "lookup" /\ leaf'[s] = 1 /\ batch'[s] = b
       /\ staged'[s] = {} /\ locked'[s] = {}
  BY <1>3, <1>14, <1>15 DEF SealInv, Recording
<1>17. 1 \in DOMAIN b.leaves /\ \A i \in DOMAIN b.leaves : ~(i < 1)
  BY <1>12 DEF GoodBatch
<1>18. DoneLeaves(s)' = {}
  <2>1. Done(s)' = {}
    BY <1>16, <1>17 DEF Done
  <2> QED
    BY <2>1 DEF DoneLeaves
<1>19. StoredAddresses' = StoredAddresses
  BY <1>14 DEF StoredAddresses
<1>20. SealInv(s)'
  BY <1>12, <1>13, <1>14, <1>16, <1>17, <1>18, <1>19 DEF SealInv, Recording
<1> QED
  BY <1>3, <1>14, <1>15, <1>16, <1>20 DEF SealStep

\* Moving on from a leaf, the sealer has dealt with it.
LEMMA AdvanceFacts ==
    ASSUME IInv, NEW s \in Sealers, pc[s] \in {"lookup", "fill"}, Advance(s), batch' = batch
    PROVE  /\ DOMAIN pc' = Calls /\ DOMAIN leaf' = Sealers
           /\ \A t \in Calls \ {s} : pc'[t] = pc[t]
           /\ \A t \in Sealers \ {s} : leaf'[t] = leaf[t]
           /\ pc'[s] \in {"lookup", "commit"}
           /\ pc'[s] = "lookup" => leaf'[s] \in DOMAIN batch[s].leaves
           /\ DoneLeaves(s)' = DoneLeaves(s) \union {AtLeaf(s).leaf}
<1>1. /\ DOMAIN pc = Calls /\ s \in Calls /\ DOMAIN leaf = Sealers /\ SealInv(s)
  BY DEF IInv, Types, Calls
<1>2. leaf[s] \in DOMAIN batch[s].leaves /\ GoodBatch(batch[s])
  BY <1>1 DEF SealInv, Recording
<1>3. PICK n \in Nat : n = Len(batch[s].leaves) /\ DOMAIN batch[s].leaves = 1 .. n
  BY <1>2 DEF GoodBatch
<1>4. CASE leaf[s] < n
  <2>1. leaf' = [leaf EXCEPT ![s] = @ + 1] /\ pc' = [pc EXCEPT ![s] = "lookup"]
    BY <1>3, <1>4 DEF Advance, Goto
  <2>2. leaf'[s] = leaf[s] + 1 /\ pc'[s] = "lookup"
    BY <1>1, <2>1
  <2>3. Done(s)' = Done(s) \union {leaf[s]}
    BY <1>2, <1>3, <2>2 DEF Done
  <2>4. leaf'[s] \in DOMAIN batch[s].leaves
    BY <1>2, <1>3, <1>4, <2>2
  <2>5. DoneLeaves(s)' = DoneLeaves(s) \union {AtLeaf(s).leaf}
    BY <2>3 DEF DoneLeaves, AtLeaf
  <2> QED
    BY <1>1, <2>1, <2>2, <2>4, <2>5
<1>5. CASE ~(leaf[s] < n)
  <2>1. leaf' = leaf /\ pc' = [pc EXCEPT ![s] = "commit"]
    BY <1>3, <1>5 DEF Advance, Goto
  <2>2. pc'[s] = "commit"
    BY <1>1, <2>1
  <2>3. Done(s)' = Done(s) \union {leaf[s]}
    BY <1>2, <1>3, <1>5, <2>1, <2>2 DEF Done
  <2>4. DoneLeaves(s)' = DoneLeaves(s) \union {AtLeaf(s).leaf}
    BY <2>3 DEF DoneLeaves, AtLeaf
  <2> QED
    BY <1>1, <2>1, <2>2, <2>4
<1> QED
  BY <1>4, <1>5

LEMMA SealLookupStep ==
    ASSUME IInv, NEW s \in Sealers, SealLookup(s)
    PROVE  SealStep(s) /\ seals' = seals
<1> DEFINE a == AtLeaf(s).leaf
<1>1. /\ DOMAIN pc = Calls /\ DOMAIN staged = Calls /\ s \in Calls
      /\ DOMAIN batch = Sealers /\ DOMAIN leaf = Sealers /\ DOMAIN locked = Sealers
      /\ SealInv(s)
  BY DEF IInv, Types, Calls
<1>2. /\ backend = "postgres" /\ pc[s] = "lookup"
      /\ backend' = backend /\ rows' = rows /\ seals' = seals /\ batch' = batch
      /\ walk' = walk
  BY DEF SealLookup, Called
<1>3. StoredAddresses' = StoredAddresses
  BY <1>2 DEF StoredAddresses
<1>4. CASE a \notin DOMAIN seals
  <2>1. pc' = [pc EXCEPT ![s] = "fill"] /\ staged' = staged /\ leaf' = leaf /\ locked' = locked
    BY <1>4 DEF SealLookup, Goto
  <2>2. pc'[s] = "fill"
    BY <1>1, <2>1
  <2>3. Done(s)' = Done(s)
    BY <1>2, <2>1, <2>2 DEF Done
  <2>4. DoneLeaves(s)' = DoneLeaves(s)
    BY <1>2, <2>3 DEF DoneLeaves
  <2>5. \A u \in Sealers, x \in {l.address : l \in staged[s]} \union DoneLeaves(s) :
           LeafStaged(u, x)' <=> LeafStaged(u, x)
    BY <2>1 DEF LeafStaged
  <2>6. SealInv(s)'
    BY <1>1, <1>2, <1>3, <2>1, <2>2, <2>4, <2>5 DEF SealInv, Recording
  <2> QED
    BY <1>1, <1>2, <2>1, <2>6 DEF SealStep, SealInv
<1>5. CASE a \in DOMAIN seals /\ seals[a].root # batch[s].root
  <2>1. /\ pc' = [pc EXCEPT ![s] = "invalid"] /\ staged' = [staged EXCEPT ![s] = {}]
        /\ locked' = [locked EXCEPT ![s] = {}] /\ leaf' = leaf
    BY <1>5 DEF SealLookup, Release, Drop, Goto
  <2>2. pc'[s] = "invalid" /\ staged'[s] = {} /\ locked'[s] = {}
    BY <1>1, <2>1
  <2>3. SealInv(s)'
    BY <2>2, Released DEF Recording
  <2> QED
    BY <1>1, <1>2, <2>1, <2>2, <2>3 DEF SealStep
<1>6. CASE a \in DOMAIN seals /\ seals[a].root = batch[s].root
  <2>1. /\ locked' = [locked EXCEPT ![s] = @ \union {a}] /\ Advance(s) /\ staged' = staged
    BY <1>6 DEF SealLookup
  <2>2. locked'[s] = locked[s] \union {a} /\ staged'[s] = staged[s] /\ batch'[s] = batch[s]
    BY <1>1, <1>2, <2>1
  <2>3. /\ DOMAIN pc' = Calls /\ DOMAIN leaf' = Sealers
        /\ \A t \in Calls \ {s} : pc'[t] = pc[t]
        /\ \A t \in Sealers \ {s} : leaf'[t] = leaf[t]
        /\ pc'[s] \in {"lookup", "commit"}
        /\ pc'[s] = "lookup" => leaf'[s] \in DOMAIN batch[s].leaves
        /\ DoneLeaves(s)' = DoneLeaves(s) \union {a}
    BY <1>2, <2>1, AdvanceFacts
  <2> HIDE DEF a
  <2>4. \A u \in Sealers : \A x : LeafStaged(u, x)' <=> LeafStaged(u, x)
    BY <2>1 DEF LeafStaged
  <2>5. SealInv(s)'
    BY <1>1, <1>2, <1>3, <1>6, <2>2, <2>3, <2>4 DEF SealInv, Recording
  <2> QED
    BY <1>1, <1>2, <2>1, <2>3, <2>5 DEF SealStep, SealInv
<1> QED
  BY <1>4, <1>5, <1>6

LEMMA SealInsertStep ==
    ASSUME IInv, NEW s \in Sealers, SealInsert(s)
    PROVE  SealStep(s) /\ seals' = seals
<1> DEFINE a == AtLeaf(s).leaf
           new == [address |-> a, seal |-> Seal(s, AtLeaf(s))]
<1>1. /\ DOMAIN pc = Calls /\ DOMAIN staged = Calls /\ s \in Calls
      /\ DOMAIN batch = Sealers /\ DOMAIN leaf = Sealers /\ DOMAIN locked = Sealers
      /\ SealInv(s)
  BY DEF IInv, Types, Calls
<1>2. /\ pc[s] = "fill"
      /\ backend' = backend /\ rows' = rows /\ seals' = seals /\ batch' = batch
      /\ walk' = walk
  BY DEF SealInsert, Called
<1>3. StoredAddresses' = StoredAddresses
  BY <1>2 DEF StoredAddresses
<1>4. CASE a \in DOMAIN seals \/ a \notin StoredAddresses
  <2>1. /\ pc' = [pc EXCEPT ![s] = "failed"] /\ staged' = [staged EXCEPT ![s] = {}]
        /\ locked' = [locked EXCEPT ![s] = {}] /\ leaf' = leaf
    BY <1>4 DEF SealInsert, Release, Drop, Goto
  <2>2. pc'[s] = "failed" /\ staged'[s] = {} /\ locked'[s] = {}
    BY <1>1, <2>1
  <2>3. SealInv(s)'
    BY <2>2, Released DEF Recording
  <2> QED
    BY <1>1, <1>2, <2>1, <2>2, <2>3 DEF SealStep
<1>5. CASE a \notin DOMAIN seals /\ a \in StoredAddresses
  <2>1. /\ staged' = [staged EXCEPT ![s] = @ \union {new}] /\ Advance(s) /\ locked' = locked
    BY <1>5 DEF SealInsert
  <2>2. staged'[s] = staged[s] \union {new} /\ locked'[s] = locked[s] /\ batch'[s] = batch[s]
    BY <1>1, <1>2, <2>1
  <2>3. /\ DOMAIN pc' = Calls /\ DOMAIN leaf' = Sealers
        /\ \A t \in Calls \ {s} : pc'[t] = pc[t]
        /\ \A t \in Sealers \ {s} : leaf'[t] = leaf[t]
        /\ pc'[s] \in {"lookup", "commit"}
        /\ pc'[s] = "lookup" => leaf'[s] \in DOMAIN batch[s].leaves
        /\ DoneLeaves(s)' = DoneLeaves(s) \union {a}
    BY <1>2, <2>1, AdvanceFacts
  <2>4. new.address = a /\ new.seal.root = batch[s].root
    BY DEF Seal
  <2>5. \A t \in Sealers \ {s} : ~LeafStaged(t, a)
    BY <1>2 DEF SealInsert, CanRun, WaitsFor
  <2> HIDE DEF a, new
  <2>6. \A t \in Sealers \ {s} : \A x : LeafStaged(t, x)' <=> LeafStaged(t, x)
    BY <1>1, <2>1 DEF LeafStaged, Calls
  <2>7. \A x : LeafStaged(s, x)' <=> LeafStaged(s, x) \/ x = a
    BY <2>2, <2>4 DEF LeafStaged
  <2>8. \A l \in staged'[s] : \A t \in Sealers \ {s} : ~LeafStaged(t, l.address)
    BY <1>1, <2>2, <2>4, <2>5 DEF SealInv
  <2>9. backend = "postgres"
    BY <1>1, <1>2 DEF SealInv, IInv, Types
  <2>10. \A l \in staged'[s] :
            /\ l.address \in DoneLeaves(s)' /\ l.seal.root = batch'[s].root
            /\ l.address \in StoredAddresses' \ DOMAIN seals'
    BY <1>1, <1>2, <1>3, <1>5, <2>2, <2>3, <2>4 DEF SealInv
  <2>11. \A x \in DoneLeaves(s)' :
             LeafStaged(s, x)' \/ (x \in DOMAIN seals' /\ seals'[x].root = batch'[s].root)
    BY <1>1, <1>2, <2>2, <2>3, <2>7, <2>9 DEF SealInv, Recording
  <2>12. locked'[s] \subseteq DoneLeaves(s)'
    BY <1>1, <2>2, <2>3 DEF SealInv
  <2>13. GoodBatch(batch'[s])
    BY <1>1, <1>2 DEF SealInv, Recording
  <2>14. SealInv(s)'
    BY <1>2, <2>2, <2>3, <2>6, <2>8, <2>9, <2>10, <2>11, <2>12, <2>13 DEF SealInv, Recording
  <2> QED
    BY <1>1, <1>2, <2>1, <2>3, <2>8, <2>14 DEF SealStep
<1> QED
  BY <1>4, <1>5

\* The whole batch of s is sealed, and nothing else is touched.
Sealed(s) ==
    LET B == LeafSet(batch[s]) IN
    /\ rows' = rows /\ B # {} /\ B \subseteq StoredAddresses
    /\ RootOf(B) = batch[s].root
    /\ \A a \in B \intersect DOMAIN seals : seals[a].root = batch[s].root
    /\ DOMAIN seals' = B \union DOMAIN seals
    /\ \A a \in DOMAIN seals' :
          seals'[a].root = IF a \in B THEN batch[s].root ELSE seals[a].root

LEMMA MemoryRecordStep ==
    ASSUME IInv, NEW s \in Sealers, MemoryRecord(s)
    PROVE  SealStep(s) /\ (seals' = seals \/ Sealed(s))
<1> DEFINE B == LeafSet(batch[s])
           ls == ToSet(batch[s].leaves)
           new == [a \in {l.leaf : l \in ls} |-> Seal(s, CHOOSE l \in ls : l.leaf = a)]
<1>1. /\ DOMAIN pc = Calls /\ DOMAIN staged = Calls /\ s \in Calls
      /\ DOMAIN batch = Sealers /\ DOMAIN leaf = Sealers /\ DOMAIN locked = Sealers
      /\ SealInv(s)
  BY DEF IInv, Types, Calls
<1>2. /\ backend = "memory" /\ pc[s] = "lookup"
      /\ backend' = backend /\ rows' = rows /\ staged' = staged /\ batch' = batch
      /\ leaf' = leaf /\ locked' = locked /\ walk' = walk
  BY DEF MemoryRecord, Called
<1>3. ASSUME NEW t \in Sealers PROVE staged[t] = {} /\ locked[t] = {}
  BY <1>2 DEF IInv, SealInv
<1>4. CASE Conflicts(s)
  <2>1. pc' = [pc EXCEPT ![s] = "invalid"] /\ seals' = seals
    BY <1>4 DEF MemoryRecord, Goto
  <2>2. pc'[s] = "invalid" /\ staged'[s] = {} /\ locked'[s] = {}
    BY <1>1, <1>2, <1>3, <2>1
  <2>3. SealInv(s)'
    BY <2>2, Released DEF Recording
  <2> QED
    BY <1>1, <1>2, <2>1, <2>2, <2>3 DEF SealStep
<1>5. CASE ~Conflicts(s)
  <2>1. pc' = [pc EXCEPT ![s] = "sealed"] /\ seals' = Overlay(new, seals)
    BY <1>5 DEF MemoryRecord, Goto
  <2>2. pc'[s] = "sealed" /\ staged'[s] = {} /\ locked'[s] = {}
    BY <1>1, <1>2, <1>3, <2>1
  <2>3. SealInv(s)'
    BY <2>2, Released DEF Recording
  <2>4. {l.leaf : l \in ls} = B
    BY DEF ToSet, LeafSet
  <2>5. DOMAIN new = B /\ \A a \in B : new[a].root = batch[s].root
    BY <2>4 DEF Seal
  <2> HIDE DEF new, ls
  <2>6. /\ DOMAIN seals' = B \union DOMAIN seals
        /\ \A a \in DOMAIN seals' :
              seals'[a].root = IF a \in B THEN batch[s].root ELSE seals[a].root
    BY <2>1, <2>5 DEF Overlay
  <2>7. \A a \in B \intersect DOMAIN seals : seals[a].root = batch[s].root
    BY <1>5 DEF Conflicts, LeafSet
  <2>8. B \subseteq StoredAddresses /\ GoodBatch(batch[s])
    BY <1>1, <1>2 DEF SealInv, Recording
  <2>9. B # {} /\ RootOf(B) = batch[s].root
    <3>1. 1 \in DOMAIN batch[s].leaves
      BY <2>8 DEF GoodBatch
    <3> QED
      BY <2>8, <3>1 DEF GoodBatch, LeafSet
  <2>10. Sealed(s)
    BY <1>2, <2>6, <2>7, <2>8, <2>9 DEF Sealed
  <2>11. \A t \in Sealers : \A a : ~LeafStaged(t, a)
    BY <1>3 DEF LeafStaged
  <2> HIDE DEF B
  <2>12. /\ \A a \in DOMAIN seals : a \in DOMAIN seals' /\ seals'[a].root = seals[a].root
         /\ \A a \in DOMAIN seals' \ DOMAIN seals : a \in StoredAddresses
    BY <2>6, <2>7, <2>8
  <2> QED
    BY <1>1, <1>2, <2>1, <2>2, <2>3, <2>10, <2>11, <2>12 DEF SealStep
<1> QED
  BY <1>4, <1>5

\* Committing seals the whole batch: each leaf is staged or already sealed under
\* the same root.
LEMMA AppliedFacts ==
    ASSUME IInv, NEW s \in Sealers, pc[s] = "commit", rows' = rows, seals' = Applied(s)
    PROVE  /\ Sealed(s)
           /\ \A a \in DOMAIN seals : a \in DOMAIN seals' /\ seals'[a].root = seals[a].root
           /\ \A a \in DOMAIN seals' \ DOMAIN seals :
                 a \in StoredAddresses /\ \A t \in Sealers \ {s} : ~LeafStaged(t, a)
<1> DEFINE B == LeafSet(batch[s])
           N == {l.address : l \in staged[s]}
           new == [a \in N |-> (CHOOSE l \in staged[s] : l.address = a).seal]
<1>1. SealInv(s) /\ backend = "postgres" /\ SealedStored
  BY DEF IInv, SealInv, Types
<1>2. GoodBatch(batch[s])
  BY <1>1 DEF SealInv, Recording
<1>3. DoneLeaves(s) = B
  BY DEF DoneLeaves, Done, LeafSet
<1>4. ASSUME NEW a \in N
      PROVE  /\ a \in B /\ a \in StoredAddresses /\ a \notin DOMAIN seals
             /\ new[a].root = batch[s].root
             /\ \A t \in Sealers \ {s} : ~LeafStaged(t, a)
  <2>1. PICK l \in staged[s] : l.address = a /\ new[a] = l.seal
    BY <1>4
  <2> QED
    BY <1>1, <1>3, <2>1 DEF SealInv
<1>5. DOMAIN new = N
  OBVIOUS
<1>6. seals' = Overlay(new, seals)
  BY DEF Applied
<1>7. ASSUME NEW a \in B
      PROVE  a \in N \/ (a \in DOMAIN seals /\ seals[a].root = batch[s].root)
  BY <1>1, <1>3 DEF SealInv, Recording, LeafStaged
<1>8. B # {} /\ RootOf(B) = batch[s].root
  <2>1. 1 \in DOMAIN batch[s].leaves
    BY <1>2 DEF GoodBatch
  <2> QED
    BY <1>2, <2>1 DEF GoodBatch, LeafSet
<1> HIDE DEF new, N, B
<1>9. DOMAIN seals' = N \union DOMAIN seals
  BY <1>5, <1>6 DEF Overlay
<1>10. \A a \in DOMAIN seals' : seals'[a] = IF a \in N THEN new[a] ELSE seals[a]
  BY <1>5, <1>6, <1>9 DEF Overlay
<1>11. DOMAIN seals' = B \union DOMAIN seals
  BY <1>4, <1>7, <1>9
<1>12. \A a \in DOMAIN seals' :
          seals'[a].root = IF a \in B THEN batch[s].root ELSE seals[a].root
  BY <1>4, <1>7, <1>10
<1>13. B \subseteq StoredAddresses
  BY <1>1, <1>4, <1>7 DEF SealedStored
<1>14. \A a \in B \intersect DOMAIN seals : seals[a].root = batch[s].root
  BY <1>4, <1>7
<1>15. Sealed(s)
  BY <1>8, <1>11, <1>12, <1>13, <1>14 DEF Sealed, B
<1> QED
  BY <1>4, <1>9, <1>10, <1>15

LEMMA SealCommitStep ==
    ASSUME IInv, NEW s \in Sealers, SealCommit(s) \/ SealLost(s)
    PROVE  SealStep(s) /\ (seals' = seals \/ Sealed(s))
<1>1. /\ DOMAIN pc = Calls /\ DOMAIN staged = Calls /\ s \in Calls
      /\ DOMAIN batch = Sealers /\ DOMAIN leaf = Sealers /\ DOMAIN locked = Sealers
  BY DEF IInv, Types, Calls
<1>2. /\ backend' = backend /\ rows' = rows /\ batch' = batch /\ leaf' = leaf /\ walk' = walk
      /\ staged' = [staged EXCEPT ![s] = {}] /\ locked' = [locked EXCEPT ![s] = {}]
      /\ pc' = [pc EXCEPT ![s] = "sealed"] \/ pc' = [pc EXCEPT ![s] = "failed"]
      /\ seals' = seals \/ (seals' = Applied(s) /\ pc[s] = "commit")
  BY DEF SealCommit, SealLost, Release, Drop, Goto, Called
<1>3. pc'[s] \in {"sealed", "failed"} /\ staged'[s] = {} /\ locked'[s] = {}
  BY <1>1, <1>2
<1>4. SealInv(s)'
  BY <1>3, Released DEF Recording
<1>5. CASE seals' = seals
  BY <1>1, <1>2, <1>3, <1>4, <1>5 DEF SealStep
<1>6. CASE seals' = Applied(s) /\ pc[s] = "commit"
  <2>1. /\ Sealed(s)
        /\ \A a \in DOMAIN seals : a \in DOMAIN seals' /\ seals'[a].root = seals[a].root
        /\ \A a \in DOMAIN seals' \ DOMAIN seals :
              a \in StoredAddresses /\ \A t \in Sealers \ {s} : ~LeafStaged(t, a)
    BY <1>2, <1>6, AppliedFacts
  <2> QED
    BY <1>1, <1>2, <1>3, <1>4, <2>1 DEF SealStep
<1> QED
  BY <1>2, <1>5, <1>6

-----------------------------------------------------------------------------
(* Steps of the reader *)

\* The rows a query of the walk still has to return.
Remaining ==
    {r \in rows : /\ Matches(walk.query, r)
                  /\ walk.cursor = <<>> \/ Before(walk.cursor, Key(r))}

\* A page is the first m of the n rows that remain, in order, read back.
PageRead(found, n, read, m) ==
    /\ Sorted(found, n) /\ Lists(found, n, Remaining)
    /\ m \in Nat /\ m <= n /\ (m < n => m # 0)
    /\ DOMAIN read = 1 .. m /\ \E S : read \in Seq(S)
    /\ \A i \in 1 .. m : i \in 1 .. n /\ found[i] \in rows /\ read[i] \in rehydrate_receipt(found[i])
    /\ walk' = [walk EXCEPT !.got = @ \o read, !.end = ~(m < n),
                            !.cursor = IF m < n THEN Key(found[m]) ELSE @]
    /\ backend' = backend /\ rows' = rows /\ seals' = seals
    /\ pc' = pc /\ staged' = staged /\ batch' = batch /\ leaf' = leaf /\ locked' = locked

LEMMA QueryReads ==
    ASSUME IInv, query
    PROVE  \E found, n, read, m : PageRead(found, n, read, m)
<1> DEFINE F == Remaining
           list == SetToSeq(F)
           found == AfterCursor(walk.query, walk.cursor)
           n == Cardinality(F)
           more == backend = "postgres" /\ Len(found) > PageLimit
           page == IF more THEN SubSeq(found, 1, PageLimit) ELSE found
           m == IF more THEN PageLimit ELSE n
<1>1. found = Canonically(list)
  BY DEF AfterCursor, Remaining
<1>2. Types /\ RowInv /\ F \in SUBSET rows
  BY DEF IInv, Remaining
<1>3. IsFiniteSet(F)
  BY <1>2, FS_Subset DEF Types
<1>4. n \in Nat /\ DOMAIN list = 1 .. n /\ Lists(list, n, F) /\ IsInjective(list)
  BY <1>3, SetToSeqFacts
<1> HIDE DEF F, list, n, found
<1>5. ASSUME NEW i \in 1 .. n
      PROVE  list[i] \in rows /\ list[i].n \in Int /\ list[i].ns \in Int
  <2>1. list[i] \in rows /\ list[i] \in Receipts
    BY <1>2, <1>4 DEF Lists, Types
  <2> QED
    <3>1. list[i].n \in Nat /\ list[i].ns \in Nat
      BY <2>1, ReceiptStoreAssumption DEF IsReceipt
    <3> QED
      BY <2>1, <3>1
<1>6. Keyed(list, n)
  BY <1>4, <1>5 DEF Keyed
<1>7. Distinct(list)
  BY <1>2, <1>4, <1>5 DEF Distinct, RowInv, IsInjective
<1>8. Sorted(found, n) /\ Lists(found, n, F)
  BY <1>1, <1>4, <1>6, <1>7, CanonicalFacts
<1>9. DOMAIN found = 1 .. n
  BY <1>8 DEF Sorted, Keyed
<1>10. Len(found) = n
  BY <1>4, <1>9
<1>11. PageLimit \in Nat \ {0}
  BY ReceiptStoreAssumption
<1>12. m \in Nat /\ m <= n /\ (m < n <=> more) /\ (m < n => m # 0)
  BY <1>4, <1>10, <1>11
<1>13. DOMAIN page = 1 .. m /\ \A i \in 1 .. m : page[i] = found[i]
  <2>1. CASE more
    <3>1. SubSeq(found, 1, PageLimit) = [i \in 1 .. PageLimit |-> found[i]]
      BY <1>11
    <3> QED
      BY <2>1, <3>1
  <2>2. CASE ~more
    BY <1>9, <2>2
  <2> QED
    BY <2>1, <2>2
<1>14. PICK read \in [DOMAIN page -> UNION {rehydrate_receipt(r) : r \in ToSet(page)}] :
         /\ \A i \in DOMAIN page : read[i] \in rehydrate_receipt(page[i])
         /\ walk' = [walk EXCEPT !.got = @ \o read, !.end = ~more,
                                 !.cursor = IF more THEN Key(page[Len(page)]) ELSE @]
  BY DEF query, found
<1> HIDE DEF page, m
<1>15. DOMAIN read = 1 .. m /\ read \in Seq(UNION {rehydrate_receipt(r) : r \in ToSet(page)})
  BY <1>12, <1>13, <1>14
<1>16. Len(page) = m
  BY <1>12, <1>13
<1>17. more => page[Len(page)] = found[m]
  BY <1>12, <1>13, <1>16
<1>18. ASSUME NEW i \in 1 .. m
       PROVE  i \in 1 .. n /\ found[i] \in rows /\ read[i] \in rehydrate_receipt(found[i])
  <2>1. i \in 1 .. n
    BY <1>4, <1>12
  <2>2. found[i] \in rows
    BY <1>2, <1>8, <2>1 DEF Lists
  <2> QED
    BY <1>13, <1>14, <2>1, <2>2
<1>19. walk' = [walk EXCEPT !.got = @ \o read, !.end = ~(m < n),
                            !.cursor = IF m < n THEN Key(found[m]) ELSE @]
  <2>1. CASE more
    BY <1>12, <1>14, <1>17, <2>1
  <2>2. CASE ~more
    BY <1>12, <1>14, <2>2
  <2> QED
    BY <2>1, <2>2
<1>20. /\ backend' = backend /\ rows' = rows /\ seals' = seals
       /\ pc' = pc /\ staged' = staged /\ batch' = batch /\ leaf' = leaf /\ locked' = locked
  BY DEF query, callVars
<1>21. PageRead(found, n, read, m)
  BY <1>8, <1>12, <1>15, <1>18, <1>19, <1>20 DEF PageRead, F
<1> QED
  BY <1>21

\* Nothing but the walk and the count of faults moves.
WalkStep ==
    /\ backend' = backend /\ rows' = rows /\ seals' = seals
    /\ pc' = pc /\ staged' = staged /\ batch' = batch /\ leaf' = leaf /\ locked' = locked

LEMMA WalkKeeps ==
    ASSUME IInv, WalkStep, WalkInv'
    PROVE  IInv'
<1> USE DEF WalkStep
<1>1. StoredAddresses' = StoredAddresses
  BY DEF StoredAddresses
<1>2. Types' /\ RowInv' /\ SealedStored'
  BY <1>1 DEF IInv, Types, RowInv, SealedStored
<1>3. ASSUME NEW p \in Appenders PROVE AppendInv(p)'
  BY <1>1 DEF IInv, AppendInv
<1>4. ASSUME NEW s \in Sealers PROVE SealInv(s)'
  <2>1. SealInv(s)
    BY DEF IInv
  <2>2. \A u \in Sealers : \A a : LeafStaged(u, a)' <=> LeafStaged(u, a)
    BY DEF LeafStaged
  <2>3. SealFrame(s)
    BY <1>1, <2>1, <2>2 DEF SealFrame, SealInv
  <2> QED
    BY <2>1, <2>3, SealKept
<1> QED
  BY <1>2, <1>3, <1>4 DEF IInv

\* At most one predecessor comes back in the one order there is.
LEMMA OneOrder ==
    ASSUME NEW s, NEW len \in {0, 1}, s = [i \in 1 .. len |-> s[i]], NEW o \in SetToSeqs(ToSet(s))
    PROVE  o = s
<1>1. CASE len = 0
  <2>1. DOMAIN s = {} /\ ToSet(s) = {}
    BY <1>1 DEF ToSet
  <2>2. Cardinality(ToSet(s)) = 0
    BY <2>1, FS_EmptySet
  <2>3. o \in [1 .. 0 -> ToSet(s)]
    BY <2>2 DEF SetToSeqs
  <2> QED
    BY <1>1, <2>3
<1>2. CASE len = 1
  <2>1. ToSet(s) = {s[1]}
    BY <1>2 DEF ToSet
  <2>2. Cardinality({s[1]}) = 1
    BY FS_Singleton
  <2>3. o \in [1 .. 1 -> {s[1]}]
    BY <2>1, <2>2 DEF SetToSeqs
  <2> QED
    BY <1>2, <2>3
<1> QED
  BY <1>1, <1>2

\* What fits the columns comes back as it was.
LEMMA SurvivorsUnchanged ==
    ASSUME NEW r \in Receipts, NEW x \in rehydrate_receipt(r), Survives(r)
    PROVE  x = r
<1>1. /\ r = [n |-> r.n, spec |-> r.spec, ns |-> r.ns, actor |-> r.actor, kind |-> r.kind,
              preds |-> r.preds, sigs |-> r.sigs]
      /\ r.ns \in Nat /\ MaxI64 \in Nat
  BY ReceiptStoreAssumption DEF IsReceipt
<1>2. Len(r.preds) \in Nat /\ r.preds = [i \in 1 .. Len(r.preds) |-> r.preds[i]]
  BY ReceiptStoreAssumption DEF IsReceipt, IsList
<1>3. CASE backend = "memory"
  BY <1>3 DEF rehydrate_receipt
<1>4. CASE backend # "memory"
  <2>1. PICK order \in SetToSeqs(ToSet(r.preds)) :
           x = [r EXCEPT !.preds = order, !.ns = u64_to_i64(r.ns), !.spec = "1.0.0"]
    BY <1>4 DEF rehydrate_receipt
  <2>2. Len(r.preds) <= 1 /\ r.ns <= MaxI64 /\ r.spec = "1.0.0"
    BY <1>4 DEF Survives
  <2>3. Len(r.preds) \in {0, 1}
    <3> DEFINE len == Len(r.preds)
    <3>1. len \in Nat /\ len <= 1
      BY <1>2, <2>2
    <3> HIDE DEF len
    <3>2. len \in {0, 1}
      BY <3>1
    <3> QED
      BY <3>2 DEF len
  <2>4. order = r.preds
    BY <1>2, <2>3, OneOrder
  <2>5. u64_to_i64(r.ns) = r.ns
    BY <1>1, <2>2 DEF u64_to_i64
  <2> QED
    BY <1>1, <2>1, <2>2, <2>4, <2>5
<1> QED
  BY <1>3, <1>4

\* A receipt read back verifies exactly if its canonical bytes are what they were.
LEMMA ReadVerifies ==
    ASSUME NEW r \in Receipts, NEW x \in rehydrate_receipt(r), verify_pre_append(r)
    PROVE  verify_pre_append(x) <=> content_address(x) = content_address(r)
<1>1. x.actor = r.actor /\ x.sigs = r.sigs
  BY RehydrateFacts
<1>2. ASSUME content_address(x) = content_address(r) PROVE verify_pre_append(x)
  BY <1>1, <1>2
     DEF verify_pre_append, resolve_actor, verify_receipt_signatures, enforce_canonical_order,
         verify
<1>3. ASSUME verify_pre_append(x) PROVE content_address(x) = content_address(r)
  <2> DEFINE A == {i \in DOMAIN r.sigs : r.sigs[i].role = "Actor"}
  <2>1. PICK i \in A : verify(x, r.sigs[i]) /\ \A k \in A : i <= k
    BY <1>1, <1>3 DEF verify_pre_append, verify_receipt_signatures
  <2>2. PICK j \in A : verify(r, r.sigs[j]) /\ \A k \in A : j <= k
    BY DEF verify_pre_append, verify_receipt_signatures
  <2>3. i = j
    <3>1. Len(r.sigs) \in Nat /\ r.sigs = [k \in 1 .. Len(r.sigs) |-> r.sigs[k]]
      BY ReceiptStoreAssumption DEF IsReceipt, IsList
    <3>2. DOMAIN r.sigs = 1 .. Len(r.sigs)
      BY <3>1
    <3>3. i \in Nat /\ j \in Nat
      BY <3>1, <3>2
    <3>4. i <= j /\ j <= i
      BY <2>1, <2>2
    <3> QED
      BY <3>3, <3>4
  <2> QED
    BY <2>1, <2>2, <2>3 DEF verify
<1> QED
  BY <1>2, <1>3

\* What a walk has after a page: what it had, then the page.
LEMMA PageAppended ==
    ASSUME IInv, NEW found, NEW n, NEW read, NEW m, PageRead(found, n, read, m)
    PROVE  \E len \in Nat :
              /\ DOMAIN walk.got = 1 .. len /\ DOMAIN walk'.got = 1 .. len + m
              /\ \A i \in 1 .. len : walk'.got[i] = walk.got[i]
              /\ \A i \in 1 .. m : walk'.got[len + i] = read[i]
              /\ \E S : walk'.got \in Seq(S)
<1>1. DOMAIN walk = {"on", "query", "cursor", "had", "got", "end"}
  BY DEF IInv, WalkInv
<1>2. PICK S : walk.got \in Seq(S)
  BY DEF IInv, WalkInv
<1>3. PICK T : read \in Seq(T)
  BY DEF PageRead
<1>4. walk'.got = walk.got \o read
  BY <1>1 DEF PageRead
<1>5. walk.got \in Seq(S \union T) /\ read \in Seq(S \union T)
  BY <1>2, <1>3
<1>6. m \in Nat /\ Len(read) = m
  BY <1>3 DEF PageRead
<1>7. PICK len \in Nat : len = Len(walk.got) /\ DOMAIN walk.got = 1 .. len
  BY <1>2
<1>8. walk'.got \in Seq(S \union T) /\ Len(walk'.got) = len + m
  <2>1. (walk.got \o read) \in Seq(S \union T)
    BY <1>5
  <2>2. Len(walk.got \o read) = Len(walk.got) + Len(read)
    BY <1>5
  <2> QED
    BY <1>4, <1>6, <1>7, <2>1, <2>2
<1>9. \A i \in 1 .. len : walk'.got[i] = walk.got[i]
  BY <1>4, <1>5, <1>6, <1>7
<1>10. ASSUME NEW i \in 1 .. m PROVE walk'.got[len + i] = read[i]
  <2>1. len + i \in 1 .. len + m /\ ~(len + i <= len) /\ (len + i) - len = i
    BY <1>6
  <2>2. (walk.got \o read)[len + i] = read[(len + i) - len]
    BY <1>5, <1>6, <1>7, <2>1
  <2> QED
    BY <1>4, <2>1, <2>2
<1>11. DOMAIN walk'.got = 1 .. len + m
  BY <1>6, <1>8
<1> QED
  BY <1>7, <1>8, <1>9, <1>10, <1>11

LEMMA WalkSteps ==
    ASSUME IInv, query \/ \E q \in Queries : WalkBegin(q)
    PROVE  IInv' /\ WalkStep
<1>1. WalkStep
  BY DEF WalkStep, query, WalkBegin, callVars
<1>2. CASE \E q \in Queries : WalkBegin(q)
  <2>1. PICK q \in Queries : WalkBegin(q)
    BY <1>2
  <2>2. /\ DOMAIN walk' = {"on", "query", "cursor", "had", "got", "end"}
        /\ walk'.got = <<>>
    BY <2>1 DEF WalkBegin, Idle
  <2>3. walk'.got \in Seq({}) /\ DOMAIN walk'.got = {}
    BY <2>2
  <2>4. WalkInv'
    BY <2>2, <2>3 DEF WalkInv
  <2> QED
    BY <1>1, <2>4, WalkKeeps
<1>3. CASE query
  <2>1. PICK found, n, read, m : PageRead(found, n, read, m)
    BY <1>3, QueryReads
  <2>2. PICK len \in Nat :
           /\ DOMAIN walk.got = 1 .. len /\ DOMAIN walk'.got = 1 .. len + m
           /\ \A i \in 1 .. len : walk'.got[i] = walk.got[i]
           /\ \A i \in 1 .. m : walk'.got[len + i] = read[i]
           /\ \E S : walk'.got \in Seq(S)
    BY <2>1, PageAppended
  <2>3. ASSUME NEW i \in 1 .. len + m
        PROVE  \E r \in rows' : walk'.got[i] \in rehydrate_receipt(r)'
    <3>0. rows' = rows /\ \A r : rehydrate_receipt(r)' = rehydrate_receipt(r)
      BY <1>3 DEF query, rehydrate_receipt, u64_to_i64
    <3>1. m \in Nat
      BY <2>1 DEF PageRead
    <3>2. CASE i \in 1 .. len
      BY <2>2, <3>0, <3>2 DEF IInv, WalkInv
    <3>3. CASE i \notin 1 .. len
      <4>1. PICK j \in 1 .. m : i = len + j
        <5>1. i - len \in 1 .. m /\ i = len + (i - len)
          BY <3>1, <3>3
        <5> QED
          BY <5>1
      <4>2. walk'.got[i] = read[j]
        BY <2>2, <4>1
      <4>3. found[j] \in rows /\ read[j] \in rehydrate_receipt(found[j])
        BY <2>1 DEF PageRead
      <4> QED
        BY <3>0, <4>2, <4>3
    <3> QED
      BY <3>2, <3>3
  <2>4. DOMAIN walk' = {"on", "query", "cursor", "had", "got", "end"}
    BY <2>1 DEF IInv, WalkInv, PageRead
  <2>5. WalkInv'
    BY <2>2, <2>3, <2>4 DEF WalkInv
  <2> QED
    BY <1>1, <2>5, WalkKeeps
<1> QED
  BY <1>2, <1>3

-----------------------------------------------------------------------------
(* Pages *)

LEMMA BeforeOrder ==
    ASSUME NEW c, NEW x, NEW y, IsKey(c), IsKey(x), IsKey(y)
    PROVE  /\ Before(x, y) => x # y /\ ~Before(y, x)
           /\ Before(c, y) /\ ~Before(c, x) => x # y /\ ~Before(y, x)
           /\ c # <<>>
<1>1. PICK a, b, d, e, f, g \in Int :
         a = c[1] /\ b = c[2] /\ d = x[1] /\ e = x[2] /\ f = y[1] /\ g = y[2]
  BY DEF IsKey
<1>2. /\ Before(x, y) <=> d < f \/ (d = f /\ e < g)
      /\ Before(y, x) <=> f < d \/ (f = d /\ g < e)
      /\ Before(c, y) <=> a < f \/ (a = f /\ b < g)
      /\ Before(c, x) <=> a < d \/ (a = d /\ b < e)
  BY <1>1 DEF Before
<1>3. Before(x, y) => x # y /\ ~Before(y, x)
  BY <1>1, <1>2
<1>4. Before(c, y) /\ ~Before(c, x) => x # y /\ ~Before(y, x)
  BY <1>1, <1>2
<1>5. c # <<>>
  <2>1. \A u, v \in Int : <<u, v>> # << >>
    OBVIOUS
  <2> QED
    BY <2>1 DEF IsKey
<1> QED
  BY <1>3, <1>4, <1>5

\* The rows of a page, their keys and where they are in the walk.
LEMMA PageKeys ==
    ASSUME IInv, TimesFit, NEW found, NEW n, NEW read, NEW m, PageRead(found, n, read, m)
    PROVE  /\ n \in Nat
           /\ \A i \in 1 .. n : found[i] \in Remaining /\ IsKey(Key(found[i]))
           /\ \A i \in 1 .. m : Key(read[i]) = Key(found[i])
           /\ \A i, j \in 1 .. n : i < j => Before(Key(found[i]), Key(found[j]))
<1>1. n \in Nat /\ Sorted(found, n)
  BY DEF PageRead, Sorted, Keyed
<1>2. ASSUME NEW i \in 1 .. n
      PROVE  /\ found[i] \in Remaining /\ found[i] \in Receipts
             /\ Key(found[i])[1] = found[i].ns /\ Key(found[i])[2] = found[i].n
             /\ found[i].ns \in Int /\ found[i].n \in Int
  <2>1. found[i] \in Remaining
    BY DEF PageRead, Lists
  <2>2. found[i] \in Receipts
    BY <2>1 DEF Remaining, IInv, Types
  <2> QED
    BY <1>1, <2>1, <2>2 DEF Key, Sorted, Keyed
<1>3. ASSUME NEW i \in 1 .. n PROVE IsKey(Key(found[i]))
  BY <1>2 DEF IsKey, Key
<1>4. ASSUME NEW i \in 1 .. m PROVE Key(read[i]) = Key(found[i])
  <2>1. i \in 1 .. n /\ read[i] \in rehydrate_receipt(found[i])
    BY DEF PageRead
  <2>2. found[i] \in Receipts /\ found[i].ns <= MaxI64
    BY <1>2, <2>1 DEF TimesFit
  <2>3. read[i].n = found[i].n /\ read[i].ns = found[i].ns
    BY <2>1, <2>2, RehydrateFacts
  <2> QED
    BY <2>3 DEF Key
<1>5. ASSUME NEW i \in 1 .. n, NEW j \in 1 .. n, i < j
      PROVE  Before(Key(found[i]), Key(found[j]))
  <2>1. Precedes(found[i], found[j])
    BY <1>1, <1>5 DEF Sorted
  <2> QED
    BY <1>2, <2>1 DEF Precedes, Before
<1> QED
  BY <1>1, <1>2, <1>3, <1>4, <1>5

LEMMA QueryPages ==
    ASSUME IInv, PageInv, TimesFit, query
    PROVE  PageInv'
<1>1. PICK found, n, read, m : PageRead(found, n, read, m)
  BY QueryReads
<1>2. PICK len \in Nat :
         /\ DOMAIN walk.got = 1 .. len /\ DOMAIN walk'.got = 1 .. len + m
         /\ \A i \in 1 .. len : walk'.got[i] = walk.got[i]
         /\ \A i \in 1 .. m : walk'.got[len + i] = read[i]
         /\ \E S : walk'.got \in Seq(S)
  BY <1>1, PageAppended
<1>3. /\ n \in Nat
      /\ \A i \in 1 .. n : found[i] \in Remaining /\ IsKey(Key(found[i]))
      /\ \A i \in 1 .. m : Key(read[i]) = Key(found[i])
      /\ \A i, j \in 1 .. n : i < j => Before(Key(found[i]), Key(found[j]))
  BY <1>1, PageKeys
<1>4. /\ m \in Nat /\ m <= n /\ (m < n => m # 0) /\ rows' = rows
      /\ \A i \in 1 .. m : i \in 1 .. n
  BY <1>1 DEF PageRead
<1>5. /\ walk'.end <=> ~(m < n)
      /\ walk'.cursor = IF m < n THEN Key(found[m]) ELSE walk.cursor
      /\ walk'.query = walk.query /\ walk'.had = walk.had
  BY <1>1 DEF PageRead, IInv, WalkInv
<1>6. ~walk.end
  BY DEF query
<1>7. ASSUME NEW i \in 1 .. len + m, i \notin 1 .. len
      PROVE  \E j \in 1 .. m : i = len + j /\ Key(walk'.got[i]) = Key(found[j])
  <2>1. i - len \in 1 .. m /\ i = len + (i - len)
    BY <1>4, <1>7
  <2>2. PICK j \in 1 .. m : i = len + j
    BY <2>1
  <2> QED
    BY <1>2, <1>3, <2>2
<1>8. ASSUME NEW i \in 1 .. len
      PROVE  /\ Key(walk'.got[i]) = Key(walk.got[i]) /\ IsKey(Key(walk.got[i]))
             /\ walk.cursor # <<>> /\ IsKey(walk.cursor) /\ ~Before(walk.cursor, Key(walk.got[i]))
  <2>1. walk.got # <<>>
    BY <1>2
  <2>2. walk.cursor # <<>> /\ ~Before(walk.cursor, Key(walk.got[i]))
    BY <1>2, <1>6, <2>1 DEF PageInv
  <2>3. IsKey(walk.cursor) /\ IsKey(Key(walk.got[i]))
    BY <1>2, <2>2 DEF PageInv
  <2> QED
    BY <1>2, <2>2, <2>3
<1>9. ASSUME NEW i \in 1 .. len, NEW j \in 1 .. n
      PROVE  Key(walk.got[i]) # Key(found[j]) /\ ~Before(Key(found[j]), Key(walk.got[i]))
  <2>1. Before(walk.cursor, Key(found[j]))
    BY <1>3, <1>8 DEF Remaining
  <2>2. IsKey(Key(found[j])) /\ IsKey(walk.cursor) /\ IsKey(Key(walk.got[i]))
    BY <1>3, <1>8
  <2> QED
    BY <1>8, <2>1, <2>2, BeforeOrder
<1>10. ASSUME NEW i \in 1 .. n, NEW j \in 1 .. n, i < j
       PROVE  Key(found[i]) # Key(found[j]) /\ ~Before(Key(found[j]), Key(found[i]))
  BY <1>3, <1>10, BeforeOrder
<1>11. walk'.cursor = <<>> \/ IsKey(walk'.cursor)
  <2>1. m < n => m \in 1 .. n
    BY <1>3, <1>4
  <2> QED
    BY <1>3, <1>5, <2>1 DEF PageInv
<1>12. ASSUME NEW i \in 1 .. len + m PROVE IsKey(Key(walk'.got[i]))
  <2>1. CASE i \in 1 .. len
    BY <1>8, <2>1
  <2>2. CASE i \notin 1 .. len
    BY <1>3, <1>4, <1>7, <2>2
  <2> QED
    BY <2>1, <2>2
<1>13. ASSUME NEW i \in 1 .. len + m, NEW j \in 1 .. len + m,
              Key(walk'.got[i]) = Key(walk'.got[j])
       PROVE  i = j
  <2>1. CASE i \in 1 .. len /\ j \in 1 .. len
    <3>1. Key(walk.got[i]) = Key(walk.got[j])
      BY <1>8, <1>13, <2>1
    <3>2. IsInjective(Keys) /\ DOMAIN Keys = 1 .. len /\ Keys[i] = Keys[j]
      BY <1>2, <2>1, <3>1 DEF PageInv, Keys
    <3> QED
      BY <2>1, <3>2 DEF IsInjective
  <2>2. CASE i \in 1 .. len /\ j \notin 1 .. len
    <3>1. PICK k \in 1 .. m : Key(walk'.got[j]) = Key(found[k])
      BY <1>7, <2>2
    <3> QED
      BY <1>4, <1>8, <1>9, <1>13, <2>2, <3>1
  <2>3. CASE i \notin 1 .. len /\ j \in 1 .. len
    <3>1. PICK k \in 1 .. m : Key(walk'.got[i]) = Key(found[k])
      BY <1>7, <2>3
    <3> QED
      BY <1>4, <1>8, <1>9, <1>13, <2>3, <3>1
  <2>4. CASE i \notin 1 .. len /\ j \notin 1 .. len
    <3>1. PICK k \in 1 .. m : i = len + k /\ Key(walk'.got[i]) = Key(found[k])
      BY <1>7, <2>4
    <3>2. PICK l \in 1 .. m : j = len + l /\ Key(walk'.got[j]) = Key(found[l])
      BY <1>7, <2>4
    <3>3. k \in 1 .. n /\ l \in 1 .. n /\ k \in Int /\ l \in Int /\ Key(found[k]) = Key(found[l])
      BY <1>4, <1>13, <3>1, <3>2
    <3>4. ~(k < l) /\ ~(l < k)
      BY <1>10, <3>3
    <3> QED
      BY <3>1, <3>2, <3>3, <3>4
  <2> QED
    BY <2>1, <2>2, <2>3, <2>4
<1>14. IsInjective(Keys')
  <2>1. DOMAIN Keys' = 1 .. len + m /\ \A i \in 1 .. len + m : Keys'[i] = Key(walk'.got[i])
    BY <1>2 DEF Keys
  <2> QED
    BY <1>13, <2>1 DEF IsInjective
<1>15. ASSUME ~walk'.end, NEW i \in 1 .. len + m
       PROVE  /\ walk'.cursor # <<>>
              /\ ~Before(walk'.cursor, Key(walk'.got[i]))
  <2>1. m < n /\ m \in 1 .. n /\ walk'.cursor = Key(found[m])
    BY <1>3, <1>4, <1>5, <1>15
  <2>2. IsKey(Key(found[m]))
    BY <1>3, <2>1
  <2>3. walk'.cursor # <<>>
    BY <2>1, <2>2, BeforeOrder
  <2>4. CASE i \in 1 .. len
    BY <1>8, <1>9, <2>1, <2>3, <2>4
  <2>5. CASE i \notin 1 .. len
    <3>1. PICK j \in 1 .. m : Key(walk'.got[i]) = Key(found[j])
      BY <1>7, <2>5
    <3>2. CASE j = m
      BY <2>1, <2>2, <2>3, <3>1, <3>2, BeforeOrder
    <3>3. CASE j # m
      <4>1. j < m /\ j \in 1 .. n
        BY <1>4, <3>3
      <4> QED
        BY <1>10, <2>1, <2>3, <3>1, <4>1
    <3> QED
      BY <3>2, <3>3
  <2> QED
    BY <2>4, <2>5
<1>16. ASSUME ~walk'.end
       PROVE  IF walk'.cursor = <<>> THEN walk'.got = <<>>
              ELSE \A i \in DOMAIN walk'.got : ~Before(walk'.cursor, Key(walk'.got[i]))
  <2>1. m < n /\ 1 \in 1 .. len + m
    BY <1>4, <1>5, <1>16
  <2>2. walk'.cursor # <<>>
    BY <1>15, <1>16, <2>1
  <2> QED
    BY <1>2, <1>15, <1>16, <2>2
<1>17. ASSUME NEW k \in walk.had
       PROVE  \/ \E i \in 1 .. len + m : Key(walk'.got[i]) = k
              \/ /\ ~walk'.end
                 /\ \E r \in rows : /\ Key(r) = k /\ Matches(walk.query, r)
                                    /\ walk'.cursor = <<>> \/ Before(walk'.cursor, k)
  <2>1. CASE \E i \in DOMAIN walk.got : Key(walk.got[i]) = k
    <3>1. PICK i \in 1 .. len : Key(walk.got[i]) = k
      BY <1>2, <2>1
    <3>2. i \in 1 .. len + m
      BY <1>4
    <3> QED
      BY <1>8, <3>1, <3>2
  <2>2. CASE ~\E i \in DOMAIN walk.got : Key(walk.got[i]) = k
    <3>1. PICK r \in Remaining : Key(r) = k
      BY <2>2 DEF PageInv, Remaining
    <3>2. PICK j \in 1 .. n : found[j] = r
      BY <1>1, <3>1 DEF PageRead, Lists
    <3>3. CASE j <= m
      <4>1. j \in 1 .. m /\ len + j \in 1 .. len + m
        BY <1>4, <3>3
      <4>2. Key(walk'.got[len + j]) = k
        BY <1>2, <1>3, <3>1, <3>2, <4>1
      <4> QED
        BY <4>1, <4>2
    <3>4. CASE ~(j <= m)
      <4>1. m < n /\ m < j /\ m \in 1 .. n
        BY <1>3, <1>4, <3>4
      <4>2. ~walk'.end /\ Before(walk'.cursor, k)
        BY <1>3, <1>5, <3>1, <3>2, <4>1
      <4>3. r \in rows /\ Matches(walk.query, r)
        BY <3>1 DEF Remaining
      <4> QED
        BY <3>1, <4>2, <4>3
    <3> QED
      BY <3>3, <3>4
  <2> QED
    BY <2>1, <2>2
<1>18. \A k \in walk'.had :
          \/ \E i \in DOMAIN walk'.got : Key(walk'.got[i]) = k
          \/ /\ ~walk'.end
             /\ \E r \in rows' : /\ Key(r) = k /\ Matches(walk'.query, r)
                                 /\ walk'.cursor = <<>> \/ Before(walk'.cursor, k)
  BY <1>2, <1>4, <1>5, <1>17
<1>19. \A i \in DOMAIN walk'.got : IsKey(Key(walk'.got[i]))
  BY <1>2, <1>12
<1> QED
  BY <1>11, <1>14, <1>16, <1>18, <1>19 DEF PageInv

\* While others append, what is owed stays there.
LEMMA RowsKeepPages ==
    ASSUME PageInv, walk' = walk, rows \subseteq rows'
    PROVE  PageInv'
<1>1. Keys' = Keys
  BY DEF Keys
<1> QED
  BY <1>1 DEF PageInv

LEMMA BeginPages ==
    ASSUME NEW q \in Queries, WalkBegin(q)
    PROVE  PageInv'
<1>1. /\ walk'.got = <<>> /\ walk'.cursor = <<>> /\ walk'.query = q /\ walk'.end = FALSE
      /\ walk'.had = {Key(r) : r \in {x \in rows : Matches(q, x)}} /\ rows' = rows
  BY DEF WalkBegin, Idle
<1>2. DOMAIN walk'.got = {}
  BY <1>1
<1>3. IsInjective(Keys')
  BY <1>2 DEF Keys, IsInjective
<1>4. \A k \in walk'.had : \E r \in rows' : Key(r) = k /\ Matches(walk'.query, r)
  BY <1>1
<1> QED
  BY <1>1, <1>2, <1>3, <1>4 DEF PageInv

-----------------------------------------------------------------------------
(* Theorems *)

LEMMA InitInv == ASSUME Init PROVE IInv /\ PageInv
<1> USE ReceiptStoreAssumption
<1>1. /\ backend \in {"memory", "postgres"} /\ rows = {} /\ DOMAIN seals = {}
      /\ DOMAIN pc = Calls /\ DOMAIN staged = Calls
      /\ DOMAIN batch = Sealers /\ DOMAIN leaf = Sealers /\ DOMAIN locked = Sealers
  BY DEF Init, Calls
<1>2. /\ \A p \in Calls : staged[p] = {} /\ pc[p] \in {"append", "seal", "away"}
      /\ \A s \in Sealers : locked[s] = {}
  BY DEF Init, Calls
<1>3. PICK sealing \in BOOLEAN : walk = [Idle EXCEPT !.on = sealing, !.end = sealing]
  BY DEF Init
<1>4. /\ DOMAIN walk = {"on", "query", "cursor", "had", "got", "end"}
      /\ walk.got = <<>> /\ walk.cursor = <<>> /\ walk.had = {}
  BY <1>3 DEF Idle
<1>5. walk.got \in Seq({}) /\ DOMAIN walk.got = {}
  BY <1>4
<1>6. Types /\ RowInv /\ SealedStored
  BY <1>1, FS_EmptySet DEF Types, RowInv, SealedStored
<1>7. WalkInv
  BY <1>4, <1>5 DEF WalkInv
<1>8. \A p \in Appenders : AppendInv(p)
  BY <1>2 DEF AppendInv, Calls
<1>9. \A s \in Sealers : SealInv(s)
  BY <1>2 DEF SealInv, Recording, Calls
<1>10. PageInv
  <2>1. IsInjective(Keys)
    BY <1>5 DEF Keys, IsInjective
  <2> QED
    BY <1>4, <1>5, <2>1 DEF PageInv
<1> QED
  BY <1>6, <1>7, <1>8, <1>9, <1>10 DEF IInv

\* The kinds of step: an append moves, a sealer moves, the reader moves.
LEMMA StepKinds ==
    ASSUME IInv, [Next]_vars
    PROVE  \/ \E p \in Appenders : AppendStep(p)
           \/ \E s \in Sealers : SealStep(s) /\ (seals' = seals \/ Sealed(s))
           \/ query
           \/ \E q \in Queries : WalkBegin(q)
           \/ WalkStep /\ walk' = walk
<1>1. CASE \E p \in Appenders : MemoryAppend(p) \/ AppendBegin(p) \/ insert_receipt(p)
              \/ insert_related(p) \/ AppendCommit(p) \/ AppendLost(p)
  BY <1>1, AppendSteps
<1>2. CASE \E s \in Sealers : SealBegin(s) \/ MemoryRecord(s) \/ SealLookup(s)
              \/ SealInsert(s) \/ SealCommit(s) \/ SealLost(s)
  <2>1. PICK s \in Sealers : SealBegin(s) \/ MemoryRecord(s) \/ SealLookup(s)
              \/ SealInsert(s) \/ SealCommit(s) \/ SealLost(s)
    BY <1>2
  <2>2. SealStep(s) /\ (seals' = seals \/ Sealed(s))
    BY <2>1, SealBeginStep, MemoryRecordStep, SealLookupStep, SealInsertStep, SealCommitStep
  <2> QED
    BY <2>2
<1>3. CASE UNCHANGED vars
  BY <1>3 DEF vars, callVars, WalkStep
<1> QED
  BY <1>1, <1>2, <1>3 DEF Next

LEMMA NextInv == ASSUME IInv, [Next]_vars PROVE IInv'
<1>1. CASE \E p \in Appenders : AppendStep(p)
  BY <1>1, AppendKeeps
<1>2. CASE \E s \in Sealers : SealStep(s) /\ (seals' = seals \/ Sealed(s))
  BY <1>2, SealKeeps
<1>3. CASE query \/ \E q \in Queries : WalkBegin(q)
  BY <1>3, WalkSteps
<1>4. CASE WalkStep /\ walk' = walk
  <2>1. WalkInv'
    BY <1>4, WalkKept DEF IInv, WalkStep
  <2> QED
    BY <1>4, <2>1, WalkKeeps
<1> QED
  BY <1>1, <1>2, <1>3, <1>4, StepKinds

LEMMA NextPages == ASSUME IInv, PageInv, TimesFit, [Next]_vars PROVE PageInv'
<1>1. CASE \E p \in Appenders : AppendStep(p)
  <2>1. walk' = walk /\ rows \subseteq rows'
    BY <1>1 DEF AppendStep
  <2> QED
    BY <2>1, RowsKeepPages
<1>2. CASE \E s \in Sealers : SealStep(s)
  <2>1. walk' = walk /\ rows \subseteq rows'
    BY <1>2 DEF SealStep
  <2> QED
    BY <2>1, RowsKeepPages
<1>3. CASE query
  BY <1>3, QueryPages
<1>4. CASE \E q \in Queries : WalkBegin(q)
  BY <1>4, BeginPages
<1>5. CASE WalkStep /\ walk' = walk
  <2>1. walk' = walk /\ rows \subseteq rows'
    BY <1>5 DEF WalkStep
  <2> QED
    BY <2>1, RowsKeepPages
<1> QED
  BY <1>1, <1>2, <1>3, <1>4, <1>5, StepKinds

\* Two callers of record_sealed_batch never wait for each other's seal rows: the
\* canonical order of the leaves (merkle.rs) orders the locks that
\* PostgresStore takes, for any number of sealers and any batches.
THEOREM SealersNeverDeadlock == Spec => []NoLockCycle
<1>1. Init => IInv
  BY InitInv
<1>2. IInv /\ [Next]_vars => IInv'
  BY NextInv
<1>3. IInv => NoLockCycle
  BY NoCycle
<1> QED
  BY <1>1, <1>2, <1>3, PTL DEF Spec

\* What query hands out was verified before append stored it whole.
LEMMA ReadRows == ASSUME IInv PROVE ReadsVerify
<1> SUFFICES ASSUME NEW i \in DOMAIN walk.got
             PROVE  LET x == walk.got[i] IN
                    /\ verify_pre_append(x) <=> content_address(x) \in StoredAddresses
                    /\ \A r \in rows : r.n = x.n /\ Survives(r) => verify_pre_append(x)
  BY DEF ReadsVerify
<1> DEFINE x == walk.got[i]
<1>1. PICK q \in rows : x \in rehydrate_receipt(q)
  BY DEF IInv, WalkInv
<1>2. q \in Receipts /\ verify_pre_append(q)
  BY DEF IInv, Types, RowInv
<1>3. x.n = q.n
  BY <1>1, <1>2, RehydrateFacts
<1>4. verify_pre_append(x) <=> content_address(x) = content_address(q)
  BY <1>1, <1>2, ReadVerifies
<1>5. ASSUME content_address(x) \in StoredAddresses PROVE content_address(x) = content_address(q)
  <2>1. PICK r \in rows : content_address(x) = content_address(r)
    BY <1>5 DEF StoredAddresses
  <2>2. content_address(x).n = x.n /\ content_address(r).n = r.n
    BY DEF content_address
  <2>3. r = q
    BY <1>3, <2>1, <2>2 DEF IInv, RowInv
  <2> QED
    BY <2>1, <2>3
<1>6. content_address(q) \in StoredAddresses
  BY DEF StoredAddresses
<1>7. ASSUME NEW r \in rows, r.n = x.n, Survives(r) PROVE verify_pre_append(x)
  <2>1. r = q
    BY <1>3, <1>7 DEF IInv, RowInv
  <2>2. x = q
    BY <1>1, <1>2, <1>7, <2>1, SurvivorsUnchanged
  <2> QED
    BY <1>2, <2>2
<1> QED
  BY <1>4, <1>5, <1>6, <1>7

\* A receipt handed to a reader by query passes verify_pre_append exactly if
\* rehydrate_receipt gave it its stored bytes back, as it does for every receipt
\* that fits the columns: no connection lost between the statements of an append
\* leaves one without its signatures, and no changed one passes for a stored one.
THEOREM ReadersGetVerified == Spec => []ReadsVerify
<1>1. Init => IInv
  BY InitInv
<1>2. IInv /\ [Next]_vars => IInv'
  BY NextInv
<1>3. IInv => ReadsVerify
  BY ReadRows
<1> QED
  BY <1>1, <1>2, <1>3, PTL DEF Spec

\* Following the page tokens of query to the end gives every receipt that was
\* there at the start, once, whatever is appended meanwhile, as long as
\* u64_to_i64 does not saturate a time.
THEOREM PagesLoseNothing ==
    ASSUME TimesFit PROVE Spec => []PagesComplete
<1>1. Init => IInv /\ PageInv
  BY InitInv
<1>2. IInv /\ PageInv /\ [Next]_vars => IInv' /\ PageInv'
  BY NextInv, NextPages
<1>3. PageInv => PagesComplete
  <2> SUFFICES ASSUME PageInv PROVE PagesComplete
    OBVIOUS
  <2>1. IsInjective(Keys)
    BY DEF PageInv
  <2>2. walk.end => walk.had \subseteq ToSet(Keys)
    BY DEF PageInv, Keys, ToSet
  <2> QED
    BY <2>1, <2>2 DEF PagesComplete, Keys
<1> QED
  BY <1>1, <1>2, <1>3, PTL DEF Spec

\* Every step of a store is a step of ReceiptLog, or none.
LEMMA LogSteps == ASSUME IInv, [Next]_vars PROVE [Log!Next]_Log!vars
<1> DEFINE sealOf == [a \in DOMAIN seals |-> seals[a].root]
<1>1. ASSUME StoredAddresses' = StoredAddresses, seals' = seals
      PROVE  UNCHANGED Log!vars
  BY <1>1 DEF Log!vars
<1>2. CASE \E p \in Appenders : AppendStep(p)
  <2>1. PICK p \in Appenders : AppendStep(p)
    BY <1>2
  <2>2. CASE rows' = rows
    BY <1>1, <2>1, <2>2 DEF AppendStep, StoredAddresses
  <2>3. CASE rows' # rows
    <3>1. rows' = rows \union {Writes[p]} /\ seals' = seals
      BY <2>1, <2>3 DEF AppendStep
    <3>2. StoredAddresses' = StoredAddresses \union {content_address(Writes[p])}
      BY <3>1 DEF StoredAddresses
    <3>3. content_address(Writes[p]) \in {content_address(r) : r \in Receipts}
      BY ReceiptStoreAssumption
    <3>4. Log!Append(content_address(Writes[p]))
      BY <3>1, <3>2 DEF Log!Append
    <3> QED
      BY <3>3, <3>4 DEF Log!Next
  <2> QED
    BY <2>2, <2>3
<1>3. CASE \E s \in Sealers : SealStep(s) /\ (seals' = seals \/ Sealed(s))
  <2>1. PICK s \in Sealers : SealStep(s) /\ (seals' = seals \/ Sealed(s))
    BY <1>3
  <2>2. CASE seals' = seals
    BY <1>1, <2>1, <2>2 DEF SealStep, StoredAddresses
  <2>3. CASE Sealed(s)
    <3>1. PICK B, root : B = LeafSet(batch[s]) /\ root = batch[s].root
      OBVIOUS
    <3>2. /\ rows' = rows /\ B # {} /\ B \subseteq StoredAddresses
          /\ RootOf(B) = root
          /\ \A a \in B \intersect DOMAIN seals : seals[a].root = root
          /\ DOMAIN seals' = B \union DOMAIN seals
          /\ \A a \in DOMAIN seals' : seals'[a].root = IF a \in B THEN root ELSE seals[a].root
      BY <2>3, <3>1 DEF Sealed
    <3>3. StoredAddresses' = StoredAddresses
      BY <3>2 DEF StoredAddresses
    <3>4. \A a \in B \intersect DOMAIN sealOf : sealOf[a] = root
      BY <3>2
    <3>5. sealOf' = [a \in B \union DOMAIN sealOf |-> IF a \in B THEN root ELSE sealOf[a]]
      BY <3>2
    <3>6. Log!RecordSealedBatch(B)
      BY <3>2, <3>3, <3>4, <3>5 DEF Log!RecordSealedBatch
    <3> QED
      BY <3>2, <3>6 DEF Log!Next
  <2> QED
    BY <2>1, <2>2, <2>3
<1>4. CASE query \/ (\E q \in Queries : WalkBegin(q)) \/ WalkStep
  <2>1. WalkStep
    BY <1>4, WalkSteps
  <2> QED
    BY <1>1, <2>1 DEF WalkStep, StoredAddresses
<1> QED
  BY <1>2, <1>3, <1>4, StepKinds

\* MemoryStore and PostgresStore implement the traits' promise: the log of
\* content addresses only grows, by one append at a time, and
\* record_sealed_batch seals all leaves of a batch or none, under their root,
\* whatever transactions interleave and wherever a connection is lost.
THEOREM StoresImplementLog == Spec => ImplementsLog
<1>1. Init => IInv
  BY InitInv
<1>2. IInv /\ [Next]_vars => IInv'
  BY NextInv
<1>3. Init => Log!Init
  BY DEF Init, Log!Init, StoredAddresses
<1>4. IInv /\ [Next]_vars => [Log!Next]_Log!vars
  BY LogSteps
<1> QED
  BY <1>1, <1>2, <1>3, <1>4, PTL DEF Spec, ImplementsLog, Log!Spec
=============================================================================
