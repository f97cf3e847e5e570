---------------------------- MODULE EngineProofs ----------------------------
(***************************************************************************)
(* Proofs about the enforcement engine where it enforces (Enforcement) and *)
(* where it replays the past for a candidate constitution (ReplaySession). *)
(*                                                                         *)
(* Each theorem about Enforcement has an invariant of its own, on top of   *)
(* TypeOK and of which task has which receipts (OwnKinds):                 *)
(*   Followed   the flag an agent will have once all that is landed or in  *)
(*              the channel has arrived is what the log says;              *)
(*   Rungs      what is logged, about to be and scheduled of a stage is no *)
(*              more than what there is of the stage before it;            *)
(*   Accounted  a deny is on its way, in a counter, or spent on a detect;  *)
(*   Timely     receipts are no later than the workload's lag, and what is *)
(*              in a counter lies within a window.                         *)
(* Those about ReplaySession rest on one invariant, IInv.                  *)
(***************************************************************************)
EXTENDS Enforcement, ReplaySession, FiniteSetTheorems, WellFoundedInduction, TLAPS

-----------------------------------------------------------------------------
(* Parts of sequences, and counting in them.                               *)

\* A non-empty set of naturals has a least element.
LEMMA LeastNat ==
    ASSUME NEW S, S \subseteq Nat, S # {}
    PROVE  \E m \in S : \A k \in S : m <= k
<1> DEFINE R == {ss \in Nat \X Nat : ss[1] < ss[2]}
<1>1. OpToRel(<, Nat) = R
  BY DEF OpToRel
<1>2. IsWellFoundedOn(R, Nat)
  BY <1>1, NatLessThanWellFounded
<1> HIDE DEF R
<1>3. PICK m \in S : \A k \in S : ~ (<<k, m>> \in R)
  BY <1>2, WFMin
<1>4. ASSUME NEW k \in S PROVE m <= k
  <2>1. m \in Nat /\ k \in Nat
    OBVIOUS
  <2>2. k < m => <<k, m>> \in R
    BY <2>1 DEF R
  <2> QED
    BY <1>3, <2>1, <2>2
<1> QED
  BY <1>4


LEMMA UpTo == ASSUME NEW n \in Nat PROVE IsFiniteSet(1..n) /\ Cardinality(1..n) = n
<1>1. 1 \in Int /\ n \in Int
    OBVIOUS
<1>2. IsFiniteSet(1..n) /\ Cardinality(1..n) = IF 1 > n THEN 0 ELSE n - 1 + 1
    BY <1>1, FS_Interval
<1>3. QED
    BY <1>2

\* Positions of a sequence are finitely many.
LEMMA PositionsFinite ==
    ASSUME NEW S, NEW q \in Seq(S), NEW I \in SUBSET DOMAIN q
    PROVE  IsFiniteSet(I) /\ Cardinality(I) \in Nat /\ Cardinality(I) <= Len(q)
<1>1. Len(q) \in Nat /\ DOMAIN q = 1..Len(q)
    OBVIOUS
<1>2. IsFiniteSet(1..Len(q)) /\ Cardinality(1..Len(q)) = Len(q)
    BY <1>1, UpTo
<1>3. IsFiniteSet(I) /\ Cardinality(I) <= Len(q)
    BY <1>1, <1>2, FS_Subset
<1>4. QED
    BY <1>3, FS_CardinalityType

\* The k-th of some positions: each has one rank, and each rank one position.
LEMMA Ranks ==
    ASSUME NEW n \in Nat, NEW I \in SUBSET (1..n)
    PROVE  LET m == Cardinality(I)
               At == [k \in 1..m |-> CHOOSE i \in I : Cardinality(I \cap 1..i) = k]
           IN  /\ IsFiniteSet(I) /\ m \in Nat
               /\ At \in Bijection(1..m, I)
               /\ \A j, k \in 1..m : j < k => At[j] < At[k]
<1> DEFINE m == Cardinality(I)
           Rank_(i) == Cardinality(I \cap 1..i)
           At == [k \in 1..m |-> CHOOSE i \in I : Rank_(i) = k]
           f == [i \in I |-> Rank_(i)]
<1>1. IsFiniteSet(I) /\ m \in Nat
    <2>1. IsFiniteSet(1..n)
        BY UpTo
    <2>2. IsFiniteSet(I)
        BY <2>1, FS_Subset
    <2>3. QED
        BY <2>2, FS_CardinalityType
<1>0. \A i \in I : i \in Int
    OBVIOUS
<1>2. ASSUME NEW i \in I
      PROVE  /\ IsFiniteSet(I \cap 1..i) /\ Rank_(i) \in 1..m
    <2>1. IsFiniteSet(I \cap 1..i) /\ Rank_(i) <= m
        BY <1>1, FS_Subset
    <2>2. Rank_(i) \in Nat
        BY <2>1, FS_CardinalityType
    <2>3. i \in I \cap 1..i
        OBVIOUS
    <2>4. Rank_(i) # 0
        BY <2>1, <2>3, FS_EmptySet
    <2> HIDE DEF m, Rank_
    <2>5. QED
        BY <1>1, <2>1, <2>2, <2>4
<1>3. ASSUME NEW i \in I, NEW j \in I, i < j
      PROVE  Rank_(i) < Rank_(j)
    <2>1. I \cap 1..i \in SUBSET (I \cap 1..j)
        BY <1>3
    <2>2. j \in I \cap 1..j /\ j \notin I \cap 1..i
        BY <1>3
    <2>3. Rank_(i) <= Rank_(j) /\ (Rank_(j) = Rank_(i) => I \cap 1..j = I \cap 1..i)
        BY <1>2, <2>1, FS_Subset
    <2>4. Rank_(i) # Rank_(j)
        BY <2>2, <2>3
    <2>5. Rank_(i) \in 1..m /\ Rank_(j) \in 1..m
        BY <1>2
    <2> HIDE DEF Rank_, m
    <2>6. QED
        BY <1>1, <2>3, <2>4, <2>5
<1> HIDE DEF Rank_
<1>4. f \in Injection(I, 1..m)
    <2>1. f \in [I -> 1..m]
        BY <1>2
    <2>2. ASSUME NEW i \in I, NEW j \in I, i # j PROVE f[i] # f[j]
        <3>1. i < j \/ j < i
            BY <2>2
        <3>2. Rank_(i) \in Int /\ Rank_(j) \in Int
            <4>1. Rank_(i) \in 1..m /\ Rank_(j) \in 1..m
                BY <1>2 DEF Rank_
            <4>2. QED
                BY <4>1
        <3>3. QED
            BY <1>3, <3>1, <3>2
    <2> HIDE DEF f, m
    <2>3. QED
        BY <2>1, <2>2 DEF Injection, IsInjective
<1>5. IsFiniteSet(1..m) /\ Cardinality(1..m) = m
    BY <1>1, UpTo
<1>6. f \in Surjection(I, 1..m)
    <2> HIDE DEF f
    <2>1. QED
        BY <1>4, <1>5, FS_Injection DEF m
<1>7. ASSUME NEW k \in 1..m PROVE \E i \in I : Rank_(i) = k
    BY <1>6 DEF Surjection
<1>8. ASSUME NEW k \in 1..m PROVE At[k] \in I /\ Rank_(At[k]) = k
    BY <1>7
<1>9. ASSUME NEW j \in 1..m, NEW k \in 1..m, j < k PROVE At[j] < At[k]
    <2>1. /\ At[j] \in I /\ At[k] \in I
          /\ Rank_(At[j]) = j /\ Rank_(At[k]) = k
        BY <1>8
    <2> HIDE DEF At
    <2>2. At[j] # At[k]
        BY <1>9, <2>1
    <2>3. At[k] < At[j] => k < j
        BY <1>3, <2>1
    <2>4. At[j] \in Int /\ At[k] \in Int
        BY <1>0, <2>1, Zenon
    <2>5. QED
        BY <1>9, <2>2, <2>3, <2>4
<1>10. At \in Bijection(1..m, I)
    <2>1. At \in [1..m -> I]
        BY <1>8
    <2>2. \A j, k \in 1..m : At[j] = At[k] => j = k
        <3> HIDE DEF At
        <3>1. QED
            BY <1>8
    <2>3. \A i \in I : \E k \in 1..m : At[k] = i
        <3> SUFFICES ASSUME NEW i \in I PROVE \E k \in 1..m : At[k] = i
            OBVIOUS
        <3>1. Rank_(i) \in 1..m
            BY <1>2 DEF Rank_
        <3>2. At[Rank_(i)] \in I /\ Rank_(At[Rank_(i)]) = Rank_(i)
            BY <1>8, <3>1
        <3> DEFINE k == Rank_(i)
        <3>3. At[k] \in I /\ Rank_(At[k]) = k
            BY <3>2
        <3> HIDE DEF At
        <3>4. At[k] = i
            <4>1. ~(At[k] < i)
                <5>1. At[k] < i => Rank_(At[k]) < Rank_(i)
                    BY <1>3, <3>3
                <5>2. QED
                    BY <1>1, <3>1, <3>3, <5>1
            <4>2. ~(i < At[k])
                <5>1. i < At[k] => Rank_(i) < Rank_(At[k])
                    BY <1>3, <3>3
                <5>2. QED
                    BY <1>1, <3>1, <3>3, <5>1
            <4>3. At[k] \in Int /\ i \in Int
                BY <1>0, <3>3
            <4>4. QED
                BY <4>1, <4>2, <4>3
        <3>5. QED
            BY <3>1, <3>4
    <2> HIDE DEF At, m
    <2>4. At \in Injection(1..m, I)
        BY <2>1, <2>2 DEF Injection, IsInjective
    <2>5. At \in Surjection(1..m, I)
        BY <2>1, <2>3 DEF Surjection
    <2>6. QED
        BY <2>4, <2>5 DEF Bijection
<1>11. QED
    BY <1>1, <1>9, <1>10 DEF Rank_

\* Pick(q, I) lists the elements of q at I, each once and in their order.
LEMMA PickFacts ==
    ASSUME NEW S, NEW q \in Seq(S), NEW I \in SUBSET DOMAIN q
    PROVE  /\ IsFiniteSet(I) /\ Cardinality(I) \in Nat /\ Cardinality(I) <= Len(q)
           /\ Pick(q, I) \in Seq(S) /\ Len(Pick(q, I)) = Cardinality(I)
           /\ DOMAIN Pick(q, I) = 1..Cardinality(I)
           /\ \E At \in Bijection(1..Cardinality(I), I) :
                 /\ \A j, k \in 1..Cardinality(I) : j < k => At[j] < At[k]
                 /\ \A k \in 1..Cardinality(I) : Pick(q, I)[k] = q[At[k]]
<1> DEFINE m == Cardinality(I)
           At == [k \in 1..m |-> CHOOSE i \in I : Cardinality(I \cap 1..i) = k]
<1>1. Len(q) \in Nat /\ DOMAIN q = 1..Len(q) /\ \A i \in 1..Len(q) : q[i] \in S
    OBVIOUS
<1>2. /\ IsFiniteSet(I) /\ m \in Nat /\ At \in Bijection(1..m, I)
      /\ \A j, k \in 1..m : j < k => At[j] < At[k]
    BY <1>1, Ranks
<1>3. Pick(q, I) = [k \in 1..m |-> q[At[k]]]
    BY DEF Pick
<1> HIDE DEF At
<1>4. \A k \in 1..m : At[k] \in I
    BY <1>2 DEF Bijection, Injection, IsInjective
<1>5. m <= Len(q)
    BY PositionsFinite
<1> HIDE DEF m
<1>6. Pick(q, I) \in Seq(S) /\ Len(Pick(q, I)) = m /\ DOMAIN Pick(q, I) = 1..m
    BY <1>1, <1>2, <1>3, <1>4
<1>7. \A k \in 1..m : Pick(q, I)[k] = q[At[k]]
    BY <1>3
<1>8. QED
    BY <1>2, <1>5, <1>6, <1>7 DEF m

-----------------------------------------------------------------------------
\* How many elements of a sequence are in a set.
CountIn(q, W) == Cardinality({i \in DOMAIN q : q[i] \in W})

LEMMA CountType ==
    ASSUME NEW S, NEW q \in Seq(S), NEW W
    PROVE  IsFiniteSet({i \in DOMAIN q : q[i] \in W}) /\ CountIn(q, W) \in Nat
BY PositionsFinite DEF CountIn

LEMMA CountNone ==
    ASSUME NEW q, NEW W, \A i \in DOMAIN q : q[i] \notin W
    PROVE  CountIn(q, W) = 0
<1>1. {i \in DOMAIN q : q[i] \in W} = {}
    OBVIOUS
<1>2. QED
    BY <1>1, FS_EmptySet DEF CountIn

\* Changing elements without moving them into or out of the set.
LEMMA CountSame ==
    ASSUME NEW p, NEW q, NEW V, NEW W, DOMAIN p = DOMAIN q,
           \A i \in DOMAIN q : p[i] \in V <=> q[i] \in W
    PROVE  CountIn(p, V) = CountIn(q, W)
<1>1. {i \in DOMAIN p : p[i] \in V} = {i \in DOMAIN q : q[i] \in W}
    OBVIOUS
<1>2. QED
    BY <1>1 DEF CountIn

LEMMA CountConcat ==
    ASSUME NEW S, NEW p \in Seq(S), NEW q \in Seq(S), NEW W
    PROVE  CountIn(p \o q, W) = CountIn(p, W) + CountIn(q, W)
<1> DEFINE n == Len(p)
           A == {i \in DOMAIN p : p[i] \in W}
           B == {i \in DOMAIN q : q[i] \in W}
           C == {i \in DOMAIN (p \o q) : (p \o q)[i] \in W}
           D == {i \in DOMAIN (p \o q) : i > n /\ (p \o q)[i] \in W}
           f == [i \in B |-> i + n]
<1>1. /\ n \in Nat /\ Len(q) \in Nat /\ DOMAIN p = 1..n /\ DOMAIN q = 1..Len(q)
      /\ DOMAIN (p \o q) = 1..(n + Len(q)) /\ p \o q \in Seq(S)
      /\ \A i \in 1..n : (p \o q)[i] = p[i]
      /\ \A i \in 1..Len(q) : (p \o q)[i + n] = q[i]
    OBVIOUS
<1>2. IsFiniteSet(A) /\ IsFiniteSet(B) /\ IsFiniteSet(D)
    <2>1. IsFiniteSet(A) /\ IsFiniteSet(B)
        BY CountType
    <2>2. D \in SUBSET DOMAIN (p \o q)
        OBVIOUS
    <2> HIDE DEF D
    <2>3. QED
        BY <1>1, <2>1, <2>2, PositionsFinite
<1>3. C = A \cup D /\ A \cap D = {}
    <2>1. ASSUME NEW i PROVE i \in C <=> i \in A \/ i \in D
        <3>1. CASE i \in 1..n
            BY <1>1, <3>1
        <3>2. CASE i \notin 1..n
            BY <1>1, <3>2
        <3>3. QED
            BY <3>1, <3>2
    <2>2. ASSUME NEW i \in A, i \in D PROVE FALSE
        BY <1>1, <2>2
    <2> HIDE DEF A, C, D
    <2>3. QED
        BY <2>1, <2>2
<1>4. f \in Bijection(B, D)
    <2>1. ASSUME NEW i \in B PROVE f[i] \in D
        BY <1>1
    <2>2. ASSUME NEW j \in D PROVE \E i \in B : f[i] = j
        <3>1. j \in Int /\ j > n /\ j <= n + Len(q)
            BY <1>1
        <3>2. j - n \in 1..Len(q) /\ (j - n) + n = j
            BY <1>1, <3>1
        <3>3. j - n \in B
            BY <1>1, <3>2
        <3>4. QED
            BY <3>2, <3>3
    <2>3. ASSUME NEW i \in B, NEW j \in B, f[i] = f[j] PROVE i = j
        BY <1>1, <2>3
    <2>4. f = [i \in B |-> f[i]]
        OBVIOUS
    <2> HIDE DEF f, B, D
    <2>5. f \in Injection(B, D)
        BY <2>1, <2>3, <2>4 DEF Injection, IsInjective
    <2>6. f \in Surjection(B, D)
        BY <2>1, <2>2, <2>4 DEF Surjection
    <2>7. QED
        BY <2>5, <2>6 DEF Bijection
<1>5. Cardinality(D) = Cardinality(B)
    <2> HIDE DEF f, B, D
    <2>1. ExistsBijection(B, D)
        BY <1>4 DEF ExistsBijection
    <2>2. QED
        BY <1>2, <2>1, FS_Bijection
<1>6. Cardinality(C) = Cardinality(A) + Cardinality(D)
    <2> HIDE DEF A, C, D
    <2>1. Cardinality(A \cup D) = Cardinality(A) + Cardinality(D) - Cardinality(A \cap D)
        BY <1>2, FS_Union
    <2>2. Cardinality(A) \in Nat /\ Cardinality(D) \in Nat /\ Cardinality(A \cap D) = 0
        BY <1>2, <1>3, FS_CardinalityType, FS_EmptySet
    <2>3. QED
        BY <1>3, <2>1, <2>2
<1>7. QED
    BY <1>5, <1>6 DEF CountIn

LEMMA CountOne ==
    ASSUME NEW x, NEW W
    PROVE  CountIn(<<x>>, W) = IF x \in W THEN 1 ELSE 0
<1>1. DOMAIN <<x>> = {1} /\ <<x>>[1] = x
    OBVIOUS
<1>2. {i \in DOMAIN <<x>> : <<x>>[i] \in W} = IF x \in W THEN {1} ELSE {}
    BY <1>1
<1>3. QED
    BY <1>2, FS_Singleton, FS_EmptySet DEF CountIn

LEMMA CountAppend ==
    ASSUME NEW S, NEW q \in Seq(S), NEW x \in S, NEW W
    PROVE  CountIn(Append(q, x), W) = CountIn(q, W) + (IF x \in W THEN 1 ELSE 0)
<1>1. <<x>> \in Seq(S) /\ Append(q, x) = q \o <<x>>
    OBVIOUS
<1>2. CountIn(q \o <<x>>, W) = CountIn(q, W) + CountIn(<<x>>, W)
    BY <1>1, CountConcat
<1>3. CountIn(<<x>>, W) = IF x \in W THEN 1 ELSE 0
    BY CountOne
<1>4. QED
    BY <1>1, <1>2, <1>3

LEMMA CountTail ==
    ASSUME NEW S, NEW q \in Seq(S), q # << >>, NEW W
    PROVE  CountIn(q, W) = (IF Head(q) \in W THEN 1 ELSE 0) + CountIn(Tail(q), W)
<1>1. Head(q) \in S /\ Tail(q) \in Seq(S) /\ q = <<Head(q)>> \o Tail(q) /\ <<Head(q)>> \in Seq(S)
    OBVIOUS
<1>2. CountIn(<<Head(q)>> \o Tail(q), W) = CountIn(<<Head(q)>>, W) + CountIn(Tail(q), W)
    BY <1>1, CountConcat
<1>3. CountIn(<<Head(q)>>, W) = IF Head(q) \in W THEN 1 ELSE 0
    BY CountOne
<1>4. QED
    BY <1>1, <1>2, <1>3

\* Counting in a part of a sequence is counting at its positions.
LEMMA CountPick ==
    ASSUME NEW S, NEW q \in Seq(S), NEW I \in SUBSET DOMAIN q, NEW W
    PROVE  CountIn(Pick(q, I), W) = Cardinality({i \in I : q[i] \in W})
<1> DEFINE m == Cardinality(I)
           p == Pick(q, I)
           A == {k \in DOMAIN p : p[k] \in W}
           B == {i \in I : q[i] \in W}
<1>1. PICK At \in Bijection(1..m, I) : \A k \in 1..m : p[k] = q[At[k]]
    BY PickFacts
<1>2. IsFiniteSet(I) /\ m \in Nat /\ DOMAIN p = 1..m /\ p \in Seq(S)
    BY PickFacts
<1> DEFINE f == [k \in A |-> At[k]]
<1>3. /\ \A k \in 1..m : At[k] \in I
      /\ \A j, k \in 1..m : At[j] = At[k] => j = k
      /\ \A i \in I : \E k \in 1..m : At[k] = i
    BY <1>1 DEF Bijection, Injection, Surjection, IsInjective
<1> HIDE DEF p, m
<1>4. f \in Bijection(A, B)
    <2>1. ASSUME NEW k \in A PROVE f[k] \in B
        BY <1>1, <1>2, <1>3
    <2>2. ASSUME NEW i \in B PROVE \E k \in A : f[k] = i
        BY <1>1, <1>2, <1>3
    <2>3. ASSUME NEW j \in A, NEW k \in A, f[j] = f[k] PROVE j = k
        BY <1>2, <1>3, <2>3
    <2>4. f = [k \in A |-> f[k]]
        OBVIOUS
    <2> HIDE DEF f, A, B
    <2>5. f \in Injection(A, B)
        BY <2>1, <2>3, <2>4 DEF Injection, IsInjective
    <2>6. f \in Surjection(A, B)
        BY <2>1, <2>2, <2>4 DEF Surjection
    <2>7. QED
        BY <2>5, <2>6 DEF Bijection
<1>5. IsFiniteSet(A)
    BY <1>2, CountType
<1>6. Cardinality(B) = Cardinality(A)
    <2> HIDE DEF f, A, B
    <2>1. ExistsBijection(A, B)
        BY <1>4 DEF ExistsBijection
    <2>2. QED
        BY <1>5, <2>1, FS_Bijection
<1>7. QED
    BY <1>6 DEF CountIn, p

\* FlattenSeq puts sequences behind one another: there are the partial results.
Partials(ss, n, f) ==
    f = [i \in 1..n |-> IF i = 1 THEN ss[i] ELSE f[i - 1] \o ss[i]]

LEMMA PartialsExist ==
    ASSUME NEW ss, NEW n \in Nat
    PROVE  \E f : Partials(ss, n, f)
<1> DEFINE Bad == {k \in Nat : ~ \E f : Partials(ss, k, f)}
<1>1. SUFFICES ASSUME Bad # {} PROVE FALSE
    OBVIOUS
<1>2. PICK k \in Bad : \A j \in Bad : k <= j
    <2>1. Bad \subseteq Nat
        OBVIOUS
    <2> HIDE DEF Bad
    <2>2. QED
        BY <1>1, <2>1, LeastNat
<1>3. k \in Nat /\ ~ \E f : Partials(ss, k, f)
    OBVIOUS
<1>4. CASE k = 0
    <2>1. 1..0 = {}
        OBVIOUS
    <2> DEFINE e == [i \in 1..0 |-> 0]
    <2>2. e = [i \in 1..0 |-> IF i = 1 THEN ss[i] ELSE e[i - 1] \o ss[i]]
        BY <2>1
    <2> HIDE DEF e
    <2>3. Partials(ss, 0, e)
        BY <2>2 DEF Partials
    <2>4. QED
        BY <1>3, <1>4, <2>3
<1>5. CASE k # 0
    <2>1. k - 1 \in Nat /\ k - 1 \notin Bad
        BY <1>2, <1>3, <1>5
    <2>2. PICK g : Partials(ss, k - 1, g)
        BY <2>1
    <2>3. \A i \in 1..(k - 1) : g[i] = IF i = 1 THEN ss[i] ELSE g[i - 1] \o ss[i]
        BY <2>2 DEF Partials
    <2> DEFINE f == [i \in 1..k |-> IF i < k THEN g[i]
                                    ELSE IF i = 1 THEN ss[i] ELSE g[i - 1] \o ss[i]]
    <2>4. ASSUME NEW i \in 1..k
          PROVE  f[i] = IF i = 1 THEN ss[i] ELSE f[i - 1] \o ss[i]
        <3>1. CASE i < k
            <4>1. i \in 1..(k - 1) /\ f[i] = g[i]
                BY <1>3, <3>1
            <4>2. i # 1 => i - 1 \in 1..k /\ i - 1 < k /\ f[i - 1] = g[i - 1]
                BY <1>3, <3>1
            <4>3. QED
                BY <2>3, <4>1, <4>2
        <3>2. CASE i = k
            <4>1. i # 1 => i - 1 \in 1..k /\ i - 1 < k /\ f[i - 1] = g[i - 1]
                BY <1>3, <3>2
            <4>2. f[i] = IF i = 1 THEN ss[i] ELSE g[i - 1] \o ss[i]
                BY <1>3, <3>2
            <4>3. QED
                BY <4>1, <4>2
        <3>3. QED
            BY <1>3, <3>1, <3>2
    <2>5. f = [i \in 1..k |-> f[i]]
        OBVIOUS
    <2> HIDE DEF f
    <2>6. Partials(ss, k, f)
        BY <2>4, <2>5 DEF Partials
    <2>7. QED
        BY <1>3, <2>6
<1>6. QED
    BY <1>4, <1>5

LEMMA FlattenIs ==
    ASSUME NEW S, NEW ss \in Seq(S)
    PROVE  \E f : /\ Partials(ss, Len(ss), f)
                  /\ FlattenSeq(ss) = IF Len(ss) = 0 THEN ss ELSE f[Len(ss)]
<1> DEFINE n == Len(ss)
           f == CHOOSE g : Partials(ss, n, g)
<1>1. n \in Nat
    OBVIOUS
<1>2. Partials(ss, n, f)
    BY <1>1, PartialsExist
<1>3. FlattenSeq(ss) = IF n = 0 THEN ss ELSE f[n]
    BY DEF FlattenSeq, Partials
<1> HIDE DEF f
<1>4. QED
    BY <1>2, <1>3

\* The result of FlattenSeq has no more elements of a set than there are parts
\* that may have one, when each has at most one.
LEMMA FlattenFacts ==
    ASSUME NEW S, NEW ss \in Seq(Seq(S)), NEW W, NEW K \in SUBSET DOMAIN ss,
           \A i \in DOMAIN ss : CountIn(ss[i], W) <= IF i \in K THEN 1 ELSE 0
    PROVE  /\ FlattenSeq(ss) \in Seq(S)
           /\ CountIn(FlattenSeq(ss), W) <= Cardinality(K)
<1> DEFINE n == Len(ss)
<1>1. PICK f : /\ Partials(ss, n, f)
               /\ FlattenSeq(ss) = IF n = 0 THEN ss ELSE f[n]
    BY FlattenIs
<1>2. n \in Nat /\ DOMAIN ss = 1..n /\ \A i \in 1..n : ss[i] \in Seq(S)
    OBVIOUS
<1>3. \A i \in 1..n : f[i] = IF i = 1 THEN ss[i] ELSE f[i - 1] \o ss[i]
    BY <1>1 DEF Partials
<1> DEFINE Good(i) == f[i] \in Seq(S) /\ CountIn(f[i], W) <= Cardinality(K \cap 1..i)
           Bad == {i \in 1..n : ~Good(i)}
<1>4. ASSUME NEW i \in 0..n
      PROVE  /\ IsFiniteSet(K \cap 1..i) /\ Cardinality(K \cap 1..i) \in Nat
    <2>1. K \cap 1..i \in SUBSET DOMAIN ss
        OBVIOUS
    <2>2. QED
        BY <2>1, PositionsFinite
<1>5. ASSUME NEW i \in 1..n
      PROVE  Cardinality(K \cap 1..i) =
                Cardinality(K \cap 1..(i - 1)) + (IF i \in K THEN 1 ELSE 0)
    <2>1. i - 1 \in 0..n
        BY <1>2
    <2>2. CASE i \in K
        <3>1. K \cap 1..i = (K \cap 1..(i - 1)) \cup {i}
            BY <1>2, <2>2
        <3>2. i \notin K \cap 1..(i - 1)
            BY <1>2
        <3>3. QED
            BY <1>4, <2>1, <2>2, <3>1, <3>2, FS_AddElement
    <2>3. CASE i \notin K
        <3>1. K \cap 1..i = K \cap 1..(i - 1)
            BY <1>2, <2>3
        <3>2. Cardinality(K \cap 1..(i - 1)) \in Nat
            BY <1>4, <2>1
        <3> DEFINE c == Cardinality(K \cap 1..(i - 1))
        <3>3. c \in Nat /\ Cardinality(K \cap 1..i) = c
            BY <3>1, <3>2
        <3> HIDE DEF c
        <3>4. Cardinality(K \cap 1..i) = c + 0
            BY <3>3
        <3>5. QED
            BY <2>3, <3>4 DEF c
    <2>4. QED
        BY <2>2, <2>3
<1>6. Bad = {}
    <2>1. SUFFICES ASSUME Bad # {} PROVE FALSE
        OBVIOUS
    <2>2. PICK i \in Bad : \A j \in Bad : i <= j
        <3>1. Bad \subseteq Nat
            BY <1>2
        <3> HIDE DEF Bad
        <3>2. QED
            BY <2>1, <3>1, LeastNat
    <2>3. i \in 1..n /\ ~Good(i)
        OBVIOUS
    <2>4. ss[i] \in Seq(S) /\ CountIn(ss[i], W) \in Nat
          /\ CountIn(ss[i], W) <= IF i \in K THEN 1 ELSE 0
        BY <1>2, <2>3, CountType
    <2>5. CASE i = 1
        <3>1. f[1] = ss[1]
            BY <1>3, <2>3, <2>5
        <3>2. Cardinality(K \cap 1..1) \in Nat /\ Cardinality(K \cap 1..0) \in Nat
              /\ Cardinality(K \cap 1..1) = Cardinality(K \cap 1..0) + (IF 1 \in K THEN 1 ELSE 0)
            <4>1. 1 \in 1..n /\ 1 \in 0..n /\ 0 \in 0..n /\ 1 - 1 = 0
                BY <1>2, <2>3, <2>5
            <4>2. Cardinality(K \cap 1..1) \in Nat /\ Cardinality(K \cap 1..0) \in Nat
                BY <1>4, <4>1
            <4>3. Cardinality(K \cap 1..1)
                  = Cardinality(K \cap 1..(1 - 1)) + (IF 1 \in K THEN 1 ELSE 0)
                BY <1>5, <4>1, Zenon
            <4>4. QED
                BY <4>1, <4>2, <4>3
        <3>3. QED
            BY <2>3, <2>4, <2>5, <3>1, <3>2
    <2>6. CASE i # 1
        <3>1. i - 1 \in 1..n /\ i - 1 \in 0..n /\ ~(i <= i - 1)
            BY <1>2, <2>3, <2>6
        <3>2. Good(i - 1)
            BY <2>2, <3>1
        <3>3. f[i] = f[i - 1] \o ss[i]
            BY <1>3, <2>3, <2>6
        <3>4. f[i] \in Seq(S) /\ CountIn(f[i], W) = CountIn(f[i - 1], W) + CountIn(ss[i], W)
            BY <2>4, <3>2, <3>3, CountConcat
        <3>5. CountIn(f[i - 1], W) \in Nat
            BY <3>2, CountType
        <3>6. Cardinality(K \cap 1..(i - 1)) \in Nat
            BY <1>4, <3>1
        <3>7. QED
            BY <1>5, <2>3, <2>4, <3>2, <3>4, <3>5, <3>6
    <2>7. QED
        BY <2>5, <2>6
<1>7. CASE n = 0
    <2>1. ss = << >> /\ K = {}
        BY <1>2, <1>7
    <2>2. CountIn(<< >>, W) = 0
        BY CountNone
    <2>3. << >> \in Seq(S)
        OBVIOUS
    <2>4. QED
        BY <1>1, <1>7, <2>1, <2>2, <2>3, FS_EmptySet
<1>8. CASE n # 0
    <2>1. n \in 1..n /\ K \cap 1..n = K
        BY <1>2, <1>8
    <2>2. Good(n)
        BY <1>6, <2>1
    <2>3. QED
        BY <1>1, <1>8, <2>1, <2>2
<1>9. QED
    BY <1>7, <1>8

LEMMA FlattenType ==
    ASSUME NEW S, NEW ss \in Seq(Seq(S))
    PROVE  FlattenSeq(ss) \in Seq(S)
<1>1. {} \in SUBSET DOMAIN ss
    OBVIOUS
<1>2. \A i \in DOMAIN ss : CountIn(ss[i], {}) <= IF i \in {} THEN 1 ELSE 0
    <2>1. \A i \in DOMAIN ss : CountIn(ss[i], {}) = 0
        BY CountNone
    <2>2. QED
        BY <2>1
<1>3. QED
    BY <1>1, <1>2, FlattenFacts

\* The elements of FlattenSeq are elements of its parts.
LEMMA FlattenElements ==
    ASSUME NEW S, NEW ss \in Seq(Seq(S)), NEW T,
           \A i \in DOMAIN ss : \A j \in DOMAIN ss[i] : ss[i][j] \in T
    PROVE  \A k \in DOMAIN FlattenSeq(ss) : FlattenSeq(ss)[k] \in T
<1> DEFINE n == Len(ss)
<1>1. Len(ss) \in Nat /\ DOMAIN ss = 1..Len(ss) /\ \A i \in DOMAIN ss : ss[i] \in Seq(S)
    OBVIOUS
<1>2. \A i \in DOMAIN ss : ss[i] \in Seq(T)
    BY <1>1
<1>3. ss \in Seq(Seq(T))
    <2> DEFINE ST == Seq(T)
    <2>1. \A i \in 1..Len(ss) : ss[i] \in ST
        BY <1>1, <1>2
    <2>2. ss = [i \in 1..Len(ss) |-> ss[i]]
        BY <1>1
    <2> HIDE DEF ST
    <2>3. ss \in Seq(ST)
        BY <1>1, <2>1, <2>2
    <2>4. QED
        BY <2>3 DEF ST
<1>4. FlattenSeq(ss) \in Seq(T)
    BY <1>3, FlattenType
<1>5. QED
    BY <1>4
-----------------------------------------------------------------------------
(* Greatest and least.                                                     *)

LEMMA MinTwo ==
    ASSUME NEW a \in Int, NEW b \in Int
    PROVE  Min({a, b}) = IF a <= b THEN a ELSE b
<1> DEFINE m == IF a <= b THEN a ELSE b
<1>1. m \in {a, b} /\ \A y \in {a, b} : m <= y
    OBVIOUS
<1>2. ASSUME NEW x \in {a, b}, \A y \in {a, b} : x <= y PROVE x = m
    BY <1>2
<1> HIDE DEF m
<1>3. Min({a, b}) = m
    BY <1>1, <1>2 DEF Min
<1>4. QED
    BY <1>3 DEF m

LEMMA MaxTwo ==
    ASSUME NEW a \in Int, NEW b \in Int
    PROVE  Max({a, b}) = IF a <= b THEN b ELSE a
<1> DEFINE m == IF a <= b THEN b ELSE a
<1>1. m \in {a, b} /\ \A y \in {a, b} : m >= y
    OBVIOUS
<1>2. ASSUME NEW x \in {a, b}, \A y \in {a, b} : x >= y PROVE x = m
    BY <1>2
<1> HIDE DEF m
<1>3. Max({a, b}) = m
    BY <1>1, <1>2 DEF Max
<1>4. QED
    BY <1>3 DEF m

\* A non-empty set of naturals with a bound has a greatest element.
LEMMA GreatestNat ==
    ASSUME NEW S, S \subseteq Nat, S # {}, NEW b \in Nat, \A x \in S : x <= b
    PROVE  Max(S) \in S /\ \A x \in S : x <= Max(S)
<1> DEFINE D == {n \in Nat : b - n \in S}
<1>1. D \subseteq Nat /\ D # {}
    <2>1. PICK x \in S : TRUE
        OBVIOUS
    <2>2. x \in Nat /\ x <= b
        OBVIOUS
    <2>3. b - x \in Nat /\ b - (b - x) = x
        BY <2>2
    <2>4. QED
        BY <2>3
<1>2. PICK n \in D : \A k \in D : n <= k
    <2> HIDE DEF D
    <2>1. QED
        BY <1>1, LeastNat
<1>3. n \in Nat /\ b - n \in S
    OBVIOUS
<1>4. ASSUME NEW x \in S PROVE b - n >= x
    <2>1. x \in Nat /\ x <= b
        OBVIOUS
    <2>2. b - x \in Nat /\ b - (b - x) = x
        BY <2>1
    <2>3. b - x \in D
        BY <2>2
    <2>4. n <= b - x
        BY <1>2, <2>3
    <2>5. QED
        BY <1>3, <2>1, <2>4
<1>5. \E x \in S : \A y \in S : x >= y
    BY <1>3, <1>4
<1>6. Max(S) \in S /\ \A y \in S : Max(S) >= y
    BY <1>5 DEF Max
<1>7. QED
    BY <1>6

\* The ages in a counter have a bound.
LEMMA BoundExists ==
    ASSUME NEW q \in Seq(Nat)
    PROVE  \E b \in Nat : \A i \in DOMAIN q : q[i] <= b
<1> DEFINE Bounded(k) == \E b \in Nat : \A i \in 1..k : q[i] <= b
           Bad == {k \in 0..Len(q) : ~Bounded(k)}
<1>1. Len(q) \in Nat /\ DOMAIN q = 1..Len(q) /\ \A i \in 1..Len(q) : q[i] \in Nat
    OBVIOUS
<1>2. Bad = {}
    <2>1. SUFFICES ASSUME Bad # {} PROVE FALSE
        OBVIOUS
    <2>2. PICK k \in Bad : \A j \in Bad : k <= j
        <3>1. Bad \subseteq Nat
            BY <1>1
        <3> HIDE DEF Bad
        <3>2. QED
            BY <2>1, <3>1, LeastNat
    <2>3. k \in 0..Len(q) /\ ~Bounded(k)
        OBVIOUS
    <2>4. Bounded(0)
        <3>1. 0 \in Nat /\ \A i \in 1..0 : q[i] <= 0
            OBVIOUS
        <3>2. QED
            BY <3>1, Zenon
    <2>5. k # 0
        BY <2>3, <2>4
    <2>6. k - 1 \in 0..Len(q) /\ ~(k <= k - 1)
        BY <1>1, <2>3, <2>5
    <2>7. PICK b \in Nat : \A i \in 1..(k - 1) : q[i] <= b
        BY <2>2, <2>6
    <2>8. q[k] \in Nat
        BY <1>1, <2>3, <2>5
    <2>9. PICK c \in Nat : q[k] <= c /\ b <= c
        <3> DEFINE x == q[k]
        <3> HIDE DEF x
        <3>1. x \in Nat
            BY <2>8 DEF x
        <3>2. x + b \in Nat /\ x <= x + b /\ b <= x + b
            BY <3>1
        <3>3. QED
            BY <3>2 DEF x
    <2>10. ASSUME NEW i \in 1..k PROVE q[i] <= c
        <3>1. CASE i = k
            BY <2>9, <3>1
        <3>2. CASE i # k
            <4>1. i \in 1..(k - 1) /\ q[i] \in Nat
                BY <1>1, <2>3, <3>2
            <4>2. q[i] <= b
                BY <2>7, <4>1
            <4> DEFINE y == q[i]
            <4> HIDE DEF y
            <4>3. y \in Nat /\ y <= b /\ b \in Nat /\ b <= c /\ c \in Nat
                BY <2>9, <4>1, <4>2 DEF y
            <4>4. y <= c
                BY <4>3
            <4>5. QED
                BY <4>4 DEF y
        <3>3. QED
            BY <3>1, <3>2
    <2>11. QED
        BY <2>3, <2>9, <2>10
<1>3. Len(q) \in 0..Len(q)
    BY <1>1
<1>4. Bounded(Len(q))
    BY <1>2, <1>3
<1>5. QED
    BY <1>1, <1>4

\* The span is the greatest age less the least.
LEMMA SpanFacts ==
    ASSUME NEW q \in Seq(Nat), q # << >>
    PROVE  /\ SpanOf(q) \in Nat
           /\ \E i, j \in DOMAIN q : SpanOf(q) = q[i] - q[j]
<1> DEFINE S == {q[i] : i \in DOMAIN q}
<1>1. S \subseteq Nat /\ S # {}
    <2>1. 1 \in DOMAIN q
        OBVIOUS
    <2>2. \A i \in DOMAIN q : q[i] \in Nat
        OBVIOUS
    <2>3. QED
        BY <2>1, <2>2
<1>2. PICK b \in Nat : \A i \in DOMAIN q : q[i] <= b
    BY BoundExists
<1>3. \A x \in S : x <= b
    BY <1>2
<1>4. SpanOf(q) = Max(S) - Min(S)
    BY DEF SpanOf
<1>5. \A x \in S : \E i \in DOMAIN q : x = q[i]
    OBVIOUS
<1> HIDE DEF S
<1>6. Max(S) \in S /\ \A x \in S : x <= Max(S)
    BY <1>1, <1>3, GreatestNat
<1>7. Min(S) \in S /\ \A y \in S : Min(S) <= y
    <2>1. \E x \in S : \A y \in S : x <= y
        BY <1>1, LeastNat
    <2>2. QED
        BY <2>1 DEF Min
<1>8. Max(S) \in Nat /\ Min(S) \in Nat /\ Min(S) <= Max(S)
    BY <1>1, <1>6, <1>7
<1>9. SpanOf(q) \in Nat
    BY <1>4, <1>8
<1>10. QED
    BY <1>4, <1>5, <1>6, <1>7, <1>9
-----------------------------------------------------------------------------
(* What the operations build.                                              *)

Slot == [left : Nat, agent : Groups, rule : Rules, stage : Stages]

LEMMA ReceiptFields ==
    ASSUME NEW x \in Receipt
    PROVE  /\ x.kind \in Stages \cup {"deny", "shadow", "activate"}
           /\ x.agent \in Groups /\ x.rule \in Rules \cup {"none"}
           /\ x.delta \in Int /\ x.span \in Nat /\ x.version \in Versions /\ x.age \in Nat
BY DEF Receipt

LEMMA RuleFacts ==
    ASSUME NEW v \in Versions, NEW r \in DOMAIN Config[v]
    PROVE  r \in Rules /\ IsRule(Config[v][r])
BY EnforcementAssumption

LEMMA WorkloadFacts ==
    ASSUME TypeOK
    PROVE  /\ workload.genesis \in Versions
           /\ workload.observed \subseteq Observed /\ workload.activations \subseteq Activations
           /\ workload.maxFaults \in Nat /\ workload.maxLag \in Nat \ {0}
BY EnforcementAssumption DEF TypeOK, IsWorkload

LEMMA KeyType ==
    ASSUME NEW c, NEW v \in Receipt
    PROVE  Key(c, v) \in Groups
BY ReceiptFields DEF Key, Groups

\* A counter after the prune and the push.
LEMMA KeptFacts ==
    ASSUME TypeOK, NEW r \in DOMAIN Config[active], NEW v \in Receipt, NEW g \in Groups
    PROVE  LET q == counters[r][g]
               p == Kept(r, v, g)
               w == Config[active][r].window
           IN  /\ q \in Seq(Nat) /\ p \in Seq(Nat) /\ p # << >> /\ Len(p) <= Len(q) + 1
               /\ \A i \in DOMAIN p : \/ p[i] = v.age
                                      \/ \E j \in DOMAIN q : p[i] = q[j] /\ q[j] <= v.age + w
<1> DEFINE q == counters[r][g]
           w == Config[active][r].window
           I == {i \in DOMAIN q : q[i] <= v.age + w}
<1>1. q \in Seq(Nat)
    <2>1. r \in Rules
        BY RuleFacts DEF TypeOK
    <2>2. QED
        BY <2>1 DEF TypeOK
<1>2. v.age \in Nat
    BY ReceiptFields
<1>3. Kept(r, v, g) = Append(Pick(q, I), v.age)
    BY DEF Kept
<1>4. I \in SUBSET DOMAIN q
    OBVIOUS
<1>5. \A i \in I : q[i] <= v.age + w
    OBVIOUS
<1> HIDE DEF q, I
<1>6. PICK At \in Bijection(1..Cardinality(I), I) :
          \A k \in 1..Cardinality(I) : Pick(q, I)[k] = q[At[k]]
    BY <1>1, <1>4, PickFacts
<1>7. \A k \in 1..Cardinality(I) : At[k] \in I
    BY <1>6 DEF Bijection, Injection, IsInjective
<1>8. /\ Cardinality(I) \in Nat /\ Cardinality(I) <= Len(q)
      /\ Pick(q, I) \in Seq(Nat) /\ Len(Pick(q, I)) = Cardinality(I)
    BY <1>1, <1>4, PickFacts
<1>9. /\ Kept(r, v, g) \in Seq(Nat) /\ Kept(r, v, g) # << >>
      /\ Len(Kept(r, v, g)) <= Len(q) + 1
    BY <1>1, <1>2, <1>3, <1>8
<1>10. ASSUME NEW i \in DOMAIN Kept(r, v, g)
       PROVE  \/ Kept(r, v, g)[i] = v.age
              \/ \E j \in DOMAIN q : Kept(r, v, g)[i] = q[j] /\ q[j] <= v.age + w
    <2>1. i \in 1..Cardinality(I) \/ Kept(r, v, g)[i] = v.age
        BY <1>2, <1>3, <1>8
    <2>2. CASE i \in 1..Cardinality(I)
        <3>1. Kept(r, v, g)[i] = q[At[i]]
            BY <1>2, <1>3, <1>6, <1>8, <2>2
        <3>2. At[i] \in DOMAIN q /\ q[At[i]] <= v.age + w
            BY <1>4, <1>5, <1>7, <2>2
        <3>3. QED
            BY <3>1, <3>2
    <2>3. QED
        BY <2>1, <2>2
<1>11. QED
    BY <1>1, <1>9, <1>10 DEF q

LEMMA DetectEffectFacts ==
    ASSUME TypeOK, NEW r \in DOMAIN Config[active], NEW v \in Receipt
    PROVE  /\ DetectEffect(r, v) \in Receipt
           /\ DetectEffect(r, v).kind = "detect" /\ DetectEffect(r, v).rule = r
           /\ DetectEffect(r, v).age = 0
           /\ DetectEffect(r, v).agent = Key(Config[active][r], v)
           /\ DetectEffect(r, v).span = SpanOf(Kept(r, v, Key(Config[active][r], v)))
<1> DEFINE c == Config[active][r]
           d == IF "detect" \in DOMAIN c.deltas THEN c.deltas["detect"]
                ELSE DefaultDelta["detect"]
           k == Key(c, v)
           s == SpanOf(Kept(r, v, k))
<1>1. r \in Rules /\ IsRule(c)
    BY RuleFacts DEF TypeOK
<1>2. d \in Int
    BY <1>1 DEF IsRule, DefaultDelta
<1>3. k \in Groups
    BY KeyType
<1>4. s \in Nat
    <2>1. Kept(r, v, k) \in Seq(Nat) /\ Kept(r, v, k) # << >>
        BY <1>3, KeptFacts
    <2>2. QED
        BY <2>1, SpanFacts
<1>5. DetectEffect(r, v) = [kind |-> "detect", agent |-> k, rule |-> r, delta |-> d,
                            span |-> s, version |-> evaluating, age |-> 0]
    BY DEF DetectEffect
<1> HIDE DEF c, d, k, s
<1>6. evaluating \in Versions
    BY DEF TypeOK
<1>7. DetectEffect(r, v) \in Receipt
    BY <1>1, <1>2, <1>3, <1>4, <1>5, <1>6 DEF Receipt, Stages
<1>8. QED
    BY <1>5, <1>7 DEF c, k, s

LEMMA OptionalSlots ==
    ASSUME NEW after \in Option, NEW f,
           \A i \in DOMAIN after : f[i] \in Slot, f = [i \in DOMAIN after |-> f[i]]
    PROVE  f \in Seq(Slot) /\ Len(f) <= 1
<1>1. after \in Seq(Nat) /\ Len(after) <= 1
    BY DEF Option
<1>2. DOMAIN after = 1..Len(after) /\ Len(after) \in Nat
    BY <1>1
<1>3. DOMAIN f = 1..Len(after)
    BY <1>2
<1> HIDE DEF Slot
<1>4. QED
    BY <1>1, <1>2, <1>3 DEF Slot

LEMMA CoachForFacts ==
    ASSUME TypeOK, NEW r \in DOMAIN Config[active], NEW v \in Receipt
    PROVE  /\ CoachFor(r, v) \in Seq(Slot)
           /\ \A i \in DOMAIN CoachFor(r, v) : CoachFor(r, v)[i].stage = "coach"
<1> DEFINE c == Config[active][r]
           f == CoachFor(r, v)
<1>1. r \in Rules /\ c.coach \in Option
    BY RuleFacts DEF TypeOK, IsRule
<1>2. Key(c, v) \in Groups /\ v.age \in Nat
    BY KeyType, ReceiptFields
<1>3. f = [i \in DOMAIN c.coach |->
            [left  |-> IF v.age > c.coach[i] THEN 0 ELSE c.coach[i] - v.age,
             agent |-> Key(c, v), rule |-> r, stage |-> "coach"]]
    BY DEF CoachFor
<1>4. \A i \in DOMAIN c.coach : c.coach[i] \in Nat
    BY <1>1 DEF Option
<1> HIDE DEF f, c
<1>5. \A i \in DOMAIN c.coach : f[i] \in Slot /\ f[i].stage = "coach"
    BY <1>1, <1>2, <1>3, <1>4 DEF Slot, Stages
<1>6. DOMAIN f = DOMAIN c.coach /\ f = [i \in DOMAIN c.coach |-> f[i]]
    BY <1>3
<1>7. f \in Seq(Slot)
    BY <1>1, <1>5, <1>6, OptionalSlots
<1>8. QED
    BY <1>5, <1>6, <1>7 DEF f

LEMMA StageEffectFacts ==
    ASSUME TypeOK, NEW s \in Slot
    PROVE  /\ StageEffect(s) \in Receipt
           /\ StageEffect(s).kind = s.stage /\ StageEffect(s).rule = s.rule
           /\ StageEffect(s).agent = s.agent /\ StageEffect(s).age = 0
<1>1. /\ s.stage \in Stages /\ s.agent \in Groups /\ s.rule \in Rules
    BY DEF Slot
<1>2. DefaultDelta[s.stage] \in Int
    BY <1>1 DEF DefaultDelta, Stages
<1>3. evaluating \in Versions
    BY DEF TypeOK
<1>4. QED
    BY <1>1, <1>2, <1>3 DEF StageEffect, Receipt

\* Time passes for receipts on their way.
LEMMA OlderFacts ==
    ASSUME NEW q \in Seq(Receipt)
    PROVE  /\ Older(q) \in Seq(Receipt) /\ Len(Older(q)) = Len(q) /\ DOMAIN Older(q) = DOMAIN q
           /\ \A i \in DOMAIN q :
                 /\ Older(q)[i] \in Receipt /\ q[i] \in Receipt
                 /\ Older(q)[i].kind = q[i].kind /\ Older(q)[i].agent = q[i].agent
                 /\ Older(q)[i].rule = q[i].rule /\ Older(q)[i].span = q[i].span
                 /\ Older(q)[i].age <= q[i].age + 1
<1>1. Len(q) \in Nat /\ DOMAIN q = 1..Len(q) /\ \A i \in DOMAIN q : q[i] \in Receipt
    OBVIOUS
<1>2. DOMAIN Older(q) = DOMAIN q
    BY DEF Older
<1>3. ASSUME NEW i \in DOMAIN q
      PROVE  /\ Older(q)[i] \in Receipt
             /\ Older(q)[i].kind = q[i].kind /\ Older(q)[i].agent = q[i].agent
             /\ Older(q)[i].rule = q[i].rule /\ Older(q)[i].span = q[i].span
             /\ Older(q)[i].age <= q[i].age + 1
    <2>1. q[i] \in Receipt
        BY <1>1
    <2>2. Older(q)[i] = IF q[i].kind = "deny" THEN [q[i] EXCEPT !.age = @ + 1] ELSE q[i]
        BY DEF Older
    <2> DEFINE x == q[i]
    <2> HIDE DEF x
    <2>3. x.age \in Nat /\ x.age <= x.age + 1
        BY <2>1, ReceiptFields DEF x
    <2>4. CASE x.kind = "deny"
        <3>1. Older(q)[i] = [x EXCEPT !.age = @ + 1]
            BY <2>2, <2>4 DEF x
        <3>2. [x EXCEPT !.age = @ + 1] \in Receipt
            <4>1. x \in Receipt /\ x.age + 1 \in Nat
                BY <2>1, <2>3 DEF x
            <4> DEFINE n == x.age + 1
            <4>2. [x EXCEPT !.age = @ + 1] = [x EXCEPT !.age = n]
                OBVIOUS
            <4>3. n \in Nat
                BY <4>1
            <4> HIDE DEF n
            <4>4. [x EXCEPT !.age = n] \in Receipt
                BY <4>1, <4>3 DEF Receipt
            <4>5. QED
                BY <4>2, <4>4
        <3>3. /\ [x EXCEPT !.age = @ + 1].age = x.age + 1
              /\ [x EXCEPT !.age = @ + 1].kind = x.kind /\ [x EXCEPT !.age = @ + 1].agent = x.agent
              /\ [x EXCEPT !.age = @ + 1].rule = x.rule /\ [x EXCEPT !.age = @ + 1].span = x.span
            BY <2>1 DEF Receipt, x
        <3>4. x.age + 1 <= x.age + 1
            BY <2>3
        <3>5. QED
            BY <3>1, <3>2, <3>3, <3>4 DEF x
    <2>5. CASE x.kind # "deny"
        <3>1. Older(q)[i] = x
            BY <2>2, <2>5 DEF x
        <3>2. QED
            BY <2>1, <2>3, <3>1 DEF x
    <2>6. QED
        BY <2>4, <2>5
<1>4. Older(q) = [i \in 1..Len(q) |-> Older(q)[i]]
    BY <1>1 DEF Older
<1>5. Older(q) \in Seq(Receipt) /\ Len(Older(q)) = Len(q)
    BY <1>1, <1>2, <1>3, <1>4
<1>6. QED
    BY <1>1, <1>2, <1>3, <1>5
-----------------------------------------------------------------------------
(* Chains of stages: a quarantine is scheduled with a coach, and an evict  *)
(* and a reverse with a quarantine.                                        *)

Upper == {"quarantine", "evict", "reverse"}
ParentOf(k) == IF k = "quarantine" THEN "coach" ELSE "quarantine"

Of(kind, r, g) == {x \in Receipt : x.kind = kind /\ x.rule = r /\ x.agent = g}
Slots(kind, r, g) == {s \in Slot : s.stage = kind /\ s.rule = r /\ s.agent = g}

Scheduled(after, s, next) ==
    [i \in DOMAIN after |-> [left |-> after[i], agent |-> s.agent, rule |-> s.rule,
                             stage |-> next]]

LEMMA AtMostOne ==
    ASSUME NEW S, \A i, j \in S : i = j
    PROVE  Cardinality(S) \in Nat /\ Cardinality(S) <= 1
<1>1. CASE S = {}
    BY <1>1, FS_EmptySet
<1>2. CASE S # {}
    <2>1. PICK x \in S : TRUE
        BY <1>2
    <2>2. S = {x}
        BY <2>1
    <2>3. QED
        BY <2>2, FS_Singleton
<1>3. QED
    BY <1>1, <1>2

LEMMA CountAtMost ==
    ASSUME NEW S, NEW q \in Seq(S), NEW W
    PROVE  CountIn(q, W) \in Nat /\ CountIn(q, W) <= Len(q)
<1>1. {i \in DOMAIN q : q[i] \in W} \in SUBSET DOMAIN q
    OBVIOUS
<1>2. QED
    BY <1>1, PositionsFinite DEF CountIn

LEMMA ScheduledFacts ==
    ASSUME NEW s \in Slot, NEW after \in Option, NEW next \in Stages
    PROVE  LET f == Scheduled(after, s, next)
           IN  /\ f \in Seq(Slot)
               /\ \A i \in DOMAIN f : f[i].stage = next
               /\ \A k, r, g : /\ CountIn(f, Slots(k, r, g)) \in Nat
                               /\ CountIn(f, Slots(k, r, g)) <= 1
                               /\ ~(k = next /\ r = s.rule /\ g = s.agent)
                                     => CountIn(f, Slots(k, r, g)) = 0
<1> DEFINE f == Scheduled(after, s, next)
<1>1. f = [i \in DOMAIN after |-> [left |-> after[i], agent |-> s.agent, rule |-> s.rule,
                                   stage |-> next]]
    BY DEF Scheduled
<1>2. \A i \in DOMAIN after : after[i] \in Nat
    BY DEF Option
<1> HIDE DEF f
<1>3. DOMAIN f = DOMAIN after /\ f = [i \in DOMAIN after |-> f[i]]
    BY <1>1
<1>4. \A i \in DOMAIN f : /\ f[i] \in Slot /\ f[i].stage = next
                          /\ f[i].rule = s.rule /\ f[i].agent = s.agent
    BY <1>1, <1>2 DEF Slot
<1>5. f \in Seq(Slot) /\ Len(f) <= 1
    BY <1>3, <1>4, OptionalSlots
<1>6. ASSUME NEW k, NEW r, NEW g
      PROVE  /\ CountIn(f, Slots(k, r, g)) \in Nat /\ CountIn(f, Slots(k, r, g)) <= 1
             /\ ~(k = next /\ r = s.rule /\ g = s.agent) => CountIn(f, Slots(k, r, g)) = 0
    <2>1. CountIn(f, Slots(k, r, g)) \in Nat /\ CountIn(f, Slots(k, r, g)) <= Len(f)
        BY <1>5, CountAtMost
    <2>2. Len(f) \in Nat
        BY <1>5
    <2>3. ASSUME ~(k = next /\ r = s.rule /\ g = s.agent) PROVE CountIn(f, Slots(k, r, g)) = 0
        <3>1. \A i \in DOMAIN f : f[i] \notin Slots(k, r, g)
            BY <1>4, <2>3 DEF Slots
        <3>2. QED
            BY <3>1, CountNone
    <2>4. QED
        BY <1>5, <2>1, <2>2, <2>3
<1>7. QED
    BY <1>4, <1>5, <1>6 DEF f

LEMMA NextStagesFacts ==
    ASSUME NEW s \in Slot, NEW v \in Versions
    PROVE  LET f == NextStages(s, Config[v])
           IN  /\ f \in Seq(Slot)
               /\ \A i \in DOMAIN f : f[i].stage \in Upper
               /\ \A k \in Upper : \A r, g :
                     CountIn(f, Slots(k, r, g)) <= IF s \in Slots(ParentOf(k), r, g) THEN 1 ELSE 0
<1> DEFINE f == NextStages(s, Config[v])
           c == Config[v][s.rule]
           Q == Scheduled(c.quarantine, s, "quarantine")
           E == Scheduled(c.evict, s, "evict")
           R == Scheduled(c.expires, s, "reverse")
<1>1. f = IF s.rule \notin DOMAIN Config[v] THEN << >>
          ELSE CASE s.stage = "coach" -> Q
                 [] s.stage = "quarantine" -> E \o R
                 [] OTHER -> << >>
    BY Zenon DEF NextStages, Scheduled
<1>2. << >> \in Seq(Slot) /\ \A k, r, g : CountIn(<< >>, Slots(k, r, g)) = 0
    BY CountNone
<1>3. ASSUME s.rule \in DOMAIN Config[v]
      PROVE  c.quarantine \in Option /\ c.evict \in Option /\ c.expires \in Option
    BY <1>3, RuleFacts DEF IsRule
<1>4. \A k, r, g : s \in Slots(k, r, g) <=> (s.stage = k /\ s.rule = r /\ s.agent = g)
    BY DEF Slots
<1>5. {"quarantine", "evict", "reverse"} \subseteq Stages
    BY DEF Stages
<1> HIDE DEF f, c
<1>6. CASE f = << >>
    <2>1. \A k \in Upper : \A r, g : 0 <= IF s \in Slots(ParentOf(k), r, g) THEN 1 ELSE 0
        OBVIOUS
    <2>2. QED
        BY <1>2, <1>6, <2>1 DEF f
<1>7. CASE f = Q /\ s.rule \in DOMAIN Config[v] /\ s.stage = "coach"
    <2>1. /\ Q \in Seq(Slot) /\ \A i \in DOMAIN Q : Q[i].stage = "quarantine"
          /\ \A k, r, g : /\ CountIn(Q, Slots(k, r, g)) \in Nat
                          /\ CountIn(Q, Slots(k, r, g)) <= 1
                          /\ ~(k = "quarantine" /\ r = s.rule /\ g = s.agent)
                                => CountIn(Q, Slots(k, r, g)) = 0
        <3>1. c.quarantine \in Option /\ "quarantine" \in Stages
            BY <1>3, <1>5, <1>7
        <3>2. QED
            BY <3>1, ScheduledFacts, Zenon
    <2> HIDE DEF Q
    <2>2. ASSUME NEW k \in Upper, NEW r, NEW g
          PROVE  CountIn(Q, Slots(k, r, g)) <= IF s \in Slots(ParentOf(k), r, g) THEN 1 ELSE 0
        <3>1. CASE k = "quarantine" /\ r = s.rule /\ g = s.agent
            <4>1. s \in Slots(ParentOf(k), r, g)
                BY <1>4, <1>7, <3>1 DEF ParentOf
            <4>2. QED
                BY <2>1, <4>1
        <3>2. CASE ~(k = "quarantine" /\ r = s.rule /\ g = s.agent)
            <4>1. CountIn(Q, Slots(k, r, g)) = 0
                BY <2>1, <3>2
            <4>2. QED
                BY <4>1
        <3>3. QED
            BY <3>1, <3>2
    <2>3. QED
        BY <1>7, <2>1, <2>2 DEF f, Upper
<1>8. CASE f = E \o R /\ s.rule \in DOMAIN Config[v] /\ s.stage = "quarantine"
    <2>1. /\ E \in Seq(Slot) /\ \A i \in DOMAIN E : E[i].stage = "evict"
          /\ \A k, r, g : /\ CountIn(E, Slots(k, r, g)) \in Nat
                          /\ CountIn(E, Slots(k, r, g)) <= 1
                          /\ ~(k = "evict" /\ r = s.rule /\ g = s.agent)
                                => CountIn(E, Slots(k, r, g)) = 0
        BY <1>3, <1>5, <1>8, ScheduledFacts
    <2>2. /\ R \in Seq(Slot) /\ \A i \in DOMAIN R : R[i].stage = "reverse"
          /\ \A k, r, g : /\ CountIn(R, Slots(k, r, g)) \in Nat
                          /\ CountIn(R, Slots(k, r, g)) <= 1
                          /\ ~(k = "reverse" /\ r = s.rule /\ g = s.agent)
                                => CountIn(R, Slots(k, r, g)) = 0
        BY <1>3, <1>5, <1>8, ScheduledFacts
    <2> HIDE DEF E, R
    <2>3. E \o R \in Seq(Slot) /\ \A k, r, g : CountIn(E \o R, Slots(k, r, g))
                                   = CountIn(E, Slots(k, r, g)) + CountIn(R, Slots(k, r, g))
        BY <2>1, <2>2, CountConcat
    <2>4. ASSUME NEW k \in Upper, NEW r, NEW g
          PROVE  CountIn(E \o R, Slots(k, r, g))
                    <= IF s \in Slots(ParentOf(k), r, g) THEN 1 ELSE 0
        <3>1. CASE k \in {"evict", "reverse"} /\ r = s.rule /\ g = s.agent
            <4>1. s \in Slots(ParentOf(k), r, g)
                BY <1>4, <1>8, <3>1 DEF ParentOf
            <4>2. CountIn(E, Slots(k, r, g)) = 0 \/ CountIn(R, Slots(k, r, g)) = 0
                BY <2>1, <2>2, <3>1
            <4>3. /\ CountIn(E, Slots(k, r, g)) \in Nat /\ CountIn(E, Slots(k, r, g)) <= 1
                  /\ CountIn(R, Slots(k, r, g)) \in Nat /\ CountIn(R, Slots(k, r, g)) <= 1
                BY <2>1, <2>2
            <4>4. QED
                BY <2>3, <4>1, <4>2, <4>3
        <3>2. CASE ~(k \in {"evict", "reverse"} /\ r = s.rule /\ g = s.agent)
            <4>1. CountIn(E, Slots(k, r, g)) = 0 /\ CountIn(R, Slots(k, r, g)) = 0
                BY <2>1, <2>2, <3>2
            <4>2. CountIn(E \o R, Slots(k, r, g)) = 0
                BY <2>3, <4>1
            <4>3. QED
                BY <4>2
        <3>3. QED
            BY <3>1, <3>2
    <2>5. \A i \in DOMAIN (E \o R) : (E \o R)[i].stage \in Upper
        <3>1. ASSUME NEW i \in DOMAIN (E \o R) PROVE (E \o R)[i].stage \in Upper
            <4>1. /\ Len(E) \in Nat /\ Len(R) \in Nat /\ DOMAIN E = 1..Len(E)
                  /\ DOMAIN R = 1..Len(R) /\ DOMAIN (E \o R) = 1..(Len(E) + Len(R))
                  /\ (E \o R)[i] = IF i <= Len(E) THEN E[i] ELSE R[i - Len(E)]
                BY <2>1, <2>2
            <4>2. i <= Len(E) => i \in DOMAIN E
                BY <4>1
            <4>3. ~(i <= Len(E)) => i - Len(E) \in DOMAIN R
                BY <4>1
            <4>4. QED
                BY <2>1, <2>2, <4>1, <4>2, <4>3 DEF Upper
        <3>2. QED
            BY <3>1
    <2>6. QED
        BY <1>8, <2>3, <2>4, <2>5 DEF f
<1> HIDE DEF Q, E, R
<1>9. \/ f = << >>
      \/ f = Q /\ s.rule \in DOMAIN Config[v] /\ s.stage = "coach"
      \/ f = E \o R /\ s.rule \in DOMAIN Config[v] /\ s.stage = "quarantine"
    BY <1>1
<1>10. QED
    BY <1>6, <1>7, <1>8, <1>9
-----------------------------------------------------------------------------
(* What the forwarder and the scheduler do in one step.                    *)

LiveFor(v) == IF v.kind = "deny" THEN DOMAIN Config[active] ELSE {}
FiredAt(v) == {i \in DOMAIN RuleOrder : RuleOrder[i] \in {r \in LiveFor(v) : Fires(r, v)}}

LEMMA ForwardParts ==
    ASSUME ForwardEvaluation
    PROVE  LET v == Head(chan)
               fired == Pick(RuleOrder, FiredAt(v))
           IN  /\ counters' = [r \in Rules |-> IF r \in LiveFor(v)
                                               THEN Counted(r, v, Key(Config[active][r], v))
                                               ELSE counters[r]]
               /\ stage' = [g \in Groups |->
                     IF g # Nobody /\ \E i \in DOMAIN fired : Key(Config[active][fired[i]], v) = g
                     THEN "detect" ELSE stage[g]]
               /\ scheduled' = scheduled \o FlattenSeq([i \in DOMAIN fired |-> CoachFor(fired[i], v)])
               /\ todo' = [todo EXCEPT !["forwarder"] =
                             [i \in DOMAIN fired |-> DetectEffect(fired[i], v)]]
<1> DEFINE v == Head(chan)
           Fired(F) == Pick(RuleOrder, {i \in DOMAIN RuleOrder : RuleOrder[i] \in F})
<1>1. PICK firing \in {{r \in LiveFor(v) : Fires(r, v)}} :
        /\ counters' = [r \in Rules |-> IF r \in LiveFor(v)
                                        THEN Counted(r, v, Key(Config[active][r], v))
                                        ELSE counters[r]]
        /\ stage' = [g \in Groups |->
              IF g # Nobody /\ \E i \in DOMAIN Fired(firing) :
                                  Key(Config[active][Fired(firing)[i]], v) = g
              THEN "detect" ELSE stage[g]]
        /\ scheduled' = scheduled \o FlattenSeq([i \in DOMAIN Fired(firing) |->
                                                  CoachFor(Fired(firing)[i], v)])
        /\ todo' = [todo EXCEPT !["forwarder"] =
                      [i \in DOMAIN Fired(firing) |-> DetectEffect(Fired(firing)[i], v)]]
    BY Zenon DEF ForwardEvaluation, LiveFor
<1>2. firing = {r \in LiveFor(v) : Fires(r, v)}
    BY <1>1
<1>3. Fired(firing) = Pick(RuleOrder, FiredAt(v))
    BY <1>2 DEF FiredAt
<1> HIDE DEF Fired
<1>4. QED
    BY <1>1, <1>3, Zenon

LEMMA ForwardFacts ==
    ASSUME TypeOK, ForwardEvaluation
    PROVE  LET v == Head(chan)
           IN  /\ v \in Receipt /\ v.kind \in {"deny", "activate"} /\ chan # << >>
               /\ chan' = Tail(chan)
               /\ counters' = [r \in Rules |-> IF r \in LiveFor(v)
                                               THEN Counted(r, v, Key(Config[active][r], v))
                                               ELSE counters[r]]
               /\ \E fx \in Seq(Receipt), new \in Seq(Slot) :
                     /\ todo' = [todo EXCEPT !["forwarder"] = fx]
                     /\ scheduled' = scheduled \o new
                     /\ \A i \in DOMAIN new : new[i].stage = "coach"
                     /\ \A i \in DOMAIN fx : \E r \in LiveFor(v) :
                           Fires(r, v) /\ fx[i] = DetectEffect(r, v)
                     /\ \A r, g : CountIn(fx, Of("detect", r, g)) <= 1
<1> DEFINE v == Head(chan)
           I == FiredAt(v)
           fired == Pick(RuleOrder, I)
           fx == [i \in DOMAIN fired |-> DetectEffect(fired[i], v)]
           ss == [i \in DOMAIN fired |-> CoachFor(fired[i], v)]
           new == FlattenSeq(ss)
<1>1. chan \in Seq(Receipt) /\ chan # << >> /\ v \in Receipt /\ v.kind \in {"deny", "activate"}
    BY DEF ForwardEvaluation, TypeOK
<1>2. /\ chan' = Tail(chan)
      /\ counters' = [r \in Rules |-> IF r \in LiveFor(v)
                                      THEN Counted(r, v, Key(Config[active][r], v))
                                      ELSE counters[r]]
      /\ todo' = [todo EXCEPT !["forwarder"] = fx]
      /\ scheduled' = scheduled \o new
    BY ForwardParts, Zenon DEF ForwardEvaluation
<1>3. I \in SUBSET DOMAIN RuleOrder /\ RuleOrder \in Seq(Rules)
    BY EnforcementAssumption DEF FiredAt
<1>4. \A i \in I : RuleOrder[i] \in LiveFor(v) /\ Fires(RuleOrder[i], v)
    BY DEF FiredAt
<1>5. LiveFor(v) \subseteq DOMAIN Config[active]
    BY DEF LiveFor
<1> HIDE DEF I
<1>6. PICK At \in Bijection(1..Cardinality(I), I) :
          \A k \in 1..Cardinality(I) : fired[k] = RuleOrder[At[k]]
    BY <1>3, PickFacts
<1>7. /\ Cardinality(I) \in Nat /\ fired \in Seq(Rules) /\ Len(fired) = Cardinality(I)
      /\ DOMAIN fired = 1..Cardinality(I)
    BY <1>3, PickFacts
<1>8. /\ \A k \in 1..Cardinality(I) : At[k] \in I
      /\ \A j, k \in 1..Cardinality(I) : At[j] = At[k] => j = k
    BY <1>6 DEF Bijection, Injection, IsInjective
<1> HIDE DEF v, fired
<1>9. \A k \in DOMAIN fired : /\ fired[k] \in LiveFor(v) /\ Fires(fired[k], v)
                              /\ fired[k] \in DOMAIN Config[active]
    BY <1>4, <1>5, <1>6, <1>7, <1>8
<1>10. \A j, k \in DOMAIN fired : fired[j] = fired[k] => j = k
    <2>1. ASSUME NEW j \in DOMAIN fired, NEW k \in DOMAIN fired, fired[j] = fired[k]
          PROVE  j = k
        <3>1. j \in 1..Cardinality(I) /\ k \in 1..Cardinality(I)
            BY <1>7
        <3>2. At[j] \in DOMAIN RuleOrder /\ At[k] \in DOMAIN RuleOrder
              /\ RuleOrder[At[j]] = RuleOrder[At[k]]
            BY <1>3, <1>6, <1>8, <2>1, <3>1
        <3>3. At[j] = At[k]
            BY <3>2, EnforcementAssumption
        <3>4. QED
            BY <1>8, <3>1, <3>3
    <2>2. QED
        BY <2>1
<1>11. \A k \in DOMAIN fired : /\ fx[k] = DetectEffect(fired[k], v) /\ fx[k] \in Receipt
                               /\ fx[k].rule = fired[k]
    BY <1>1, <1>9, DetectEffectFacts
<1>12. DOMAIN fx = 1..Cardinality(I) /\ fx = [i \in 1..Cardinality(I) |-> fx[i]]
    BY <1>7
<1>13. DOMAIN ss = 1..Cardinality(I) /\ ss = [i \in 1..Cardinality(I) |-> ss[i]]
    BY <1>7
<1>14. \A k \in DOMAIN fired : /\ ss[k] \in Seq(Slot)
                               /\ \A i \in DOMAIN ss[k] : ss[k][i].stage = "coach"
    BY <1>1, <1>9, CoachForFacts
<1> HIDE DEF fx, ss
<1>15. fx \in Seq(Receipt)
    BY <1>7, <1>11, <1>12
<1>16. ss \in Seq(Seq(Slot))
    <2> DEFINE T == Seq(Slot)
    <2>1. \A i \in 1..Cardinality(I) : ss[i] \in T
        BY <1>7, <1>14
    <2> HIDE DEF T
    <2>2. ss \in Seq(T)
        BY <1>7, <1>13, <2>1
    <2>3. QED
        BY <2>2 DEF T
<1>17. new \in Seq(Slot)
    BY <1>16, FlattenType
<1>18. \A i \in DOMAIN new : new[i].stage = "coach"
    <2> DEFINE C == {s \in Slot : s.stage = "coach"}
    <2>1. \A i \in DOMAIN ss : \A j \in DOMAIN ss[i] : ss[i][j] \in C
        <3>1. ASSUME NEW i \in DOMAIN ss, NEW j \in DOMAIN ss[i] PROVE ss[i][j] \in C
            <4>1. i \in DOMAIN fired
                BY <1>7, <1>13
            <4>2. ss[i] \in Seq(Slot) /\ ss[i][j].stage = "coach"
                BY <1>14, <4>1
            <4>3. ss[i][j] \in Slot
                BY <4>2
            <4>4. QED
                BY <4>2, <4>3
        <3>2. QED
            BY <3>1
    <2>2. \A s \in C : s.stage = "coach"
        OBVIOUS
    <2> HIDE DEF C
    <2>3. \A i \in DOMAIN new : new[i] \in C
        BY <1>16, <2>1, FlattenElements
    <2>4. QED
        BY <2>2, <2>3
<1>19. ASSUME NEW r, NEW g PROVE CountIn(fx, Of("detect", r, g)) <= 1
    <2> DEFINE P == {i \in DOMAIN fx : fx[i] \in Of("detect", r, g)}
    <2>1. \A i, j \in P : i = j
        <3>1. ASSUME NEW i \in P, NEW j \in P PROVE i = j
            <4>1. i \in DOMAIN fired /\ j \in DOMAIN fired
                BY <1>7, <1>12
            <4>2. fx[i].rule = r /\ fx[j].rule = r
                BY DEF Of
            <4>3. QED
                BY <1>10, <1>11, <4>1, <4>2
        <3>2. QED
            BY <3>1
    <2> HIDE DEF P
    <2>2. Cardinality(P) <= 1
        BY <2>1, AtMostOne
    <2>3. QED
        BY <2>2 DEF P, CountIn
<1>20. \A i \in DOMAIN fx : \E r \in LiveFor(v) : Fires(r, v) /\ fx[i] = DetectEffect(r, v)
    <2>1. ASSUME NEW i \in DOMAIN fx
          PROVE  \E r \in LiveFor(v) : Fires(r, v) /\ fx[i] = DetectEffect(r, v)
        <3>1. i \in DOMAIN fired
            BY <1>7, <1>12
        <3>2. fired[i] \in LiveFor(v) /\ Fires(fired[i], v) /\ fx[i] = DetectEffect(fired[i], v)
            BY <1>9, <1>11, <3>1
        <3>3. QED
            BY <3>2
    <2>2. QED
        BY <2>1
<1> HIDE DEF new
<1>21. /\ todo' = [todo EXCEPT !["forwarder"] = fx]
       /\ scheduled' = scheduled \o new
       /\ \A i \in DOMAIN new : new[i].stage = "coach"
       /\ \A i \in DOMAIN fx : \E r \in LiveFor(v) : Fires(r, v) /\ fx[i] = DetectEffect(r, v)
       /\ \A r, g : CountIn(fx, Of("detect", r, g)) <= 1
    BY <1>2, <1>18, <1>19, <1>20
<1>22. \E fx_1 \in Seq(Receipt), new_1 \in Seq(Slot) :
          /\ todo' = [todo EXCEPT !["forwarder"] = fx_1]
          /\ scheduled' = scheduled \o new_1
          /\ \A i \in DOMAIN new_1 : new_1[i].stage = "coach"
          /\ \A i \in DOMAIN fx_1 : \E r \in LiveFor(v) :
                Fires(r, v) /\ fx_1[i] = DetectEffect(r, v)
          /\ \A r, g : CountIn(fx_1, Of("detect", r, g)) <= 1
    BY <1>15, <1>17, <1>21, Zenon
<1>23. QED
    BY <1>1, <1>2, <1>22, Zenon DEF v

LEMMA PollFacts ==
    ASSUME TypeOK, Poll
    PROVE  \E due \in Seq(Slot), later \in Seq(Slot), new \in Seq(Slot) :
              /\ todo' = [todo EXCEPT !["scheduler"] =
                            [i \in DOMAIN due |-> StageEffect(due[i])]]
              /\ scheduled' = later \o new
              /\ \A W : CountIn(due, W) + CountIn(later, W) = CountIn(scheduled, W)
              /\ \A i \in DOMAIN new : new[i].stage \in Upper
              /\ \A k \in Upper : \A r, g : CountIn(new, Slots(k, r, g))
                                         <= CountIn(due, Slots(ParentOf(k), r, g))
              /\ \A i \in DOMAIN due : \E j \in DOMAIN scheduled : due[i] = scheduled[j]
              /\ \A i \in DOMAIN later : \E j \in DOMAIN scheduled : later[i] = scheduled[j]
<1> DEFINE I == {i \in DOMAIN scheduled : scheduled[i].left = 0}
           J == {i \in DOMAIN scheduled : scheduled[i].left > 0}
           due == Pick(scheduled, I)
           later == Pick(scheduled, J)
           ss == [i \in DOMAIN due |-> NextStages(due[i], Config[active])]
           new == FlattenSeq(ss)
<1>1. scheduled \in Seq(Slot) /\ active \in Versions
    BY DEF TypeOK, Slot
<1>2. /\ todo' = [todo EXCEPT !["scheduler"] = [i \in DOMAIN due |-> StageEffect(due[i])]]
      /\ scheduled' = later \o new
    BY Zenon DEF Poll
<1>3. I \in SUBSET DOMAIN scheduled /\ J \in SUBSET DOMAIN scheduled
    OBVIOUS
<1>4. I \cup J = DOMAIN scheduled /\ I \cap J = {}
    <2>1. \A i \in DOMAIN scheduled : scheduled[i].left \in Nat
        <3>1. \A i \in DOMAIN scheduled : scheduled[i] \in Slot
            BY <1>1
        <3>2. \A s \in Slot : s.left \in Nat
            BY DEF Slot
        <3>3. QED
            BY <3>1, <3>2
    <2>2. QED
        BY <2>1
<1> HIDE DEF I, J
<1>5. /\ due \in Seq(Slot) /\ DOMAIN due = 1..Cardinality(I) /\ Cardinality(I) \in Nat
      /\ Len(due) = Cardinality(I)
    BY <1>1, <1>3, PickFacts
<1>6. later \in Seq(Slot)
    BY <1>1, <1>3, PickFacts
<1>7. ASSUME NEW W PROVE CountIn(due, W) + CountIn(later, W) = CountIn(scheduled, W)
    <2> DEFINE A == {i \in I : scheduled[i] \in W}
               B == {i \in J : scheduled[i] \in W}
    <2>1. CountIn(due, W) = Cardinality(A) /\ CountIn(later, W) = Cardinality(B)
        BY <1>1, <1>3, CountPick
    <2>2. A \cup B = {i \in DOMAIN scheduled : scheduled[i] \in W} /\ A \cap B = {}
        BY <1>4
    <2>3. IsFiniteSet(A) /\ IsFiniteSet(B)
        <3>1. A \in SUBSET DOMAIN scheduled /\ B \in SUBSET DOMAIN scheduled
            BY <1>3
        <3> HIDE DEF A, B
        <3>2. QED
            BY <1>1, <3>1, PositionsFinite
    <2> HIDE DEF A, B
    <2>4. Cardinality(A \cup B) = Cardinality(A) + Cardinality(B) - Cardinality(A \cap B)
        BY <2>3, FS_Union
    <2>5. Cardinality(A) \in Nat /\ Cardinality(B) \in Nat /\ Cardinality(A \cap B) = 0
        BY <2>2, <2>3, FS_CardinalityType, FS_EmptySet
    <2>6. QED
        BY <2>1, <2>2, <2>4, <2>5 DEF CountIn
<1>8. \A i \in DOMAIN due : \E j \in DOMAIN scheduled : due[i] = scheduled[j]
    <2>1. PICK At \in Bijection(1..Cardinality(I), I) :
             \A k \in 1..Cardinality(I) : due[k] = scheduled[At[k]]
        BY <1>1, <1>3, PickFacts
    <2>2. \A k \in 1..Cardinality(I) : At[k] \in I
        BY <2>1 DEF Bijection, Injection, IsInjective
    <2>3. QED
        BY <1>3, <1>5, <2>1, <2>2
<1>9. \A i \in DOMAIN later : \E j \in DOMAIN scheduled : later[i] = scheduled[j]
    <2>1. PICK At \in Bijection(1..Cardinality(J), J) :
             \A k \in 1..Cardinality(J) : later[k] = scheduled[At[k]]
        BY <1>1, <1>3, PickFacts
    <2>2. \A k \in 1..Cardinality(J) : At[k] \in J
        BY <2>1 DEF Bijection, Injection, IsInjective
    <2>3. DOMAIN later = 1..Cardinality(J)
        BY <1>1, <1>3, PickFacts
    <2>4. QED
        BY <1>3, <2>1, <2>2, <2>3
<1> HIDE DEF due, later
<1>10. \A i \in DOMAIN due : due[i] \in Slot
    BY <1>5
<1>11. \A i \in DOMAIN due :
          /\ ss[i] \in Seq(Slot) /\ \A j \in DOMAIN ss[i] : ss[i][j].stage \in Upper
          /\ \A k \in Upper : \A r, g : CountIn(ss[i], Slots(k, r, g))
                                     <= IF due[i] \in Slots(ParentOf(k), r, g) THEN 1 ELSE 0
    BY <1>1, <1>10, NextStagesFacts
<1>12. DOMAIN ss = DOMAIN due /\ ss = [i \in DOMAIN due |-> ss[i]]
    OBVIOUS
<1> HIDE DEF ss
<1>13. ss \in Seq(Seq(Slot))
    <2> DEFINE T == Seq(Slot)
    <2>1. \A i \in DOMAIN due : ss[i] \in T
        BY <1>11
    <2> HIDE DEF T
    <2>2. ss \in Seq(T)
        BY <1>5, <1>12, <2>1
    <2>3. QED
        BY <2>2 DEF T
<1>14. new \in Seq(Slot)
    BY <1>13, FlattenType
<1>15. \A i \in DOMAIN new : new[i].stage \in Upper
    <2> DEFINE C == {s \in Slot : s.stage \in Upper}
    <2>1. \A i \in DOMAIN ss : \A j \in DOMAIN ss[i] : ss[i][j] \in C
        <3>1. ASSUME NEW i \in DOMAIN ss, NEW j \in DOMAIN ss[i] PROVE ss[i][j] \in C
            <4>1. ss[i] \in Seq(Slot) /\ ss[i][j].stage \in Upper
                BY <1>11, <1>12
            <4>2. ss[i][j] \in Slot
                BY <4>1
            <4>3. QED
                BY <4>1, <4>2
        <3>2. QED
            BY <3>1
    <2>2. \A s \in C : s.stage \in Upper
        OBVIOUS
    <2> HIDE DEF C
    <2>3. \A i \in DOMAIN new : new[i] \in C
        BY <1>13, <2>1, FlattenElements
    <2>4. QED
        BY <2>2, <2>3
<1>16. ASSUME NEW k \in Upper, NEW r, NEW g
       PROVE  CountIn(new, Slots(k, r, g)) <= CountIn(due, Slots(ParentOf(k), r, g))
    <2> DEFINE W == Slots(k, r, g)
               K == {i \in DOMAIN due : due[i] \in Slots(ParentOf(k), r, g)}
    <2>1. K \in SUBSET DOMAIN ss
        BY <1>12
    <2>2. \A i \in DOMAIN ss : CountIn(ss[i], W) <= IF i \in K THEN 1 ELSE 0
        BY <1>11, <1>12
    <2>3. CountIn(due, Slots(ParentOf(k), r, g)) = Cardinality(K)
        BY DEF CountIn
    <2> HIDE DEF K, W
    <2>4. CountIn(new, W) <= Cardinality(K)
        BY <1>13, <2>1, <2>2, FlattenFacts
    <2>5. QED
        BY <2>3, <2>4 DEF W
<1> HIDE DEF new
<1>17. QED
    BY <1>2, <1>5, <1>6, <1>7, <1>8, <1>9, <1>14, <1>15, <1>16, Zenon
-----------------------------------------------------------------------------
(* Types.                                                                  *)

LEMMA TaskNames ==
    /\ "forwarder" \in Tasks /\ "scheduler" \in Tasks
    /\ Observed \subseteq Tasks /\ Activations \subseteq Tasks
    /\ "forwarder" \notin Observed /\ "scheduler" \notin Observed
    /\ "forwarder" \notin Activations /\ "scheduler" \notin Activations
    /\ Observed \cap Activations = {}
BY EnforcementAssumption DEF Tasks

LEMMA ThresholdFacts ==
    ASSUME NEW v \in Versions, NEW r \in DOMAIN Config[v]
    PROVE  /\ r \in Rules /\ Config[v][r].threshold \in Nat \ {0} /\ Config[v][r].window \in Nat
           /\ Config[v][r].perPrincipal \in BOOLEAN
BY RuleFacts DEF IsRule

LEMMA InitTypes == Init => TypeOK
<1> SUFFICES ASSUME Init PROVE TypeOK
    OBVIOUS
<1>1. /\ workload \in Workloads /\ workload.genesis \in Versions /\ workload.maxFaults \in Nat
    BY EnforcementAssumption DEF Init, IsWorkload
<1>2. ChanCap \in Nat
    BY EnforcementAssumption
<1>3. reputation \in [Groups -> 0..Scale] /\ quarantined \in [Groups -> BOOLEAN]
      /\ stage \in [Groups -> Stages \cup {"none"}]
    BY DEF Init, Scale
<1>4. counters \in [Rules -> [Groups -> Seq(Nat)]]
    BY DEF Init
<1>5. \A r \in DOMAIN Config[active], g \in Groups :
         Len(counters[r][g]) < Config[active][r].threshold
    <2>1. ASSUME NEW r \in DOMAIN Config[active], NEW g \in Groups
          PROVE  Len(counters[r][g]) < Config[active][r].threshold
        <3>1. r \in Rules /\ Config[active][r].threshold \in Nat \ {0}
            BY <1>1, ThresholdFacts DEF Init
        <3>2. counters[r][g] = << >>
            BY <3>1 DEF Init
        <3>3. QED
            BY <3>1, <3>2
    <2>2. QED
        BY <2>1
<1>6. /\ scheduled \in Seq(Slot) /\ chan \in Seq(Receipt) /\ Len(chan) <= ChanCap
      /\ todo \in [Tasks -> Seq(Receipt)] /\ log \in Seq(Receipt)
      /\ landed \in [Tasks -> Seq(Receipt)] /\ \A t \in Tasks : Len(landed[t]) <= 1
    BY <1>2 DEF Init
<1>7. QED
    BY <1>1, <1>3, <1>4, <1>5, <1>6 DEF Init, TypeOK, Slot

LEMMA ObserveTypes ==
    ASSUME TypeOK, NEW d \in Observed, Observe(d)
    PROVE  TypeOK'
<1> DEFINE x == [kind |-> IF d \in Shadow THEN "shadow" ELSE "deny", agent |-> Subject[d],
                 rule |-> "none", delta |-> 0, span |-> 0, version |-> evaluating,
                 age |-> 0]
<1>1. x \in Receipt
    BY EnforcementAssumption DEF Receipt, Groups, TypeOK
<1>2. todo' = [todo EXCEPT ![d] = <<x>>] /\ observed' = observed \cup {d}
    BY DEF Observe
<1> HIDE DEF x
<1>3. todo' \in [Tasks -> Seq(Receipt)]
    <2>1. <<x>> \in Seq(Receipt)
        BY <1>1
    <2>2. todo \in [Tasks -> Seq(Receipt)]
        BY DEF TypeOK
    <2>3. QED
        BY <1>2, <2>1, <2>2
<1>4. observed' \subseteq Observed
    BY <1>2 DEF TypeOK
<1>5. QED
    BY <1>3, <1>4 DEF TypeOK, Observe, agentVars, actVars, runVars

LEMMA HeadFacts ==
    ASSUME TypeOK, NEW t \in Tasks, todo[t] # << >>
    PROVE  /\ todo[t] \in Seq(Receipt) /\ Head(todo[t]) \in Receipt
           /\ Tail(todo[t]) \in Seq(Receipt)
           /\ Len(Tail(todo[t])) = Len(todo[t]) - 1
           /\ \A i \in DOMAIN Tail(todo[t]) : i + 1 \in DOMAIN todo[t]
                                              /\ Tail(todo[t])[i] = todo[t][i + 1]
           /\ 1 \in DOMAIN todo[t] /\ Head(todo[t]) = todo[t][1]
BY DEF TypeOK

LEMMA LandedFacts ==
    ASSUME TypeOK, NEW t \in Tasks, landed[t] # << >>
    PROVE  /\ landed[t] \in Seq(Receipt) /\ landed[t][1] \in Receipt
           /\ landed[t] = <<landed[t][1]>>
<1>1. landed[t] \in Seq(Receipt) /\ Len(landed[t]) <= 1
    BY DEF TypeOK
<1> DEFINE q == landed[t]
<1> HIDE DEF q
<1>2. q \in Seq(Receipt) /\ Len(q) = 1
    <2>1. q \in Seq(Receipt) /\ q # << >> /\ Len(q) <= 1
        BY <1>1 DEF q
    <2>2. Len(q) \in Nat
        BY <2>1
    <2>3. Len(q) # 0
        BY <2>1
    <2>4. QED
        BY <2>1, <2>2, <2>3
<1>3. q[1] \in Receipt /\ q = <<q[1]>>
    BY <1>2
<1>4. QED
    BY <1>2, <1>3 DEF q

LEMMA TaskTypes ==
    ASSUME TypeOK, NEW t \in Tasks,
           AppendReceipt(t) \/ AppendFails(t) \/ Publish(t)
    PROVE  TypeOK'
<1>1. CASE AppendReceipt(t)
    <2>1. todo[t] # << >>
        BY <1>1 DEF AppendReceipt
    <2> DEFINE x == Head(todo[t])
    <2>2. x \in Receipt /\ Tail(todo[t]) \in Seq(Receipt)
        BY <2>1, HeadFacts
    <2>3. /\ landed' = [landed EXCEPT ![t] = <<x>>]
          /\ todo' = [todo EXCEPT ![t] = Tail(todo[t])]
          /\ log' = IF x.kind \in Stages THEN Append(log, x) ELSE log
        BY <1>1 DEF AppendReceipt
    <2> HIDE DEF x
    <2>4. <<x>> \in Seq(Receipt) /\ Len(<<x>>) <= 1
        BY <2>2
    <2>5. /\ landed' \in [Tasks -> Seq(Receipt)] /\ \A u \in Tasks : Len(landed'[u]) <= 1
        BY <2>3, <2>4 DEF TypeOK
    <2>6. todo' \in [Tasks -> Seq(Receipt)]
        BY <2>2, <2>3 DEF TypeOK
    <2>7. log' \in Seq(Receipt)
        <3>1. log \in Seq(Receipt)
            BY DEF TypeOK
        <3>2. QED
            BY <2>2, <2>3, <3>1
    <2>8. QED
        BY <1>1, <2>5, <2>6, <2>7 DEF TypeOK, AppendReceipt, agentVars, actVars, runVars
<1>2. CASE AppendFails(t)
    <2>1. todo[t] # << >>
        BY <1>2 DEF AppendFails
    <2>2. Tail(todo[t]) \in Seq(Receipt)
        BY <2>1, HeadFacts
    <2>3. todo' = [todo EXCEPT ![t] = Tail(todo[t])]
        BY <1>2 DEF AppendFails
    <2>4. todo' \in [Tasks -> Seq(Receipt)]
        BY <2>2, <2>3 DEF TypeOK
    <2>5. faults' \in 0..workload.maxFaults
        <3>1. workload.maxFaults \in Nat /\ faults \in 0..workload.maxFaults
            BY WorkloadFacts DEF TypeOK
        <3>2. faults < workload.maxFaults /\ faults' = faults + 1
            BY <1>2 DEF AppendFails
        <3>3. QED
            BY <3>1, <3>2
    <2>6. QED
        BY <1>2, <2>4, <2>5 DEF TypeOK, AppendFails, agentVars, actVars
<1>3. CASE Publish(t)
    <2>1. landed[t] # << >>
        BY <1>3 DEF Publish
    <2> DEFINE x == landed[t][1]
    <2>2. x \in Receipt
        BY <2>1, LandedFacts
    <2>3. /\ landed' = [landed EXCEPT ![t] = << >>]
          /\ chan' = IF Len(chan) < ChanCap THEN Append(chan, x) ELSE chan
        BY <1>3 DEF Publish
    <2> HIDE DEF x
    <2>4. chan' \in Seq(Receipt) /\ Len(chan') <= ChanCap
        <3>1. chan \in Seq(Receipt) /\ Len(chan) <= ChanCap /\ ChanCap \in Nat
            BY EnforcementAssumption DEF TypeOK
        <3>2. QED
            BY <2>2, <2>3, <3>1
    <2>5. /\ landed' \in [Tasks -> Seq(Receipt)] /\ \A u \in Tasks : Len(landed'[u]) <= 1
        BY <2>3 DEF TypeOK
    <2>6. QED
        BY <1>3, <2>4, <2>5 DEF TypeOK, Publish, agentVars, actVars, runVars
<1>4. QED
    BY <1>1, <1>2, <1>3

LEMMA ChanHead ==
    ASSUME TypeOK, chan # << >>
    PROVE  /\ chan \in Seq(Receipt) /\ Head(chan) \in Receipt /\ Tail(chan) \in Seq(Receipt)
           /\ Len(Tail(chan)) <= ChanCap
<1>1. chan \in Seq(Receipt) /\ Len(chan) <= ChanCap /\ ChanCap \in Nat
    BY EnforcementAssumption DEF TypeOK
<1>2. QED
    BY <1>1

LEMMA QuietForwardTypes ==
    ASSUME TypeOK, ForwardSkipped \/ ForwardEnforcement
    PROVE  TypeOK'
<1>1. chan # << >> /\ chan' = Tail(chan)
    BY DEF ForwardSkipped, ForwardEnforcement
<1>2. chan' \in Seq(Receipt) /\ Len(chan') <= ChanCap
    BY <1>1, ChanHead
<1>3. CASE ForwardSkipped
    BY <1>2, <1>3 DEF TypeOK, ForwardSkipped, agentVars, actVars, runVars
<1>4. CASE ForwardEnforcement
    <2> DEFINE v == Head(chan)
    <2>1. v \in Receipt
        BY <1>1, ChanHead
    <2>2. /\ reputation' = [reputation EXCEPT ![v.agent] = Clamp(@ + v.delta)]
          /\ quarantined' = [quarantined EXCEPT ![v.agent] = Flip(v.kind, @)]
        BY <1>4 DEF ForwardEnforcement
    <2> HIDE DEF v
    <2>3. v.agent \in Groups /\ v.delta \in Int
        BY <2>1, ReceiptFields
    <2>4. reputation' \in [Groups -> 0..Scale]
        <3>1. reputation \in [Groups -> 0..Scale]
            BY DEF TypeOK
        <3>2. reputation[v.agent] \in Int
            BY <2>3, <3>1
        <3>3. Clamp(reputation[v.agent] + v.delta) \in 0..Scale
            <4> DEFINE y == reputation[v.agent] + v.delta
            <4>1. y \in Int
                BY <2>3, <3>2
            <4> HIDE DEF y
            <4>2. Clamp(y) \in 0..Scale
                BY <4>1 DEF Clamp, Scale
            <4>3. QED
                BY <4>2 DEF y
        <3>4. QED
            BY <2>2, <2>3, <3>1, <3>3
    <2>5. quarantined' \in [Groups -> BOOLEAN]
        <3>1. quarantined \in [Groups -> BOOLEAN]
            BY DEF TypeOK
        <3>2. Flip(v.kind, quarantined[v.agent]) \in BOOLEAN
            BY <2>3, <3>1, Zenon DEF Flip
        <3>3. QED
            BY <2>2, <2>3, <3>1, <3>2
    <2>6. QED
        BY <1>2, <1>4, <2>4, <2>5 DEF TypeOK, ForwardEnforcement, actVars, runVars
<1>5. QED
    BY <1>3, <1>4

\* What becomes of the counter of a rule.
LEMMA CountedFacts ==
    ASSUME TypeOK, NEW r \in DOMAIN Config[active], NEW v \in Receipt, NEW g \in Groups
    PROVE  LET k == Key(Config[active][r], v)
           IN  /\ k \in Groups
               /\ Counted(r, v, k) \in [Groups -> Seq(Nat)]
               /\ Counted(r, v, k)[g] = IF g # k THEN counters[r][g]
                                        ELSE IF Fires(r, v) THEN << >> ELSE Kept(r, v, k)
<1> DEFINE k == Key(Config[active][r], v)
<1>1. k \in Groups
    BY KeyType
<1>2. counters[r] \in [Groups -> Seq(Nat)]
    BY RuleFacts DEF TypeOK
<1>3. Kept(r, v, k) \in Seq(Nat)
    BY <1>1, KeptFacts
<1>4. Counted(r, v, k)
      = [counters[r] EXCEPT ![k] = IF Fires(r, v) THEN << >> ELSE Kept(r, v, k)]
    BY DEF Counted
<1> HIDE DEF k
<1>5. (IF Fires(r, v) THEN << >> ELSE Kept(r, v, k)) \in Seq(Nat)
    BY <1>3
<1>6. QED
    BY <1>1, <1>2, <1>4, <1>5 DEF k

LEMMA CountersForwarded ==
    ASSUME TypeOK, NEW v \in Receipt,
           counters' = [r \in Rules |-> IF r \in LiveFor(v)
                                        THEN Counted(r, v, Key(Config[active][r], v))
                                        ELSE counters[r]]
    PROVE  /\ counters' \in [Rules -> [Groups -> Seq(Nat)]]
           /\ \A r \in Rules : r \notin LiveFor(v) => counters'[r] = counters[r]
           /\ \A r \in LiveFor(v), g \in Groups :
                 counters'[r][g] = IF g # Key(Config[active][r], v) THEN counters[r][g]
                                   ELSE IF Fires(r, v) THEN << >>
                                   ELSE Kept(r, v, Key(Config[active][r], v))
           /\ \A r \in DOMAIN Config[active], g \in Groups :
                 Len(counters'[r][g]) < Config[active][r].threshold
<1>1. LiveFor(v) \subseteq DOMAIN Config[active] /\ DOMAIN Config[active] \subseteq Rules
    BY EnforcementAssumption DEF LiveFor, TypeOK
<1>2. counters \in [Rules -> [Groups -> Seq(Nat)]]
    BY DEF TypeOK
<1>3. \A r \in LiveFor(v) : Counted(r, v, Key(Config[active][r], v)) \in [Groups -> Seq(Nat)]
    <2>1. Nobody \in Groups
        BY DEF Groups
    <2>2. QED
        BY <1>1, <2>1, CountedFacts
<1>4. counters' \in [Rules -> [Groups -> Seq(Nat)]]
    BY <1>2, <1>3
<1>5. \A r \in Rules : counters'[r] = IF r \in LiveFor(v)
                                      THEN Counted(r, v, Key(Config[active][r], v))
                                      ELSE counters[r]
    OBVIOUS
<1>6. ASSUME NEW r \in LiveFor(v), NEW g \in Groups
      PROVE  counters'[r][g] = IF g # Key(Config[active][r], v) THEN counters[r][g]
                               ELSE IF Fires(r, v) THEN << >>
                               ELSE Kept(r, v, Key(Config[active][r], v))
    <2>1. counters'[r] = Counted(r, v, Key(Config[active][r], v))
        BY <1>1, <1>5
    <2>2. r \in DOMAIN Config[active]
        BY <1>1
    <2>3. QED
        BY <2>1, <2>2, CountedFacts
<1>7. ASSUME NEW r \in DOMAIN Config[active], NEW g \in Groups
      PROVE  Len(counters'[r][g]) < Config[active][r].threshold
    <2>1. Config[active][r].threshold \in Nat \ {0}
        BY ThresholdFacts DEF TypeOK
    <2>2. Len(counters[r][g]) < Config[active][r].threshold
        BY DEF TypeOK
    <2>3. CASE r \notin LiveFor(v)
        <3>1. counters'[r][g] = counters[r][g]
            BY <1>1, <1>5, <2>3
        <3>2. QED
            BY <2>2, <3>1
    <2>4. CASE r \in LiveFor(v)
        <3> DEFINE k == Key(Config[active][r], v)
        <3>1. counters'[r][g] = IF g # k THEN counters[r][g]
                                ELSE IF Fires(r, v) THEN << >> ELSE Kept(r, v, k)
            BY <1>6, <2>4
        <3>2. ~Fires(r, v) => ~(Len(Kept(r, v, k)) >= Config[active][r].threshold)
            BY DEF Fires
        <3>3. Kept(r, v, k) \in Seq(Nat)
            BY KeyType, KeptFacts
        <3>4. Len(Kept(r, v, k)) \in Nat
            BY <3>3
        <3> HIDE DEF k
        <3>5. ~Fires(r, v) => Len(Kept(r, v, k)) < Config[active][r].threshold
            BY <2>1, <3>2, <3>4
        <3>6. Len(<< >>) < Config[active][r].threshold
            BY <2>1
        <3>7. QED
            BY <2>2, <3>1, <3>5, <3>6
    <2>5. QED
        BY <2>3, <2>4
<1>8. QED
    BY <1>1, <1>4, <1>5, <1>6, <1>7

LEMMA ForwardTypes ==
    ASSUME TypeOK, ForwardEvaluation
    PROVE  TypeOK'
<1> DEFINE v == Head(chan)
<1>1. /\ v \in Receipt /\ chan # << >> /\ chan' = Tail(chan)
      /\ counters' = [r \in Rules |-> IF r \in LiveFor(v)
                                      THEN Counted(r, v, Key(Config[active][r], v))
                                      ELSE counters[r]]
    BY ForwardFacts
<1>2. PICK fx \in Seq(Receipt), new \in Seq(Slot) :
          todo' = [todo EXCEPT !["forwarder"] = fx] /\ scheduled' = scheduled \o new
    BY ForwardFacts, Zenon
<1>3. chan' \in Seq(Receipt) /\ Len(chan') <= ChanCap
    BY <1>1, ChanHead
<1> HIDE DEF v
<1>4. /\ counters' \in [Rules -> [Groups -> Seq(Nat)]]
      /\ \A r \in DOMAIN Config[active], g \in Groups :
            Len(counters'[r][g]) < Config[active][r].threshold
    BY <1>1, CountersForwarded
<1>5. todo' \in [Tasks -> Seq(Receipt)]
    BY <1>2, TaskNames DEF TypeOK
<1>6. scheduled' \in Seq(Slot)
    BY <1>2 DEF TypeOK, Slot
<1>7. stage' \in [Groups -> Stages \cup {"none"}]
    <2>1. stage \in [Groups -> Stages \cup {"none"}]
        BY DEF TypeOK
    <2>2. \E P : stage' = [g \in Groups |-> IF g \in P THEN "detect" ELSE stage[g]]
        <3> DEFINE fired == Pick(RuleOrder, FiredAt(Head(chan)))
                   P == {g \in Groups : g # Nobody /\ \E i \in DOMAIN fired :
                                           Key(Config[active][fired[i]], Head(chan)) = g}
        <3>1. stage' = [g \in Groups |->
                 IF g # Nobody /\ \E i \in DOMAIN fired :
                                     Key(Config[active][fired[i]], Head(chan)) = g
                 THEN "detect" ELSE stage[g]]
            BY ForwardParts, Zenon
        <3> HIDE DEF fired
        <3>2. stage' = [g \in Groups |-> IF g \in P THEN "detect" ELSE stage[g]]
            BY <3>1
        <3>3. QED
            BY <3>2
    <2>3. QED
        BY <2>1, <2>2 DEF Stages
<1>8. /\ UNCHANGED <<active, reputation, quarantined, landed, log, observed, actVars, runVars>>
    BY DEF ForwardEvaluation
<1>9. QED
    BY <1>3, <1>4, <1>5, <1>6, <1>7, <1>8 DEF TypeOK, Slot, actVars, runVars

LEMMA PollTypes ==
    ASSUME TypeOK, Poll
    PROVE  TypeOK'
<1>1. PICK due \in Seq(Slot), later \in Seq(Slot), new \in Seq(Slot) :
          /\ todo' = [todo EXCEPT !["scheduler"] = [i \in DOMAIN due |-> StageEffect(due[i])]]
          /\ scheduled' = later \o new
    BY PollFacts, Zenon
<1> DEFINE fx == [i \in DOMAIN due |-> StageEffect(due[i])]
<1>2. \A i \in DOMAIN due : due[i] \in Slot
    OBVIOUS
<1>3. DOMAIN due = 1..Len(due) /\ Len(due) \in Nat
    OBVIOUS
<1>4. \A i \in DOMAIN due : fx[i] \in Receipt
    BY <1>2, StageEffectFacts
<1>5. fx = [i \in 1..Len(due) |-> fx[i]]
    BY <1>3
<1>6. todo' = [todo EXCEPT !["scheduler"] = fx]
    BY <1>1
<1> HIDE DEF fx
<1>7. fx \in Seq(Receipt)
    BY <1>3, <1>4, <1>5
<1>8. todo' \in [Tasks -> Seq(Receipt)]
    BY <1>6, <1>7, TaskNames DEF TypeOK
<1>9. scheduled' \in Seq(Slot)
    BY <1>1
<1>10. UNCHANGED <<active, agentVars, counters, chan, landed, log, observed, actVars, runVars>>
    BY DEF Poll
<1>11. QED
    BY <1>8, <1>9, <1>10 DEF TypeOK, Slot, agentVars, actVars, runVars

LEMMA ActivateTypes ==
    ASSUME TypeOK, NEW a \in Activations, Activating(a)
    PROVE  TypeOK'
<1>1. NewVersion[a] \in Versions /\ a \in Tasks
    BY EnforcementAssumption, TaskNames
<1>2. CASE ActivateEvaluator(a)
    BY <1>1, <1>2 DEF TypeOK, ActivateEvaluator, agentVars, taskVars, runVars
<1>3. CASE FetchCurrent(a)
    BY <1>3 DEF TypeOK, FetchCurrent, agentVars, taskVars, runVars
<1>4. CASE BindEngine(a)
    <2> DEFINE x == [kind |-> "activate", agent |-> Nobody, rule |-> "none", delta |-> 0,
                     span |-> 0, version |-> fetched[a], age |-> 0]
    <2>1. x \in Receipt /\ fetched[a] \in Versions
        BY DEF Receipt, Groups, TypeOK
    <2>2. /\ todo' = [todo EXCEPT ![a] = <<x>>]
          /\ counters' = [r \in Rules |-> [g \in Groups |-> << >>]]
          /\ active' = fetched[a]
        BY <1>4 DEF BindEngine
    <2> HIDE DEF x
    <2>3. <<x>> \in Seq(Receipt)
        BY <2>1
    <2>4. todo' \in [Tasks -> Seq(Receipt)]
        BY <1>1, <2>2, <2>3 DEF TypeOK
    <2>5. counters' \in [Rules -> [Groups -> Seq(Nat)]]
        BY <2>2
    <2>6. \A r \in DOMAIN Config[active'], g \in Groups :
              Len(counters'[r][g]) < Config[active'][r].threshold
        <3>1. ASSUME NEW r \in DOMAIN Config[active'], NEW g \in Groups
              PROVE  Len(counters'[r][g]) < Config[active'][r].threshold
            <4>1. r \in Rules /\ Config[active'][r].threshold \in Nat \ {0}
                BY <2>1, <2>2, ThresholdFacts
            <4>2. counters'[r][g] = << >>
                BY <2>2, <4>1
            <4>3. QED
                BY <4>1, <4>2
        <3>2. QED
            BY <3>1
    <2>7. QED
        BY <1>4, <2>1, <2>2, <2>4, <2>5, <2>6
        DEF TypeOK, BindEngine, agentVars, runVars
<1>5. QED
    BY <1>2, <1>3, <1>4 DEF Activating

\* Time passes.
LEMMA TickFacts ==
    ASSUME TypeOK, Tick
    PROVE  /\ counters' \in [Rules -> [Groups -> Seq(Nat)]]
           /\ \A r \in Rules, g \in Groups :
                 /\ DOMAIN counters'[r][g] = DOMAIN counters[r][g]
                 /\ Len(counters'[r][g]) = Len(counters[r][g])
                 /\ \A i \in DOMAIN counters[r][g] :
                       LET x == counters[r][g][i]
                           c == workload.maxLag + MaxWindow + 1
                       IN  counters'[r][g][i] = IF x + 1 <= c THEN x + 1 ELSE c
           /\ scheduled' \in Seq(Slot)
           /\ DOMAIN scheduled' = DOMAIN scheduled
           /\ \A i \in DOMAIN scheduled :
                 /\ scheduled[i] \in Slot /\ scheduled'[i] \in Slot
                 /\ scheduled'[i].stage = scheduled[i].stage
                 /\ scheduled'[i].rule = scheduled[i].rule
                 /\ scheduled'[i].agent = scheduled[i].agent
<1> DEFINE c == workload.maxLag + MaxWindow + 1
<1>1. c \in Nat
    BY EnforcementAssumption, WorkloadFacts
<1>2. counters' = [r \in Rules |-> [g \in Groups |->
                     [i \in DOMAIN counters[r][g] |-> Min({counters[r][g][i] + 1, c})]]]
    BY DEF Tick
<1> HIDE DEF c
<1>3. ASSUME NEW r \in Rules, NEW g \in Groups
      PROVE  /\ counters'[r][g] \in Seq(Nat)
             /\ DOMAIN counters'[r][g] = DOMAIN counters[r][g]
             /\ Len(counters'[r][g]) = Len(counters[r][g])
             /\ \A i \in DOMAIN counters[r][g] :
                   counters'[r][g][i] = IF counters[r][g][i] + 1 <= c
                                        THEN counters[r][g][i] + 1 ELSE c
    <2> DEFINE q == counters[r][g]
               p == counters'[r][g]
    <2>1. q \in Seq(Nat)
        BY DEF TypeOK
    <2>2. p = [i \in DOMAIN q |-> Min({q[i] + 1, c})]
        BY <1>2
    <2> HIDE DEF q, p
    <2>3. Len(q) \in Nat /\ DOMAIN q = 1..Len(q) /\ \A i \in DOMAIN q : q[i] \in Nat
        BY <2>1
    <2>4. ASSUME NEW i \in DOMAIN q
          PROVE  p[i] \in Nat /\ p[i] = IF q[i] + 1 <= c THEN q[i] + 1 ELSE c
        <3>1. q[i] + 1 \in Nat
            BY <2>3
        <3>2. p[i] = Min({q[i] + 1, c})
            BY <2>2
        <3> DEFINE y == q[i] + 1
        <3>3. y \in Nat /\ y \in Int /\ c \in Int
            BY <1>1, <3>1
        <3> HIDE DEF y
        <3>4. Min({y, c}) = IF y <= c THEN y ELSE c
            BY <3>3, MinTwo
        <3>5. QED
            BY <1>1, <3>2, <3>3, <3>4 DEF y
    <2>5. DOMAIN p = DOMAIN q /\ p = [i \in 1..Len(q) |-> p[i]]
        BY <2>2, <2>3
    <2>6. p \in Seq(Nat) /\ Len(p) = Len(q)
        BY <2>3, <2>4, <2>5
    <2>7. QED
        BY <2>4, <2>5, <2>6 DEF p, q
<1>4. counters' \in [Rules -> [Groups -> Seq(Nat)]]
    <2>1. \A r \in Rules : DOMAIN counters'[r] = Groups
                          /\ counters'[r] = [g \in Groups |-> counters'[r][g]]
        BY <1>2
    <2>2. \A r \in Rules : counters'[r] \in [Groups -> Seq(Nat)]
        BY <1>3, <2>1
    <2>3. counters' = [r \in Rules |-> counters'[r]]
        BY <1>2
    <2>4. QED
        BY <2>2, <2>3
<1>5. scheduled \in Seq(Slot)
    BY DEF TypeOK, Slot
<1>6. scheduled' = [i \in DOMAIN scheduled |-> [scheduled[i] EXCEPT !.left = Max({@ - 1, 0})]]
    BY DEF Tick
<1>7. ASSUME NEW i \in DOMAIN scheduled
      PROVE  /\ scheduled[i] \in Slot /\ scheduled'[i] \in Slot
             /\ scheduled'[i].stage = scheduled[i].stage
             /\ scheduled'[i].rule = scheduled[i].rule
             /\ scheduled'[i].agent = scheduled[i].agent
    <2> DEFINE s == scheduled[i]
               n == Max({s.left - 1, 0})
    <2>1. s \in Slot
        BY <1>5
    <2>2. s.left \in Nat
        BY <2>1 DEF Slot
    <2>3. s.left - 1 \in Int
        BY <2>2
    <2>4. n \in Nat
        <3> DEFINE y == s.left - 1
        <3>1. y \in Int
            BY <2>3
        <3> HIDE DEF y
        <3>2. Max({y, 0}) = IF y <= 0 THEN 0 ELSE y
            BY <3>1, MaxTwo
        <3>3. Max({y, 0}) \in Nat
            BY <3>1, <3>2
        <3>4. QED
            BY <3>3 DEF y
    <2>5. scheduled'[i] = [s EXCEPT !.left = n]
        BY <1>6
    <2> HIDE DEF s, n
    <2>6. /\ [s EXCEPT !.left = n] \in Slot /\ [s EXCEPT !.left = n].stage = s.stage
          /\ [s EXCEPT !.left = n].rule = s.rule /\ [s EXCEPT !.left = n].agent = s.agent
        BY <2>1, <2>4 DEF Slot
    <2>7. QED
        BY <2>1, <2>5, <2>6 DEF s
<1>8. DOMAIN scheduled' = DOMAIN scheduled /\ scheduled' = [i \in DOMAIN scheduled |-> scheduled'[i]]
    BY <1>6
<1>9. scheduled' \in Seq(Slot)
    <2>1. DOMAIN scheduled = 1..Len(scheduled) /\ Len(scheduled) \in Nat
        BY <1>5
    <2>2. QED
        BY <1>7, <1>8, <2>1
<1>10. QED
    BY <1>3, <1>4, <1>7, <1>8, <1>9 DEF c

LEMMA TickTypes ==
    ASSUME TypeOK, Tick
    PROVE  TypeOK'
<1>1. chan \in Seq(Receipt) /\ chan' = Older(chan)
    BY DEF TypeOK, Tick
<1>2. chan' \in Seq(Receipt) /\ Len(chan') = Len(chan)
    BY <1>1, OlderFacts
<1>3. /\ todo' = [t \in Tasks |-> Older(todo[t])] /\ landed' = [t \in Tasks |-> Older(landed[t])]
    BY DEF Tick
<1>4. \A t \in Tasks : /\ Older(todo[t]) \in Seq(Receipt) /\ Older(landed[t]) \in Seq(Receipt)
                       /\ Len(Older(landed[t])) = Len(landed[t])
    BY OlderFacts DEF TypeOK
<1>5. todo' \in [Tasks -> Seq(Receipt)] /\ landed' \in [Tasks -> Seq(Receipt)]
    BY <1>3, <1>4
<1>6. \A t \in Tasks : Len(landed'[t]) <= 1
    BY <1>3, <1>4 DEF TypeOK
<1>7. \A r \in DOMAIN Config[active], g \in Groups :
          Len(counters'[r][g]) < Config[active][r].threshold
    <2>1. DOMAIN Config[active] \subseteq Rules
        BY EnforcementAssumption DEF TypeOK
    <2>2. QED
        BY <2>1, TickFacts DEF TypeOK
<1>8. counters' \in [Rules -> [Groups -> Seq(Nat)]] /\ scheduled' \in Seq(Slot)
    BY TickFacts
<1>9. UNCHANGED <<active, agentVars, log, observed, actVars, runVars>>
    BY DEF Tick
<1>10. QED
    BY <1>2, <1>5, <1>6, <1>7, <1>8, <1>9 DEF TypeOK, Slot, agentVars, actVars, runVars

LEMMA NextTypes == TypeOK /\ [Next]_vars => TypeOK'
<1> SUFFICES ASSUME TypeOK, [Next]_vars PROVE TypeOK'
    OBVIOUS
<1>1. CASE UNCHANGED vars
    BY <1>1 DEF TypeOK, vars, agentVars, taskVars, actVars, runVars
<1>2. ASSUME NEW d \in Observed, Observe(d) PROVE TypeOK'
    BY <1>2, ObserveTypes
<1>3. ASSUME NEW t \in Tasks, Emitting(t) \/ AppendFails(t) PROVE TypeOK'
    BY <1>3, TaskTypes DEF Emitting
<1>4. CASE Forwarding
    BY <1>4, QuietForwardTypes, ForwardTypes DEF Forwarding
<1>5. CASE Poll
    BY <1>5, PollTypes
<1>6. CASE Tick
    BY <1>6, TickTypes
<1>7. ASSUME NEW a \in Activations, Activating(a) PROVE TypeOK'
    BY <1>7, ActivateTypes
<1>8. QED
    BY <1>1, <1>2, <1>3, <1>4, <1>5, <1>6, <1>7 DEF Next
-----------------------------------------------------------------------------
(* Which task has which receipts.                                          *)

LadderKinds == {"coach", "quarantine", "evict", "reverse"}

Allowed(t, x) ==
    /\ t = "forwarder" => x.kind = "detect"
    /\ t = "scheduler" => x.kind \in LadderKinds
    /\ t \in Observed => /\ x.kind = (IF t \in Shadow THEN "shadow" ELSE "deny")
                         /\ x.agent = Subject[t]
    /\ t \in Activations => x.kind = "activate"

Owns(t, q) == \A i \in DOMAIN q : Allowed(t, q[i])

OwnKinds ==
    /\ \A t \in Tasks : Owns(t, todo[t]) /\ Owns(t, landed[t])
    /\ \A d \in Observed : /\ Len(todo[d]) + Len(landed[d]) <= 1
                           /\ d \notin observed => todo[d] = << >> /\ landed[d] = << >>
    /\ \A i \in DOMAIN scheduled : scheduled[i].stage \in LadderKinds

LEMMA InitOwn == Init => OwnKinds
BY TaskNames DEF Init, OwnKinds, Owns

LEMMA OwnOlder ==
    ASSUME NEW q \in Seq(Receipt), NEW t, Owns(t, q)
    PROVE  Owns(t, Older(q))
BY OlderFacts DEF Owns, Allowed

LEMMA ObserveOwn ==
    ASSUME TypeOK, OwnKinds, NEW d \in Observed, Observe(d)
    PROVE  OwnKinds'
<1> DEFINE x == [kind |-> IF d \in Shadow THEN "shadow" ELSE "deny", agent |-> Subject[d],
                 rule |-> "none", delta |-> 0, span |-> 0, version |-> evaluating,
                 age |-> 0]
<1>1. d \in Tasks /\ d # "forwarder" /\ d # "scheduler" /\ d \notin Activations
    BY TaskNames
<1>2. Allowed(d, x)
    BY <1>1 DEF Allowed
<1>3. todo' = [todo EXCEPT ![d] = <<x>>] /\ observed' = observed \cup {d} /\ d \notin observed
      /\ landed' = landed /\ scheduled' = scheduled
    BY DEF Observe
<1> HIDE DEF x
<1>4. todo \in [Tasks -> Seq(Receipt)] /\ DOMAIN <<x>> = {1} /\ <<x>>[1] = x /\ Len(<<x>>) = 1
    BY DEF TypeOK
<1>5. \A t \in Tasks : todo'[t] = IF t = d THEN <<x>> ELSE todo[t]
    BY <1>1, <1>3, <1>4
<1>6. Owns(d, <<x>>)
    BY <1>2, <1>4 DEF Owns
<1>7. ASSUME NEW t \in Tasks PROVE Owns(t, todo'[t]) /\ Owns(t, landed'[t])
    BY <1>3, <1>5, <1>6 DEF OwnKinds
<1>8. ASSUME NEW e \in Observed
      PROVE  /\ Len(todo'[e]) + Len(landed'[e]) <= 1
             /\ e \notin observed' => todo'[e] = << >> /\ landed'[e] = << >>
    <2>1. e \in Tasks
        BY TaskNames
    <2>2. CASE e = d
        <3>1. todo'[e] = <<x>> /\ landed'[e] = << >> /\ e \in observed'
            BY <1>3, <1>5, <2>1, <2>2 DEF OwnKinds
        <3>2. QED
            BY <1>4, <3>1
    <2>3. CASE e # d
        BY <1>3, <1>5, <2>1, <2>3 DEF OwnKinds
    <2>4. QED
        BY <2>2, <2>3
<1>9. QED
    BY <1>3, <1>7, <1>8 DEF OwnKinds

LEMMA TaskOwn ==
    ASSUME TypeOK, OwnKinds, NEW t \in Tasks,
           AppendReceipt(t) \/ AppendFails(t) \/ Publish(t)
    PROVE  /\ OwnKinds'
           /\ todo[t] # << >> => Allowed(t, Head(todo[t]))
           /\ landed[t] # << >> => Allowed(t, landed[t][1])
<1>0. /\ todo \in [Tasks -> Seq(Receipt)] /\ landed \in [Tasks -> Seq(Receipt)]
      /\ \A u \in Tasks : Len(landed[u]) <= 1
    BY DEF TypeOK
<1>1. todo[t] # << >> => Allowed(t, Head(todo[t])) /\ Owns(t, Tail(todo[t]))
    BY HeadFacts DEF OwnKinds, Owns
<1>2. landed[t] # << >> => Allowed(t, landed[t][1])
    <2>1. landed[t] # << >> => 1 \in DOMAIN landed[t]
        BY <1>0
    <2>2. QED
        BY <2>1 DEF OwnKinds, Owns
<1>3. scheduled' = scheduled /\ observed' = observed
    BY DEF AppendReceipt, AppendFails, Publish
<1>4. \A u \in Tasks : Len(todo[u]) \in Nat /\ Len(landed[u]) \in Nat
    BY <1>0
<1>5. CASE AppendReceipt(t)
    <2> DEFINE x == Head(todo[t])
    <2>1. todo[t] # << >> /\ landed[t] = << >>
        BY <1>5 DEF AppendReceipt
    <2>2. landed' = [landed EXCEPT ![t] = <<x>>] /\ todo' = [todo EXCEPT ![t] = Tail(todo[t])]
        BY <1>5 DEF AppendReceipt
    <2>3. Owns(t, <<x>>)
        BY <1>1, <2>1 DEF Owns
    <2>4. Len(<<x>>) = 1 /\ Len(<< >>) = 0
        OBVIOUS
    <2> HIDE DEF x
    <2>5. \A u \in Tasks : /\ landed'[u] = IF u = t THEN <<x>> ELSE landed[u]
                           /\ todo'[u] = IF u = t THEN Tail(todo[t]) ELSE todo[u]
        BY <1>0, <2>2
    <2>6. \A u \in Tasks : Owns(u, todo'[u]) /\ Owns(u, landed'[u])
        BY <1>1, <2>1, <2>3, <2>5 DEF OwnKinds
    <2>7. ASSUME NEW e \in Observed
          PROVE  /\ Len(todo'[e]) + Len(landed'[e]) <= 1
                 /\ e \notin observed' => todo'[e] = << >> /\ landed'[e] = << >>
        <3>1. e \in Tasks
            BY TaskNames
        <3>2. CASE e = t
            <4>1. Len(Tail(todo[t])) = Len(todo[t]) - 1
                BY <2>1, HeadFacts
            <4>2. Len(todo[t]) + Len(landed[t]) <= 1
                BY <3>2 DEF OwnKinds
            <4>3. Len(todo'[e]) + Len(landed'[e]) <= 1
                <5>1. todo'[e] = Tail(todo[t]) /\ landed'[e] = <<x>>
                    BY <2>5, <3>1, <3>2
                <5>2. Len(todo'[e]) = Len(todo[t]) - 1 /\ Len(landed'[e]) = 1
                    BY <2>4, <4>1, <5>1
                <5>3. Len(landed[t]) = 0 /\ Len(todo[t]) \in Nat
                    BY <1>4, <2>1, <2>4
                <5>4. QED
                    BY <4>2, <5>2, <5>3
            <4>4. e \in observed
                BY <2>1, <3>2 DEF OwnKinds
            <4>5. QED
                BY <1>3, <4>3, <4>4
        <3>3. CASE e # t
            BY <1>3, <2>5, <3>1, <3>3 DEF OwnKinds
        <3>4. QED
            BY <3>2, <3>3
    <2>8. OwnKinds'
        BY <1>3, <2>6, <2>7 DEF OwnKinds
    <2>9. QED
        BY <1>1, <1>2, <2>8
<1>6. CASE AppendFails(t)
    <2>1. todo[t] # << >> /\ landed[t] = << >>
        BY <1>6 DEF AppendFails
    <2>2. landed' = landed /\ todo' = [todo EXCEPT ![t] = Tail(todo[t])]
        BY <1>6 DEF AppendFails
    <2>3. \A u \in Tasks : /\ landed'[u] = landed[u]
                           /\ todo'[u] = IF u = t THEN Tail(todo[t]) ELSE todo[u]
        BY <1>0, <2>2
    <2>4. \A u \in Tasks : Owns(u, todo'[u]) /\ Owns(u, landed'[u])
        BY <1>1, <2>1, <2>3 DEF OwnKinds
    <2>5. ASSUME NEW e \in Observed
          PROVE  /\ Len(todo'[e]) + Len(landed'[e]) <= 1
                 /\ e \notin observed' => todo'[e] = << >> /\ landed'[e] = << >>
        <3>1. e \in Tasks
            BY TaskNames
        <3>2. CASE e = t
            <4>1. Len(Tail(todo[t])) = Len(todo[t]) - 1
                BY <2>1, HeadFacts
            <4>2. Len(todo[t]) + Len(landed[t]) <= 1
                BY <3>2 DEF OwnKinds
            <4>3. Len(todo'[e]) + Len(landed'[e]) <= 1
                <5>1. todo'[e] = Tail(todo[t]) /\ landed'[e] = landed[t]
                    BY <2>3, <3>1, <3>2
                <5>2. Len(todo'[e]) = Len(todo[t]) - 1 /\ Len(landed'[e]) = Len(landed[t])
                    BY <4>1, <5>1
                <5> DEFINE m == Len(todo[t])
                           n == Len(landed[t])
                <5> HIDE DEF m, n
                <5>3. m \in Nat /\ n \in Nat /\ m + n <= 1
                    BY <1>4, <4>2 DEF m, n
                <5>4. (m - 1) + n <= 1
                    BY <5>3
                <5>5. QED
                    BY <5>2, <5>4 DEF m, n
            <4>4. e \in observed
                BY <2>1, <3>2 DEF OwnKinds
            <4>5. QED
                BY <1>3, <4>3, <4>4
        <3>3. CASE e # t
            BY <1>3, <2>3, <3>1, <3>3 DEF OwnKinds
        <3>4. QED
            BY <3>2, <3>3
    <2>6. OwnKinds'
        BY <1>3, <2>4, <2>5 DEF OwnKinds
    <2>7. QED
        BY <1>1, <1>2, <2>6
<1>7. CASE Publish(t)
    <2>1. landed[t] # << >>
        BY <1>7 DEF Publish
    <2>2. landed' = [landed EXCEPT ![t] = << >>] /\ todo' = todo
        BY <1>7 DEF Publish
    <2>3. \A u \in Tasks : /\ landed'[u] = (IF u = t THEN << >> ELSE landed[u])
                           /\ todo'[u] = todo[u]
        BY <1>0, <2>2
    <2>4. \A u \in Tasks : Owns(u, todo'[u]) /\ Owns(u, landed'[u])
        <3>1. Owns(t, << >>)
            BY DEF Owns
        <3>2. QED
            BY <2>3, <3>1 DEF OwnKinds
    <2>5. ASSUME NEW e \in Observed
          PROVE  /\ Len(todo'[e]) + Len(landed'[e]) <= 1
                 /\ e \notin observed' => todo'[e] = << >> /\ landed'[e] = << >>
        <3>1. e \in Tasks
            BY TaskNames
        <3>2. CASE e = t
            <4>1. Len(todo[t]) + Len(landed[t]) <= 1 /\ Len(<< >>) = 0
                BY <3>2 DEF OwnKinds
            <4>2. Len(todo'[e]) + Len(landed'[e]) <= 1
                <5>1. todo'[e] = todo[t] /\ landed'[e] = << >>
                    BY <2>3, <3>1, <3>2
                <5>2. Len(todo'[e]) = Len(todo[t]) /\ Len(landed'[e]) = 0
                    BY <4>1, <5>1
                <5> DEFINE m == Len(todo[t])
                           n == Len(landed[t])
                <5> HIDE DEF m, n
                <5>3. m \in Nat /\ n \in Nat /\ m + n <= 1
                    BY <1>4, <4>1 DEF m, n
                <5>4. m + 0 <= 1
                    BY <5>3
                <5>5. QED
                    BY <5>2, <5>4 DEF m
            <4>3. e \in observed
                BY <2>1, <3>2 DEF OwnKinds
            <4>4. QED
                BY <1>3, <4>2, <4>3
        <3>3. CASE e # t
            BY <1>3, <2>3, <3>1, <3>3 DEF OwnKinds
        <3>4. QED
            BY <3>2, <3>3
    <2>6. OwnKinds'
        BY <1>3, <2>4, <2>5 DEF OwnKinds
    <2>7. QED
        BY <1>1, <1>2, <2>6
<1>8. QED
    BY <1>5, <1>6, <1>7

LEMMA ForwardOwn ==
    ASSUME TypeOK, OwnKinds, Forwarding
    PROVE  OwnKinds'
<1>1. CASE ForwardSkipped \/ ForwardEnforcement
    BY <1>1 DEF OwnKinds, ForwardSkipped, ForwardEnforcement
<1>2. CASE ForwardEvaluation
    <2> DEFINE v == Head(chan)
    <2>1. v \in Receipt
        BY <1>2, ForwardFacts
    <2>2. PICK fx \in Seq(Receipt), new \in Seq(Slot) :
             /\ todo' = [todo EXCEPT !["forwarder"] = fx]
             /\ scheduled' = scheduled \o new
             /\ \A i \in DOMAIN new : new[i].stage = "coach"
             /\ \A i \in DOMAIN fx : \E r \in LiveFor(v) : Fires(r, v) /\ fx[i] = DetectEffect(r, v)
        BY <1>2, ForwardFacts, Zenon
    <2>3. LiveFor(v) \subseteq DOMAIN Config[active]
        BY DEF LiveFor
    <2> HIDE DEF v
    <2>4. \A i \in DOMAIN fx : fx[i].kind = "detect"
        BY <2>1, <2>2, <2>3, DetectEffectFacts
    <2>5. Owns("forwarder", fx)
        BY <2>4, TaskNames DEF Owns, Allowed
    <2>6. \A t \in Tasks : todo'[t] = IF t = "forwarder" THEN fx ELSE todo[t]
        BY <2>2, TaskNames DEF TypeOK
    <2>7. landed' = landed /\ observed' = observed
        BY <1>2 DEF ForwardEvaluation
    <2>8. \A t \in Tasks : Owns(t, todo'[t]) /\ Owns(t, landed'[t])
        BY <2>5, <2>6, <2>7 DEF OwnKinds
    <2>9. \A d \in Observed : todo'[d] = todo[d]
        BY <2>6, TaskNames
    <2>10. \A i \in DOMAIN scheduled' : scheduled'[i].stage \in LadderKinds
        <3>1. scheduled \in Seq(Slot)
            BY DEF TypeOK, Slot
        <3>2. ASSUME NEW i \in DOMAIN scheduled' PROVE scheduled'[i].stage \in LadderKinds
            <4>1. /\ Len(scheduled) \in Nat /\ DOMAIN scheduled = 1..Len(scheduled)
                  /\ DOMAIN new = 1..Len(new) /\ Len(new) \in Nat
                  /\ DOMAIN (scheduled \o new) = 1..(Len(scheduled) + Len(new))
                  /\ \A j \in DOMAIN (scheduled \o new) : (scheduled \o new)[j] =
                        IF j <= Len(scheduled) THEN scheduled[j] ELSE new[j - Len(scheduled)]
                BY <3>1
            <4>2. i <= Len(scheduled) => i \in DOMAIN scheduled /\ scheduled'[i] = scheduled[i]
                BY <2>2, <4>1
            <4>3. ~(i <= Len(scheduled)) => /\ i - Len(scheduled) \in DOMAIN new
                                            /\ scheduled'[i] = new[i - Len(scheduled)]
                BY <2>2, <4>1
            <4>4. QED
                BY <2>2, <4>2, <4>3 DEF OwnKinds, LadderKinds
        <3>3. QED
            BY <3>2
    <2>11. QED
        BY <2>7, <2>8, <2>9, <2>10 DEF OwnKinds
<1>3. QED
    BY <1>1, <1>2 DEF Forwarding

LEMMA PollOwn ==
    ASSUME TypeOK, OwnKinds, Poll
    PROVE  OwnKinds'
<1>1. PICK due \in Seq(Slot), later \in Seq(Slot), new \in Seq(Slot) :
          /\ todo' = [todo EXCEPT !["scheduler"] = [i \in DOMAIN due |-> StageEffect(due[i])]]
          /\ scheduled' = later \o new
          /\ \A i \in DOMAIN new : new[i].stage \in Upper
          /\ \A i \in DOMAIN due : \E j \in DOMAIN scheduled : due[i] = scheduled[j]
          /\ \A i \in DOMAIN later : \E j \in DOMAIN scheduled : later[i] = scheduled[j]
    BY PollFacts, Zenon
<1> DEFINE fx == [i \in DOMAIN due |-> StageEffect(due[i])]
<1>2. \A i \in DOMAIN due : due[i] \in Slot
    OBVIOUS
<1>3. \A i \in DOMAIN fx : fx[i].kind \in LadderKinds
    <2>1. \A i \in DOMAIN due : due[i].stage \in LadderKinds
        BY <1>1 DEF OwnKinds
    <2>2. QED
        BY <1>2, <2>1, StageEffectFacts
<1>4. todo' = [todo EXCEPT !["scheduler"] = fx]
    BY <1>1
<1> HIDE DEF fx
<1>5. Owns("scheduler", fx)
    BY <1>3, TaskNames DEF Owns, Allowed
<1>6. \A t \in Tasks : todo'[t] = IF t = "scheduler" THEN fx ELSE todo[t]
    BY <1>4, TaskNames DEF TypeOK
<1>7. landed' = landed /\ observed' = observed
    BY DEF Poll
<1>8. \A t \in Tasks : Owns(t, todo'[t]) /\ Owns(t, landed'[t])
    BY <1>5, <1>6, <1>7 DEF OwnKinds
<1>9. \A d \in Observed : todo'[d] = todo[d]
    BY <1>6, TaskNames
<1>10. ASSUME NEW i \in DOMAIN scheduled' PROVE scheduled'[i].stage \in LadderKinds
    <2>1. /\ Len(later) \in Nat /\ DOMAIN later = 1..Len(later)
          /\ DOMAIN new = 1..Len(new) /\ Len(new) \in Nat
          /\ DOMAIN (later \o new) = 1..(Len(later) + Len(new))
          /\ \A j \in DOMAIN (later \o new) : (later \o new)[j] =
                IF j <= Len(later) THEN later[j] ELSE new[j - Len(later)]
        OBVIOUS
    <2>2. i <= Len(later) => i \in DOMAIN later /\ scheduled'[i] = later[i]
        BY <1>1, <2>1
    <2>3. ~(i <= Len(later)) => i - Len(later) \in DOMAIN new
                                /\ scheduled'[i] = new[i - Len(later)]
        BY <1>1, <2>1
    <2>4. \A j \in DOMAIN later : later[j].stage \in LadderKinds
        BY <1>1 DEF OwnKinds
    <2>5. QED
        BY <1>1, <2>2, <2>3, <2>4 DEF LadderKinds, Upper
<1>11. QED
    BY <1>7, <1>8, <1>9, <1>10 DEF OwnKinds

LEMMA ActivateOwn ==
    ASSUME TypeOK, OwnKinds, NEW a \in Activations, Activating(a)
    PROVE  OwnKinds'
<1>1. CASE ActivateEvaluator(a) \/ FetchCurrent(a)
    BY <1>1 DEF OwnKinds, ActivateEvaluator, FetchCurrent, taskVars
<1>2. CASE BindEngine(a)
    <2> DEFINE x == [kind |-> "activate", agent |-> Nobody, rule |-> "none", delta |-> 0,
                     span |-> 0, version |-> fetched[a], age |-> 0]
    <2>1. a \in Tasks /\ a # "forwarder" /\ a # "scheduler" /\ a \notin Observed
        BY TaskNames
    <2>2. Owns(a, <<x>>)
        BY <2>1 DEF Owns, Allowed
    <2>3. todo' = [todo EXCEPT ![a] = <<x>>]
        BY <1>2 DEF BindEngine
    <2> HIDE DEF x
    <2>4. \A t \in Tasks : todo'[t] = IF t = a THEN <<x>> ELSE todo[t]
        BY <2>1, <2>3 DEF TypeOK
    <2>5. landed' = landed /\ observed' = observed /\ scheduled' = scheduled
        BY <1>2 DEF BindEngine
    <2>6. \A t \in Tasks : Owns(t, todo'[t]) /\ Owns(t, landed'[t])
        BY <2>2, <2>4, <2>5 DEF OwnKinds
    <2>7. \A d \in Observed : todo'[d] = todo[d]
        BY <2>1, <2>4, TaskNames
    <2>8. QED
        BY <2>5, <2>6, <2>7 DEF OwnKinds
<1>3. QED
    BY <1>1, <1>2 DEF Activating

LEMMA TickOwn ==
    ASSUME TypeOK, OwnKinds, Tick
    PROVE  OwnKinds'
<1>1. /\ todo' = [t \in Tasks |-> Older(todo[t])] /\ landed' = [t \in Tasks |-> Older(landed[t])]
      /\ observed' = observed
    BY DEF Tick
<1>2. todo \in [Tasks -> Seq(Receipt)] /\ landed \in [Tasks -> Seq(Receipt)]
    BY DEF TypeOK
<1>3. \A t \in Tasks : Owns(t, todo'[t]) /\ Owns(t, landed'[t])
    BY <1>1, <1>2, OwnOlder DEF OwnKinds
<1>4. \A t \in Tasks : Len(todo'[t]) = Len(todo[t]) /\ Len(landed'[t]) = Len(landed[t])
    BY <1>1, <1>2, OlderFacts
<1>5. Older(<< >>) = << >>
    BY DEF Older
<1>6. \A d \in Observed : /\ Len(todo'[d]) + Len(landed'[d]) <= 1
                          /\ d \notin observed' => todo'[d] = << >> /\ landed'[d] = << >>
    BY <1>1, <1>4, <1>5, TaskNames DEF OwnKinds
<1>7. \A i \in DOMAIN scheduled' : scheduled'[i].stage \in LadderKinds
    BY TickFacts DEF OwnKinds
<1>8. QED
    BY <1>3, <1>6, <1>7 DEF OwnKinds

LEMMA NextOwn == TypeOK /\ OwnKinds /\ [Next]_vars => OwnKinds'
<1> SUFFICES ASSUME TypeOK, OwnKinds, [Next]_vars PROVE OwnKinds'
    OBVIOUS
<1>1. CASE UNCHANGED vars
    BY <1>1 DEF OwnKinds, vars, taskVars
<1>2. ASSUME NEW d \in Observed, Observe(d) PROVE OwnKinds'
    BY <1>2, ObserveOwn
<1>3. ASSUME NEW t \in Tasks, Emitting(t) \/ AppendFails(t) PROVE OwnKinds'
    BY <1>3, TaskOwn DEF Emitting
<1>4. CASE Forwarding
    BY <1>4, ForwardOwn
<1>5. CASE Poll
    BY <1>5, PollOwn
<1>6. CASE Tick
    BY <1>6, TickOwn
<1>7. ASSUME NEW a \in Activations, Activating(a) PROVE OwnKinds'
    BY <1>7, ActivateOwn
<1>8. QED
    BY <1>1, <1>2, <1>3, <1>4, <1>5, <1>6, <1>7 DEF Next
-----------------------------------------------------------------------------
(* The quarantine flag is what the last receipt says that moves it: the    *)
(* one the scheduler has appended and not published, or else the last in   *)
(* the channel, or else the flag itself.                                   *)

Moving(g) == {x \in Receipt : x.agent = g /\ x.kind \in Upper}

LastSays(q, g, base) ==
    \/ \E i \in DOMAIN q : /\ q[i] \in Moving(g) /\ q[i].kind = "quarantine"
                           /\ \A j \in DOMAIN q : j > i => q[j] \notin Moving(g)
    \/ base /\ \A i \in DOMAIN q : q[i] \notin Moving(g)

Followed ==
    \A g \in Groups : LastSays(landed["scheduler"], g, LastSays(chan, g, quarantined[g]))
                      <=> LastSays(log, g, FALSE)

LEMMA LastEmpty ==
    ASSUME NEW g, NEW b \in BOOLEAN
    PROVE  LastSays(<< >>, g, b) <=> b
BY DEF LastSays

LEMMA LastAppend ==
    ASSUME NEW q \in Seq(Receipt), NEW x \in Receipt, NEW g, NEW b \in BOOLEAN
    PROVE  /\ x \in Moving(g) => (LastSays(Append(q, x), g, b) <=> x.kind = "quarantine")
           /\ x \notin Moving(g) => (LastSays(Append(q, x), g, b) <=> LastSays(q, g, b))
<1> DEFINE p == Append(q, x)
           n == Len(q)
<1>1. /\ n \in Nat /\ DOMAIN q = 1..n /\ DOMAIN p = 1..(n + 1)
      /\ \A i \in 1..n : p[i] = q[i]
      /\ p[n + 1] = x
    OBVIOUS
<1>2. /\ \A i \in 1..(n + 1) : (i \in 1..n \/ i = n + 1) /\ ~(i > n + 1)
      /\ \A i \in 1..n : i \in 1..(n + 1) /\ n + 1 > i /\ i \in Int
      /\ n + 1 \in 1..(n + 1)
    BY <1>1
<1> HIDE DEF p, n
<1>3. CASE x \in Moving(g)
    <2>1. ASSUME x.kind = "quarantine" PROVE LastSays(p, g, b)
        <3>1. n + 1 \in DOMAIN p /\ p[n + 1] \in Moving(g) /\ p[n + 1].kind = "quarantine"
              /\ \A j \in DOMAIN p : ~(j > n + 1)
            BY <1>1, <1>2, <1>3, <2>1
        <3>2. QED
            BY <3>1, Zenon DEF LastSays
    <2>2. ASSUME LastSays(p, g, b) PROVE x.kind = "quarantine"
        <3>1. PICK i \in DOMAIN p : /\ p[i] \in Moving(g) /\ p[i].kind = "quarantine"
                                    /\ \A j \in DOMAIN p : j > i => p[j] \notin Moving(g)
            <4>1. ~ \A i \in DOMAIN p : p[i] \notin Moving(g)
                BY <1>1, <1>2, <1>3
            <4>2. QED
                BY <2>2, <4>1 DEF LastSays
        <3>2. i = n + 1
            BY <1>1, <1>2, <1>3, <3>1
        <3>3. QED
            BY <1>1, <3>1, <3>2
    <2>3. QED
        BY <1>3, <2>1, <2>2 DEF p
<1>4. CASE x \notin Moving(g)
    <2>1. (\A i \in DOMAIN p : p[i] \notin Moving(g)) <=> (\A i \in DOMAIN q : q[i] \notin Moving(g))
        BY <1>1, <1>2, <1>4
    <2>2. ASSUME NEW i \in DOMAIN p, p[i] \in Moving(g), p[i].kind = "quarantine",
                 \A j \in DOMAIN p : j > i => p[j] \notin Moving(g)
          PROVE  LastSays(q, g, b)
        <3>1. i \in DOMAIN q /\ p[i] = q[i]
            BY <1>1, <1>2, <1>4, <2>2
        <3>2. \A j \in DOMAIN q : j > i => q[j] \notin Moving(g)
            BY <1>1, <1>2, <2>2
        <3>3. QED
            BY <2>2, <3>1, <3>2 DEF LastSays
    <2>3. ASSUME NEW i \in DOMAIN q, q[i] \in Moving(g), q[i].kind = "quarantine",
                 \A j \in DOMAIN q : j > i => q[j] \notin Moving(g)
          PROVE  LastSays(p, g, b)
        <3>1. i \in DOMAIN p /\ p[i] = q[i]
            BY <1>1, <1>2
        <3>2. \A j \in DOMAIN p : j > i => p[j] \notin Moving(g)
            BY <1>1, <1>2, <1>4, <2>3
        <3>3. QED
            BY <2>3, <3>1, <3>2 DEF LastSays
    <2>4. LastSays(p, g, b) => LastSays(q, g, b)
        BY <2>1, <2>2, Zenon DEF LastSays
    <2>5. LastSays(q, g, b) => LastSays(p, g, b)
        BY <2>1, <2>3, Zenon DEF LastSays
    <2>6. QED
        BY <1>4, <2>4, <2>5 DEF p
<1>5. QED
    BY <1>3, <1>4

LEMMA LastOne ==
    ASSUME NEW x \in Receipt, NEW g, NEW b \in BOOLEAN
    PROVE  /\ x \in Moving(g) => (LastSays(<<x>>, g, b) <=> x.kind = "quarantine")
           /\ x \notin Moving(g) => (LastSays(<<x>>, g, b) <=> b)
<1>1. << >> \in Seq(Receipt) /\ <<x>> = Append(<< >>, x)
    OBVIOUS
<1> DEFINE e == << >>
<1>2. LastSays(e, g, b) <=> b
    BY LastEmpty
<1>3. e \in Seq(Receipt)
    BY <1>1
<1> HIDE DEF e
<1>4. /\ x \in Moving(g) => (LastSays(Append(e, x), g, b) <=> x.kind = "quarantine")
      /\ x \notin Moving(g) => (LastSays(Append(e, x), g, b) <=> LastSays(e, g, b))
    BY <1>3, LastAppend
<1>5. <<x>> = Append(e, x)
    BY <1>1 DEF e
<1>6. QED
    BY <1>2, <1>4, <1>5, Zenon

LEMMA LastTail ==
    ASSUME NEW q \in Seq(Receipt), q # << >>, NEW g, NEW b \in BOOLEAN, NEW c \in BOOLEAN,
           Head(q) \in Moving(g) => (c <=> Head(q).kind = "quarantine"),
           Head(q) \notin Moving(g) => (c <=> b)
    PROVE  LastSays(Tail(q), g, c) <=> LastSays(q, g, b)
<1> DEFINE p == Tail(q)
           x == Head(q)
           n == Len(q)
<1>1. /\ n \in Nat /\ n # 0 /\ DOMAIN q = 1..n /\ DOMAIN p = 1..(n - 1)
      /\ \A i \in 1..(n - 1) : p[i] = q[i + 1]
      /\ q[1] = x
    OBVIOUS
<1>2. /\ x \in Moving(g) => (c <=> x.kind = "quarantine")
      /\ x \notin Moving(g) => (c <=> b)
    OBVIOUS
<1> HIDE DEF p, x, n
<1>3. /\ \A i \in 1..(n - 1) : i + 1 \in 1..n /\ i + 1 > 1 /\ i \in Int
      /\ \A i \in 1..n : i # 1 => i - 1 \in 1..(n - 1) /\ (i - 1) + 1 = i /\ i > 1
      /\ 1 \in 1..n /\ \A i \in 1..n : i \in Int
    BY <1>1
<1>4. (\A i \in DOMAIN q : q[i] \notin Moving(g))
      <=> x \notin Moving(g) /\ \A i \in DOMAIN p : p[i] \notin Moving(g)
    <2>1. ASSUME \A i \in DOMAIN q : q[i] \notin Moving(g)
          PROVE  x \notin Moving(g) /\ \A i \in DOMAIN p : p[i] \notin Moving(g)
        BY <1>1, <1>3, <2>1
    <2>2. ASSUME x \notin Moving(g), \A i \in DOMAIN p : p[i] \notin Moving(g), NEW i \in DOMAIN q
          PROVE  q[i] \notin Moving(g)
        <3>1. CASE i = 1
            BY <1>1, <2>2, <3>1
        <3>2. CASE i # 1
            <4>1. i - 1 \in DOMAIN p /\ p[i - 1] = q[i]
                BY <1>1, <1>3, <3>2
            <4>2. QED
                BY <2>2, <4>1
        <3>3. QED
            BY <3>1, <3>2
    <2>3. QED
        BY <2>1, <2>2
<1>5. ASSUME NEW i \in DOMAIN p, p[i] \in Moving(g), p[i].kind = "quarantine",
             \A j \in DOMAIN p : j > i => p[j] \notin Moving(g)
      PROVE  LastSays(q, g, b)
    <2>1. i + 1 \in DOMAIN q /\ q[i + 1] = p[i]
        BY <1>1, <1>3
    <2>2. ASSUME NEW j \in DOMAIN q, j > i + 1 PROVE q[j] \notin Moving(g)
        <3>1. i \in Int /\ j \in Int /\ i >= 1
            BY <1>1
        <3>2. j # 1 /\ j - 1 > i
            BY <2>2, <3>1
        <3>3. j - 1 \in DOMAIN p /\ p[j - 1] = q[j]
            BY <1>1, <1>3, <3>2
        <3>4. QED
            BY <1>5, <3>2, <3>3
    <2>3. QED
        BY <1>5, <2>1, <2>2, Zenon DEF LastSays
<1>6. ASSUME NEW i \in DOMAIN q, q[i] \in Moving(g), q[i].kind = "quarantine",
             \A j \in DOMAIN q : j > i => q[j] \notin Moving(g)
      PROVE  LastSays(p, g, c)
    <2>1. CASE i = 1
        <3>1. x \in Moving(g) /\ c
            BY <1>1, <1>2, <1>6, <2>1
        <3>2. \A j \in DOMAIN p : p[j] \notin Moving(g)
            BY <1>1, <1>3, <1>6, <2>1
        <3>3. QED
            BY <3>1, <3>2 DEF LastSays
    <2>2. CASE i # 1
        <3>1. i - 1 \in DOMAIN p /\ p[i - 1] = q[i]
            BY <1>1, <1>3, <2>2
        <3>2. ASSUME NEW j \in DOMAIN p, j > i - 1 PROVE p[j] \notin Moving(g)
            <4>1. i \in Int /\ j \in Int
                BY <1>1
            <4>2. j + 1 > i
                BY <3>2, <4>1
            <4>3. j + 1 \in DOMAIN q /\ p[j] = q[j + 1]
                BY <1>1, <1>3
            <4>4. QED
                BY <1>6, <4>2, <4>3
        <3>3. QED
            BY <1>6, <3>1, <3>2, Zenon DEF LastSays
    <2>3. QED
        BY <2>1, <2>2
<1>7. ASSUME c, \A i \in DOMAIN p : p[i] \notin Moving(g) PROVE LastSays(q, g, b)
    <2>1. CASE x \in Moving(g)
        <3>1. 1 \in DOMAIN q /\ q[1] \in Moving(g) /\ q[1].kind = "quarantine"
            BY <1>1, <1>2, <1>3, <1>7, <2>1
        <3>2. ASSUME NEW j \in DOMAIN q, j > 1 PROVE q[j] \notin Moving(g)
            <4>1. j # 1
                BY <1>1, <3>2
            <4>2. j - 1 \in DOMAIN p /\ p[j - 1] = q[j]
                BY <1>1, <1>3, <4>1
            <4>3. QED
                BY <1>7, <4>2
        <3>3. QED
            BY <3>1, <3>2, Zenon DEF LastSays
    <2>2. CASE x \notin Moving(g)
        <3>1. \A i \in DOMAIN q : q[i] \notin Moving(g)
            BY <1>4, <1>7, <2>2
        <3>2. b
            BY <1>2, <1>7, <2>2
        <3>3. QED
            BY <3>1, <3>2 DEF LastSays
    <2>3. QED
        BY <2>1, <2>2
<1>8. ASSUME b, \A i \in DOMAIN q : q[i] \notin Moving(g) PROVE LastSays(p, g, c)
    <2>1. c /\ \A i \in DOMAIN p : p[i] \notin Moving(g)
        BY <1>2, <1>4, <1>8
    <2>2. QED
        BY <2>1 DEF LastSays
<1>9. LastSays(p, g, c) => LastSays(q, g, b)
    BY <1>5, <1>7, Zenon DEF LastSays
<1>10. LastSays(q, g, b) => LastSays(p, g, c)
    BY <1>6, <1>8, Zenon DEF LastSays
<1>11. QED
    BY <1>9, <1>10 DEF p

LEMMA LastOlder ==
    ASSUME NEW q \in Seq(Receipt), NEW g, NEW b \in BOOLEAN
    PROVE  LastSays(Older(q), g, b) <=> LastSays(q, g, b)
<1>1. /\ DOMAIN Older(q) = DOMAIN q
      /\ \A i \in DOMAIN q : /\ Older(q)[i] \in Moving(g) <=> q[i] \in Moving(g)
                             /\ Older(q)[i].kind = q[i].kind
    BY OlderFacts DEF Moving
<1>2. QED
    BY <1>1, Zenon DEF LastSays

LEMMA LastBoolean ==
    ASSUME NEW q, NEW g, NEW b \in BOOLEAN
    PROVE  LastSays(q, g, b) \in BOOLEAN
BY DEF LastSays

\* Of the tasks, only the scheduler has receipts that move the flag.
LEMMA OnlySchedulerMoves ==
    ASSUME NEW t \in Tasks, t # "scheduler", NEW x, Allowed(t, x), NEW g
    PROVE  x \notin Moving(g)
<1>1. t = "forwarder" \/ t \in Observed \/ t \in Activations
    BY DEF Tasks
<1>2. x.kind \in {"detect", "shadow", "deny", "activate"}
    BY <1>1 DEF Allowed
<1>3. x.kind \notin Upper
    BY <1>2 DEF Upper
<1>4. QED
    BY <1>3 DEF Moving

LEMMA FollowedSame ==
    ASSUME Followed, landed'["scheduler"] = landed["scheduler"], chan' = chan,
           quarantined' = quarantined, log' = log
    PROVE  Followed'
BY DEF Followed, LastSays

LEMMA FollowedAppend ==
    ASSUME TypeOK, OwnKinds, Followed, NEW t \in Tasks, AppendReceipt(t)
    PROVE  Followed'
<1> DEFINE x == Head(todo[t])
<1>1. todo[t] # << >> /\ landed[t] = << >>
    BY DEF AppendReceipt
<1>2. x \in Receipt /\ Allowed(t, x)
    BY <1>1, HeadFacts, TaskOwn
<1>3. /\ landed' = [landed EXCEPT ![t] = <<x>>] /\ chan' = chan /\ quarantined' = quarantined
      /\ log' = IF x.kind \in Stages THEN Append(log, x) ELSE log
    BY DEF AppendReceipt, agentVars
<1>4. landed \in [Tasks -> Seq(Receipt)] /\ log \in Seq(Receipt) /\ chan \in Seq(Receipt)
      /\ quarantined \in [Groups -> BOOLEAN]
    BY DEF TypeOK
<1> HIDE DEF x
<1> SUFFICES ASSUME NEW g \in Groups
             PROVE  LastSays(landed'["scheduler"], g, LastSays(chan', g, quarantined'[g]))
                    <=> LastSays(log', g, FALSE)
    BY Zenon DEF Followed
<1> DEFINE c == LastSays(chan, g, quarantined[g])
<1>5. c \in BOOLEAN
    BY <1>4, LastBoolean
<1>6. LastSays(landed["scheduler"], g, c) <=> LastSays(log, g, FALSE)
    BY DEF Followed
<1>7. LastSays(chan', g, quarantined'[g]) = c
    BY <1>3
<1> HIDE DEF c
<1>8. CASE t = "scheduler"
    <2>1. log' = Append(log, x)
        BY <1>2, <1>3, <1>8 DEF Allowed, LadderKinds, Stages
    <2>2. landed'["scheduler"] = <<x>> /\ landed["scheduler"] = << >>
        BY <1>1, <1>3, <1>4, <1>8
    <2>3. LastSays(<< >>, g, c) <=> c
        BY <1>5, LastEmpty
    <2>4. /\ x \in Moving(g) => (LastSays(<<x>>, g, c) <=> x.kind = "quarantine")
          /\ x \notin Moving(g) => (LastSays(<<x>>, g, c) <=> c)
        BY <1>2, <1>5, LastOne
    <2>5. /\ x \in Moving(g) => (LastSays(log', g, FALSE) <=> x.kind = "quarantine")
          /\ x \notin Moving(g) => (LastSays(log', g, FALSE) <=> LastSays(log, g, FALSE))
        BY <1>2, <1>4, <2>1, LastAppend
    <2>6. LastSays(<<x>>, g, c) <=> LastSays(log', g, FALSE)
        BY <1>6, <2>2, <2>3, <2>4, <2>5, Zenon
    <2>7. QED
        BY <1>7, <2>2, <2>6
<1>9. CASE t # "scheduler"
    <2>1. x \notin Moving(g)
        BY <1>2, <1>9, OnlySchedulerMoves
    <2>2. LastSays(Append(log, x), g, FALSE) <=> LastSays(log, g, FALSE)
        BY <1>2, <1>4, <2>1, LastAppend
    <2>3. LastSays(log', g, FALSE) <=> LastSays(log, g, FALSE)
        BY <1>3, <2>2
    <2>4. landed'["scheduler"] = landed["scheduler"]
        BY <1>3, <1>4, <1>9, TaskNames
    <2>5. QED
        BY <1>6, <1>7, <2>3, <2>4
<1>10. QED
    BY <1>8, <1>9

LEMMA FollowedPublish ==
    ASSUME TypeOK, OwnKinds, Followed, NEW t \in Tasks, Publish(t), Len(chan) < ChanCap
    PROVE  Followed'
<1> DEFINE x == landed[t][1]
<1>1. landed[t] # << >>
    BY DEF Publish
<1>2. x \in Receipt /\ landed[t] = <<x>> /\ Allowed(t, x)
    BY <1>1, LandedFacts, TaskOwn
<1>3. /\ landed' = [landed EXCEPT ![t] = << >>] /\ chan' = Append(chan, x)
      /\ quarantined' = quarantined /\ log' = log
    BY DEF Publish, agentVars
<1>4. landed \in [Tasks -> Seq(Receipt)] /\ log \in Seq(Receipt) /\ chan \in Seq(Receipt)
      /\ quarantined \in [Groups -> BOOLEAN]
    BY DEF TypeOK
<1> HIDE DEF x
<1> SUFFICES ASSUME NEW g \in Groups
             PROVE  LastSays(landed'["scheduler"], g, LastSays(chan', g, quarantined'[g]))
                    <=> LastSays(log', g, FALSE)
    BY Zenon DEF Followed
<1> DEFINE c == LastSays(chan, g, quarantined[g])
           d == LastSays(chan', g, quarantined'[g])
<1>5. c \in BOOLEAN /\ d \in BOOLEAN
    BY <1>3, <1>4, LastBoolean
<1>6. LastSays(landed["scheduler"], g, c) <=> LastSays(log, g, FALSE)
    BY DEF Followed
<1>7. /\ x \in Moving(g) => (d <=> x.kind = "quarantine")
      /\ x \notin Moving(g) => (d <=> c)
    <2>1. quarantined[g] \in BOOLEAN
        BY <1>4
    <2>2. QED
        BY <1>2, <1>3, <1>4, <2>1, LastAppend
<1> HIDE DEF c, d
<1>8. CASE t = "scheduler"
    <2>1. landed'["scheduler"] = << >> /\ landed["scheduler"] = <<x>>
        BY <1>2, <1>3, <1>4, <1>8
    <2>2. /\ x \in Moving(g) => (LastSays(<<x>>, g, c) <=> x.kind = "quarantine")
          /\ x \notin Moving(g) => (LastSays(<<x>>, g, c) <=> c)
        BY <1>2, <1>5, LastOne
    <2>3. LastSays(<< >>, g, d) <=> d
        BY <1>5, LastEmpty
    <2>4. LastSays(<<x>>, g, c) <=> d
        BY <1>7, <2>2, Zenon
    <2>5. LastSays(<< >>, g, d) <=> LastSays(log, g, FALSE)
        BY <1>6, <2>1, <2>3, <2>4, Zenon
    <2>6. QED
        BY <1>3, <2>1, <2>5 DEF d
<1>9. CASE t # "scheduler"
    <2>1. x \notin Moving(g)
        BY <1>2, <1>9, OnlySchedulerMoves
    <2>2. landed'["scheduler"] = landed["scheduler"]
        BY <1>3, <1>4, <1>9, TaskNames
    <2>3. d = c
        BY <1>5, <1>7, <2>1
    <2>4. QED
        BY <1>3, <1>6, <2>2, <2>3 DEF d
<1>10. QED
    BY <1>8, <1>9

LEMMA FollowedForward ==
    ASSUME TypeOK, Followed, Forwarding
    PROVE  Followed'
<1> DEFINE v == Head(chan)
<1>1. chan # << >> /\ chan' = Tail(chan) /\ landed' = landed /\ log' = log
    BY DEF Forwarding, ForwardSkipped, ForwardEnforcement, ForwardEvaluation
<1>2. v \in Receipt /\ chan \in Seq(Receipt)
    BY <1>1, ChanHead
<1>3. quarantined \in [Groups -> BOOLEAN]
    BY DEF TypeOK
<1>4. ASSUME NEW g \in Groups
      PROVE  /\ quarantined'[g] \in BOOLEAN
             /\ v \in Moving(g) => (quarantined'[g] <=> v.kind = "quarantine")
             /\ v \notin Moving(g) => (quarantined'[g] <=> quarantined[g])
    <2>1. CASE ForwardSkipped \/ ForwardEvaluation
        <3>1. v.kind \in {"shadow", "deny", "activate"} /\ quarantined' = quarantined
            BY <2>1 DEF ForwardSkipped, ForwardEvaluation, agentVars
        <3>2. v \notin Moving(g)
            BY <3>1 DEF Moving, Upper
        <3>3. QED
            BY <1>3, <3>1, <3>2
    <2>2. CASE ForwardEnforcement
        <3>1. quarantined' = [quarantined EXCEPT ![v.agent] = Flip(v.kind, quarantined[v.agent])]
            BY <2>2 DEF ForwardEnforcement
        <3>2. v \in Moving(g) <=> v.agent = g /\ v.kind \in Upper
            BY <1>2 DEF Moving
        <3>3. CASE v.agent # g
            <4>1. quarantined'[g] = quarantined[g] /\ v \notin Moving(g)
                BY <1>3, <3>1, <3>2, <3>3
            <4>2. QED
                BY <1>3, <4>1
        <3>4. CASE v.agent = g
            <4>1. quarantined'[g] = Flip(v.kind, quarantined[g])
                BY <1>3, <3>1, <3>4
            <4>2. v.kind = "quarantine" => Flip(v.kind, quarantined[g]) = TRUE
                BY DEF Flip
            <4>3. v.kind \in {"reverse", "evict"} => Flip(v.kind, quarantined[g]) = FALSE
                BY DEF Flip
            <4>4. v.kind \notin Upper => Flip(v.kind, quarantined[g]) = quarantined[g]
                BY DEF Flip, Upper
            <4>5. v.kind \in Upper <=> v.kind = "quarantine" \/ v.kind \in {"reverse", "evict"}
                BY DEF Upper
            <4>6. v.kind \in {"reverse", "evict"} => v.kind # "quarantine"
                OBVIOUS
            <4>7. quarantined[g] \in BOOLEAN
                BY <1>3
            <4> HIDE DEF v
            <4>8. QED
                BY <3>2, <3>4, <4>1, <4>2, <4>3, <4>4, <4>5, <4>6, <4>7, Zenon
        <3>5. QED
            BY <3>3, <3>4
    <2>3. QED
        BY <2>1, <2>2 DEF Forwarding
<1>5. ASSUME NEW g \in Groups
      PROVE  LastSays(chan', g, quarantined'[g]) <=> LastSays(chan, g, quarantined[g])
    <2>1. quarantined[g] \in BOOLEAN
        BY <1>3
    <2>2. QED
        BY <1>1, <1>2, <1>4, <2>1, LastTail
<1>6. ASSUME NEW g \in Groups
      PROVE  LastSays(landed'["scheduler"], g, LastSays(chan', g, quarantined'[g]))
             <=> LastSays(log', g, FALSE)
    <2> DEFINE c == LastSays(chan, g, quarantined[g])
               d == LastSays(chan', g, quarantined'[g])
    <2>1. c \in BOOLEAN /\ d \in BOOLEAN
        BY <1>3, <1>4, LastBoolean
    <2>2. c = d
        BY <1>5, <2>1
    <2>3. LastSays(landed["scheduler"], g, c) <=> LastSays(log, g, FALSE)
        BY DEF Followed
    <2> HIDE DEF c, d
    <2>4. QED
        BY <1>1, <2>2, <2>3 DEF d
<1>7. QED
    BY <1>6, Zenon DEF Followed

LEMMA FollowedTick ==
    ASSUME TypeOK, Followed, Tick
    PROVE  Followed'
<1>1. /\ chan' = Older(chan) /\ landed'["scheduler"] = Older(landed["scheduler"])
      /\ quarantined' = quarantined /\ log' = log
    BY TaskNames DEF Tick, agentVars
<1>2. /\ chan \in Seq(Receipt) /\ landed["scheduler"] \in Seq(Receipt)
      /\ quarantined \in [Groups -> BOOLEAN]
    BY TaskNames DEF TypeOK
<1>3. ASSUME NEW g \in Groups
      PROVE  LastSays(landed'["scheduler"], g, LastSays(chan', g, quarantined'[g]))
             <=> LastSays(log', g, FALSE)
    <2> DEFINE c == LastSays(chan, g, quarantined[g])
               d == LastSays(chan', g, quarantined'[g])
               q == landed["scheduler"]
    <2>1. c \in BOOLEAN /\ d \in BOOLEAN
        BY <1>1, <1>2, LastBoolean
    <2>2. c <=> d
        <3>1. quarantined[g] \in BOOLEAN
            BY <1>2
        <3>2. QED
            BY <1>1, <1>2, <3>1, LastOlder
    <2>3. LastSays(q, g, c) <=> LastSays(log, g, FALSE)
        BY DEF Followed
    <2>4. landed'["scheduler"] = Older(q) /\ q \in Seq(Receipt)
        BY <1>1, <1>2
    <2>5. LastSays(landed'["scheduler"], g, LastSays(chan', g, quarantined'[g]))
          <=> LastSays(Older(q), g, d)
        BY <2>4
    <2> HIDE DEF c, d, q
    <2>6. c = d
        BY <2>1, <2>2
    <2>7. LastSays(Older(q), g, c) <=> LastSays(q, g, c)
        BY <2>1, <2>4, LastOlder
    <2>8. LastSays(Older(q), g, d) <=> LastSays(log, g, FALSE)
        BY <2>3, <2>6, <2>7
    <2>9. QED
        BY <1>1, <2>5, <2>8
<1>4. QED
    BY <1>3, Zenon DEF Followed

\* A view that a task publishes while the channel is full is lost to the engine.
StageViewDropped ==
    landed["scheduler"] # << >> /\ landed'["scheduler"] = << >> /\ Len(chan) = ChanCap

LEMMA NextFollowed ==
    TypeOK /\ OwnKinds /\ Followed /\ [Next]_vars /\ ~StageViewDropped => Followed'
<1> SUFFICES ASSUME TypeOK, OwnKinds, Followed, [Next]_vars, ~StageViewDropped
             PROVE  Followed'
    BY Zenon
<1>0. landed \in [Tasks -> Seq(Receipt)]
    BY DEF TypeOK
<1>1. CASE UNCHANGED vars
    BY <1>1, FollowedSame DEF vars, taskVars, agentVars
<1>2. ASSUME NEW d \in Observed, Observe(d) PROVE Followed'
    BY <1>2, FollowedSame DEF Observe, agentVars
<1>3. ASSUME NEW t \in Tasks, AppendReceipt(t) PROVE Followed'
    BY <1>3, FollowedAppend
<1>4. ASSUME NEW t \in Tasks, AppendFails(t) PROVE Followed'
    BY <1>4, FollowedSame DEF AppendFails, agentVars
<1>5. ASSUME NEW t \in Tasks, Publish(t) PROVE Followed'
    <2>1. Len(chan) \in Nat /\ Len(chan) <= ChanCap /\ ChanCap \in Nat
        BY EnforcementAssumption DEF TypeOK
    <2>2. CASE Len(chan) # ChanCap
        <3>1. Len(chan) < ChanCap
            BY <2>1, <2>2
        <3>2. QED
            BY <1>5, <3>1, FollowedPublish
    <2>3. CASE Len(chan) = ChanCap
        <3>1. landed[t] # << >> /\ landed'[t] = << >>
            BY <1>0, <1>5 DEF Publish
        <3>2. t # "scheduler"
            BY <2>3, <3>1 DEF StageViewDropped
        <3>3. chan' = chan
            BY <1>5, <2>1, <2>3 DEF Publish
        <3>4. landed'["scheduler"] = landed["scheduler"] /\ quarantined' = quarantined /\ log' = log
            BY <1>0, <1>5, <3>2, TaskNames DEF Publish, agentVars
        <3>5. QED
            BY <3>3, <3>4, FollowedSame
    <2>4. QED
        BY <2>2, <2>3
<1>6. CASE Forwarding
    BY <1>6, FollowedForward
<1>7. CASE Poll
    BY <1>7, FollowedSame DEF Poll, agentVars
<1>8. CASE Tick
    BY <1>8, FollowedTick
<1>9. ASSUME NEW a \in Activations, Activating(a) PROVE Followed'
    BY <1>9, FollowedSame
    DEF Activating, ActivateEvaluator, FetchCurrent, BindEngine, agentVars, taskVars
<1>10. QED
    BY <1>1, <1>2, <1>3, <1>4, <1>5, <1>6, <1>7, <1>8, <1>9 DEF Next, Emitting

LEMMA FollowedSays ==
    ASSUME TypeOK, Followed
    PROVE  QuarantineFollowsLog
<1> SUFFICES ASSUME Quiet, NEW g \in Groups
             PROVE  LET I == Indices({"quarantine", "reverse", "evict"}, g)
                    IN  quarantined[g] <=> (I # {} /\ log[Max(I)].kind = "quarantine")
    BY Zenon DEF QuarantineFollowsLog
<1> DEFINE I == Indices({"quarantine", "reverse", "evict"}, g)
<1>1. chan = << >> /\ landed["scheduler"] = << >>
    BY TaskNames DEF Quiet
<1>2. log \in Seq(Receipt) /\ quarantined[g] \in BOOLEAN
    BY DEF TypeOK
<1>3. quarantined[g] <=> LastSays(log, g, FALSE)
    <2>1. LastSays(landed["scheduler"], g, LastSays(chan, g, quarantined[g]))
          <=> LastSays(log, g, FALSE)
        BY DEF Followed
    <2>2. LastSays(<< >>, g, quarantined[g]) <=> quarantined[g]
        BY <1>2, LastEmpty
    <2>3. LastSays(<< >>, g, LastSays(<< >>, g, quarantined[g]))
          <=> LastSays(<< >>, g, quarantined[g])
        BY <1>2, LastEmpty, LastBoolean
    <2>4. QED
        BY <1>1, <2>1, <2>2, <2>3
<1>4. Len(log) \in Nat /\ DOMAIN log = 1..Len(log) /\ \A i \in DOMAIN log : log[i] \in Receipt
    BY <1>2
<1>5. \A i \in DOMAIN log : i \in I <=> log[i] \in Moving(g)
    BY <1>4 DEF Indices, Moving, Upper
<1>6. I \subseteq DOMAIN log
    BY DEF Indices
<1> HIDE DEF I
<1>7. ASSUME I # {}
      PROVE  Max(I) \in I /\ \A i \in I : i <= Max(I)
    <2>1. I \subseteq Nat /\ \A i \in I : i <= Len(log)
        BY <1>4, <1>6
    <2>2. QED
        BY <1>4, <1>7, <2>1, GreatestNat
<1>8. ASSUME I # {}, log[Max(I)].kind = "quarantine" PROVE LastSays(log, g, FALSE)
    <2> DEFINE m == Max(I)
    <2>1. m \in I /\ m \in DOMAIN log /\ \A i \in I : i <= m
        BY <1>6, <1>7, <1>8
    <2>2. \A i \in DOMAIN log : i \in Int
        BY <1>4
    <2>3. ASSUME NEW j \in DOMAIN log, j > m PROVE log[j] \notin Moving(g)
        <3>1. j \notin I
            <4>1. m \in Int /\ j \in Int
                BY <2>1, <2>2
            <4>2. ~(j <= m)
                BY <2>3, <4>1
            <4>3. QED
                BY <2>1, <4>2
        <3>2. QED
            BY <1>5, <3>1
    <2>4. log[m] \in Moving(g) /\ log[m].kind = "quarantine"
        BY <1>5, <1>8, <2>1
    <2> HIDE DEF m
    <2>5. QED
        BY <2>1, <2>3, <2>4, Zenon DEF LastSays
<1>9. ASSUME LastSays(log, g, FALSE) PROVE I # {} /\ log[Max(I)].kind = "quarantine"
    <2>1. PICK i \in DOMAIN log : /\ log[i] \in Moving(g) /\ log[i].kind = "quarantine"
                                  /\ \A j \in DOMAIN log : j > i => log[j] \notin Moving(g)
        BY <1>9, Zenon DEF LastSays
    <2>2. i \in I
        BY <1>5, <2>1
    <2> DEFINE m == Max(I)
    <2>3. m \in I /\ i <= m /\ m \in DOMAIN log
        BY <1>6, <1>7, <2>2
    <2>4. log[m] \in Moving(g)
        BY <1>5, <2>3
    <2> HIDE DEF m
    <2>5. ~(m > i)
        BY <2>1, <2>3, <2>4
    <2>6. i \in Int /\ m \in Int
        BY <1>4, <2>3
    <2>7. m = i
        BY <2>3, <2>5, <2>6
    <2>8. QED
        BY <2>1, <2>2, <2>7 DEF m
<1>10. QED
    BY <1>3, <1>8, <1>9 DEF I

LEMMA InitFollowed == Init => Followed
<1> SUFFICES ASSUME Init PROVE Followed
    OBVIOUS
<1>1. landed["scheduler"] = << >> /\ chan = << >> /\ log = << >>
    BY TaskNames DEF Init
<1>2. \A g \in Groups : quarantined[g] = FALSE
    BY DEF Init
<1>3. ASSUME NEW g \in Groups
      PROVE  LastSays(landed["scheduler"], g, LastSays(chan, g, quarantined[g]))
             <=> LastSays(log, g, FALSE)
    <2>1. ~LastSays(<< >>, g, FALSE)
        BY DEF LastSays
    <2>2. ~LastSays(<< >>, g, LastSays(<< >>, g, FALSE))
        BY <2>1, Zenon DEF LastSays
    <2>3. QED
        BY <1>1, <1>2, <2>1, <2>2
<1>4. QED
    BY <1>3 DEF Followed
-----------------------------------------------------------------------------
(* Rungs of the ladder: a receipt of an upper stage is preceded by one of  *)
(* the stage below it, except for those whose append failed.               *)

Rung(k, r, g) ==
    LET child == Of(k, r, g)
        parent == Of(ParentOf(k), r, g)
    IN  /\ CountIn(log, child) + CountIn(todo["scheduler"], child)
              <= CountIn(log, parent) + faults
        /\ CountIn(log, child) + CountIn(todo["scheduler"], child)
              + CountIn(scheduled, Slots(k, r, g))
              <= CountIn(log, parent) + CountIn(todo["scheduler"], parent) + faults

Rungs == \A k \in Upper, r \in Rules, g \in Groups : Rung(k, r, g)

LEMMA RungTypes ==
    ASSUME TypeOK, NEW k, NEW r, NEW g
    PROVE  /\ CountIn(log, Of(k, r, g)) \in Nat /\ CountIn(todo["scheduler"], Of(k, r, g)) \in Nat
           /\ CountIn(scheduled, Slots(k, r, g)) \in Nat /\ faults \in Nat
<1>1. log \in Seq(Receipt) /\ todo["scheduler"] \in Seq(Receipt) /\ scheduled \in Seq(Slot)
    BY TaskNames DEF TypeOK, Slot
<1>2. faults \in Nat
    BY WorkloadFacts DEF TypeOK
<1>3. QED
    BY <1>1, <1>2, CountType

LEMMA InitRungs == Init => Rungs
<1> SUFFICES ASSUME Init, NEW k \in Upper, NEW r \in Rules, NEW g \in Groups PROVE Rung(k, r, g)
    BY DEF Rungs
<1>1. log = << >> /\ todo["scheduler"] = << >> /\ scheduled = << >> /\ faults = 0
    BY TaskNames DEF Init
<1>2. \A W : CountIn(<< >>, W) = 0
    BY CountNone
<1>3. /\ CountIn(log, Of(k, r, g)) = 0 /\ CountIn(log, Of(ParentOf(k), r, g)) = 0
      /\ CountIn(todo["scheduler"], Of(k, r, g)) = 0 /\ CountIn(scheduled, Slots(k, r, g)) = 0
      /\ CountIn(todo["scheduler"], Of(ParentOf(k), r, g)) = 0
    BY <1>1, <1>2
<1>4. QED
    BY <1>1, <1>3 DEF Rung

\* The counts decide.
LEMMA RungsSame ==
    ASSUME Rungs, faults' = faults,
           \A k, r, g : /\ CountIn(log', Of(k, r, g)) = CountIn(log, Of(k, r, g))
                        /\ CountIn(todo'["scheduler"], Of(k, r, g))
                           = CountIn(todo["scheduler"], Of(k, r, g)),
           \A k \in Upper : \A r, g : CountIn(scheduled', Slots(k, r, g))
                                  = CountIn(scheduled, Slots(k, r, g))
    PROVE  Rungs'
<1> SUFFICES ASSUME NEW k \in Upper, NEW r \in Rules, NEW g \in Groups PROVE Rung(k, r, g)'
    BY DEF Rungs
<1>1. Rung(k, r, g)
    BY DEF Rungs
<1>2. QED
    BY <1>1 DEF Rung

LEMMA RungsAppend ==
    ASSUME TypeOK, OwnKinds, Rungs, NEW t \in Tasks, AppendReceipt(t) \/ AppendFails(t)
    PROVE  Rungs'
<1> DEFINE x == Head(todo[t])
           q == todo["scheduler"]
           p == todo'["scheduler"]
<1>1. todo[t] # << >>
    BY DEF AppendReceipt, AppendFails
<1>2. x \in Receipt /\ Allowed(t, x) /\ scheduled' = scheduled
    BY <1>1, HeadFacts, TaskOwn DEF AppendReceipt, AppendFails
<1>3. /\ log \in Seq(Receipt) /\ todo \in [Tasks -> Seq(Receipt)] /\ q \in Seq(Receipt)
    BY TaskNames DEF TypeOK
<1>4. todo' = [todo EXCEPT ![t] = Tail(todo[t])]
    BY DEF AppendReceipt, AppendFails
<1>5. /\ AppendReceipt(t) => log' = (IF x.kind \in Stages THEN Append(log, x) ELSE log)
                             /\ faults' = faults
      /\ AppendFails(t) => log' = log /\ faults' = faults + 1
    BY DEF AppendReceipt, AppendFails, runVars
<1>6. t = "scheduler" => q # << >> /\ x = Head(q) /\ p = Tail(q)
    BY <1>1, <1>3, <1>4
<1>7. t # "scheduler" => p = q
    BY <1>3, <1>4, TaskNames
<1> SUFFICES ASSUME NEW k \in Upper, NEW r \in Rules, NEW g \in Groups PROVE Rung(k, r, g)'
    BY DEF Rungs
<1>8. Rung(k, r, g)
    BY DEF Rungs
<1> DEFINE C == Of(k, r, g)
           P == Of(ParentOf(k), r, g)
           S == Slots(k, r, g)
<1>9. C \cap P = {}
    BY DEF Of, ParentOf, Upper
<1>10. /\ CountIn(log, C) + CountIn(q, C) <= CountIn(log, P) + faults
       /\ CountIn(log, C) + CountIn(q, C) + CountIn(scheduled, S)
              <= CountIn(log, P) + CountIn(q, P) + faults
    BY <1>8 DEF Rung
<1>11. /\ CountIn(log, C) \in Nat /\ CountIn(log, P) \in Nat /\ CountIn(q, C) \in Nat
       /\ CountIn(q, P) \in Nat /\ CountIn(scheduled, S) \in Nat /\ faults \in Nat
    BY RungTypes
<1> SUFFICES /\ CountIn(log', C) + CountIn(p, C) <= CountIn(log', P) + faults'
             /\ CountIn(log', C) + CountIn(p, C) + CountIn(scheduled, S)
                    <= CountIn(log', P) + CountIn(p, P) + faults'
    BY <1>2 DEF Rung
<1>12. t # "scheduler" => x \notin C /\ x \notin P
    <2>1. ASSUME t # "scheduler" PROVE x.kind \notin LadderKinds
        <3>1. t = "forwarder" \/ t \in Observed \/ t \in Activations
            BY <2>1 DEF Tasks
        <3>2. x.kind \in {"detect", "shadow", "deny", "activate"}
            BY <1>2, <3>1 DEF Allowed
        <3>3. QED
            BY <3>2 DEF LadderKinds
    <2>2. k \in LadderKinds /\ ParentOf(k) \in LadderKinds
        BY DEF Upper, ParentOf, LadderKinds
    <2>3. QED
        BY <2>1, <2>2 DEF Of
<1> HIDE DEF C, P, S, x, p, q
<1> DEFINE c == IF x \in C THEN 1 ELSE 0
           d == IF x \in P THEN 1 ELSE 0
<1>13. c \in Nat /\ d \in Nat /\ c <= 1 /\ d <= 1
    OBVIOUS
<1>14. t = "scheduler" => /\ CountIn(q, C) = c + CountIn(p, C) /\ CountIn(q, P) = d + CountIn(p, P)
                          /\ CountIn(p, C) \in Nat /\ CountIn(p, P) \in Nat
    <2>1. t = "scheduler" => Tail(q) \in Seq(Receipt)
        BY <1>3, <1>6
    <2>2. QED
        BY <1>3, <1>6, <2>1, CountTail, CountType
<1>15. CountIn(Append(log, x), C) = CountIn(log, C) + c
       /\ CountIn(Append(log, x), P) = CountIn(log, P) + d
    BY <1>2, <1>3, CountAppend
<1>16. t # "scheduler" => c = 0 /\ d = 0
    BY <1>12
<1>17. CASE AppendReceipt(t)
    <2>1. faults' = faults
        BY <1>5, <1>17
    <2>2. CASE t = "scheduler"
        <3>1. log' = Append(log, x)
            BY <1>2, <1>5, <1>17, <2>2 DEF Allowed, LadderKinds, Stages
        <3>2. CountIn(log', C) = CountIn(log, C) + c /\ CountIn(log', P) = CountIn(log, P) + d
            BY <1>15, <3>1
        <3> HIDE DEF c, d
        <3>3. QED
            BY <1>10, <1>11, <1>13, <1>14, <2>1, <2>2, <3>2
    <2>3. CASE t # "scheduler"
        <3>1. CountIn(log', C) = CountIn(log, C) /\ CountIn(log', P) = CountIn(log, P)
            <4>1. CountIn(Append(log, x), C) = CountIn(log, C)
                  /\ CountIn(Append(log, x), P) = CountIn(log, P)
                BY <1>11, <1>15, <1>16, <2>3
            <4>2. QED
                BY <1>5, <1>17, <4>1
        <3>2. QED
            BY <1>7, <1>10, <2>1, <2>3, <3>1
    <2>4. QED
        BY <2>2, <2>3
<1>18. CASE AppendFails(t)
    <2>1. faults' = faults + 1 /\ log' = log
        BY <1>5, <1>18
    <2>2. CASE t = "scheduler"
        <3> HIDE DEF c, d
        <3>1. QED
            BY <1>10, <1>11, <1>13, <1>14, <2>1, <2>2
    <2>3. CASE t # "scheduler"
        <3>1. QED
            BY <1>7, <1>10, <1>11, <2>1, <2>3
    <2>4. QED
        BY <2>2, <2>3
<1>19. QED
    BY <1>17, <1>18

LEMMA RungsPoll ==
    ASSUME TypeOK, Rungs, Poll
    PROVE  Rungs'
<1>1. PICK due \in Seq(Slot), later \in Seq(Slot), new \in Seq(Slot) :
          /\ todo' = [todo EXCEPT !["scheduler"] = [i \in DOMAIN due |-> StageEffect(due[i])]]
          /\ scheduled' = later \o new
          /\ \A W : CountIn(due, W) + CountIn(later, W) = CountIn(scheduled, W)
          /\ \A k \in Upper : \A r, g : CountIn(new, Slots(k, r, g))
                                     <= CountIn(due, Slots(ParentOf(k), r, g))
    BY PollFacts, Zenon
<1> DEFINE fx == [i \in DOMAIN due |-> StageEffect(due[i])]
<1>2. todo'["scheduler"] = fx /\ todo["scheduler"] = << >> /\ log' = log /\ faults' = faults
    <2>1. todo["scheduler"] = << >> /\ log' = log /\ faults' = faults
        BY DEF Poll, Idle, runVars
    <2>2. todo'["scheduler"] = fx
        BY <1>1, TaskNames DEF TypeOK
    <2>3. QED
        BY <2>1, <2>2
<1>3. ASSUME NEW k, NEW r, NEW g
      PROVE  CountIn(fx, Of(k, r, g)) = CountIn(due, Slots(k, r, g))
    <2>1. \A i \in DOMAIN due : due[i] \in Slot
        OBVIOUS
    <2>2. \A i \in DOMAIN due : fx[i] \in Of(k, r, g) <=> due[i] \in Slots(k, r, g)
        BY <2>1, StageEffectFacts DEF Of, Slots
    <2>3. DOMAIN fx = DOMAIN due
        OBVIOUS
    <2> HIDE DEF fx
    <2>4. QED
        BY <2>2, <2>3, CountSame
<1> HIDE DEF fx
<1> SUFFICES ASSUME NEW k \in Upper, NEW r \in Rules, NEW g \in Groups PROVE Rung(k, r, g)'
    BY DEF Rungs
<1>4. Rung(k, r, g)
    BY DEF Rungs
<1> DEFINE C == Of(k, r, g)
           P == Of(ParentOf(k), r, g)
           S == Slots(k, r, g)
           T == Slots(ParentOf(k), r, g)
<1>5. CountIn(<< >>, C) = 0 /\ CountIn(<< >>, P) = 0
    BY CountNone
<1>6. CountIn(log, C) + CountIn(scheduled, S) <= CountIn(log, P) + faults
    <2>1. CountIn(log, C) + 0 + CountIn(scheduled, S) <= CountIn(log, P) + 0 + faults
        BY <1>2, <1>4, <1>5 DEF Rung
    <2>2. QED
        BY <2>1, RungTypes
<1>7. /\ CountIn(fx, C) = CountIn(due, S) /\ CountIn(fx, P) = CountIn(due, T)
      /\ CountIn(scheduled', S) = CountIn(later, S) + CountIn(new, S)
      /\ CountIn(new, S) <= CountIn(due, T)
      /\ CountIn(due, S) + CountIn(later, S) = CountIn(scheduled, S)
    BY <1>1, <1>3, CountConcat
<1>8. /\ CountIn(log, C) \in Nat /\ CountIn(log, P) \in Nat /\ faults \in Nat
      /\ CountIn(due, S) \in Nat /\ CountIn(due, T) \in Nat /\ CountIn(later, S) \in Nat
      /\ CountIn(new, S) \in Nat
    BY RungTypes, CountType
<1> SUFFICES /\ CountIn(log, C) + CountIn(fx, C) <= CountIn(log, P) + faults
             /\ CountIn(log, C) + CountIn(fx, C) + CountIn(scheduled', S)
                    <= CountIn(log, P) + CountIn(fx, P) + faults
    BY <1>2 DEF Rung
<1> HIDE DEF C, P, S, T
<1>9. QED
    BY <1>6, <1>7, <1>8

LEMMA NextRungs == TypeOK /\ OwnKinds /\ Rungs /\ [Next]_vars => Rungs'
<1> SUFFICES ASSUME TypeOK, OwnKinds, Rungs, [Next]_vars PROVE Rungs'
    OBVIOUS
<1>0. todo \in [Tasks -> Seq(Receipt)] /\ scheduled \in Seq(Slot)
    BY DEF TypeOK, Slot
<1>1. ASSUME UNCHANGED <<log, faults, scheduled>>, todo'["scheduler"] = todo["scheduler"]
      PROVE  Rungs'
    BY <1>1, RungsSame
<1>2. CASE UNCHANGED vars
    BY <1>1, <1>2 DEF vars, taskVars, runVars
<1>3. ASSUME NEW d \in Observed, Observe(d) PROVE Rungs'
    <2>1. todo'["scheduler"] = todo["scheduler"]
        BY <1>0, <1>3, TaskNames DEF Observe
    <2>2. QED
        BY <1>1, <1>3, <2>1 DEF Observe, runVars
<1>4. ASSUME NEW t \in Tasks, AppendReceipt(t) \/ AppendFails(t) PROVE Rungs'
    BY <1>4, RungsAppend
<1>5. ASSUME NEW t \in Tasks, Publish(t) PROVE Rungs'
    BY <1>1, <1>5 DEF Publish, runVars
<1>6. CASE ForwardSkipped \/ ForwardEnforcement
    BY <1>1, <1>6 DEF ForwardSkipped, ForwardEnforcement, runVars
<1>7. CASE ForwardEvaluation
    <2>1. PICK fx \in Seq(Receipt), new \in Seq(Slot) :
              /\ todo' = [todo EXCEPT !["forwarder"] = fx]
              /\ scheduled' = scheduled \o new
              /\ \A i \in DOMAIN new : new[i].stage = "coach"
        BY <1>7, ForwardFacts, Zenon
    <2>2. todo'["scheduler"] = todo["scheduler"] /\ log' = log /\ faults' = faults
        BY <1>0, <1>7, <2>1, TaskNames DEF ForwardEvaluation, runVars
    <2>3. ASSUME NEW k \in Upper, NEW r, NEW g
          PROVE  CountIn(scheduled', Slots(k, r, g)) = CountIn(scheduled, Slots(k, r, g))
        <3>1. \A i \in DOMAIN new : new[i] \notin Slots(k, r, g)
            BY <2>1 DEF Slots, Upper
        <3>2. CountIn(new, Slots(k, r, g)) = 0
            BY <3>1, CountNone
        <3>3. CountIn(scheduled \o new, Slots(k, r, g))
              = CountIn(scheduled, Slots(k, r, g)) + CountIn(new, Slots(k, r, g))
            BY <1>0, CountConcat
        <3>4. CountIn(scheduled, Slots(k, r, g)) \in Nat
            BY <1>0, CountType
        <3>5. QED
            BY <2>1, <3>2, <3>3, <3>4
    <2>4. QED
        BY <2>2, <2>3, RungsSame
<1>8. CASE Poll
    BY <1>8, RungsPoll
<1>9. CASE Tick
    <2>1. todo'["scheduler"] = Older(todo["scheduler"]) /\ log' = log /\ faults' = faults
        BY <1>9, TaskNames DEF Tick, runVars
    <2>2. todo["scheduler"] \in Seq(Receipt)
        BY <1>0, TaskNames
    <2>3. ASSUME NEW k, NEW r, NEW g
          PROVE  CountIn(Older(todo["scheduler"]), Of(k, r, g))
                 = CountIn(todo["scheduler"], Of(k, r, g))
        <3> DEFINE q == todo["scheduler"]
        <3> HIDE DEF q
        <3>1. q \in Seq(Receipt)
            BY <2>2 DEF q
        <3>2. DOMAIN Older(q) = DOMAIN q
              /\ \A i \in DOMAIN q : Older(q)[i] \in Of(k, r, g) <=> q[i] \in Of(k, r, g)
            BY <3>1, OlderFacts DEF Of
        <3>3. CountIn(Older(q), Of(k, r, g)) = CountIn(q, Of(k, r, g))
            BY <3>2, CountSame
        <3>4. QED
            BY <3>3 DEF q
    <2>4. ASSUME NEW k, NEW r, NEW g
          PROVE  CountIn(scheduled', Slots(k, r, g)) = CountIn(scheduled, Slots(k, r, g))
        <3>1. DOMAIN scheduled' = DOMAIN scheduled
              /\ \A i \in DOMAIN scheduled :
                    scheduled'[i] \in Slots(k, r, g) <=> scheduled[i] \in Slots(k, r, g)
            BY <1>9, TickFacts DEF Slots
        <3>2. QED
            BY <3>1, CountSame
    <2>5. QED
        BY <2>1, <2>3, <2>4, RungsSame
<1>10. ASSUME NEW a \in Activations, Activating(a) PROVE Rungs'
    <2>1. UNCHANGED <<log, faults, scheduled>>
        BY <1>10 DEF Activating, ActivateEvaluator, FetchCurrent, BindEngine, taskVars, runVars
    <2>2. todo'["scheduler"] = todo["scheduler"]
        BY <1>0, <1>10, TaskNames
        DEF Activating, ActivateEvaluator, FetchCurrent, BindEngine, taskVars
    <2>3. QED
        BY <1>1, <2>1, <2>2
<1>11. QED
    BY <1>2, <1>3, <1>4, <1>5, <1>6, <1>7, <1>8, <1>9, <1>10
    DEF Next, Emitting, Forwarding

\* The counts of the log alone.
LEMMA CountInLog ==
    ASSUME TypeOK, NEW k, NEW r, NEW g
    PROVE  Count(k, r, g) = CountIn(log, Of(k, r, g))
<1>1. \A i \in DOMAIN log : log[i] \in Receipt
    BY DEF TypeOK
<1>2. {i \in Indices({k}, g) : log[i].rule = r} = {i \in DOMAIN log : log[i] \in Of(k, r, g)}
    BY <1>1 DEF Indices, Of
<1>3. QED
    BY <1>2 DEF Count, CountIn
-----------------------------------------------------------------------------
(* What denies are spent on.  A deny is on its way, in the channel, in a   *)
(* counter, or one of the threshold that a detect has used up.             *)

Denies(g) == {x \in Receipt : x.kind = "deny" /\ x.agent = g}
Denied(g) == {d \in observed \ Shadow : Subject[d] = g}
Waiting(g) == {d \in Denied(g) : ~(todo[d] = << >> /\ landed[d] = << >>)}
Spent(r, g) == CountIn(log, Of("detect", r, g)) + CountIn(todo["forwarder"], Of("detect", r, g))

Balance(n, r, g) ==
    n * Spent(r, g) + Len(counters[r][g]) + CountIn(chan, Denies(g)) + Cardinality(Waiting(g))
        <= Cardinality(Denied(g))

Accounted ==
    \A v \in Versions : \A r \in DOMAIN Config[v] :
        Config[v][r].perPrincipal =>
            \A g \in Agents : Balance(Config[v][r].threshold, r, g)

LEMMA Times ==
    ASSUME NEW n \in Nat, NEW m \in Nat
    PROVE  n * m \in Nat /\ n * (m + 1) = n * m + n
OBVIOUS

LEMMA BalanceTypes ==
    ASSUME TypeOK, NEW r \in Rules, NEW g \in Groups
    PROVE  /\ CountIn(log, Of("detect", r, g)) \in Nat
           /\ CountIn(todo["forwarder"], Of("detect", r, g)) \in Nat /\ Spent(r, g) \in Nat
           /\ Len(counters[r][g]) \in Nat /\ CountIn(chan, Denies(g)) \in Nat
           /\ IsFiniteSet(Waiting(g)) /\ Cardinality(Waiting(g)) \in Nat
           /\ IsFiniteSet(Denied(g)) /\ Cardinality(Denied(g)) \in Nat
<1>1. /\ log \in Seq(Receipt) /\ todo["forwarder"] \in Seq(Receipt) /\ chan \in Seq(Receipt)
      /\ counters[r][g] \in Seq(Nat)
    BY TaskNames DEF TypeOK
<1>2. /\ CountIn(log, Of("detect", r, g)) \in Nat /\ CountIn(chan, Denies(g)) \in Nat
      /\ CountIn(todo["forwarder"], Of("detect", r, g)) \in Nat
    BY <1>1, CountType
<1>3. Denied(g) \subseteq Observed /\ Waiting(g) \subseteq Observed
    BY DEF Denied, Waiting, TypeOK
<1>4. IsFiniteSet(Denied(g)) /\ IsFiniteSet(Waiting(g))
    BY <1>3, EnforcementAssumption, FS_Subset
<1>5. Cardinality(Denied(g)) \in Nat /\ Cardinality(Waiting(g)) \in Nat
    BY <1>4, FS_CardinalityType
<1>6. Spent(r, g) \in Nat
    BY <1>2 DEF Spent
<1>7. Len(counters[r][g]) \in Nat
    BY <1>1
<1>8. QED
    BY <1>2, <1>4, <1>5, <1>6, <1>7

\* No step but a detect's takes more from one place than it puts into another.
LEMMA BalanceKept ==
    ASSUME TypeOK, TypeOK', NEW n \in Nat, NEW r \in Rules, NEW g \in Groups, Balance(n, r, g),
           Spent(r, g)' = Spent(r, g),
           Len(counters'[r][g]) + CountIn(chan', Denies(g)) + Cardinality(Waiting(g)')
               + Cardinality(Denied(g))
           <= Len(counters[r][g]) + CountIn(chan, Denies(g)) + Cardinality(Waiting(g))
               + Cardinality(Denied(g)')
    PROVE  Balance(n, r, g)'
<1> DEFINE s == n * Spent(r, g)
           a == Len(counters[r][g])
           b == CountIn(chan, Denies(g))
           c == Cardinality(Waiting(g))
           d == Cardinality(Denied(g))
           aa == Len(counters'[r][g])
           bb == CountIn(chan', Denies(g))
           cc == Cardinality(Waiting(g)')
           dd == Cardinality(Denied(g)')
<1>1. s \in Nat /\ a \in Nat /\ b \in Nat /\ c \in Nat /\ d \in Nat
    BY BalanceTypes, Times
<1>2. aa \in Nat /\ bb \in Nat /\ cc \in Nat /\ dd \in Nat
    <2>1. /\ counters'[r][g] \in Seq(Nat) /\ chan' \in Seq(Receipt)
        BY DEF TypeOK
    <2>2. IsFiniteSet(Denied(g)') /\ IsFiniteSet(Waiting(g)')
        <3>1. Denied(g)' \subseteq Observed /\ Waiting(g)' \subseteq Observed
            BY DEF Denied, Waiting, TypeOK
        <3>2. QED
            BY <3>1, EnforcementAssumption, FS_Subset
    <2>3. Len(counters'[r][g]) \in Nat
        BY <2>1
    <2>4. CountIn(chan', Denies(g)) \in Nat
        BY <2>1, CountType
    <2>5. Cardinality(Denied(g)') \in Nat /\ Cardinality(Waiting(g)') \in Nat
        BY <2>2, FS_CardinalityType
    <2>6. QED
        BY <2>3, <2>4, <2>5
<1>3. s + a + b + c <= d
    BY DEF Balance
<1>4. aa + bb + cc + d <= a + b + c + dd
    OBVIOUS
<1>5. s + aa + bb + cc <= dd => Balance(n, r, g)'
    BY DEF Balance, Denies
<1> HIDE DEF s, a, b, c, d, aa, bb, cc, dd
<1>6. QED
    BY <1>1, <1>2, <1>3, <1>4, <1>5

LEMMA InitAccounted == Init => Accounted
<1> SUFFICES ASSUME Init, NEW v \in Versions, NEW r \in DOMAIN Config[v], NEW g \in Agents
             PROVE  Balance(Config[v][r].threshold, r, g)
    BY DEF Accounted
<1>1. r \in Rules /\ Config[v][r].threshold \in Nat /\ g \in Groups
    BY ThresholdFacts DEF Groups
<1>2. /\ log = << >> /\ todo["forwarder"] = << >> /\ chan = << >> /\ counters[r][g] = << >>
      /\ observed = {}
    BY <1>1, TaskNames DEF Init
<1>3. \A W : CountIn(<< >>, W) = 0
    BY CountNone
<1>4. Denied(g) = {} /\ Waiting(g) = {}
    BY <1>2 DEF Denied, Waiting
<1>5. Cardinality(Denied(g)) = 0 /\ Cardinality(Waiting(g)) = 0
    BY <1>4, FS_EmptySet
<1>6. Spent(r, g) = 0 /\ CountIn(chan, Denies(g)) = 0 /\ Len(counters[r][g]) = 0
    BY <1>2, <1>3 DEF Spent
<1>7. QED
    BY <1>1, <1>5, <1>6 DEF Balance

LEMMA WaitingSame ==
    ASSUME NEW g, observed' = observed,
           \A d \in observed : (todo'[d] = << >> /\ landed'[d] = << >>)
                               <=> (todo[d] = << >> /\ landed[d] = << >>)
    PROVE  Waiting(g)' = Waiting(g) /\ Denied(g)' = Denied(g)
<1>1. Denied(g)' = Denied(g)
    BY DEF Denied
<1>2. \A d \in Denied(g) : d \in observed
    BY DEF Denied
<1>3. QED
    BY <1>1, <1>2 DEF Waiting

LEMMA ObserveAccounted ==
    ASSUME TypeOK, TypeOK', OwnKinds, Accounted, NEW d \in Observed, Observe(d)
    PROVE  Accounted'
<1>1. /\ d \notin observed /\ observed' = observed \cup {d}
      /\ counters' = counters /\ chan' = chan /\ log' = log /\ landed' = landed
    BY DEF Observe
<1>2. d \in Tasks /\ d # "forwarder" /\ observed \subseteq Tasks
    BY TaskNames DEF TypeOK
<1>3. todo \in [Tasks -> Seq(Receipt)]
    BY DEF TypeOK
<1>4. PICK x : todo' = [todo EXCEPT ![d] = <<x>>]
    BY DEF Observe
<1>5. /\ todo'["forwarder"] = todo["forwarder"] /\ todo'[d] = <<x>>
      /\ \A e \in observed : todo'[e] = todo[e]
    BY <1>1, <1>2, <1>3, <1>4, TaskNames
<1>6. <<x>> # << >>
    OBVIOUS
<1> SUFFICES ASSUME NEW v \in Versions, NEW r \in DOMAIN Config[v], Config[v][r].perPrincipal,
                    NEW g \in Agents
             PROVE  Balance(Config[v][r].threshold, r, g)'
    BY DEF Accounted
<1>7. r \in Rules /\ Config[v][r].threshold \in Nat /\ g \in Groups
    BY ThresholdFacts DEF Groups
<1>8. Balance(Config[v][r].threshold, r, g)
    BY DEF Accounted
<1>9. Spent(r, g)' = Spent(r, g)
    BY <1>1, <1>5 DEF Spent, CountIn, Of
<1>10. /\ IsFiniteSet(Waiting(g)) /\ Cardinality(Waiting(g)) \in Nat
       /\ IsFiniteSet(Denied(g)) /\ Cardinality(Denied(g)) \in Nat
       /\ Len(counters[r][g]) \in Nat /\ CountIn(chan, Denies(g)) \in Nat
    BY <1>7, BalanceTypes
<1>11. d \notin Denied(g) /\ d \notin Waiting(g)
    BY <1>1 DEF Denied, Waiting
<1>12. \A e \in Denied(g) : e \in observed
    BY DEF Denied
<1>13. CASE d \notin Shadow /\ Subject[d] = g
    <2>1. Denied(g)' = Denied(g) \cup {d}
        BY <1>1, <1>13 DEF Denied
    <2>2. Waiting(g)' = Waiting(g) \cup {d}
        BY <1>1, <1>5, <1>6, <1>12, <2>1 DEF Waiting
    <2>3. /\ Cardinality(Denied(g)') = Cardinality(Denied(g)) + 1
          /\ Cardinality(Waiting(g)') = Cardinality(Waiting(g)) + 1
        BY <1>10, <1>11, <2>1, <2>2, FS_AddElement
    <2> DEFINE c == Cardinality(Waiting(g))
               e == Cardinality(Denied(g))
               a == Len(counters[r][g])
               b == CountIn(chan, Denies(g))
    <2>4. a + b + (c + 1) + e <= a + b + c + (e + 1)
        <3> HIDE DEF a, b, c, e
        <3>1. a \in Nat /\ b \in Nat /\ c \in Nat /\ e \in Nat
            BY <1>10 DEF a, b, c, e
        <3>2. QED
            BY <3>1
    <2>5. Len(counters'[r][g]) + CountIn(chan', Denies(g)) + Cardinality(Waiting(g)')
               + Cardinality(Denied(g))
           <= Len(counters[r][g]) + CountIn(chan, Denies(g)) + Cardinality(Waiting(g))
               + Cardinality(Denied(g)')
        BY <1>1, <2>3, <2>4
    <2>6. QED
        BY <1>7, <1>8, <1>9, <2>5, BalanceKept
<1>14. CASE ~(d \notin Shadow /\ Subject[d] = g)
    <2>1. Denied(g)' = Denied(g)
        BY <1>1, <1>14 DEF Denied
    <2>2. Waiting(g)' = Waiting(g)
        BY <1>1, <1>5, <1>12, <2>1 DEF Waiting
    <2> DEFINE a == Len(counters[r][g])
               b == CountIn(chan, Denies(g))
               c == Cardinality(Waiting(g))
               e == Cardinality(Denied(g))
               m == a + b + c + e
    <2>3. m <= m
        <3>1. a \in Nat /\ b \in Nat /\ c \in Nat /\ e \in Nat
            BY <1>10
        <3> HIDE DEF a, b, c, e
        <3>2. QED
            BY <3>1
    <2>4. QED
        BY <1>1, <1>7, <1>8, <1>9, <2>1, <2>2, <2>3, BalanceKept
<1>15. QED
    BY <1>13, <1>14

\* No other task than the forwarder has detects.
LEMMA OnlyForwarderDetects ==
    ASSUME NEW t \in Tasks, t # "forwarder", NEW x, Allowed(t, x), NEW r, NEW g
    PROVE  x \notin Of("detect", r, g)
<1>1. t = "scheduler" \/ t \in Observed \/ t \in Activations
    BY DEF Tasks
<1>2. x.kind \in LadderKinds \cup {"shadow", "deny", "activate"}
    BY <1>1 DEF Allowed
<1>3. x.kind # "detect"
    BY <1>2 DEF LadderKinds
<1>4. QED
    BY <1>3 DEF Of

\* What an append does to the detects that are accounted for.
LEMMA SpentAppend ==
    ASSUME TypeOK, OwnKinds, NEW t \in Tasks, AppendReceipt(t) \/ AppendFails(t),
           NEW r \in Rules, NEW g \in Groups
    PROVE  /\ AppendReceipt(t) => Spent(r, g)' = Spent(r, g)
           /\ Spent(r, g)' = Spent(r, g) \/ Spent(r, g) = Spent(r, g)' + 1
           /\ Spent(r, g)' \in Nat
<1> DEFINE W == Of("detect", r, g)
           x == Head(todo[t])
           q == todo["forwarder"]
           p == todo'["forwarder"]
           c == IF x \in W THEN 1 ELSE 0
<1>1. todo[t] # << >> /\ todo' = [todo EXCEPT ![t] = Tail(todo[t])]
    BY DEF AppendReceipt, AppendFails
<1>2. x \in Receipt /\ Allowed(t, x)
    BY <1>1, HeadFacts, TaskOwn
<1>3. log \in Seq(Receipt) /\ todo \in [Tasks -> Seq(Receipt)] /\ q \in Seq(Receipt)
    BY TaskNames DEF TypeOK
<1>4. /\ AppendReceipt(t) => log' = (IF x.kind \in Stages THEN Append(log, x) ELSE log)
      /\ AppendFails(t) => log' = log
    BY DEF AppendReceipt, AppendFails
<1>5. Spent(r, g) = CountIn(log, W) + CountIn(q, W) /\ Spent(r, g)' = CountIn(log', W) + CountIn(p, W)
    BY DEF Spent, Of
<1>6. CountIn(log, W) \in Nat /\ CountIn(q, W) \in Nat
    BY <1>3, CountType
<1>7. CASE t # "forwarder"
    <2>1. x \notin W
        BY <1>2, <1>7, OnlyForwarderDetects
    <2>2. p = q
        BY <1>1, <1>3, <1>7, TaskNames
    <2> HIDE DEF W, x, p, q
    <2>3. CountIn(Append(log, x), W) = CountIn(log, W)
        BY <1>2, <1>3, <1>6, <2>1, CountAppend
    <2>4. CountIn(log', W) = CountIn(log, W)
        BY <1>4, <2>3
    <2>5. Spent(r, g)' = Spent(r, g) /\ Spent(r, g) \in Nat
        BY <1>5, <1>6, <2>2, <2>4
    <2>6. QED
        BY <2>5
<1>8. CASE t = "forwarder"
    <2>1. q # << >> /\ x = Head(q) /\ p = Tail(q)
        BY <1>1, <1>3, <1>8
    <2>2. x.kind \in Stages
        BY <1>2, <1>8 DEF Allowed, Stages
    <2> HIDE DEF W, x, p, q
    <2>3. CountIn(Append(log, x), W) = CountIn(log, W) + c
        BY <1>2, <1>3, CountAppend
    <2>4. p \in Seq(Receipt) /\ CountIn(q, W) = c + CountIn(p, W)
        BY <1>3, <2>1, CountTail
    <2>5. CountIn(p, W) \in Nat
        BY <2>4, CountType
    <2>6. c \in Nat /\ (c = 0 \/ c = 1)
        OBVIOUS
    <2> HIDE DEF c
    <2>7. CASE AppendReceipt(t)
        <3>1. CountIn(log', W) = CountIn(log, W) + c
            BY <1>4, <2>2, <2>3, <2>7
        <3>2. Spent(r, g)' = Spent(r, g) /\ Spent(r, g) \in Nat
            BY <1>5, <1>6, <2>4, <2>5, <2>6, <3>1
        <3>3. QED
            BY <3>2
    <2>8. CASE ~AppendReceipt(t)
        <3>1. log' = log
            BY <1>4, <2>8
        <3>2. Spent(r, g) = Spent(r, g)' + c /\ Spent(r, g)' \in Nat
            BY <1>5, <1>6, <2>4, <2>5, <2>6, <3>1
        <3>3. QED
            BY <2>6, <2>8, <3>2
    <2>9. QED
        BY <2>7, <2>8
<1>9. QED
    BY <1>7, <1>8

LEMMA AppendAccounted ==
    ASSUME TypeOK, TypeOK', OwnKinds, Accounted, NEW t \in Tasks, AppendReceipt(t)
    PROVE  Accounted'
<1>1. /\ observed' = observed /\ counters' = counters /\ chan' = chan
      /\ todo[t] # << >> /\ todo' = [todo EXCEPT ![t] = Tail(todo[t])]
      /\ landed' = [landed EXCEPT ![t] = <<Head(todo[t])>>]
    BY DEF AppendReceipt
<1>2. todo \in [Tasks -> Seq(Receipt)] /\ landed \in [Tasks -> Seq(Receipt)] /\ observed \subseteq Tasks
    BY TaskNames DEF TypeOK
<1>3. ASSUME NEW d \in observed
      PROVE  (todo'[d] = << >> /\ landed'[d] = << >>) <=> (todo[d] = << >> /\ landed[d] = << >>)
    <2>1. CASE d = t
        <3>1. landed'[d] = <<Head(todo[t])>> /\ <<Head(todo[t])>> # << >>
            BY <1>1, <1>2, <2>1
        <3>2. QED
            BY <1>1, <2>1, <3>1
    <2>2. CASE d # t
        BY <1>1, <1>2, <2>2
    <2>3. QED
        BY <2>1, <2>2
<1> SUFFICES ASSUME NEW v \in Versions, NEW r \in DOMAIN Config[v], Config[v][r].perPrincipal,
                    NEW g \in Agents
             PROVE  Balance(Config[v][r].threshold, r, g)'
    BY DEF Accounted
<1>4. r \in Rules /\ Config[v][r].threshold \in Nat /\ g \in Groups
    BY ThresholdFacts DEF Groups
<1>5. Balance(Config[v][r].threshold, r, g)
    BY DEF Accounted
<1>6. Spent(r, g)' = Spent(r, g)
    BY <1>4, SpentAppend
<1>7. Waiting(g)' = Waiting(g) /\ Denied(g)' = Denied(g)
    BY <1>1, <1>3, WaitingSame
<1>8. QED
    BY <1>1, <1>5, <1>6, <1>7 DEF Balance, Denies

LEMMA FailsAccounted ==
    ASSUME TypeOK, TypeOK', OwnKinds, Accounted, NEW t \in Tasks, AppendFails(t)
    PROVE  Accounted'
<1>1. /\ observed' = observed /\ counters' = counters /\ chan' = chan /\ landed' = landed
      /\ todo[t] # << >> /\ todo' = [todo EXCEPT ![t] = Tail(todo[t])]
    BY DEF AppendFails
<1>2. todo \in [Tasks -> Seq(Receipt)] /\ observed \subseteq Tasks
    BY TaskNames DEF TypeOK
<1>3. \A d \in observed : todo[d] = << >> => todo'[d] = << >>
    BY <1>1, <1>2
<1> SUFFICES ASSUME NEW v \in Versions, NEW r \in DOMAIN Config[v], Config[v][r].perPrincipal,
                    NEW g \in Agents
             PROVE  Balance(Config[v][r].threshold, r, g)'
    BY DEF Accounted
<1>4. r \in Rules /\ Config[v][r].threshold \in Nat /\ g \in Groups
    BY ThresholdFacts DEF Groups
<1> DEFINE n == Config[v][r].threshold
<1>5. Balance(n, r, g)
    BY DEF Accounted
<1>6. /\ Spent(r, g)' = Spent(r, g) \/ Spent(r, g) = Spent(r, g)' + 1
      /\ Spent(r, g)' \in Nat
    BY <1>4, SpentAppend
<1>7. Denied(g)' = Denied(g)
    BY <1>1 DEF Denied
<1>8. Waiting(g)' \subseteq Waiting(g)
    BY <1>1, <1>3, <1>7 DEF Waiting, Denied
<1>9. /\ IsFiniteSet(Waiting(g)) /\ Cardinality(Waiting(g)) \in Nat /\ Spent(r, g) \in Nat
      /\ Cardinality(Denied(g)) \in Nat /\ Len(counters[r][g]) \in Nat
      /\ CountIn(chan, Denies(g)) \in Nat
    BY <1>4, BalanceTypes
<1>10. IsFiniteSet(Waiting(g)') /\ Cardinality(Waiting(g)') <= Cardinality(Waiting(g))
    BY <1>8, <1>9, FS_Subset
<1>11. Cardinality(Waiting(g)') \in Nat
    BY <1>10, FS_CardinalityType
<1> DEFINE ss == n * Spent(r, g)'
           s == n * Spent(r, g)
<1>12. ss \in Nat /\ s \in Nat /\ ss <= s
    <2> DEFINE m == Spent(r, g)'
    <2>1. m \in Nat /\ n \in Nat /\ (Spent(r, g) = m \/ Spent(r, g) = m + 1)
        BY <1>4, <1>6
    <2> HIDE DEF m, n
    <2>2. n * m \in Nat /\ n * (m + 1) = n * m + n
        BY <2>1, Times
    <2>3. n * m <= n * m /\ n * m <= n * m + n /\ n * m + n \in Nat
        BY <2>1, <2>2
    <2>4. CASE Spent(r, g) = m
        BY <2>2, <2>3, <2>4 DEF m
    <2>5. CASE Spent(r, g) = m + 1
        BY <2>2, <2>3, <2>5 DEF m
    <2>6. QED
        BY <2>1, <2>4, <2>5
<1>13. s + Len(counters[r][g]) + CountIn(chan, Denies(g)) + Cardinality(Waiting(g))
          <= Cardinality(Denied(g))
    BY <1>5 DEF Balance
<1> SUFFICES ss + Len(counters[r][g]) + CountIn(chan, Denies(g)) + Cardinality(Waiting(g)')
                <= Cardinality(Denied(g))
    BY <1>1, <1>7 DEF Balance, Denies
<1> HIDE DEF s, ss
<1>14. QED
    BY <1>9, <1>10, <1>11, <1>12, <1>13

LEMMA PublishAccounted ==
    ASSUME TypeOK, TypeOK', OwnKinds, Accounted, NEW t \in Tasks, Publish(t)
    PROVE  Accounted'
<1> DEFINE x == landed[t][1]
<1>1. /\ observed' = observed /\ counters' = counters /\ log' = log /\ todo' = todo
      /\ landed[t] # << >> /\ landed' = [landed EXCEPT ![t] = << >>]
      /\ chan' = IF Len(chan) < ChanCap THEN Append(chan, x) ELSE chan
    BY DEF Publish
<1>2. x \in Receipt /\ Allowed(t, x) /\ landed[t] = <<x>>
    BY <1>1, LandedFacts, TaskOwn
<1>3. /\ todo \in [Tasks -> Seq(Receipt)] /\ landed \in [Tasks -> Seq(Receipt)]
      /\ observed \subseteq Tasks /\ chan \in Seq(Receipt)
    BY TaskNames DEF TypeOK
<1> HIDE DEF x
<1> SUFFICES ASSUME NEW v \in Versions, NEW r \in DOMAIN Config[v], Config[v][r].perPrincipal,
                    NEW g \in Agents
             PROVE  Balance(Config[v][r].threshold, r, g)'
    BY DEF Accounted
<1>4. r \in Rules /\ Config[v][r].threshold \in Nat /\ g \in Groups
    BY ThresholdFacts DEF Groups
<1>5. Balance(Config[v][r].threshold, r, g)
    BY DEF Accounted
<1>6. Spent(r, g)' = Spent(r, g)
    BY <1>1 DEF Spent, CountIn, Of
<1>7. /\ IsFiniteSet(Waiting(g)) /\ Cardinality(Waiting(g)) \in Nat
      /\ Cardinality(Denied(g)) \in Nat /\ Len(counters[r][g]) \in Nat
      /\ CountIn(chan, Denies(g)) \in Nat
    BY <1>4, BalanceTypes
<1>8. Denied(g)' = Denied(g)
    BY <1>1 DEF Denied
<1>9. \A d \in observed : d # t => todo'[d] = todo[d] /\ landed'[d] = landed[d]
    BY <1>1, <1>3
<1>10. Waiting(g)' \subseteq Waiting(g)
    <2>1. ASSUME NEW d \in Waiting(g)' PROVE d \in Waiting(g)
        <3>1. d \in Denied(g) /\ ~(todo'[d] = << >> /\ landed'[d] = << >>) /\ d \in observed
            BY <1>1, <1>8 DEF Waiting, Denied
        <3>2. CASE d = t
            BY <1>1, <3>1, <3>2 DEF Waiting
        <3>3. CASE d # t
            BY <1>9, <3>1, <3>3 DEF Waiting
        <3>4. QED
            BY <3>2, <3>3
    <2>2. QED
        BY <2>1
<1>11. CountIn(Append(chan, x), Denies(g))
       = CountIn(chan, Denies(g)) + (IF x \in Denies(g) THEN 1 ELSE 0)
    BY <1>2, <1>3, CountAppend
<1> DEFINE a == Len(counters[r][g])
           b == CountIn(chan, Denies(g))
           c == Cardinality(Waiting(g))
           d == Cardinality(Denied(g))
           bb == CountIn(chan', Denies(g))
           cc == Cardinality(Waiting(g)')
<1>12. IsFiniteSet(Waiting(g)') /\ cc <= c
    BY <1>7, <1>10, FS_Subset
<1>13. cc \in Nat
    BY <1>12, FS_CardinalityType
<1>14. bb \in Nat /\ bb + cc <= b + c
    <2>1. CASE x \notin Denies(g)
        <3>1. bb = b
            BY <1>1, <1>7, <1>11, <2>1
        <3> HIDE DEF b, c, bb, cc
        <3>2. b \in Nat /\ c \in Nat
            BY <1>7 DEF b, c
        <3>3. QED
            BY <1>12, <1>13, <3>1, <3>2
    <2>2. CASE x \in Denies(g)
        <3>1. x.kind = "deny" /\ x.agent = g
            BY <2>2 DEF Denies
        <3>2. t \in Observed \ Shadow /\ Subject[t] = g
            <4>1. t = "forwarder" \/ t = "scheduler" \/ t \in Observed \/ t \in Activations
                BY DEF Tasks
            <4>2. t \in Observed
                BY <1>2, <3>1, <4>1 DEF Allowed, LadderKinds
            <4>3. QED
                BY <1>2, <3>1, <4>2 DEF Allowed
        <3>3. t \in observed /\ todo[t] = << >>
            <4>1. Len(todo[t]) + Len(landed[t]) <= 1 /\ t \in observed
                BY <1>1, <3>2 DEF OwnKinds
            <4>2. todo[t] \in Seq(Receipt)
                BY <1>3
            <4>3. Len(todo[t]) \in Nat /\ Len(todo[t]) + 1 <= 1
                <5>1. Len(landed[t]) = 1
                    BY <1>2
                <5>2. QED
                    BY <4>1, <4>2, <5>1
            <4>4. Len(todo[t]) = 0
                BY <4>3
            <4>5. QED
                BY <4>1, <4>2, <4>4
        <3>4. t \in Waiting(g)
            BY <1>1, <3>2, <3>3 DEF Waiting, Denied
        <3>5. t \notin Waiting(g)'
            BY <1>1, <1>3, <3>3 DEF Waiting
        <3>6. Waiting(g)' \subseteq Waiting(g) \ {t}
            BY <1>10, <3>5
        <3>7. /\ IsFiniteSet(Waiting(g) \ {t})
              /\ Cardinality(Waiting(g) \ {t}) = Cardinality(Waiting(g)) - 1
            BY <1>7, <3>4, FS_RemoveElement
        <3>8. cc <= c - 1
            <4>1. Cardinality(Waiting(g)') <= Cardinality(Waiting(g) \ {t})
                BY <3>6, <3>7, FS_Subset
            <4>2. QED
                BY <3>7, <4>1
        <3>9. bb = b \/ bb = b + 1
            BY <1>1, <1>11, <2>2
        <3> HIDE DEF b, c, bb, cc
        <3>10. b \in Nat /\ c \in Nat
            BY <1>7 DEF b, c
        <3>11. QED
            BY <1>13, <3>8, <3>9, <3>10
    <2>3. QED
        BY <2>1, <2>2
<1>15. a + bb + cc + d <= a + b + c + d
    <2>1. a \in Nat /\ b \in Nat /\ c \in Nat /\ d \in Nat
        BY <1>7
    <2> HIDE DEF a, b, c, d, bb, cc
    <2>2. QED
        BY <1>13, <1>14, <2>1
<1>16. Len(counters'[r][g]) + CountIn(chan', Denies(g)) + Cardinality(Waiting(g)')
            + Cardinality(Denied(g))
        <= Len(counters[r][g]) + CountIn(chan, Denies(g)) + Cardinality(Waiting(g))
            + Cardinality(Denied(g)')
    BY <1>1, <1>8, <1>15
<1>17. QED
    BY <1>4, <1>5, <1>6, <1>16, BalanceKept

\* A step that only takes the head of the channel, no deny, is accounted for.
LEMMA QuietForwardAccounted ==
    ASSUME TypeOK, TypeOK', Accounted, ForwardSkipped \/ ForwardEnforcement
    PROVE  Accounted'
<1>1. /\ chan # << >> /\ chan' = Tail(chan) /\ Head(chan).kind \in Stages \cup {"shadow"}
      /\ UNCHANGED <<observed, counters, log, todo, landed>>
    BY DEF ForwardSkipped, ForwardEnforcement
<1>2. chan \in Seq(Receipt) /\ Tail(chan) \in Seq(Receipt)
    BY <1>1, ChanHead
<1> SUFFICES ASSUME NEW v \in Versions, NEW r \in DOMAIN Config[v], Config[v][r].perPrincipal,
                    NEW g \in Agents
             PROVE  Balance(Config[v][r].threshold, r, g)'
    BY DEF Accounted
<1>3. Balance(Config[v][r].threshold, r, g)
    BY DEF Accounted
<1>4. Head(chan) \notin Denies(g)
    BY <1>1 DEF Denies, Stages
<1>5. CountIn(chan, Denies(g)) = 0 + CountIn(Tail(chan), Denies(g))
    BY <1>1, <1>2, <1>4, CountTail
<1>6. CountIn(Tail(chan), Denies(g)) \in Nat
    BY <1>2, CountType
<1>7. CountIn(chan', Denies(g)) = CountIn(chan, Denies(g))
    BY <1>1, <1>5, <1>6
<1>8. Spent(r, g)' = Spent(r, g) /\ Waiting(g)' = Waiting(g) /\ Denied(g)' = Denied(g)
    BY <1>1 DEF Spent, CountIn, Of, Waiting, Denied
<1>9. Balance(Config[v][r].threshold, r, g)'
      = (Config[v][r].threshold * Spent(r, g)' + Len(counters'[r][g]) + CountIn(chan', Denies(g))
         + Cardinality(Waiting(g)') <= Cardinality(Denied(g)'))
    BY DEF Balance, Denies
<1>10. QED
    BY <1>1, <1>3, <1>7, <1>8, <1>9 DEF Balance

LEMMA SpentForward ==
    ASSUME TypeOK, ForwardEvaluation, NEW r \in Rules, NEW g \in Groups
    PROVE  /\ Spent(r, g)' = Spent(r, g) \/ Spent(r, g)' = Spent(r, g) + 1
           /\ Spent(r, g)' # Spent(r, g) =>
                  /\ r \in LiveFor(Head(chan)) /\ Fires(r, Head(chan))
                  /\ g = Key(Config[active][r], Head(chan))
<1> DEFINE W == Of("detect", r, g)
           v == Head(chan)
<1>1. PICK fx \in Seq(Receipt), new \in Seq(Slot) :
          /\ todo' = [todo EXCEPT !["forwarder"] = fx]
          /\ \A i \in DOMAIN fx : \E rr \in LiveFor(v) : Fires(rr, v) /\ fx[i] = DetectEffect(rr, v)
          /\ \A rr, gg : CountIn(fx, Of("detect", rr, gg)) <= 1
    BY ForwardFacts, Zenon
<1>2. v \in Receipt
    BY ForwardFacts
<1>3. todo["forwarder"] = << >> /\ log' = log
    BY DEF ForwardEvaluation, Idle
<1>4. todo'["forwarder"] = fx
    BY <1>1, TaskNames DEF TypeOK
<1>5. CountIn(log, W) \in Nat
    BY CountType DEF TypeOK
<1>6. CountIn(fx, W) \in Nat /\ CountIn(fx, W) <= 1 /\ CountIn(<< >>, W) = 0
    <2>1. CountIn(fx, W) \in Nat
        BY <1>1, CountType
    <2>2. CountIn(fx, W) <= 1
        BY <1>1
    <2>3. CountIn(<< >>, W) = 0
        BY CountNone
    <2>4. QED
        BY <2>1, <2>2, <2>3
<1>7. Spent(r, g) = CountIn(log, W) + CountIn(todo["forwarder"], W)
    BY DEF Spent
<1>8. Spent(r, g)' = CountIn(log', W) + CountIn(todo'["forwarder"], W)
    BY DEF Spent, Of
<1>9. CountIn(fx, W) # 0 => \E i \in DOMAIN fx : fx[i] \in W
    <2>1. SUFFICES ASSUME \A i \in DOMAIN fx : fx[i] \notin W PROVE CountIn(fx, W) = 0
        OBVIOUS
    <2>2. {i \in DOMAIN fx : fx[i] \in W} = {}
        BY <2>1
    <2>3. QED
        BY <2>2, FS_EmptySet DEF CountIn
<1>10. ASSUME NEW i \in DOMAIN fx, fx[i] \in W
       PROVE  r \in LiveFor(v) /\ Fires(r, v) /\ g = Key(Config[active][r], v)
    <2>1. PICK rr \in LiveFor(v) : Fires(rr, v) /\ fx[i] = DetectEffect(rr, v)
        BY <1>1
    <2>2. rr \in DOMAIN Config[active]
        BY <2>1 DEF LiveFor
    <2>3. fx[i].rule = rr /\ fx[i].agent = Key(Config[active][rr], v)
        BY <1>2, <2>1, <2>2, DetectEffectFacts
    <2>4. fx[i].rule = r /\ fx[i].agent = g
        BY <1>10 DEF Of
    <2>5. QED
        BY <2>1, <2>3, <2>4
<1> DEFINE a == CountIn(log, W)
           c == CountIn(fx, W)
<1>11. /\ Spent(r, g) = a + 0 /\ Spent(r, g)' = a + c
       /\ a \in Nat /\ c \in Nat /\ c <= 1
    BY <1>3, <1>4, <1>5, <1>6, <1>7, <1>8
<1> HIDE DEF a
<1>12. Spent(r, g)' = Spent(r, g) \/ (Spent(r, g)' = Spent(r, g) + 1 /\ c # 0)
    <2> HIDE DEF c
    <2>1. QED
        BY <1>11
<1>13. QED
    BY <1>9, <1>10, <1>12

\* The engine's count of a group after it has seen a deny.
LEMMA CounterForward ==
    ASSUME TypeOK, ForwardEvaluation, NEW r \in Rules, NEW g \in Groups
    PROVE  LET v == Head(chan) IN
           /\ counters[r][g] \in Seq(Nat) /\ counters'[r][g] \in Seq(Nat)
           /\ Len(counters'[r][g]) <= Len(counters[r][g]) + 1
           /\ (r \notin LiveFor(v) \/ g # Key(Config[active][r], v))
                  => counters'[r][g] = counters[r][g]
           /\ (r \in LiveFor(v) /\ Fires(r, v) /\ g = Key(Config[active][r], v))
                  => /\ Len(counters'[r][g]) = 0
                     /\ Config[active][r].threshold <= Len(counters[r][g]) + 1
<1> DEFINE v == Head(chan)
           k == Key(Config[active][r], v)
<1>1. /\ v \in Receipt
      /\ counters' = [rr \in Rules |-> IF rr \in LiveFor(v)
                                      THEN Counted(rr, v, Key(Config[active][rr], v))
                                      ELSE counters[rr]]
    BY ForwardFacts
<1> HIDE DEF v
<1>2. /\ counters' \in [Rules -> [Groups -> Seq(Nat)]]
      /\ r \notin LiveFor(v) => counters'[r] = counters[r]
      /\ r \in LiveFor(v) =>
            counters'[r][g] = IF g # k THEN counters[r][g]
                              ELSE IF Fires(r, v) THEN << >> ELSE Kept(r, v, k)
    BY <1>1, CountersForwarded, Zenon
<1>3. counters \in [Rules -> [Groups -> Seq(Nat)]]
    BY DEF TypeOK
<1>4. counters[r][g] \in Seq(Nat) /\ counters'[r][g] \in Seq(Nat)
    BY <1>2, <1>3
<1> DEFINE q == counters[r][g]
           p == counters'[r][g]
           n == Config[active][r].threshold
<1>5. Len(q) \in Nat /\ Len(p) \in Nat
    BY <1>4
<1>6. CASE r \notin LiveFor(v) \/ g # k
    <2>1. p = q
        BY <1>2, <1>6
    <2>2. Len(p) <= Len(q) + 1
        BY <1>5, <2>1
    <2>3. QED
        BY <1>4, <1>6, <2>1, <2>2 DEF v
<1>7. CASE r \in LiveFor(v) /\ g = k
    <2>1. r \in DOMAIN Config[active]
        BY <1>7 DEF LiveFor
    <2>2. Kept(r, v, g) \in Seq(Nat) /\ Len(Kept(r, v, g)) <= Len(q) + 1
        BY <1>1, <2>1, KeptFacts
    <2>3. n \in Nat
        BY <2>1, ThresholdFacts DEF TypeOK
    <2>4. Len(Kept(r, v, g)) \in Nat
        BY <2>2
    <2>5. Fires(r, v) => Len(Kept(r, v, g)) >= n
        BY <1>7 DEF Fires
    <2>6. p = IF Fires(r, v) THEN << >> ELSE Kept(r, v, g)
        BY <1>2, <1>7
    <2> DEFINE m == Len(Kept(r, v, g))
    <2>7. Fires(r, v) => Len(p) = 0 /\ n <= Len(q) + 1
        <3>1. SUFFICES ASSUME Fires(r, v) PROVE Len(p) = 0 /\ n <= Len(q) + 1
            OBVIOUS
        <3>2. Len(p) = 0
            BY <2>6, <3>1
        <3>3. m >= n /\ m <= Len(q) + 1 /\ m \in Nat
            BY <2>2, <2>4, <2>5, <3>1
        <3> HIDE DEF m, n
        <3>4. n <= Len(q) + 1
            BY <1>5, <2>3, <3>3
        <3>5. QED
            BY <3>2, <3>4
    <2>8. Len(p) <= Len(q) + 1
        BY <1>5, <2>2, <2>6, <2>7
    <2>9. QED
        BY <1>4, <1>7, <2>7, <2>8 DEF v
<1>8. QED
    BY <1>6, <1>7

LEMMA ForwardAccounted ==
    ASSUME SettledRules, TypeOK, TypeOK', Accounted, ForwardEvaluation
    PROVE  Accounted'
<1> DEFINE x == Head(chan)
<1>1. /\ x \in Receipt /\ chan # << >> /\ chan' = Tail(chan)
      /\ \E fx : todo' = [todo EXCEPT !["forwarder"] = fx]
    BY ForwardFacts, Zenon
<1>2. chan \in Seq(Receipt) /\ Tail(chan) \in Seq(Receipt)
    BY <1>1, ChanHead
<1>3. observed' = observed /\ landed' = landed
    BY DEF ForwardEvaluation
<1>4. \A d \in observed : todo'[d] = todo[d]
    BY <1>1, TaskNames DEF TypeOK
<1> SUFFICES ASSUME NEW v \in Versions, NEW r \in DOMAIN Config[v], Config[v][r].perPrincipal,
                    NEW g \in Agents
             PROVE  Balance(Config[v][r].threshold, r, g)'
    BY DEF Accounted
<1> DEFINE n == Config[v][r].threshold
<1>5. r \in Rules /\ n \in Nat /\ g \in Groups
    BY ThresholdFacts DEF Groups
<1>6. Balance(n, r, g)
    BY DEF Accounted
<1>7. Waiting(g)' = Waiting(g) /\ Denied(g)' = Denied(g)
    BY <1>3, <1>4, WaitingSame
<1>8. /\ Cardinality(Waiting(g)) \in Nat /\ Cardinality(Denied(g)) \in Nat
      /\ Spent(r, g) \in Nat /\ Len(counters[r][g]) \in Nat
    BY <1>5, BalanceTypes
<1>9. CountIn(chan, Denies(g)) = (IF x \in Denies(g) THEN 1 ELSE 0) + CountIn(chan', Denies(g))
    BY <1>1, <1>2, CountTail
<1>10. CountIn(chan', Denies(g)) \in Nat
    BY <1>1, <1>2, CountType
<1>11. r \in LiveFor(x) /\ g = Key(Config[active][r], x)
       => x \in Denies(g) /\ Config[active][r].threshold = n
    <2>1. SUFFICES ASSUME r \in LiveFor(x), g = Key(Config[active][r], x)
                   PROVE  x \in Denies(g) /\ Config[active][r].threshold = n
        OBVIOUS
    <2>2. x.kind = "deny" /\ r \in DOMAIN Config[active]
        BY <2>1 DEF LiveFor
    <2>3. active \in Versions
        BY DEF TypeOK
    <2>4. /\ Config[active][r].perPrincipal = Config[v][r].perPrincipal
          /\ Config[active][r].threshold = n
        BY <2>2, <2>3 DEF SettledRules
    <2>5. x.agent = g
        BY <2>1, <2>4 DEF Key
    <2>6. QED
        BY <1>1, <2>2, <2>4, <2>5 DEF Denies
<1>12. /\ counters[r][g] \in Seq(Nat) /\ counters'[r][g] \in Seq(Nat)
       /\ Len(counters'[r][g]) <= Len(counters[r][g]) + 1
       /\ (r \notin LiveFor(x) \/ g # Key(Config[active][r], x))
              => counters'[r][g] = counters[r][g]
       /\ (r \in LiveFor(x) /\ Fires(r, x) /\ g = Key(Config[active][r], x))
              => /\ Len(counters'[r][g]) = 0
                 /\ Config[active][r].threshold <= Len(counters[r][g]) + 1
    BY <1>5, CounterForward
<1>13. /\ Spent(r, g)' = Spent(r, g) \/ Spent(r, g)' = Spent(r, g) + 1
       /\ Spent(r, g)' # Spent(r, g) =>
              r \in LiveFor(x) /\ Fires(r, x) /\ g = Key(Config[active][r], x)
    BY <1>5, SpentForward
<1> DEFINE s == Spent(r, g)
           ss == Spent(r, g)'
           a == Len(counters[r][g])
           aa == Len(counters'[r][g])
           b == CountIn(chan, Denies(g))
           bb == CountIn(chan', Denies(g))
           c == Cardinality(Waiting(g))
           d == Cardinality(Denied(g))
<1>14. /\ s \in Nat /\ a \in Nat /\ aa \in Nat /\ bb \in Nat /\ c \in Nat /\ d \in Nat
    BY <1>8, <1>10, <1>12
<1>15. n * s + a + b + c <= d
    BY <1>6 DEF Balance
<1>16. n * ss + aa + bb + c <= d => Balance(n, r, g)'
    BY <1>7 DEF Balance, Denies
<1>17. n * s \in Nat /\ n * (s + 1) = n * s + n
    BY <1>5, <1>14, Times
<1>18. CASE ss # s
    <2>1. r \in LiveFor(x) /\ Fires(r, x) /\ g = Key(Config[active][r], x) /\ ss = s + 1
        BY <1>13, <1>18
    <2>2. b = 1 + bb
        BY <1>9, <1>11, <2>1
    <2>3. aa = 0 /\ n <= a + 1
        BY <1>11, <1>12, <2>1
    <2> HIDE DEF s, ss, a, aa, b, bb, c, d, n
    <2> DEFINE m == n * s
    <2>4. m \in Nat /\ n * ss = m + n
        BY <1>17, <2>1
    <2>5. m + a + b + c <= d
        BY <1>15
    <2> HIDE DEF m
    <2>6. m + n + aa + bb + c <= d
        BY <1>5, <1>14, <2>2, <2>3, <2>4, <2>5
    <2>7. n * ss + aa + bb + c <= d
        BY <2>4, <2>6
    <2>8. QED
        BY <1>16, <2>7 DEF n
<1>19. CASE ss = s
    <2>1. aa + bb <= a + b /\ b \in Nat
        <3>1. CASE r \in LiveFor(x) /\ g = Key(Config[active][r], x)
            <4>1. b = 1 + bb
                BY <1>9, <1>11, <3>1
            <4>2. aa <= a + 1
                BY <1>12
            <4> HIDE DEF a, aa, b, bb
            <4>3. QED
                BY <1>14, <4>1, <4>2
        <3>2. CASE ~(r \in LiveFor(x) /\ g = Key(Config[active][r], x))
            <4>1. aa = a
                BY <1>12, <3>2
            <4>2. b = 0 + bb \/ b = 1 + bb
                BY <1>9
            <4> HIDE DEF a, aa, b, bb
            <4>3. QED
                BY <1>14, <4>1, <4>2
        <3>3. QED
            BY <3>1, <3>2
    <2> HIDE DEF s, ss, a, aa, b, bb, c, d, n
    <2> DEFINE m == n * s
    <2>4. m \in Nat /\ n * ss = m
        BY <1>17, <1>19
    <2>5. m + a + b + c <= d
        BY <1>15
    <2> HIDE DEF m
    <2>6. m + aa + bb + c <= d
        BY <1>14, <2>1, <2>4, <2>5
    <2>7. n * ss + aa + bb + c <= d
        BY <2>4, <2>6
    <2>8. QED
        BY <1>16, <2>7 DEF n
<1>20. QED
    BY <1>18, <1>19

\* Time takes nothing away and adds nothing.
LEMMA TickAccounted ==
    ASSUME TypeOK, TypeOK', Accounted, Tick
    PROVE  Accounted'
<1>1. /\ observed' = observed /\ log' = log /\ chan' = Older(chan)
      /\ todo' = [t \in Tasks |-> Older(todo[t])] /\ landed' = [t \in Tasks |-> Older(landed[t])]
    BY DEF Tick
<1>2. /\ chan \in Seq(Receipt) /\ todo["forwarder"] \in Seq(Receipt) /\ observed \subseteq Tasks
      /\ \A t \in Tasks : todo[t] \in Seq(Receipt) /\ landed[t] \in Seq(Receipt)
    BY TaskNames DEF TypeOK
<1>3. \A q \in Seq(Receipt) : Older(q) = << >> <=> q = << >>
    <2>1. SUFFICES ASSUME NEW q \in Seq(Receipt) PROVE Older(q) = << >> <=> q = << >>
        OBVIOUS
    <2>2. Older(q) \in Seq(Receipt) /\ Len(Older(q)) = Len(q)
        BY OlderFacts
    <2>3. QED
        BY <2>2
<1>4. \A d \in observed : (todo'[d] = << >> /\ landed'[d] = << >>)
                          <=> (todo[d] = << >> /\ landed[d] = << >>)
    BY <1>1, <1>2, <1>3
<1> SUFFICES ASSUME NEW v \in Versions, NEW r \in DOMAIN Config[v], Config[v][r].perPrincipal,
                    NEW g \in Agents
             PROVE  Balance(Config[v][r].threshold, r, g)'
    BY DEF Accounted
<1>5. r \in Rules /\ g \in Groups
    BY ThresholdFacts DEF Groups
<1>6. Balance(Config[v][r].threshold, r, g)
    BY DEF Accounted
<1>7. Waiting(g)' = Waiting(g) /\ Denied(g)' = Denied(g)
    BY <1>1, <1>4, WaitingSame
<1>8. Len(counters'[r][g]) = Len(counters[r][g])
    BY <1>5, TickFacts
<1>9. CountIn(chan', Denies(g)) = CountIn(chan, Denies(g))
    <2>1. DOMAIN chan' = DOMAIN chan
        BY <1>1, <1>2, OlderFacts
    <2>2. \A i \in DOMAIN chan : chan'[i] \in Denies(g) <=> chan[i] \in Denies(g)
        BY <1>1, <1>2, OlderFacts DEF Denies
    <2>3. QED
        BY <2>1, <2>2, CountSame
<1>10. CountIn(todo'["forwarder"], Of("detect", r, g)) = CountIn(todo["forwarder"], Of("detect", r, g))
    <2> DEFINE q == todo["forwarder"]
    <2>1. todo'["forwarder"] = Older(q)
        BY <1>1, TaskNames
    <2>2. DOMAIN Older(q) = DOMAIN q
        BY <1>2, OlderFacts
    <2>3. \A i \in DOMAIN q : Older(q)[i] \in Of("detect", r, g) <=> q[i] \in Of("detect", r, g)
        BY <1>2, OlderFacts DEF Of
    <2>4. QED
        BY <2>1, <2>2, <2>3, CountSame
<1>11. Spent(r, g)' = Spent(r, g)
    <2>1. Spent(r, g)' = CountIn(log', Of("detect", r, g))
                         + CountIn(todo'["forwarder"], Of("detect", r, g))
        BY DEF Spent, Of
    <2>2. QED
        BY <1>1, <1>10, <2>1 DEF Spent
<1>12. Balance(Config[v][r].threshold, r, g)'
      = (Config[v][r].threshold * Spent(r, g)' + Len(counters'[r][g]) + CountIn(chan', Denies(g))
         + Cardinality(Waiting(g)') <= Cardinality(Denied(g)'))
    BY DEF Balance, Denies
<1>13. QED
    BY <1>6, <1>7, <1>8, <1>9, <1>11, <1>12 DEF Balance

\* The calls and the scheduler have no receipt of a deny or detect.
LEMMA OthersAccounted ==
    ASSUME TypeOK, TypeOK', Accounted, Poll \/ \E a \in Activations : Activating(a)
    PROVE  Accounted'
<1>1. /\ observed' = observed /\ log' = log /\ chan' = chan /\ landed' = landed
    BY DEF Poll, Activating, ActivateEvaluator, FetchCurrent, BindEngine, taskVars
<1>2. todo \in [Tasks -> Seq(Receipt)] /\ observed \subseteq Observed
    BY DEF TypeOK
<1>3. todo'["forwarder"] = todo["forwarder"] /\ \A d \in observed : todo'[d] = todo[d]
    <2>1. CASE Poll
        <3>1. \E fx : todo' = [todo EXCEPT !["scheduler"] = fx]
            BY <2>1 DEF Poll
        <3>2. QED
            BY <1>2, <3>1, TaskNames
    <2>2. ASSUME NEW a \in Activations, Activating(a)
          PROVE  todo'["forwarder"] = todo["forwarder"] /\ \A d \in observed : todo'[d] = todo[d]
        <3>1. todo' = todo \/ \E fx : todo' = [todo EXCEPT ![a] = fx]
            BY <2>2 DEF Activating, ActivateEvaluator, FetchCurrent, BindEngine, taskVars
        <3>2. QED
            BY <1>2, <2>2, <3>1, TaskNames
    <2>3. QED
        BY <2>1, <2>2
<1>4. counters' = counters \/ counters' = [r \in Rules |-> [g \in Groups |-> << >>]]
    BY DEF Poll, Activating, ActivateEvaluator, FetchCurrent, BindEngine
<1> SUFFICES ASSUME NEW v \in Versions, NEW r \in DOMAIN Config[v], Config[v][r].perPrincipal,
                    NEW g \in Agents
             PROVE  Balance(Config[v][r].threshold, r, g)'
    BY DEF Accounted
<1>5. r \in Rules /\ Config[v][r].threshold \in Nat /\ g \in Groups
    BY ThresholdFacts DEF Groups
<1>6. Balance(Config[v][r].threshold, r, g)
    BY DEF Accounted
<1>7. Waiting(g)' = Waiting(g) /\ Denied(g)' = Denied(g)
    BY <1>1, <1>3, WaitingSame
<1>8. Spent(r, g)' = Spent(r, g)
    BY <1>1, <1>3 DEF Spent, CountIn, Of
<1> DEFINE a == Len(counters[r][g])
           aa == Len(counters'[r][g])
           b == CountIn(chan, Denies(g))
           c == Cardinality(Waiting(g))
           d == Cardinality(Denied(g))
<1>9. a \in Nat /\ b \in Nat /\ c \in Nat /\ d \in Nat
    BY <1>5, BalanceTypes
<1>10. aa = a \/ aa = 0
    BY <1>4, <1>5
<1>11. aa + b + c + d <= a + b + c + d
    <2> HIDE DEF a, aa, b, c, d
    <2>1. QED
        BY <1>9, <1>10
<1>12. Len(counters'[r][g]) + CountIn(chan', Denies(g)) + Cardinality(Waiting(g)')
            + Cardinality(Denied(g))
        <= Len(counters[r][g]) + CountIn(chan, Denies(g)) + Cardinality(Waiting(g))
            + Cardinality(Denied(g)')
    BY <1>1, <1>7, <1>11
<1>13. QED
    BY <1>5, <1>6, <1>8, <1>12, BalanceKept

LEMMA NextAccounted ==
    ASSUME SettledRules
    PROVE  TypeOK /\ OwnKinds /\ Accounted /\ [Next]_vars => Accounted'
<1> SUFFICES ASSUME TypeOK, OwnKinds, Accounted, [Next]_vars PROVE Accounted'
    OBVIOUS
<1>1. TypeOK'
    BY NextTypes
<1>2. CASE UNCHANGED vars
    BY <1>2 DEF Accounted, Balance, Spent, CountIn, Of, Denies, Waiting, Denied,
                vars, agentVars, taskVars, actVars, runVars
<1>3. ASSUME NEW d \in Observed, Observe(d) PROVE Accounted'
    BY <1>1, <1>3, ObserveAccounted
<1>4. ASSUME NEW t \in Tasks, Emitting(t) \/ AppendFails(t) PROVE Accounted'
    BY <1>1, <1>4, AppendAccounted, PublishAccounted, FailsAccounted DEF Emitting
<1>5. CASE Forwarding
    BY <1>1, <1>5, QuietForwardAccounted, ForwardAccounted DEF Forwarding
<1>6. CASE Poll \/ \E a \in Activations : Activating(a)
    BY <1>1, <1>6, OthersAccounted
<1>7. CASE Tick
    BY <1>1, <1>7, TickAccounted
<1>8. QED
    BY <1>2, <1>3, <1>4, <1>5, <1>6, <1>7 DEF Next
-----------------------------------------------------------------------------
(* The denies behind a detect.  Ages in a counter are at most a window     *)
(* apart: prune keeps none older than the arriving receipt by more, and    *)
(* the arriving receipt is at most maxLag old itself.                      *)

Prompt(q) == \A i \in DOMAIN q : q[i].age <= workload.maxLag

InWindow(q) ==
    \A i \in DOMAIN q : q[i].kind = "detect" =>
        \A v \in Versions : q[i].rule \in DOMAIN Config[v]
                            => q[i].span <= Config[v][q[i].rule].window

Close == \A r \in DOMAIN Config[active], g \in Groups :
            \A i, j \in DOMAIN counters[r][g] :
                counters[r][g][i] <= counters[r][g][j] + Config[active][r].window

Timely ==
    /\ Prompt(chan) /\ \A t \in Tasks : Prompt(todo[t]) /\ Prompt(landed[t])
    /\ Close
    /\ InWindow(log) /\ InWindow(todo["forwarder"])

LEMMA InitTimely == Init => Timely
<1> SUFFICES ASSUME Init PROVE Timely
    OBVIOUS
<1>1. /\ chan = << >> /\ log = << >> /\ todo["forwarder"] = << >>
      /\ \A t \in Tasks : todo[t] = << >> /\ landed[t] = << >>
    BY TaskNames DEF Init
<1>2. \A r \in Rules, g \in Groups : counters[r][g] = << >>
    BY DEF Init
<1>3. active \in Versions
    BY InitTypes DEF TypeOK
<1>4. DOMAIN Config[active] \subseteq Rules
    BY <1>3, EnforcementAssumption
<1>5. Close
    BY <1>2, <1>4 DEF Close
<1>6. QED
    BY <1>1, <1>5 DEF Timely, Prompt, InWindow

\* A new receipt is of age 0.
LEMMA PromptNew ==
    ASSUME TypeOK, NEW q, \A i \in DOMAIN q : q[i].age = 0
    PROVE  Prompt(q)
<1>1. 0 <= workload.maxLag
    BY WorkloadFacts
<1>2. QED
    BY <1>1 DEF Prompt

LEMMA PromptTail ==
    ASSUME NEW q \in Seq(Receipt), q # << >>, Prompt(q)
    PROVE  Prompt(Tail(q)) /\ Head(q).age <= workload.maxLag
<1>1. /\ Head(q) = q[1] /\ 1 \in DOMAIN q
      /\ \A i \in DOMAIN Tail(q) : i + 1 \in DOMAIN q /\ Tail(q)[i] = q[i + 1]
    OBVIOUS
<1>2. QED
    BY <1>1 DEF Prompt

LEMMA PromptAppend ==
    ASSUME NEW q \in Seq(Receipt), NEW x \in Receipt, Prompt(q), x.age <= workload.maxLag
    PROVE  Prompt(Append(q, x)) /\ Prompt(<<x>>)
<1>1. \A i \in DOMAIN Append(q, x) : \/ i \in DOMAIN q /\ Append(q, x)[i] = q[i]
                                     \/ Append(q, x)[i] = x
    OBVIOUS
<1>2. \A i \in DOMAIN <<x>> : <<x>>[i] = x
    OBVIOUS
<1>3. QED
    BY <1>1, <1>2 DEF Prompt

LEMMA InWindowTail ==
    ASSUME NEW q \in Seq(Receipt), q # << >>, InWindow(q)
    PROVE  InWindow(Tail(q)) /\ InWindow(<<Head(q)>>)
<1>1. /\ Head(q) = q[1] /\ 1 \in DOMAIN q
      /\ \A i \in DOMAIN Tail(q) : i + 1 \in DOMAIN q /\ Tail(q)[i] = q[i + 1]
    OBVIOUS
<1>2. \A i \in DOMAIN <<Head(q)>> : <<Head(q)>>[i] = Head(q)
    OBVIOUS
<1>3. QED
    BY <1>1, <1>2, Zenon DEF InWindow

LEMMA InWindowAppend ==
    ASSUME NEW q \in Seq(Receipt), NEW x \in Receipt, InWindow(q), InWindow(<<x>>)
    PROVE  InWindow(Append(q, x))
<1>1. \A i \in DOMAIN Append(q, x) : \/ i \in DOMAIN q /\ Append(q, x)[i] = q[i]
                                     \/ Append(q, x)[i] = x
    OBVIOUS
<1>2. 1 \in DOMAIN <<x>> /\ <<x>>[1] = x
    OBVIOUS
<1>3. QED
    BY <1>1, <1>2, Zenon DEF InWindow

LEMMA NoDetectInWindow ==
    ASSUME NEW x, x.kind # "detect"
    PROVE  InWindow(<<x>>)
<1>1. \A i \in DOMAIN <<x>> : <<x>>[i] = x
    OBVIOUS
<1>2. QED
    BY <1>1 DEF InWindow

\* The ages a deny is counted with are at most a window apart.
LEMMA KeptClose ==
    ASSUME PromptReceipts, TypeOK, Close, NEW r \in DOMAIN Config[active], NEW v \in Receipt,
           v.age <= workload.maxLag, NEW g \in Groups,
           NEW i \in DOMAIN Kept(r, v, g), NEW j \in DOMAIN Kept(r, v, g)
    PROVE  Kept(r, v, g)[i] <= Kept(r, v, g)[j] + Config[active][r].window
<1> DEFINE q == counters[r][g]
           p == Kept(r, v, g)
           w == Config[active][r].window
           e == v.age
<1>1. /\ q \in Seq(Nat) /\ p \in Seq(Nat)
      /\ \A k \in DOMAIN p : p[k] = e \/ \E m \in DOMAIN q : p[k] = q[m] /\ q[m] <= e + w
    BY KeptFacts
<1>2. e \in Nat /\ e <= workload.maxLag
    BY ReceiptFields
<1>3. w \in Nat /\ workload.maxLag <= w /\ workload.maxLag \in Nat
    BY WorkloadFacts, ThresholdFacts DEF PromptReceipts, TypeOK
<1>4. \A m, n \in DOMAIN q : q[m] <= q[n] + w
    BY DEF Close
<1> HIDE DEF p, q, w, e
<1>5. i \in DOMAIN p /\ j \in DOMAIN p
    BY DEF p
<1>6. p[i] \in Nat /\ p[j] \in Nat
    BY <1>1, <1>5
<1>7. p[i] <= e + w
    <2>1. p[i] = e \/ \E m \in DOMAIN q : p[i] = q[m] /\ q[m] <= e + w
        BY <1>1, <1>5, Zenon
    <2>2. e <= e + w
        BY <1>2, <1>3
    <2>3. QED
        BY <2>1, <2>2
<1>8. p[i] <= p[j] + w
    <2>1. CASE p[j] = e
        BY <1>7, <2>1
    <2>2. CASE p[i] = e
        BY <1>2, <1>3, <1>6, <2>2
    <2>3. CASE p[i] # e /\ p[j] # e
        <3>1. PICK m \in DOMAIN q : p[i] = q[m]
            BY <1>1, <1>5, <2>3
        <3>2. PICK n \in DOMAIN q : p[j] = q[n]
            BY <1>1, <1>5, <2>3
        <3>3. QED
            BY <1>4, <3>1, <3>2
    <2>4. QED
        BY <2>1, <2>2, <2>3
<1>9. QED
    BY <1>8 DEF p, w

LEMMA DetectInWindow ==
    ASSUME SettledRules, PromptReceipts, TypeOK, Close, NEW r \in DOMAIN Config[active],
           NEW x \in Receipt, x.age <= workload.maxLag, NEW v \in Versions, r \in DOMAIN Config[v]
    PROVE  DetectEffect(r, x).span <= Config[v][r].window
<1> DEFINE k == Key(Config[active][r], x)
           p == Kept(r, x, k)
           w == Config[active][r].window
<1>1. k \in Groups
    BY KeyType
<1>2. p \in Seq(Nat) /\ p # << >>
    BY <1>1, KeptFacts
<1>3. w \in Nat /\ w = Config[v][r].window
    BY ThresholdFacts DEF SettledRules, TypeOK
<1>4. \A i, j \in DOMAIN p : p[i] <= p[j] + w
    BY <1>1, KeptClose
<1>5. DetectEffect(r, x).span = SpanOf(p)
    BY DetectEffectFacts
<1> HIDE DEF p, w
<1>6. PICK i, j \in DOMAIN p : SpanOf(p) = p[i] - p[j]
    BY <1>2, SpanFacts
<1>7. p[i] \in Nat /\ p[j] \in Nat /\ p[i] <= p[j] + w
    BY <1>2, <1>4
<1>8. p[i] - p[j] <= w
    BY <1>3, <1>7
<1>9. QED
    BY <1>3, <1>5, <1>6, <1>8

\* Steps of the tasks, the handlers and the calls.
LEMMA TasksTimely ==
    ASSUME TypeOK, OwnKinds, Timely, NEW t \in Tasks,
           AppendReceipt(t) \/ AppendFails(t) \/ Publish(t)
    PROVE  Timely'
<1>0. /\ chan \in Seq(Receipt) /\ log \in Seq(Receipt)
      /\ todo \in [Tasks -> Seq(Receipt)] /\ landed \in [Tasks -> Seq(Receipt)]
    BY DEF TypeOK
<1>1. workload' = workload /\ active' = active /\ counters' = counters
    BY DEF AppendReceipt, AppendFails, Publish, runVars
<1>2. Close'
    BY <1>1 DEF Timely, Close
<1>3. \A q : Prompt(q)' <=> (\A i \in DOMAIN q' : q'[i].age <= workload.maxLag)
    BY <1>1 DEF Prompt
<1>4. /\ Prompt(chan) /\ \A u \in Tasks : Prompt(todo[u]) /\ Prompt(landed[u])
      /\ InWindow(log) /\ InWindow(todo["forwarder"])
    BY DEF Timely
<1> SUFFICES /\ Prompt(chan') /\ \A u \in Tasks : Prompt(todo'[u]) /\ Prompt(landed'[u])
             /\ InWindow(log') /\ InWindow(todo'["forwarder"])
    BY <1>1, <1>2 DEF Timely, Prompt, InWindow
<1>5. CASE AppendReceipt(t) \/ AppendFails(t)
    <2> DEFINE x == Head(todo[t])
    <2>1. /\ todo[t] # << >> /\ todo' = [todo EXCEPT ![t] = Tail(todo[t])] /\ chan' = chan
          /\ landed' = [landed EXCEPT ![t] = <<x>>] \/ landed' = landed
          /\ log' = log \/ (log' = Append(log, x) /\ x.kind \in Stages)
        BY <1>5 DEF AppendReceipt, AppendFails
    <2>2. x \in Receipt /\ Allowed(t, x)
        BY <2>1, HeadFacts, TaskOwn
    <2>3. Prompt(Tail(todo[t])) /\ x.age <= workload.maxLag
        BY <1>0, <1>4, <2>1, PromptTail
    <2>4. Prompt(<<x>>)
        BY <1>0, <1>4, <2>2, <2>3, PromptAppend
    <2>5. \A u \in Tasks : Prompt(todo'[u]) /\ Prompt(landed'[u])
        <3> HIDE DEF x
        <3>1. QED
            BY <1>0, <1>4, <2>1, <2>3, <2>4
    <2>6. InWindow(todo'["forwarder"])
        <3>1. CASE t = "forwarder"
            BY <1>0, <1>4, <2>1, <3>1, InWindowTail
        <3>2. CASE t # "forwarder"
            BY <1>0, <1>4, <2>1, <3>2, TaskNames
        <3>3. QED
            BY <3>1, <3>2
    <2>7. InWindow(<<x>>)
        <3>1. CASE t = "forwarder"
            BY <1>0, <1>4, <2>1, <3>1, InWindowTail
        <3>2. CASE t # "forwarder"
            <4>1. t = "scheduler" \/ t \in Observed \/ t \in Activations
                BY <3>2 DEF Tasks
            <4>2. x.kind # "detect"
                BY <2>2, <4>1 DEF Allowed, LadderKinds
            <4>3. QED
                BY <4>2, NoDetectInWindow
        <3>3. QED
            BY <3>1, <3>2
    <2>8. InWindow(log')
        BY <1>0, <1>4, <2>1, <2>2, <2>7, InWindowAppend
    <2>9. QED
        BY <1>4, <2>1, <2>5, <2>6, <2>8
<1>6. CASE Publish(t)
    <2> DEFINE x == landed[t][1]
    <2>1. /\ landed[t] # << >> /\ landed' = [landed EXCEPT ![t] = << >>]
          /\ todo' = todo /\ log' = log
          /\ chan' = chan \/ chan' = Append(chan, x)
        BY <1>6 DEF Publish
    <2>2. x \in Receipt /\ landed[t] = <<x>>
        BY <2>1, LandedFacts
    <2>3. x.age <= workload.maxLag
        <3>1. 1 \in DOMAIN landed[t]
            BY <2>2
        <3>2. QED
            BY <1>4, <3>1 DEF Prompt
    <2>4. Prompt(chan')
        BY <1>0, <1>4, <2>1, <2>2, <2>3, PromptAppend
    <2>5. Prompt(<< >>)
        BY DEF Prompt
    <2>6. \A u \in Tasks : Prompt(landed'[u])
        BY <1>0, <1>4, <2>1, <2>5
    <2>7. QED
        BY <1>4, <2>1, <2>4, <2>6
<1>7. QED
    BY <1>5, <1>6

\* A task gets new receipts, of no detect unless it is the forwarder.
LEMMA NewTimely ==
    ASSUME TypeOK, Timely, workload' = workload, chan' = chan \/ (chan # << >> /\ chan' = Tail(chan)),
           landed' = landed, log' = log, Close', NEW t \in Tasks, NEW fx,
           todo' = [todo EXCEPT ![t] = fx], \A i \in DOMAIN fx : fx[i].age = 0,
           t = "forwarder" => InWindow(fx)
    PROVE  Timely'
<1>1. /\ chan \in Seq(Receipt) /\ todo \in [Tasks -> Seq(Receipt)]
    BY DEF TypeOK
<1>2. /\ Prompt(chan) /\ \A u \in Tasks : Prompt(todo[u]) /\ Prompt(landed[u])
      /\ InWindow(log) /\ InWindow(todo["forwarder"])
    BY DEF Timely
<1>3. Prompt(fx)
    BY PromptNew
<1>4. Prompt(chan')
    BY <1>1, <1>2, PromptTail
<1>5. \A u \in Tasks : Prompt(todo'[u])
    BY <1>1, <1>2, <1>3
<1>6. InWindow(todo'["forwarder"])
    BY <1>1, <1>2, TaskNames
<1>7. QED
    BY <1>2, <1>4, <1>5, <1>6 DEF Timely, Prompt, InWindow

LEMMA ObserveTimely ==
    ASSUME TypeOK, Timely, NEW d \in Observed, Observe(d)
    PROVE  Timely'
<1>1. /\ workload' = workload /\ chan' = chan /\ landed' = landed /\ log' = log
      /\ active' = active /\ counters' = counters
    BY DEF Observe, runVars
<1>2. Close'
    BY <1>1 DEF Timely, Close
<1> DEFINE x == [kind |-> IF d \in Shadow THEN "shadow" ELSE "deny", agent |-> Subject[d],
                 rule |-> "none", delta |-> 0, span |-> 0, version |-> evaluating, age |-> 0]
<1>3. todo' = [todo EXCEPT ![d] = <<x>>]
    BY DEF Observe
<1>4. x.age = 0
    OBVIOUS
<1> HIDE DEF x
<1>5. \A i \in DOMAIN <<x>> : <<x>>[i].age = 0
    BY <1>4
<1>6. d \in Tasks /\ d # "forwarder"
    BY TaskNames
<1>7. QED
    BY <1>1, <1>2, <1>3, <1>5, <1>6, NewTimely

LEMMA PollTimely ==
    ASSUME TypeOK, Timely, Poll
    PROVE  Timely'
<1>1. /\ workload' = workload /\ chan' = chan /\ landed' = landed /\ log' = log
      /\ active' = active /\ counters' = counters
    BY DEF Poll, runVars
<1>2. Close'
    BY <1>1 DEF Timely, Close
<1>3. PICK due \in Seq(Slot), later \in Seq(Slot), new \in Seq(Slot) :
          todo' = [todo EXCEPT !["scheduler"] = [i \in DOMAIN due |-> StageEffect(due[i])]]
    BY PollFacts, Zenon
<1> DEFINE fx == [i \in DOMAIN due |-> StageEffect(due[i])]
<1>4. \A i \in DOMAIN fx : fx[i].age = 0
    BY DEF StageEffect
<1>5. "scheduler" \in Tasks /\ "scheduler" # "forwarder"
    BY TaskNames
<1>6. todo' = [todo EXCEPT !["scheduler"] = fx]
    BY <1>3
<1> HIDE DEF fx
<1>7. QED
    BY <1>1, <1>2, <1>4, <1>5, <1>6, NewTimely

LEMMA ActivateTimely ==
    ASSUME TypeOK, TypeOK', Timely, NEW a \in Activations, Activating(a)
    PROVE  Timely'
<1>1. workload' = workload /\ chan' = chan /\ landed' = landed /\ log' = log
    BY DEF Activating, ActivateEvaluator, FetchCurrent, BindEngine, taskVars, runVars
<1>2. CASE ActivateEvaluator(a) \/ FetchCurrent(a)
    BY <1>1, <1>2 DEF ActivateEvaluator, FetchCurrent, taskVars, Timely, Close, Prompt, InWindow
<1>3. CASE BindEngine(a)
    <2>1. counters' = [r \in Rules |-> [g \in Groups |-> << >>]]
        BY <1>3 DEF BindEngine
    <2>2. DOMAIN Config[active'] \subseteq Rules
        BY EnforcementAssumption DEF TypeOK
    <2>3. Close'
        BY <2>1, <2>2 DEF Close
    <2> DEFINE x == [kind |-> "activate", agent |-> Nobody, rule |-> "none", delta |-> 0,
                     span |-> 0, version |-> fetched[a], age |-> 0]
    <2>4. todo' = [todo EXCEPT ![a] = <<x>>]
        BY <1>3 DEF BindEngine
    <2>5. x.age = 0
        OBVIOUS
    <2> HIDE DEF x
    <2>6. \A i \in DOMAIN <<x>> : <<x>>[i].age = 0
        BY <2>5
    <2>7. a \in Tasks /\ a # "forwarder"
        BY TaskNames
    <2>8. QED
        BY <1>1, <2>3, <2>4, <2>6, <2>7, NewTimely
<1>4. QED
    BY <1>2, <1>3 DEF Activating

LEMMA QuietForwardTimely ==
    ASSUME TypeOK, Timely, ForwardSkipped \/ ForwardEnforcement
    PROVE  Timely'
<1>1. /\ chan # << >> /\ chan' = Tail(chan)
      /\ UNCHANGED <<workload, active, counters, log, todo, landed>>
    BY DEF ForwardSkipped, ForwardEnforcement, runVars
<1>2. chan \in Seq(Receipt)
    BY DEF TypeOK
<1>3. Prompt(chan')
    BY <1>1, <1>2, PromptTail DEF Timely
<1>4. QED
    BY <1>1, <1>3 DEF Timely, Close, Prompt, InWindow

LEMMA ForwardTimely ==
    ASSUME SettledRules, PromptReceipts, TypeOK, TypeOK', Timely, ForwardEvaluation
    PROVE  Timely'
<1> DEFINE v == Head(chan)
<1>1. /\ workload' = workload /\ landed' = landed /\ log' = log /\ active' = active
    BY DEF ForwardEvaluation, runVars
<1>2. PICK fx \in Seq(Receipt), new \in Seq(Slot) :
          /\ todo' = [todo EXCEPT !["forwarder"] = fx]
          /\ \A i \in DOMAIN fx : \E r \in LiveFor(v) : Fires(r, v) /\ fx[i] = DetectEffect(r, v)
    BY ForwardFacts, Zenon
<1>3. /\ v \in Receipt /\ chan # << >> /\ chan' = Tail(chan)
      /\ counters' = [r \in Rules |-> IF r \in LiveFor(v)
                                      THEN Counted(r, v, Key(Config[active][r], v))
                                      ELSE counters[r]]
    BY ForwardFacts
<1>4. chan \in Seq(Receipt) /\ Close /\ Prompt(chan)
    BY DEF TypeOK, Timely
<1>5. v.age <= workload.maxLag
    BY <1>3, <1>4, PromptTail
<1> HIDE DEF v
<1>6. LiveFor(v) \subseteq DOMAIN Config[active] /\ DOMAIN Config[active] \subseteq Rules
    BY EnforcementAssumption DEF LiveFor, TypeOK
<1>7. ASSUME NEW i \in DOMAIN fx
      PROVE  /\ fx[i].age = 0
             /\ \A w \in Versions : fx[i].rule \in DOMAIN Config[w]
                                    => fx[i].span <= Config[w][fx[i].rule].window
    <2>1. PICK r \in LiveFor(v) : fx[i] = DetectEffect(r, v)
        BY <1>2
    <2>2. fx[i].age = 0 /\ fx[i].rule = r
        BY <1>3, <1>6, <2>1, DetectEffectFacts
    <2>3. ASSUME NEW w \in Versions, r \in DOMAIN Config[w]
          PROVE  fx[i].span <= Config[w][r].window
        BY <1>3, <1>4, <1>5, <1>6, <2>1, <2>3, DetectInWindow
    <2>4. QED
        BY <2>2, <2>3
<1>8. InWindow(fx)
    BY <1>7 DEF InWindow
<1>9. Close'
    <2> SUFFICES ASSUME NEW r \in DOMAIN Config[active], NEW g \in Groups,
                        NEW i \in DOMAIN counters'[r][g], NEW j \in DOMAIN counters'[r][g]
                 PROVE  counters'[r][g][i] <= counters'[r][g][j] + Config[active][r].window
        BY <1>1 DEF Close
    <2> DEFINE k == Key(Config[active][r], v)
    <2>1. /\ r \notin LiveFor(v) => counters'[r] = counters[r]
          /\ r \in LiveFor(v) =>
                counters'[r][g] = IF g # k THEN counters[r][g]
                                  ELSE IF Fires(r, v) THEN << >> ELSE Kept(r, v, k)
        BY <1>3, <1>6, CountersForwarded, Zenon
    <2>2. CASE counters'[r][g] = counters[r][g]
        BY <1>4, <2>2 DEF Close
    <2>3. CASE counters'[r][g] = Kept(r, v, g)
        <3>1. i \in DOMAIN Kept(r, v, g) /\ j \in DOMAIN Kept(r, v, g)
            BY <2>3
        <3>2. Kept(r, v, g)[i] <= Kept(r, v, g)[j] + Config[active][r].window
            BY <1>3, <1>4, <1>5, <3>1, KeptClose
        <3>3. QED
            BY <2>3, <3>2
    <2>4. CASE counters'[r][g] = << >>
        BY <2>4
    <2>5. QED
        BY <2>1, <2>2, <2>3, <2>4
<1>10. "forwarder" \in Tasks
    BY TaskNames
<1>11. \A i \in DOMAIN fx : fx[i].age = 0
    BY <1>7
<1>12. QED
    BY <1>1, <1>2, <1>3, <1>8, <1>9, <1>10, <1>11, NewTimely

LEMMA TickTimely ==
    ASSUME TypeOK, Timely, Tick
    PROVE  Timely'
<1>1. /\ workload' = workload /\ log' = log /\ active' = active /\ chan' = Older(chan)
      /\ todo' = [t \in Tasks |-> Older(todo[t])] /\ landed' = [t \in Tasks |-> Older(landed[t])]
      /\ InTime(chan) /\ \A t \in Tasks : InTime(todo[t]) /\ InTime(landed[t])
    BY DEF Tick, runVars
<1>2. /\ chan \in Seq(Receipt)
      /\ \A t \in Tasks : todo[t] \in Seq(Receipt) /\ landed[t] \in Seq(Receipt)
    BY DEF TypeOK
<1>3. ASSUME NEW q \in Seq(Receipt), InTime(q) PROVE Prompt(Older(q))
    <2>1. /\ DOMAIN Older(q) = DOMAIN q
          /\ \A i \in DOMAIN q : /\ Older(q)[i] \in Receipt /\ q[i] \in Receipt
                                 /\ Older(q)[i].age <= q[i].age + 1
        BY OlderFacts
    <2>2. SUFFICES ASSUME NEW i \in DOMAIN q PROVE Older(q)[i].age <= workload.maxLag
        BY <2>1 DEF Prompt
    <2> DEFINE m == Older(q)[i].age
               n == q[i].age
    <2>3. m \in Nat /\ n \in Nat /\ m <= n + 1
        BY <2>1, ReceiptFields
    <2>4. n < workload.maxLag /\ workload.maxLag \in Nat
        BY <1>3, WorkloadFacts DEF InTime
    <2> HIDE DEF m, n
    <2>5. m <= workload.maxLag
        BY <2>3, <2>4
    <2>6. QED
        BY <2>5 DEF m
<1>4. Prompt(chan') /\ \A t \in Tasks : Prompt(todo'[t]) /\ Prompt(landed'[t])
    BY <1>1, <1>2, <1>3
<1>5. InWindow(todo'["forwarder"])
    <2> DEFINE q == todo["forwarder"]
    <2>1. q \in Seq(Receipt) /\ todo'["forwarder"] = Older(q) /\ InWindow(q)
        BY <1>1, <1>2, TaskNames DEF Timely
    <2> HIDE DEF q
    <2>2. /\ DOMAIN Older(q) = DOMAIN q
          /\ \A i \in DOMAIN q : /\ Older(q)[i].kind = q[i].kind /\ Older(q)[i].rule = q[i].rule
                                 /\ Older(q)[i].span = q[i].span
        BY <2>1, OlderFacts
    <2>3. InWindow(Older(q))
        BY <2>1, <2>2 DEF InWindow
    <2>4. QED
        BY <2>1, <2>3
<1>6. Close'
    <2> SUFFICES ASSUME NEW r \in DOMAIN Config[active], NEW g \in Groups,
                        NEW i \in DOMAIN counters'[r][g], NEW j \in DOMAIN counters'[r][g]
                 PROVE  counters'[r][g][i] <= counters'[r][g][j] + Config[active][r].window
        BY <1>1 DEF Close
    <2>1. r \in Rules /\ Config[active][r].window \in Nat
        BY ThresholdFacts DEF TypeOK
    <2> DEFINE q == counters[r][g]
               p == counters'[r][g]
               w == Config[active][r].window
               c == workload.maxLag + MaxWindow + 1
    <2>2. q \in Seq(Nat)
        BY <2>1 DEF TypeOK
    <2>3. /\ DOMAIN p = DOMAIN q
          /\ \A m \in DOMAIN q : p[m] = IF q[m] + 1 <= c THEN q[m] + 1 ELSE c
        BY <2>1, TickFacts
    <2>4. \A m, n \in DOMAIN q : q[m] <= q[n] + w
        BY DEF Timely, Close
    <2>5. c \in Nat
        BY EnforcementAssumption, WorkloadFacts
    <2> HIDE DEF p, q, w, c
    <2>6. i \in DOMAIN q /\ j \in DOMAIN q /\ w \in Nat
        BY <2>1, <2>3 DEF p, w
    <2>7. q[i] \in Nat /\ q[j] \in Nat /\ q[i] <= q[j] + w
        BY <2>2, <2>4, <2>6
    <2>8. /\ p[i] = IF q[i] + 1 <= c THEN q[i] + 1 ELSE c
          /\ p[j] = IF q[j] + 1 <= c THEN q[j] + 1 ELSE c
        BY <2>3, <2>6
    <2>9. p[i] <= p[j] + w
        BY <2>5, <2>6, <2>7, <2>8
    <2>10. QED
        BY <2>9 DEF p, w
<1>7. QED
    BY <1>1, <1>4, <1>5, <1>6 DEF Timely, Prompt, InWindow

LEMMA NextTimely ==
    ASSUME SettledRules, PromptReceipts
    PROVE  TypeOK /\ OwnKinds /\ Timely /\ [Next]_vars => Timely'
<1> SUFFICES ASSUME TypeOK, OwnKinds, Timely, [Next]_vars PROVE Timely'
    OBVIOUS
<1>1. TypeOK'
    BY NextTypes
<1>2. CASE UNCHANGED vars
    BY <1>2 DEF Timely, Prompt, InWindow, Close, vars, agentVars, taskVars, actVars, runVars
<1>3. ASSUME NEW d \in Observed, Observe(d) PROVE Timely'
    BY <1>3, ObserveTimely
<1>4. ASSUME NEW t \in Tasks, Emitting(t) \/ AppendFails(t) PROVE Timely'
    BY <1>4, TasksTimely DEF Emitting
<1>5. CASE Forwarding
    BY <1>1, <1>5, QuietForwardTimely, ForwardTimely DEF Forwarding
<1>6. CASE Poll
    BY <1>6, PollTimely
<1>7. CASE Tick
    BY <1>7, TickTimely
<1>8. ASSUME NEW a \in Activations, Activating(a) PROVE Timely'
    BY <1>1, <1>8, ActivateTimely
<1>9. QED
    BY <1>2, <1>3, <1>4, <1>5, <1>6, <1>7, <1>8 DEF Next
-----------------------------------------------------------------------------
(* The theorems.                                                           *)

(***************************************************************************)
(* The state of the engine and its tasks keeps its shape: reputation stays *)
(* in its scale, a counter below the threshold of its rule, the channel    *)
(* within its capacity, and a task has at most one receipt to publish.     *)
(***************************************************************************)
THEOREM EnforcementTypeCorrect == Spec => []TypeOK
BY InitTypes, NextTypes, PTL DEF Spec

(***************************************************************************)
(* If no view of a stage receipt ever finds the channel full, then once    *)
(* the engine has seen everything an agent is quarantined exactly when the *)
(* log says so, whatever else is dropped, fails, is amended or is late     *)
(* (on_receipt, PublishingReceiptStore::append).                           *)
(***************************************************************************)
THEOREM QuarantineFollows ==
    Spec /\ [][~StageViewDropped]_vars => []QuarantineFollowsLog
<1> DEFINE I == TypeOK /\ OwnKinds /\ Followed
<1>1. Init => I
    BY InitTypes, InitOwn, InitFollowed
<1>2. I /\ [Next]_vars /\ [~StageViewDropped]_vars => I'
    <2> SUFFICES ASSUME I, [Next]_vars, [~StageViewDropped]_vars PROVE I'
        OBVIOUS
    <2>1. ~StageViewDropped
        BY DEF StageViewDropped, vars, taskVars
    <2>2. QED
        BY <2>1, NextTypes, NextOwn, NextFollowed
<1>3. I => QuarantineFollowsLog
    BY FollowedSays
<1>4. QED
    BY <1>1, <1>2, <1>3, PTL DEF Spec

\* A later stage is logged at most n times more often than the stage before it.
LadderWithin(n) ==
    \A r \in Rules, g \in Groups :
        /\ Count("quarantine", r, g) <= Count("coach", r, g) + n
        /\ Count("evict", r, g) <= Count("quarantine", r, g) + n
        /\ Count("reverse", r, g) <= Count("quarantine", r, g) + n

LEMMA RungsSay ==
    ASSUME TypeOK, Rungs
    PROVE  LadderWithin(faults) /\ (faults = 0 => LadderOrder)
<1>1. ASSUME NEW k \in Upper, NEW r \in Rules, NEW g \in Groups
      PROVE  /\ Count(k, r, g) \in Nat /\ Count(ParentOf(k), r, g) \in Nat /\ faults \in Nat
             /\ Count(k, r, g) <= Count(ParentOf(k), r, g) + faults
    <2> DEFINE a == CountIn(log, Of(k, r, g))
               b == CountIn(todo["scheduler"], Of(k, r, g))
               c == CountIn(log, Of(ParentOf(k), r, g))
    <2>1. a \in Nat /\ b \in Nat /\ c \in Nat /\ faults \in Nat
        BY RungTypes
    <2>2. a + b <= c + faults
        BY DEF Rungs, Rung
    <2>3. Count(k, r, g) = a /\ Count(ParentOf(k), r, g) = c
        BY CountInLog
    <2> HIDE DEF a, b, c
    <2>4. a <= c + faults
        BY <2>1, <2>2
    <2>5. QED
        BY <2>1, <2>3, <2>4
<1>2. /\ Upper = {"quarantine", "evict", "reverse"} /\ ParentOf("quarantine") = "coach"
      /\ ParentOf("evict") = "quarantine" /\ ParentOf("reverse") = "quarantine"
    BY DEF Upper, ParentOf
<1>3. \A r \in Rules, g \in Groups :
        /\ Count("quarantine", r, g) <= Count("coach", r, g) + faults
        /\ Count("evict", r, g) <= Count("quarantine", r, g) + faults
        /\ Count("reverse", r, g) <= Count("quarantine", r, g) + faults
        /\ Count("coach", r, g) \in Nat /\ Count("quarantine", r, g) \in Nat
    BY <1>1, <1>2
<1>4. LadderWithin(faults)
    BY <1>3 DEF LadderWithin
<1>5. faults = 0 => LadderOrder
    BY <1>3 DEF LadderOrder
<1>6. QED
    BY <1>4, <1>5

LEMMA RungsInvariant == Spec => [](TypeOK /\ OwnKinds /\ Rungs)
<1> DEFINE I == TypeOK /\ OwnKinds /\ Rungs
<1>1. Init => I
    BY InitTypes, InitOwn, InitRungs
<1>2. I /\ [Next]_vars => I'
    BY NextTypes, NextOwn, NextRungs
<1>3. QED
    BY <1>1, <1>2, PTL DEF Spec

(***************************************************************************)
(* As long as no append has failed, the stages of every rule and agent are *)
(* logged in the order of the ladder, for any number of overlapping chains *)
(* and amendments (next_stage_schedule).                                   *)
(***************************************************************************)
THEOREM LadderKeepsOrder == Spec => [](faults = 0 => LadderOrder)
<1>1. TypeOK /\ OwnKinds /\ Rungs => (faults = 0 => LadderOrder)
    BY RungsSay
<1>2. QED
    BY <1>1, RungsInvariant, PTL

(***************************************************************************)
(* A failed append costs the ladder no more than that one receipt:         *)
(* emit_effects logs the failure and goes on, so a later stage can be in   *)
(* the log without its predecessor, but no oftener than appends failed.    *)
(***************************************************************************)
THEOREM LadderMissesOnlyFaults == Spec => []LadderWithin(faults)
<1>1. TypeOK /\ OwnKinds /\ Rungs => LadderWithin(faults)
    BY RungsSay
<1>2. QED
    BY <1>1, RungsInvariant, PTL

LEMMA AccountedSays ==
    ASSUME TypeOK, Accounted, Timely
    PROVE  DetectsAccounted
<1> SUFFICES ASSUME NEW v \in Versions, NEW r \in DOMAIN Config[v]
             PROVE  /\ Config[v][r].perPrincipal =>
                          \A g \in Agents :
                              Config[v][r].threshold * Count("detect", r, g)
                                 <= Cardinality({d \in observed \ Shadow : Subject[d] = g})
                    /\ \A i \in DOMAIN log :
                          (log[i].kind = "detect" /\ log[i].rule = r)
                              => log[i].span <= Config[v][r].window
    BY DEF DetectsAccounted
<1>1. ASSUME Config[v][r].perPrincipal, NEW g \in Agents
      PROVE  Config[v][r].threshold * Count("detect", r, g)
                 <= Cardinality({d \in observed \ Shadow : Subject[d] = g})
    <2> DEFINE n == Config[v][r].threshold
               W == Of("detect", r, g)
               l == CountIn(log, W)
               f == CountIn(todo["forwarder"], W)
               a == Len(counters[r][g])
               b == CountIn(chan, Denies(g))
               c == Cardinality(Waiting(g))
               e == Cardinality(Denied(g))
    <2>1. r \in Rules /\ n \in Nat /\ g \in Groups
        BY ThresholdFacts DEF Groups
    <2>2. l \in Nat /\ f \in Nat /\ a \in Nat /\ b \in Nat /\ c \in Nat /\ e \in Nat
        BY <2>1, BalanceTypes
    <2>3. n * (l + f) + a + b + c <= e
        BY <1>1 DEF Accounted, Balance, Spent
    <2>4. Count("detect", r, g) = l /\ Cardinality({d \in observed \ Shadow : Subject[d] = g}) = e
        BY CountInLog DEF Denied
    <2> HIDE DEF n, l, f, a, b, c, e
    <2>5. n * (l + f) = n * l + n * f /\ n * l \in Nat /\ n * f \in Nat
        BY <2>1, <2>2
    <2> DEFINE p == n * l
               q == n * f
    <2>6. p \in Nat /\ q \in Nat /\ p + q + a + b + c <= e
        BY <2>3, <2>5
    <2> HIDE DEF p, q
    <2>7. p <= e
        BY <2>2, <2>6
    <2>8. QED
        BY <2>4, <2>7 DEF n, p
<1>2. ASSUME NEW i \in DOMAIN log, log[i].kind = "detect", log[i].rule = r
      PROVE  log[i].span <= Config[v][r].window
    BY <1>2 DEF Timely, InWindow
<1>3. QED
    BY <1>1, <1>2

(***************************************************************************)
(* Where amendments leave the rules they keep as they were, and receipts   *)
(* are no later than a window: however denies, ticks, amendments, failed   *)
(* appends and dropped views interleave, threshold times the detects about *)
(* an agent never exceeds its denies, and the denies behind a detect lie   *)
(* within the rule's window (check_detect, CounterBucket::prune).          *)
(***************************************************************************)
THEOREM DetectsAreAccounted ==
    ASSUME SettledRules, PromptReceipts
    PROVE  Spec => []DetectsAccounted
<1> DEFINE I == TypeOK /\ OwnKinds /\ Accounted /\ Timely
<1>1. Init => I
    BY InitTypes, InitOwn, InitAccounted, InitTimely
<1>2. I /\ [Next]_vars => I'
    BY NextTypes, NextOwn, NextAccounted, NextTimely
<1>3. I => DetectsAccounted
    BY AccountedSays
<1>4. QED
    BY <1>1, <1>2, <1>3, PTL DEF Spec
-----------------------------------------------------------------------------
(* Replay sessions.                                                        *)

\* A streaming task that has not ended.
Active == {"window", "play", "poll", "emit", "send"}

Ids(q) == {q[i].id : i \in DOMAIN q}

IsSeq(q) == \E X : q \in Seq(X)

Fields == {"pc", "session", "todo", "effects", "preds", "emitted", "replayed"}

IsRun(x) == DOMAIN x = Fields

Types ==
    /\ live \subseteq Sessions
    /\ rows = [s \in DOMAIN rows |-> rows[s]] /\ DOMAIN rows \subseteq Sessions
    /\ \A s \in DOMAIN rows :
          /\ rows[s] = [window |-> rows[s].window, replayed |-> rows[s].replayed]
          /\ rows[s].replayed \in Nat
    /\ failures \in Nat
    /\ own = [s \in Sessions |-> own[s]] /\ \A s \in Sessions : IsSeq(own[s])
    /\ handle = [s \in Sessions |-> handle[s]]
    /\ last_step_emissions = [s \in Sessions |-> last_step_emissions[s]]
    /\ creating = [s \in Sessions |-> creating[s]]
    /\ run = [r \in Runs |-> run[r]]
    /\ \A r \in Runs : /\ IsRun(run[r]) /\ run[r].replayed \in Nat
                       /\ run[r].pc = "idle" => run[r].replayed = 0
                       /\ run[r].pc \in Active => run[r].session \in Sessions

\* Until a session is put into the map, no stream has touched it.
Untouched ==
    \A s \in Sessions : creating[s] \in {"idle", "open", "build"} =>
        /\ s \notin live /\ last_step_emissions[s] = {}
        /\ \A r \in Runs : run[r].session = s => run[r].pc \notin Active /\ run[r].replayed = 0

\* Postgres keeps no receipt without its row.
Cascaded ==
    backend = "postgres" => \A s \in Sessions : s \notin DOMAIN rows => own[s] = << >>

\* What is in a session's store was emitted there, and points back into it.
LinkedIn(q, s) ==
    \A i \in DOMAIN q : /\ q[i].session = s
                        /\ \A p \in q[i].preds : \E j \in 1 .. i - 1 : q[j].id = p

Linked == \A s \in Sessions : LinkedIn(own[s], s)

\* A session writes to its store, and the store is there to be written to.
Writes(s) == handle[s] = "own" /\ (backend = "postgres" => s \in DOMAIN rows)

\* The chain heads in memory are in the store before anything is linked to them.
HeadsStored ==
    \A s \in Sessions : Writes(s) =>
        /\ last_step_emissions[s] \subseteq Ids(own[s])
        /\ \A r \in Runs : (run[r].session = s /\ run[r].pc \in Active) =>
               run[r].preds \subseteq Ids(own[s]) /\ run[r].emitted \subseteq Ids(own[s])

IInv == Types /\ Untouched /\ Cascaded /\ Linked /\ HeadsStored /\ CountsAgree
-----------------------------------------------------------------------------
(* What the streams have reported.                                         *)

LEMMA ReportedPairs ==
    ASSUME NEW s
    PROVE  /\ \A p : p \in Reported(s) <=>
                  \E r \in Runs : /\ run[r].session = s
                                  /\ \E n \in 1 .. run[r].replayed : p = <<r, n>>
           /\ (\A p : p \in Reported(s) <=>
                  \E r \in Runs : /\ run[r].session = s
                                  /\ \E n \in 1 .. run[r].replayed : p = <<r, n>>)'
BY DEF Reported

LEMMA ReportedFinite ==
    ASSUME Types, NEW s
    PROVE  IsFiniteSet(Reported(s)) /\ Cardinality(Reported(s)) \in Nat
<1> DEFINE mine == {q \in Runs : run[q].session = s}
           parts == {{r} \X (1 .. run[r].replayed) : r \in mine}
<1>1. IsFiniteSet(mine)
    BY FS_Subset, ReplaySessionAssumption
<1>2. IsFiniteSet(parts)
    <2> DEFINE f == [r \in mine |-> {r} \X (1 .. run[r].replayed)]
    <2>1. f \in Surjection(mine, parts)
        BY DEF Surjection
    <2> HIDE DEF f, parts, mine
    <2>2. QED
        BY <1>1, <2>1, FS_Surjection
<1>3. ASSUME NEW r \in mine PROVE IsFiniteSet({r} \X (1 .. run[r].replayed))
    <2>1. run[r].replayed \in Nat
        BY DEF Types
    <2>2. IsFiniteSet(1 .. run[r].replayed)
        BY <2>1, FS_Interval
    <2>3. IsFiniteSet({r})
        BY FS_Singleton
    <2>4. QED
        BY <2>2, <2>3, FS_Product
<1>4. IsFiniteSet(UNION parts)
    BY <1>2, <1>3, FS_UNION
<1>5. QED
    BY <1>4, FS_CardinalityType DEF Reported

\* Nothing changes what was reported to a session as long as no run of it
\* reports and none with a report changes its session.
LEMMA ReportedStays ==
    ASSUME Types, NEW s, NEW r \in Runs, NEW x, run' = [run EXCEPT ![r] = x],
           x.replayed = run[r].replayed,
           x.session = run[r].session \/ run[r].replayed = 0
    PROVE  Reported(s)' = Reported(s)
<1>1. ASSUME NEW q \in Runs PROVE
        /\ run'[q].replayed = run[q].replayed /\ run[q].replayed \in Nat
        /\ run'[q].session = run[q].session \/ run[q].replayed = 0
    BY DEF Types
<1>2. ASSUME NEW p PROVE p \in Reported(s) <=> p \in Reported(s)'
    BY <1>1, ReportedPairs
<1>3. QED
    BY <1>2
\* A step is charged for at most one failed call.
Charged == failures' \in {failures, failures + 1}

LEMMA CountsKept ==
    ASSUME Types, CountsAgree, Charged,
           \A t \in DOMAIN rows' : /\ t \in DOMAIN rows /\ rows'[t] = rows[t]
                                   /\ Reported(t)' = Reported(t)
    PROVE  CountsAgree'
<1> SUFFICES ASSUME NEW t \in DOMAIN rows'
             PROVE  /\ rows'[t].replayed <= Cardinality(Reported(t)')
                    /\ Cardinality(Reported(t)') <= rows'[t].replayed + failures'
    BY DEF CountsAgree
<1>1. /\ rows[t].replayed <= Cardinality(Reported(t))
      /\ Cardinality(Reported(t)) <= rows[t].replayed + failures
    BY DEF CountsAgree
<1>2. /\ rows[t].replayed \in Nat /\ failures \in Nat
      /\ Cardinality(Reported(t)) \in Nat
    BY ReportedFinite DEF Types
<1>3. rows'[t].replayed = rows[t].replayed /\ Cardinality(Reported(t)') = Cardinality(Reported(t))
    OBVIOUS
<1>4. failures' = failures \/ failures' = failures + 1
    BY DEF Charged
<1>5. QED
    BY <1>1, <1>2, <1>3, <1>4
-----------------------------------------------------------------------------
(* The initial states.                                                     *)

LEMMA InitIInv == SessionInit => IInv
<1> SUFFICES ASSUME SessionInit PROVE IInv
    OBVIOUS
<1> USE DEF SessionInit
<1>1. Types
    <2>1. \A s \in Sessions : IsSeq(own[s])
        <3>1. << >> \in Seq({})
            OBVIOUS
        <3>2. QED
            BY <3>1 DEF IsSeq
    <2>2. \A r \in Runs : run[r] = IdleRun
        OBVIOUS
    <2>3. IsRun(IdleRun) /\ IdleRun.replayed \in Nat /\ IdleRun.replayed = 0 /\ IdleRun.pc \notin Active
        BY DEF IdleRun, IsRun, Fields, Active
    <2>4. DOMAIN rows = {} /\ rows = [s \in DOMAIN rows |-> rows[s]]
        OBVIOUS
    <2>5. QED
        BY <2>1, <2>2, <2>3, <2>4 DEF Types
<1>2. Untouched
    BY DEF Untouched, IdleRun, Active
<1>3. Cascaded /\ Linked
    BY DEF Cascaded, Linked, LinkedIn
<1>4. HeadsStored
    BY DEF HeadsStored, IdleRun, Active
<1>5. CountsAgree
    BY DEF CountsAgree
<1>6. QED
    BY <1>1, <1>2, <1>3, <1>4, <1>5 DEF IInv
-----------------------------------------------------------------------------
(* Steps of a call that leave the stores and the session alone.            *)

Fresh == {"idle", "open", "build"}

LEMMA CallSteps ==
    ASSUME IInv, NEW r \in Runs, NEW x, IsRun(x), run' = [run EXCEPT ![r] = x],
           x.replayed = run[r].replayed,
           x.session = run[r].session \/ run[r].replayed = 0,
           x.pc # "idle",
           x.pc \in Active => /\ x.session \in Sessions /\ creating[x.session] \notin Fresh
                              /\ Writes(x.session) => /\ x.preds \subseteq Ids(own[x.session])
                                                      /\ x.emitted \subseteq Ids(own[x.session]),
           Charged /\ UNCHANGED <<backend, rows, own, handle, live, last_step_emissions, creating>>
    PROVE  IInv'
<1>0. Types /\ Untouched /\ Cascaded /\ Linked /\ HeadsStored /\ CountsAgree
    BY DEF IInv
<1>1. run' = [q \in Runs |-> IF q = r THEN x ELSE run[q]]
    BY <1>0 DEF Types
<1>2. Types'
    <2>1. failures' \in Nat
        BY <1>0 DEF Types, Charged
    <2>2. QED
        BY <1>0, <1>1, <2>1 DEF Types, IsRun, IsSeq
<1>3. Untouched'
    <2> SUFFICES ASSUME NEW s \in Sessions, creating[s] \in Fresh
                 PROVE  /\ s \notin live /\ last_step_emissions[s] = {}
                        /\ \A q \in Runs : run'[q].session = s =>
                               run'[q].pc \notin Active /\ run'[q].replayed = 0
        BY DEF Untouched, Fresh
    <2>1. /\ s \notin live /\ last_step_emissions[s] = {}
          /\ \A q \in Runs : run[q].session = s =>
                 run[q].pc \notin Active /\ run[q].replayed = 0
        BY <1>0 DEF Untouched, Fresh
    <2>2. QED
        BY <2>1, <1>1
<1>4. Cascaded' /\ Linked'
    BY <1>0 DEF Cascaded, Linked, LinkedIn
<1>5. HeadsStored'
    BY <1>0, <1>1 DEF HeadsStored, Writes, Ids
<1>6. CountsAgree'
    BY <1>0, ReportedStays, CountsKept
<1>7. QED
    BY <1>2, <1>3, <1>4, <1>5, <1>6 DEF IInv
-----------------------------------------------------------------------------
(* RunSession and the task it spawns.                                      *)

LEMMA OverIsRun ==
    ASSUME NEW r, NEW pc
    PROVE  /\ IsRun(Over(r, pc))
           /\ Over(r, pc).pc = pc /\ Over(r, pc).session = run[r].session
           /\ Over(r, pc).replayed = run[r].replayed
BY DEF Over, IdleRun, IsRun, Fields

\* An active run has its own fields, and a session that has been put into the map.
LEMMA ActiveRun ==
    ASSUME IInv, NEW r \in Runs, run[r].pc \in Active
    PROVE  /\ run[r].session \in Sessions /\ creating[run[r].session] \notin Fresh
           /\ IsRun(run[r])
           /\ Writes(run[r].session) =>
                 /\ run[r].preds \subseteq Ids(own[run[r].session])
                 /\ run[r].emitted \subseteq Ids(own[run[r].session])
                 /\ last_step_emissions[run[r].session] \subseteq Ids(own[run[r].session])
BY DEF IInv, Types, Untouched, HeadsStored, Fresh

LEMMA RunBeginIInv ==
    ASSUME IInv, NEW r \in Runs, NEW s, RunBegin(r, s)
    PROVE  IInv'
<1> DEFINE x == [IdleRun EXCEPT !.pc = IF s \in live THEN "window" ELSE "not_found", !.session = s]
<1>1. run[r].pc = "idle" /\ run' = [run EXCEPT ![r] = x]
    BY DEF RunBegin, Step
<1>2. /\ IsRun(x) /\ x.replayed = 0 /\ x.session = s /\ x.preds = {} /\ x.emitted = {}
      /\ x.pc = IF s \in live THEN "window" ELSE "not_found"
    BY DEF IsRun, Fields, IdleRun
<1>3. run[r].replayed = 0
    BY <1>1 DEF IInv, Types
<1>4. s \in live => s \in Sessions /\ creating[s] \notin Fresh
    BY DEF IInv, Types, Untouched, Fresh
<1>5. x.pc # "idle" /\ (x.pc \in Active => s \in live)
    BY <1>2 DEF Active
<1>6. Charged /\ UNCHANGED <<backend, rows, own, handle, live, last_step_emissions, creating>>
    BY DEF RunBegin, storeVars, sessVars, Charged
<1> HIDE DEF x
<1>7. QED
    BY <1>1, <1>2, <1>3, <1>4, <1>5, <1>6, CallSteps

LEMMA ReadWindowIInv ==
    ASSUME IInv, NEW r \in Runs, ReadWindow(r)
    PROVE  IInv'
<1>1. /\ run[r].pc = "window"
      /\ Charged /\ UNCHANGED <<backend, rows, own, handle, live, last_step_emissions, creating>>
    BY DEF ReadWindow, Step, storeVars, sessVars, Charged
<1>2. run[r].pc \in Active
    BY <1>1 DEF Active
<1>3. IsRun(run[r])
    BY <1>2, ActiveRun
<1>4. PICK x : /\ run' = [run EXCEPT ![r] = x]
               /\ \/ x = [run[r] EXCEPT !.pc = "not_found"]
                  \/ \E q : x = [run[r] EXCEPT !.pc = "play", !.todo = q]
    BY DEF ReadWindow, Step
<1>5. /\ IsRun(x) /\ x.pc # "idle" /\ x.session = run[r].session
      /\ x.replayed = run[r].replayed
      /\ x.preds = run[r].preds /\ x.emitted = run[r].emitted
    BY <1>3, <1>4 DEF IsRun, Fields
<1>6. QED
    BY <1>1, <1>2, <1>4, <1>5, ActiveRun, CallSteps

LEMMA FeedOriginalIInv ==
    ASSUME IInv, NEW r \in Runs, FeedOriginal(r)
    PROVE  IInv'
<1>1. PICK effects : /\ run[r].pc = "play"
                     /\ run' = [run EXCEPT ![r] = [run[r] EXCEPT !.pc = "poll", !.effects = effects,
                                                                 !.emitted = {}]]
    BY DEF FeedOriginal, Step
<1> DEFINE x == [run[r] EXCEPT !.pc = "poll", !.effects = effects, !.emitted = {}]
<1>2. Charged /\ UNCHANGED <<backend, rows, own, handle, live, last_step_emissions, creating>>
    BY DEF FeedOriginal, storeVars, Charged
<1>3. run[r].pc \in Active
    BY <1>1 DEF Active
<1>4. IsRun(run[r])
    BY <1>3, ActiveRun
<1>5. /\ IsRun(x) /\ x.pc = "poll" /\ x.session = run[r].session /\ x.replayed = run[r].replayed
      /\ x.preds = run[r].preds /\ x.emitted = {}
    BY <1>4 DEF IsRun, Fields
<1>6. run' = [run EXCEPT ![r] = x]
    BY <1>1
<1> HIDE DEF x
<1>7. QED
    BY <1>2, <1>3, <1>5, <1>6, ActiveRun, CallSteps

\* The chain head a step links to is the one in the store.
LEMMA PollAndLinkIInv ==
    ASSUME IInv, NEW r \in Runs, PollAndLink(r)
    PROVE  IInv'
<1>1. PICK effects : /\ run[r].pc = "poll"
                     /\ run' = [run EXCEPT ![r] = [run[r] EXCEPT !.pc = "emit", !.effects = effects,
                                                     !.preds = last_step_emissions[run[r].session]]]
    <2>1. PICK o : run[r].pc = "poll" /\
                   run' = [run EXCEPT ![r] = [run[r] EXCEPT !.pc = "emit", !.effects = @ \o o.effects,
                                                     !.preds = last_step_emissions[run[r].session]]]
        BY DEF PollAndLink, Step
    <2>2. QED
        BY <2>1
<1> DEFINE x == [run[r] EXCEPT !.pc = "emit", !.effects = effects,
                               !.preds = last_step_emissions[run[r].session]]
<1>2. Charged /\ UNCHANGED <<backend, rows, own, handle, live, last_step_emissions, creating>>
    BY DEF PollAndLink, storeVars, Charged
<1>3. run[r].pc \in Active
    BY <1>1 DEF Active
<1>4. IsRun(run[r])
    BY <1>3, ActiveRun
<1>5. /\ IsRun(x) /\ x.pc = "emit" /\ x.session = run[r].session /\ x.replayed = run[r].replayed
      /\ x.preds = last_step_emissions[run[r].session] /\ x.emitted = run[r].emitted
    BY <1>4 DEF IsRun, Fields
<1>6. run' = [run EXCEPT ![r] = x]
    BY <1>1
<1> HIDE DEF x
<1>7. QED
    BY <1>2, <1>3, <1>5, <1>6, ActiveRun, CallSteps

\* A task that ends, or goes on with the next receipt of its window.
LEMMA EndIInv ==
    ASSUME IInv, NEW r \in Runs, NEW pc \in {"failed", "cancelled", "complete"},
           run[r].pc \in Active, run' = [run EXCEPT ![r] = Over(r, pc)],
           Charged /\ UNCHANGED <<backend, rows, own, handle, live, last_step_emissions, creating>>
    PROVE  IInv'
<1>1. pc \notin Active /\ pc # "idle"
    BY DEF Active
<1>2. QED
    BY <1>1, OverIsRun, CallSteps

LEMMA EmissionFailsIInv ==
    ASSUME IInv, NEW r \in Runs, EmissionFails(r)
    PROVE  IInv'
<1>1. /\ run[r].pc = "emit" /\ run' = [run EXCEPT ![r] = Over(r, "failed")]
      /\ Charged /\ UNCHANGED <<backend, rows, own, handle, live, last_step_emissions, creating>>
    BY DEF EmissionFails, Step, storeVars, sessVars, Charged
<1>2. QED
    BY <1>1, EndIInv DEF Active

LEMMA ReadWindowFailsIInv ==
    ASSUME IInv, NEW r \in Runs, ReadWindowFails(r)
    PROVE  IInv'
<1>1. /\ run[r].pc = "window" /\ run' = [run EXCEPT ![r] = Over(r, "failed")]
      /\ Charged /\ UNCHANGED <<backend, rows, own, handle, live, last_step_emissions, creating>>
    BY DEF ReadWindowFails, Step, storeVars, sessVars, Charged
<1>2. QED
    BY <1>1, EndIInv DEF Active

LEMMA SendProgressIInv ==
    ASSUME IInv, NEW r \in Runs, SendProgress(r)
    PROVE  IInv'
<1>1. /\ run[r].pc = "send"
      /\ Charged /\ UNCHANGED <<backend, rows, own, handle, live, last_step_emissions, creating>>
    BY DEF SendProgress, Step, storeVars, sessVars, Charged
<1>2. CASE run' = [run EXCEPT ![r] = Over(r, "cancelled")]
    BY <1>1, <1>2, EndIInv DEF Active
<1>3. CASE run' = [run EXCEPT ![r] = [run[r] EXCEPT !.pc = "play"]]
    <2> DEFINE x == [run[r] EXCEPT !.pc = "play"]
    <2>1. run[r].pc \in Active
        BY <1>1 DEF Active
    <2>2. IsRun(run[r])
        BY <2>1, ActiveRun
    <2>3. /\ IsRun(x) /\ x.pc = "play" /\ x.session = run[r].session
          /\ x.replayed = run[r].replayed
          /\ x.preds = run[r].preds /\ x.emitted = run[r].emitted
        BY <2>2 DEF IsRun, Fields
    <2> HIDE DEF x
    <2>4. QED
        BY <1>1, <1>3, <2>1, <2>3, ActiveRun, CallSteps DEF x
<1>4. QED
    BY <1>2, <1>3 DEF SendProgress, Step

\* touch_session(.., 0) leaves the row as it is.
LEMMA CompleteIInv ==
    ASSUME IInv, NEW r \in Runs, Complete(r)
    PROVE  IInv'
<1>1. /\ run[r].pc = "play" /\ run' = [run EXCEPT ![r] = Over(r, "complete")]
      /\ Charged /\ UNCHANGED <<backend, own, handle, live, last_step_emissions, creating>>
    BY DEF Complete, Step, sessVars, Charged
<1>2. rows' = rows
    <2> DEFINE s == run[r].session
    <2>1. CASE s \in DOMAIN rows
        <3>1. rows[s].replayed \in Nat
            BY <2>1 DEF IInv, Types
        <3>2. /\ rows = [t \in DOMAIN rows |-> rows[t]]
              /\ rows[s] = [window |-> rows[s].window, replayed |-> rows[s].replayed]
            BY <2>1 DEF IInv, Types
        <3>3. rows' = [rows EXCEPT ![s].replayed = @ + 0]
            BY <2>1 DEF Complete, touch_session
        <3>4. [rows[s] EXCEPT !.replayed = @ + 0] = rows[s]
            BY <3>1, <3>2
        <3>5. QED
            BY <3>2, <3>3, <3>4
    <2>2. CASE s \notin DOMAIN rows
        BY <2>2 DEF Complete, touch_session
    <2>3. QED
        BY <2>1, <2>2
<1>3. QED
    BY <1>1, <1>2, EndIInv DEF Active

\* A receipt goes behind what it is linked to.
LEMMA LinksToTheFront ==
    ASSUME NEW q, IsSeq(q), NEW e, NEW s, e.session = s, e.preds \subseteq Ids(q),
           LinkedIn(q, s)
    PROVE  /\ IsSeq(Append(q, e)) /\ Ids(Append(q, e)) = Ids(q) \union {e.id}
           /\ LinkedIn(Append(q, e), s)
<1> DEFINE a == Append(q, e)
           n == Len(q)
<1>1. PICK X : q \in Seq(X)
    BY DEF IsSeq
<1>2. /\ n \in Nat /\ DOMAIN q = 1 .. n /\ DOMAIN a = 1 .. n + 1
      /\ \A i \in 1 .. n : a[i] = q[i]
      /\ a[n + 1] = e
    BY <1>1
<1>3. IsSeq(a)
    <2>1. a \in Seq(X \union {e})
        BY <1>1
    <2>2. QED
        BY <2>1 DEF IsSeq
<1> HIDE DEF a, n
<1>4. Ids(a) = Ids(q) \union {e.id}
    <2>1. ASSUME NEW i \in DOMAIN a PROVE a[i].id \in Ids(q) \union {e.id}
        BY <1>2 DEF Ids
    <2>2. ASSUME NEW i \in DOMAIN q PROVE q[i].id \in Ids(a)
        BY <1>2 DEF Ids
    <2>3. e.id \in Ids(a)
        <3>1. n + 1 \in DOMAIN a
            BY <1>2
        <3>2. QED
            BY <1>2, <3>1 DEF Ids
    <2>4. QED
        BY <2>1, <2>2, <2>3 DEF Ids
<1>5. ASSUME NEW i \in DOMAIN a
      PROVE  a[i].session = s /\ \A p \in a[i].preds : \E j \in 1 .. i - 1 : a[j].id = p
    <2>1. CASE i \in 1 .. n
        <3>1. a[i] = q[i] /\ i \in DOMAIN q
            BY <1>2, <2>1
        <3>2. ASSUME NEW p \in a[i].preds PROVE \E j \in 1 .. i - 1 : a[j].id = p
            <4>1. PICK j \in 1 .. i - 1 : q[j].id = p
                BY <3>1 DEF LinkedIn
            <4>2. j \in 1 .. n
                BY <1>2, <2>1
            <4>3. QED
                BY <1>2, <4>1, <4>2
        <3>3. QED
            BY <3>1, <3>2 DEF LinkedIn
    <2>2. CASE i = n + 1
        <3>1. ASSUME NEW p \in a[i].preds PROVE \E j \in 1 .. i - 1 : a[j].id = p
            <4>1. p \in Ids(q)
                BY <1>2, <2>2
            <4>2. PICK j \in DOMAIN q : q[j].id = p
                BY <4>1 DEF Ids
            <4>3. QED
                BY <1>2, <2>2, <4>2
        <3>2. QED
            BY <1>2, <2>2, <3>1
    <2>3. QED
        BY <1>2, <2>1, <2>2
<1>6. QED
    BY <1>3, <1>4, <1>5 DEF a, LinkedIn

LEMMA AppendEmissionIInv ==
    ASSUME IInv, NEW r \in Runs, AppendEmission(r)
    PROVE  IInv'
<1> DEFINE s == run[r].session
           e == Emission(r)
           x == [run[r] EXCEPT !.emitted = @ \union {e.id}]
<1>0. Types /\ Untouched /\ Cascaded /\ Linked /\ HeadsStored /\ CountsAgree
    BY DEF IInv
<1>1. /\ run[r].pc = "emit" /\ run' = [run EXCEPT ![r] = x]
      /\ backend = "postgres" => s \in DOMAIN rows
      /\ own' = IF handle[s] = "own" THEN [own EXCEPT ![s] = Append(@, e)] ELSE own
      /\ failures' = failures
      /\ UNCHANGED <<backend, rows, handle, live, last_step_emissions, creating>>
    BY DEF AppendEmission, Step, sessVars
<1>2. run[r].pc \in Active
    BY <1>1 DEF Active
<1>3. IsRun(run[r]) /\ s \in Sessions /\ creating[s] \notin Fresh
    BY <1>2, ActiveRun
<1>4. /\ IsRun(x) /\ x.pc = "emit" /\ x.session = s /\ x.replayed = run[r].replayed
      /\ x.preds = run[r].preds /\ x.emitted = run[r].emitted \union {e.id}
    BY <1>1, <1>3 DEF IsRun, Fields
<1>5. e.session = s /\ e.preds = run[r].preds
    BY DEF Emission
<1> HIDE DEF x, e
<1>6. CASE handle[s] # "own"
    <2>1. own' = own
        BY <1>1, <1>6
    <2>2. ~Writes(x.session)
        BY <1>4, <1>6 DEF Writes
    <2>3. QED
        BY <1>1, <1>3, <1>4, <2>1, <2>2, CallSteps DEF Charged
<1>7. CASE handle[s] = "own"
    <2>1. Writes(s)
        BY <1>1, <1>7 DEF Writes
    <2>2. e.preds \subseteq Ids(own[s]) /\ run[r].emitted \subseteq Ids(own[s])
        BY <1>2, <1>5, <2>1, ActiveRun
    <2>3. own' = [t \in Sessions |-> IF t = s THEN Append(own[s], e) ELSE own[t]]
        BY <1>0, <1>1, <1>3, <1>7 DEF Types
    <2>4. IsSeq(own[s]) /\ LinkedIn(own[s], s)
        BY <1>0, <1>3 DEF Types, Linked
    <2>5. /\ IsSeq(own'[s]) /\ Ids(own'[s]) = Ids(own[s]) \union {e.id}
          /\ LinkedIn(own'[s], s)
        <3>1. own'[s] = Append(own[s], e)
            BY <1>3, <2>3
        <3> HIDE DEF s
        <3>2. QED
            BY <1>5, <2>2, <2>4, <3>1, LinksToTheFront
    <2>6. run' = [q \in Runs |-> IF q = r THEN x ELSE run[q]]
        BY <1>0, <1>1 DEF Types
    <2>7. Types'
        <3>1. /\ own' = [t \in Sessions |-> own'[t]]
              /\ \A t \in Sessions : IsSeq(own'[t])
            BY <1>0, <2>3, <2>5 DEF Types
        <3>2. /\ run' = [q \in Runs |-> run'[q]]
              /\ \A q \in Runs : /\ IsRun(run'[q]) /\ run'[q].replayed \in Nat
                                 /\ run'[q].pc = "idle" => run'[q].replayed = 0
                                 /\ run'[q].pc \in Active => run'[q].session \in Sessions
            BY <1>0, <1>3, <1>4, <2>6 DEF Types
        <3>3. QED
            BY <1>0, <1>1, <3>1, <3>2 DEF Types, IsSeq
    <2>8. Untouched'
        <3> SUFFICES ASSUME NEW t \in Sessions, creating[t] \in Fresh
                     PROVE  /\ t \notin live /\ last_step_emissions[t] = {}
                            /\ \A q \in Runs : run'[q].session = t =>
                                   run'[q].pc \notin Active /\ run'[q].replayed = 0
            BY <1>1 DEF Untouched, Fresh
        <3>1. /\ t \notin live /\ last_step_emissions[t] = {}
              /\ \A q \in Runs : run[q].session = t =>
                     run[q].pc \notin Active /\ run[q].replayed = 0
            BY <1>0 DEF Untouched, Fresh
        <3>2. t # s
            BY <1>3
        <3>3. QED
            BY <1>4, <2>6, <3>1, <3>2
    <2>9. Cascaded'
        BY <1>0, <1>1, <2>3 DEF Cascaded
    <2>10. Linked'
        <3> SUFFICES ASSUME NEW t \in Sessions PROVE LinkedIn(own'[t], t)
            BY DEF Linked, LinkedIn
        <3>1. QED
            BY <1>0, <2>3, <2>5 DEF Linked
    <2>11. HeadsStored'
        <3> SUFFICES ASSUME NEW t \in Sessions, Writes(t)'
                     PROVE  /\ last_step_emissions'[t] \subseteq Ids(own'[t])
                            /\ \A q \in Runs : (run'[q].session = t /\ run'[q].pc \in Active) =>
                                  /\ run'[q].preds \subseteq Ids(own'[t])
                                  /\ run'[q].emitted \subseteq Ids(own'[t])
            BY DEF HeadsStored, Ids
        <3>1. Writes(t)
            BY <1>1 DEF Writes
        <3>2. /\ last_step_emissions[t] \subseteq Ids(own[t])
              /\ \A q \in Runs : (run[q].session = t /\ run[q].pc \in Active) =>
                    run[q].preds \subseteq Ids(own[t]) /\ run[q].emitted \subseteq Ids(own[t])
            BY <1>0, <3>1 DEF HeadsStored
        <3>3. Ids(own[t]) \subseteq Ids(own'[t])
            BY <2>3, <2>5
        <3>4. ASSUME NEW q \in Runs, run'[q].session = t, run'[q].pc \in Active
              PROVE  run'[q].preds \subseteq Ids(own'[t]) /\ run'[q].emitted \subseteq Ids(own'[t])
            <4>1. CASE q = r
                <5>1. run'[q] = x /\ t = s
                    BY <1>4, <2>6, <3>4, <4>1
                <5>2. e.id \in Ids(own'[s]) /\ run[r].preds \subseteq Ids(own'[s])
                      /\ run[r].emitted \subseteq Ids(own'[s])
                    BY <1>5, <2>2, <2>5
                <5>3. QED
                    BY <1>4, <5>1, <5>2
            <4>2. CASE q # r
                <5>1. run'[q] = run[q]
                    BY <2>6, <4>2
                <5>2. QED
                    BY <3>2, <3>3, <3>4, <5>1
            <4>3. QED
                BY <4>1, <4>2
        <3>5. QED
            BY <1>1, <3>2, <3>3, <3>4
    <2>12. CountsAgree'
        BY <1>0, <1>1, <1>4, ReportedStays, CountsKept DEF Charged
    <2>13. QED
        BY <2>7, <2>8, <2>9, <2>10, <2>11, <2>12 DEF IInv
<1>8. QED
    BY <1>6, <1>7

\* One more receipt reported, by the run and by the row.
LEMMA ReportedGrows ==
    ASSUME Types, NEW r \in Runs, NEW x, run' = [run EXCEPT ![r] = x],
           x.replayed = run[r].replayed + 1, x.session = run[r].session, NEW s
    PROVE  IF s = run[r].session
           THEN Cardinality(Reported(s)') = Cardinality(Reported(s)) + 1
           ELSE Reported(s)' = Reported(s)
<1> DEFINE new == <<r, run[r].replayed + 1>>
<1>1. /\ run[r].replayed \in Nat
      /\ \A q \in Runs : run'[q] = IF q = r THEN x ELSE run[q]
    BY DEF Types
<1>2. CASE s = run[r].session
    <2>1. new \notin Reported(s)
        BY <1>1, ReportedPairs
    <2>2. ASSUME NEW p PROVE p \in Reported(s)' <=> p \in Reported(s) \/ p = new
        <3>1. ASSUME NEW q \in Runs PROVE
                (run'[q].session = s /\ \E n \in 1 .. run'[q].replayed : p = <<q, n>>)
                <=> (run[q].session = s /\ \E n \in 1 .. run[q].replayed : p = <<q, n>>)
                    \/ (q = r /\ p = new)
            <4>1. CASE q = r
                BY <1>1, <1>2, <4>1
            <4>2. CASE q # r
                BY <1>1, <4>2
            <4>3. QED
                BY <4>1, <4>2
        <3>2. QED
            BY <3>1, ReportedPairs
    <2>3. Reported(s)' = Reported(s) \union {new}
        BY <2>2
    <2>4. IsFiniteSet(Reported(s))
        BY ReportedFinite
    <2> HIDE DEF new
    <2>5. Cardinality(Reported(s) \union {new}) = Cardinality(Reported(s)) + 1
        BY <2>1, <2>4, FS_AddElement
    <2>6. QED
        BY <1>2, <2>3, <2>5
<1>3. CASE s # run[r].session
    <2>1. ASSUME NEW q \in Runs, run'[q].session = s \/ run[q].session = s
          PROVE  run'[q] = run[q]
        BY <1>1, <1>3, <2>1
    <2>2. ASSUME NEW p PROVE p \in Reported(s)' <=> p \in Reported(s)
        BY <2>1, ReportedPairs
    <2>3. Reported(s)' = Reported(s)
        BY <2>2
    <2>4. QED
        BY <1>3, <2>3
<1>4. QED
    BY <1>2, <1>3

LEMMA FinishReceiptIInv ==
    ASSUME IInv, NEW r \in Runs, FinishReceipt(r)
    PROVE  IInv'
<1> DEFINE s == run[r].session
           x == [run[r] EXCEPT !.pc = "send", !.todo = Tail(@), !.replayed = @ + 1,
                               !.effects = << >>, !.preds = {}, !.emitted = {}]
<1>0. Types /\ Untouched /\ Cascaded /\ Linked /\ HeadsStored /\ CountsAgree
    BY DEF IInv
<1>1. /\ run[r].pc = "emit" /\ run' = [run EXCEPT ![r] = x]
      /\ last_step_emissions' = [last_step_emissions EXCEPT ![s] = run[r].emitted]
      /\ UNCHANGED <<backend, own, handle, live, creating>>
    BY DEF FinishReceipt, Step
<1>t. \/ /\ rows' = IF s \in DOMAIN rows THEN [rows EXCEPT ![s].replayed = @ + 1] ELSE rows
         /\ failures' = failures
      \/ rows' = rows /\ failures' = failures + 1
    BY DEF FinishReceipt, touch_session
<1>2. run[r].pc \in Active
    BY <1>1 DEF Active
<1>3. IsRun(run[r]) /\ s \in Sessions /\ creating[s] \notin Fresh /\ run[r].replayed \in Nat
    BY <1>0, <1>2, ActiveRun DEF Types
<1>4. /\ IsRun(x) /\ x.pc = "send" /\ x.session = s /\ x.replayed = run[r].replayed + 1
      /\ x.preds = {} /\ x.emitted = {}
    BY <1>3 DEF IsRun, Fields
<1> HIDE DEF x
<1>5. run' = [q \in Runs |-> IF q = r THEN x ELSE run[q]]
    BY <1>0, <1>1 DEF Types
<1>6. last_step_emissions' =
         [t \in Sessions |-> IF t = s THEN run[r].emitted ELSE last_step_emissions[t]]
    BY <1>0, <1>1 DEF Types
<1>7. /\ rows' = [t \in DOMAIN rows |-> rows'[t]] /\ DOMAIN rows' = DOMAIN rows
      /\ \A t \in DOMAIN rows :
            /\ rows'[t] = [window |-> rows'[t].window, replayed |-> rows'[t].replayed]
            /\ t # s => rows'[t] = rows[t]
            /\ t = s => \/ rows'[t].replayed = rows[t].replayed + 1 /\ failures' = failures
                        \/ rows'[t].replayed = rows[t].replayed /\ failures' = failures + 1
    <2>1. /\ rows = [t \in DOMAIN rows |-> rows[t]]
          /\ \A t \in DOMAIN rows :
                rows[t] = [window |-> rows[t].window, replayed |-> rows[t].replayed]
        BY <1>0 DEF Types
    <2>2. CASE s \notin DOMAIN rows \/ (rows' = rows /\ failures' = failures + 1)
        BY <1>t, <2>1, <2>2
    <2>3. CASE s \in DOMAIN rows /\ ~(rows' = rows /\ failures' = failures + 1)
        <3>1. rows' = [t \in DOMAIN rows |->
                         IF t = s THEN [rows[s] EXCEPT !.replayed = @ + 1] ELSE rows[t]]
            BY <1>t, <2>1, <2>3
        <3>2. [rows[s] EXCEPT !.replayed = @ + 1] =
                 [window |-> rows[s].window, replayed |-> rows[s].replayed + 1]
            BY <2>1, <2>3
        <3>3. QED
            BY <1>t, <2>1, <2>3, <3>1, <3>2
    <2>4. QED
        BY <2>2, <2>3
<1>8. Types'
    <2>1. /\ run' = [q \in Runs |-> run'[q]]
          /\ \A q \in Runs : /\ IsRun(run'[q]) /\ run'[q].replayed \in Nat
                             /\ run'[q].pc = "idle" => run'[q].replayed = 0
                             /\ run'[q].pc \in Active => run'[q].session \in Sessions
        BY <1>0, <1>3, <1>4, <1>5 DEF Types
    <2>2. /\ rows' = [t \in DOMAIN rows' |-> rows'[t]] /\ DOMAIN rows' \subseteq Sessions
          /\ \A t \in DOMAIN rows' :
                /\ rows'[t] = [window |-> rows'[t].window, replayed |-> rows'[t].replayed]
                /\ rows'[t].replayed \in Nat
        BY <1>0, <1>7 DEF Types
    <2>3. failures' \in Nat
        BY <1>0, <1>t DEF Types
    <2>4. QED
        BY <1>0, <1>1, <1>6, <2>1, <2>2, <2>3 DEF Types, IsSeq
<1>9. Untouched'
    <2> SUFFICES ASSUME NEW t \in Sessions, creating[t] \in Fresh
                 PROVE  /\ t \notin live /\ last_step_emissions'[t] = {}
                        /\ \A q \in Runs : run'[q].session = t =>
                               run'[q].pc \notin Active /\ run'[q].replayed = 0
        BY <1>1 DEF Untouched, Fresh
    <2>1. /\ t \notin live /\ last_step_emissions[t] = {}
          /\ \A q \in Runs : run[q].session = t =>
                 run[q].pc \notin Active /\ run[q].replayed = 0
        BY <1>0 DEF Untouched, Fresh
    <2>2. t # s
        BY <1>3
    <2>3. QED
        BY <1>4, <1>5, <1>6, <2>1, <2>2
<1>10. Cascaded' /\ Linked'
    BY <1>0, <1>1, <1>7 DEF Cascaded, Linked, LinkedIn
<1>11. HeadsStored'
    <2> SUFFICES ASSUME NEW t \in Sessions, Writes(t)'
                 PROVE  /\ last_step_emissions'[t] \subseteq Ids(own[t])
                        /\ \A q \in Runs : (run'[q].session = t /\ run'[q].pc \in Active) =>
                              /\ run'[q].preds \subseteq Ids(own[t])
                              /\ run'[q].emitted \subseteq Ids(own[t])
        BY <1>1 DEF HeadsStored, Ids
    <2>1. Writes(t)
        BY <1>1, <1>7 DEF Writes
    <2>2. /\ last_step_emissions[t] \subseteq Ids(own[t])
          /\ \A q \in Runs : (run[q].session = t /\ run[q].pc \in Active) =>
                run[q].preds \subseteq Ids(own[t]) /\ run[q].emitted \subseteq Ids(own[t])
        BY <1>0, <2>1 DEF HeadsStored
    <2>3. QED
        BY <1>2, <1>4, <1>5, <1>6, <2>2
<1>12. CountsAgree'
    <2> SUFFICES ASSUME NEW t \in DOMAIN rows
                 PROVE  /\ rows'[t].replayed <= Cardinality(Reported(t)')
                        /\ Cardinality(Reported(t)') <= rows'[t].replayed + failures'
        BY <1>7 DEF CountsAgree
    <2>1. /\ rows[t].replayed <= Cardinality(Reported(t))
          /\ Cardinality(Reported(t)) <= rows[t].replayed + failures
          /\ rows[t].replayed \in Nat /\ failures \in Nat /\ Cardinality(Reported(t)) \in Nat
        BY <1>0, ReportedFinite DEF CountsAgree, Types
    <2>2. IF t = s THEN Cardinality(Reported(t)') = Cardinality(Reported(t)) + 1
                   ELSE Reported(t)' = Reported(t)
        BY <1>0, <1>1, <1>4, ReportedGrows
    <2>3. \/ t # s /\ rows'[t] = rows[t] /\ failures' \in {failures, failures + 1}
          \/ t = s /\ rows'[t].replayed = rows[t].replayed + 1 /\ failures' = failures
          \/ t = s /\ rows'[t].replayed = rows[t].replayed /\ failures' = failures + 1
        BY <1>7, <1>t
    <2>4. QED
        BY <2>1, <2>2, <2>3
<1>13. QED
    BY <1>8, <1>9, <1>10, <1>11, <1>12 DEF IInv
-----------------------------------------------------------------------------
(* CreateSession and CloseSession.                                         *)

\* A call that moves on, and at most puts its session into the map.
LEMMA CreatingIInv ==
    ASSUME IInv, NEW s \in Sessions, NEW pc, creating' = [creating EXCEPT ![s] = pc],
           creating[s] \in Fresh \/ pc \notin Fresh,
           \/ live' = live
           \/ live' = live \union {s} /\ pc \notin Fresh,
           Charged, UNCHANGED <<backend, rows, own, handle, last_step_emissions, run>>
    PROVE  IInv'
<1>0. Types /\ Untouched /\ Cascaded /\ Linked /\ HeadsStored /\ CountsAgree
    BY DEF IInv
<1>1. creating' = [t \in Sessions |-> IF t = s THEN pc ELSE creating[t]]
    BY <1>0 DEF Types
<1>2. Types'
    <2>1. live' \subseteq Sessions
        BY <1>0 DEF Types
    <2>2. creating' = [t \in Sessions |-> creating'[t]]
        BY <1>1
    <2>3. QED
        BY <1>0, <2>1, <2>2 DEF Types, IsSeq, Charged
<1>3. Untouched'
    BY <1>0, <1>1 DEF Untouched, Fresh
<1>4. Cascaded' /\ Linked' /\ HeadsStored'
    BY <1>0 DEF Cascaded, Linked, LinkedIn, HeadsStored, Writes, Ids
<1>5. CountsAgree'
    <2>1. \A t : Reported(t)' = Reported(t)
        BY DEF Reported
    <2>2. QED
        BY <1>0, <2>1, CountsKept
<1>6. QED
    BY <1>2, <1>3, <1>4, <1>5 DEF IInv

LEMMA QuietCreateIInv ==
    ASSUME IInv, NEW s \in Sessions,
           BuildFails(s) \/ emit_replay_session_create_receipt(s) \/ Build(s)
    PROVE  IInv'
<1>1. CASE Build(s)
    <2>1. /\ creating[s] = "build" /\ creating' = [creating EXCEPT ![s] = "audit"]
          /\ live' = live \union {s}
          /\ Charged /\ UNCHANGED <<backend, rows, own, handle, last_step_emissions, run>>
        BY <1>1 DEF Build, Creating, storeVars, Charged
    <2>2. QED
        BY <2>1, CreatingIInv DEF Fresh
<1>2. CASE BuildFails(s)
    <2>1. /\ creating' = [creating EXCEPT ![s] = "failed"]
          /\ Charged /\ UNCHANGED <<backend, rows, own, handle, live, last_step_emissions, run>>
        BY <1>2 DEF BuildFails, Creating, storeVars, sessVars, Charged
    <2>2. QED
        BY <2>1, CreatingIInv DEF Fresh
<1>3. CASE emit_replay_session_create_receipt(s)
    <2>1. PICK pc \in {"done", "failed"} : creating' = [creating EXCEPT ![s] = pc]
        BY <1>3 DEF emit_replay_session_create_receipt, Creating
    <2>2. Charged /\ UNCHANGED <<backend, rows, own, handle, live, last_step_emissions, run>>
        BY <1>3 DEF emit_replay_session_create_receipt, storeVars, sessVars, Charged
    <2>3. QED
        BY <2>1, <2>2, CreatingIInv DEF Fresh
<1>4. QED
    BY <1>1, <1>2, <1>3

\* Which store a session writes to is settled before anything is written.
LEMMA OpenStoreIInv ==
    ASSUME IInv, NEW s \in Sessions, OpenStore(s)
    PROVE  IInv'
<1>0. Types /\ Untouched /\ Cascaded /\ Linked /\ HeadsStored /\ CountsAgree
    BY DEF IInv
<1>1. PICK h : handle' = [handle EXCEPT ![s] = h]
    BY DEF OpenStore
<1>2. /\ creating[s] = "open" /\ creating' = [creating EXCEPT ![s] = "build"]
      /\ failures' = failures
      /\ UNCHANGED <<backend, rows, own, live, last_step_emissions, run>>
    BY DEF OpenStore, Creating, storeVars
<1>3. /\ creating' = [t \in Sessions |-> IF t = s THEN "build" ELSE creating[t]]
      /\ handle' = [t \in Sessions |-> IF t = s THEN h ELSE handle[t]]
    BY <1>0, <1>1, <1>2 DEF Types
<1>4. Types'
    <2>1. /\ creating' = [t \in Sessions |-> creating'[t]]
          /\ handle' = [t \in Sessions |-> handle'[t]]
        BY <1>3
    <2>2. QED
        BY <1>0, <1>2, <2>1 DEF Types, IsSeq
<1>5. Untouched'
    BY <1>0, <1>2, <1>3 DEF Untouched
<1>6. Cascaded' /\ Linked'
    BY <1>0, <1>2 DEF Cascaded, Linked, LinkedIn
<1>7. HeadsStored'
    <2>1. /\ last_step_emissions[s] = {}
          /\ \A r \in Runs : run[r].session = s => run[r].pc \notin Active
        BY <1>0, <1>2 DEF Untouched
    <2>2. \A t \in Sessions : t # s => (Writes(t)' <=> Writes(t))
        BY <1>2, <1>3 DEF Writes
    <2>3. QED
        BY <1>0, <1>2, <2>1, <2>2 DEF HeadsStored, Ids
<1>8. CountsAgree'
    <2>1. \A t : Reported(t)' = Reported(t)
        BY <1>2 DEF Reported
    <2>2. QED
        BY <1>0, <1>2, <2>1, CountsKept DEF Charged
<1>9. QED
    BY <1>4, <1>5, <1>6, <1>7, <1>8 DEF IInv

\* A new row starts at nothing, and nobody has reported to it.
LEMMA CreateSessionIInv ==
    ASSUME IInv, NEW s \in Sessions, NEW w, create_session(s, w)
    PROVE  IInv'
<1>0. Types /\ Untouched /\ Cascaded /\ Linked /\ HeadsStored /\ CountsAgree
    BY DEF IInv
<1>1. /\ creating[s] = "idle" /\ creating' = [creating EXCEPT ![s] = "open"]
      /\ rows' = [t \in DOMAIN rows \union {s} |->
                    IF t = s THEN [window |-> w, replayed |-> 0] ELSE rows[t]]
      /\ failures' = failures
      /\ UNCHANGED <<backend, own, handle, live, last_step_emissions, run>>
    BY DEF create_session, Creating
<1>2. creating' = [t \in Sessions |-> IF t = s THEN "open" ELSE creating[t]]
    BY <1>0, <1>1 DEF Types
<1>3. /\ last_step_emissions[s] = {}
      /\ \A r \in Runs : run[r].session = s => run[r].pc \notin Active /\ run[r].replayed = 0
    BY <1>0, <1>1 DEF Untouched
<1>4. Types'
    <2>1. /\ rows' = [t \in DOMAIN rows' |-> rows'[t]] /\ DOMAIN rows' \subseteq Sessions
          /\ \A t \in DOMAIN rows' :
                /\ rows'[t] = [window |-> rows'[t].window, replayed |-> rows'[t].replayed]
                /\ rows'[t].replayed \in Nat
        BY <1>0, <1>1 DEF Types
    <2>2. QED
        BY <1>0, <1>1, <1>2, <2>1 DEF Types, IsSeq
<1>5. Untouched'
    BY <1>0, <1>1, <1>2 DEF Untouched
<1>6. Cascaded' /\ Linked'
    BY <1>0, <1>1 DEF Cascaded, Linked, LinkedIn
<1>7. HeadsStored'
    <2>1. \A t \in Sessions : t # s => (Writes(t)' <=> Writes(t))
        BY <1>1 DEF Writes
    <2>2. QED
        BY <1>0, <1>1, <1>3, <2>1 DEF HeadsStored, Ids
<1>8. CountsAgree'
    <2> SUFFICES ASSUME NEW t \in DOMAIN rows \union {s}
                 PROVE  /\ rows'[t].replayed <= Cardinality(Reported(t)')
                        /\ Cardinality(Reported(t)') <= rows'[t].replayed + failures
        BY <1>1 DEF CountsAgree
    <2>1. Reported(t)' = Reported(t)
        BY <1>1 DEF Reported
    <2>2. CASE t = s
        <3>1. \A p : p \notin Reported(s)
            BY <1>3, ReportedPairs
        <3>2. Reported(s) = {}
            BY <3>1
        <3>3. Cardinality(Reported(t)') = 0 /\ rows'[t].replayed = 0 /\ failures \in Nat
            BY <1>0, <1>1, <2>1, <2>2, <3>2, FS_EmptySet DEF Types
        <3>4. QED
            BY <3>3
    <2>3. CASE t # s
        BY <1>0, <1>1, <2>1, <2>3 DEF CountsAgree
    <2>4. QED
        BY <2>2, <2>3
<1>9. QED
    BY <1>4, <1>5, <1>6, <1>7, <1>8 DEF IInv

\* The row goes with its receipts, and nothing is written there any more.
LEMMA CloseDeleteIInv ==
    ASSUME IInv, NEW c, CloseDelete(c)
    PROVE  IInv'
<1> DEFINE s == closing[c].session
<1>0. Types /\ Untouched /\ Cascaded /\ Linked /\ HeadsStored /\ CountsAgree
    BY DEF IInv
<1>1. /\ live' = live \ {s}
      /\ rows' = [t \in DOMAIN rows \ {s} |-> rows[t]]
      /\ own' = IF backend = "postgres" THEN [own EXCEPT ![s] = << >>] ELSE own
      /\ failures' = failures
      /\ UNCHANGED <<backend, handle, last_step_emissions, creating, run>>
    BY DEF CloseDelete, delete_session
<1> HIDE DEF s
<1>2. own' = [t \in Sessions |-> IF backend = "postgres" /\ t = s THEN << >> ELSE own[t]]
    BY <1>0, <1>1 DEF Types
<1>3. Types'
    <2>1. << >> \in Seq({})
        OBVIOUS
    <2>2. \A t \in Sessions : IsSeq(own'[t])
        BY <1>0, <1>2, <2>1 DEF Types, IsSeq
    <2>3. /\ rows' = [t \in DOMAIN rows' |-> rows'[t]] /\ DOMAIN rows' \subseteq Sessions
          /\ \A t \in DOMAIN rows' :
                /\ rows'[t] = [window |-> rows'[t].window, replayed |-> rows'[t].replayed]
                /\ rows'[t].replayed \in Nat
        BY <1>0, <1>1 DEF Types
    <2>4. QED
        BY <1>0, <1>1, <1>2, <2>2, <2>3 DEF Types, IsSeq
<1>4. Untouched'
    BY <1>0, <1>1 DEF Untouched
<1>5. Cascaded'
    BY <1>0, <1>1, <1>2 DEF Cascaded
<1>6. Linked'
    <2> SUFFICES ASSUME NEW t \in Sessions PROVE LinkedIn(own'[t], t)
        BY DEF Linked, LinkedIn
    <2>1. LinkedIn(<< >>, t)
        BY DEF LinkedIn
    <2>2. QED
        BY <1>0, <1>2, <2>1 DEF Linked
<1>7. HeadsStored'
    <2> SUFFICES ASSUME NEW t \in Sessions, Writes(t)'
                 PROVE  /\ last_step_emissions[t] \subseteq Ids(own'[t])
                        /\ \A q \in Runs : (run[q].session = t /\ run[q].pc \in Active) =>
                              /\ run[q].preds \subseteq Ids(own'[t])
                              /\ run[q].emitted \subseteq Ids(own'[t])
        BY <1>1 DEF HeadsStored, Ids
    <2>1. Writes(t) /\ own'[t] = own[t]
        BY <1>1, <1>2 DEF Writes
    <2>2. QED
        BY <1>0, <2>1 DEF HeadsStored
<1>8. CountsAgree'
    <2>1. \A t : Reported(t)' = Reported(t)
        BY <1>1 DEF Reported
    <2>2. QED
        BY <1>0, <1>1, <2>1, CountsKept DEF Charged
<1>9. QED
    BY <1>3, <1>4, <1>5, <1>6, <1>7, <1>8 DEF IInv

\* CloseSession's other steps at most take the session out of the map.
LEMMA QuietCloseIInv ==
    ASSUME IInv, live' \subseteq live, Charged,
           UNCHANGED <<backend, rows, own, handle, last_step_emissions, creating, run>>
    PROVE  IInv'
<1>0. Types /\ Untouched /\ Cascaded /\ Linked /\ HeadsStored /\ CountsAgree
    BY DEF IInv
<1>1. Types' /\ Untouched' /\ Cascaded' /\ Linked'
    BY <1>0 DEF Types, IsSeq, Untouched, Cascaded, Linked, LinkedIn, Charged
<1>2. HeadsStored'
    BY <1>0 DEF HeadsStored, Writes, Ids
<1>3. CountsAgree'
    <2>1. \A t : Reported(t)' = Reported(t)
        BY DEF Reported
    <2>2. QED
        BY <1>0, <2>1, CountsKept
<1>4. QED
    BY <1>1, <1>2, <1>3 DEF IInv

\* The process restarts: no stream goes on, and no head outlives its store.
LEMMA RestartIInv ==
    ASSUME IInv, Restart
    PROVE  IInv'
<1>0. Types /\ Untouched /\ Cascaded /\ Linked /\ HeadsStored /\ CountsAgree
    BY DEF IInv
<1>1. /\ live' = {} /\ last_step_emissions' = [s \in Sessions |-> {}]
      /\ creating' = [s \in Sessions |-> IF creating[s] \in {"idle", "done"} THEN creating[s]
                                         ELSE "failed"]
      /\ rows' = IF backend = "memory" THEN << >> ELSE rows
      /\ own' = IF backend = "memory" THEN [s \in Sessions |-> << >>] ELSE own
      /\ failures' = failures + 1
      /\ UNCHANGED <<backend, handle>>
    BY DEF Restart
<1>2. /\ run' = [r \in Runs |-> IF run[r].pc \in Ended \union {"idle"} THEN run[r]
                                ELSE Over(r, "dead")]
    BY DEF Restart
<1>3. ASSUME NEW r \in Runs
      PROVE  /\ IsRun(run'[r]) /\ run'[r].replayed = run[r].replayed
             /\ run'[r].session = run[r].session /\ run'[r].pc \notin Active
             /\ run'[r].replayed \in Nat
             /\ run'[r].pc = "idle" => run'[r].replayed = 0
    <2>1. CASE run[r].pc \in Ended \union {"idle"}
        BY <1>0, <1>2, <2>1 DEF Types, Ended, Active
    <2>2. CASE run[r].pc \notin Ended \union {"idle"}
        <3>1. run'[r] = Over(r, "dead")
            BY <1>2, <2>2
        <3>2. run[r].replayed \in Nat
            BY <1>0 DEF Types
        <3>3. QED
            BY <3>1, <3>2, OverIsRun DEF Active
    <2>3. QED
        BY <2>1, <2>2
<1>4. Types'
    <2>1. /\ rows' = [t \in DOMAIN rows' |-> rows'[t]] /\ DOMAIN rows' \subseteq Sessions
          /\ \A t \in DOMAIN rows' :
                /\ rows'[t] = [window |-> rows'[t].window, replayed |-> rows'[t].replayed]
                /\ rows'[t].replayed \in Nat
        <3>1. CASE backend = "memory"
            <4>1. rows' = << >> /\ DOMAIN rows' = {}
                BY <1>1, <3>1
            <4>2. QED
                BY <4>1
        <3>2. CASE backend # "memory"
            BY <1>0, <1>1, <3>2 DEF Types
        <3>3. QED
            BY <3>1, <3>2
    <2>2. own' = [t \in Sessions |-> own'[t]] /\ \A t \in Sessions : IsSeq(own'[t])
        <3>1. << >> \in Seq({})
            OBVIOUS
        <3>2. QED
            BY <1>0, <1>1, <3>1 DEF Types, IsSeq
    <2>3. run' = [r \in Runs |-> run'[r]]
        BY <1>2
    <2>4. QED
        BY <1>0, <1>1, <1>3, <2>1, <2>2, <2>3 DEF Types, IsSeq
<1>5. Untouched'
    <2>1. \A s \in Sessions : creating'[s] \in Fresh => creating[s] \in Fresh
        BY <1>1 DEF Fresh
    <2>2. QED
        BY <1>0, <1>1, <1>3, <2>1 DEF Untouched, Fresh
<1>6. Cascaded'
    BY <1>0, <1>1 DEF Cascaded
<1>7. Linked'
    <2> SUFFICES ASSUME NEW t \in Sessions PROVE LinkedIn(own'[t], t)
        BY DEF Linked, LinkedIn
    <2>1. LinkedIn(<< >>, t)
        BY DEF LinkedIn
    <2>2. QED
        BY <1>0, <1>1, <2>1 DEF Linked
<1>8. HeadsStored'
    BY <1>1, <1>3 DEF HeadsStored
<1>9. CountsAgree'
    <2>1. ASSUME NEW t \in DOMAIN rows' PROVE rows' = rows
        <3>1. ASSUME backend = "memory" PROVE FALSE
            <4>1. rows' = << >>
                BY <1>1, <3>1
            <4>2. QED
                BY <2>1, <4>1
        <3>2. QED
            BY <1>1, <3>1
    <2>2. ASSUME NEW t PROVE Reported(t)' = Reported(t)
        <3>1. ASSUME NEW p PROVE p \in Reported(t)' <=> p \in Reported(t)
            BY <1>3, ReportedPairs
        <3>2. QED
            BY <3>1
    <2>3. QED
        BY <1>0, <1>1, <2>1, <2>2, CountsKept DEF Charged
<1>10. QED
    BY <1>4, <1>5, <1>6, <1>7, <1>8, <1>9 DEF IInv
-----------------------------------------------------------------------------
LEMMA NextIInv == IInv /\ [SessionNext]_sessionVars => IInv'
<1> SUFFICES ASSUME IInv, [SessionNext]_sessionVars PROVE IInv'
    OBVIOUS
<1>1. ASSUME NEW s \in Sessions, CreateStep(s) PROVE IInv'
    BY <1>1, CreateSessionIInv, OpenStoreIInv, QuietCreateIInv DEF CreateStep
<1>2. ASSUME NEW r \in Runs, Play(r) PROVE IInv'
    BY <1>2, ReadWindowIInv, ReadWindowFailsIInv, FeedOriginalIInv, PollAndLinkIInv, AppendEmissionIInv,
       EmissionFailsIInv, FinishReceiptIInv, SendProgressIInv, CompleteIInv DEF Play
<1>3. ASSUME NEW r \in Runs, NEW s \in Target[r], RunBegin(r, s) PROVE IInv'
    BY <1>3, RunBeginIInv
<1>4. ASSUME NEW c \in Closers, CloseStep(c) PROVE IInv'
    <2>1. CASE CloseDelete(c)
        BY <2>1, CloseDeleteIInv
    <2>2. CASE emit_replay_session_close_receipt(c)
        BY <2>2, QuietCloseIInv DEF emit_replay_session_close_receipt, storeVars, sessVars, Charged
    <2>3. CASE CloseDeleteFails(c)
        BY <2>3, QuietCloseIInv DEF CloseDeleteFails, storeVars, Charged
    <2>4. QED
        BY <1>4, <2>1, <2>2, <2>3 DEF CloseStep
<1>5. ASSUME NEW c \in Closers, NEW s \in Target[c], CloseBegin(c, s) PROVE IInv'
    BY <1>5, QuietCloseIInv DEF CloseBegin, storeVars, sessVars, Charged
<1>6. CASE Restart
    BY <1>6, RestartIInv
<1>7. CASE UNCHANGED sessionVars
    BY <1>7, QuietCloseIInv DEF sessionVars, storeVars, sessVars, callVars, Charged
<1>8. QED
    BY <1>1, <1>2, <1>3, <1>4, <1>5, <1>6, <1>7 DEF SessionNext

LEMMA SessionsInvariant == SessionSpec => []IInv
<1>1. QED
    BY InitIInv, NextIInv, PTL DEF SessionSpec

(***************************************************************************)
(* However creates, streams, closes and restarts interleave, in memory and *)
(* in Postgres, for any number of sessions and calls: what an operator     *)
(* reads in a session was emitted there, each predecessor stands ahead of  *)
(* the receipt that names it, and a closed session shows nothing           *)
(* (session.rs play_receipt, replay_store.rs delete_session).              *)
(***************************************************************************)
THEOREM ReplaysStayInTheirSession == SessionSpec => []WalksStayInside
<1>1. IInv => WalksStayInside
    <2> SUFFICES ASSUME IInv, NEW s \in Sessions
                 PROVE  LET seen == QueryReplayReceipts(s) IN
                        /\ seen # << >> => s \in DOMAIN rows
                        /\ LinkedIn(seen, s)
        BY DEF WalksStayInside, LinkedIn
    <2>1. CASE s \in DOMAIN rows
        BY <2>1 DEF IInv, Linked, QueryReplayReceipts
    <2>2. CASE s \notin DOMAIN rows
        <3>1. QueryReplayReceipts(s) = << >>
            BY <2>2 DEF IInv, Cascaded, QueryReplayReceipts
        <3>2. LinkedIn(<< >>, s)
            BY DEF LinkedIn
        <3>3. QED
            BY <3>1, <3>2
    <2>3. QED
        BY <2>1, <2>2
<1>2. QED
    BY <1>1, SessionsInvariant, PTL

(***************************************************************************)
(* A session's row counts what its streams have replayed, each receipt at  *)
(* most once and none but those whose touch_session failed left out,       *)
(* however many streams run at once, fail, are cancelled or die.           *)
(***************************************************************************)
THEOREM RowsCountReports == SessionSpec => []CountsAgree
<1>1. IInv => CountsAgree
    BY DEF IInv
<1>2. QED
    BY <1>1, SessionsInvariant, PTL
=============================================================================
