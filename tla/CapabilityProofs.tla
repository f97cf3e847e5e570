-------------------------- MODULE CapabilityProofs --------------------------
(***************************************************************************)
(* Proofs about Capability: what the walk of a check finds out about the   *)
(* chain of the capability it was shown, for every set of calls, every     *)
(* depth limit and every order of mints, revocations, checks and           *)
(* quarantines.                                                            *)
(***************************************************************************)
EXTENDS Capability, FiniteSetTheorems, WellFoundedInduction, TLAPS

-----------------------------------------------------------------------------
(* Least and greatest elements *)


\* A non-empty set of naturals has a least element.
LEMMA LeastNat ==
    ASSUME NEW S, S \subseteq Nat, S # {}
    PROVE  \E m \in S : \A k \in S : m <= k
<1> DEFINE R == {ss \in Nat \X Nat : ss[1] < ss[2]}
<1>1. OpToRel(<, Nat) = R
  BY DEF OpToRel
<1>2. IsWellFoundedOn(R, Nat)
  BY <1>1, NatLessThanWellFounded
<1> HIDE DEF R
<1>3. PICK m \in S : \A k \in S : ~ (<<k, m>> \in R)
  BY <1>2, WFMin
<1>4. ASSUME NEW k \in S PROVE m <= k
  <2>1. m \in Nat /\ k \in Nat
    OBVIOUS
  <2>2. k < m => <<k, m>> \in R
    BY <2>1 DEF R
  <2> QED
    BY <1>3, <2>1, <2>2
<1> QED
  BY <1>4

\* A non-empty bounded set of naturals has a greatest one.
LEMMA GreatestNat ==
    ASSUME NEW S, S \subseteq Nat, S # {}, NEW b \in Nat, \A k \in S : k <= b
    PROVE  \E m \in S : \A k \in S : k <= m
<1> DEFINE D == {d \in Nat : b - d \in S}
<1>1. ASSUME NEW k \in S PROVE k \in Nat /\ k <= b /\ b - k \in D
  <2>1. k \in Nat /\ k <= b
    OBVIOUS
  <2>2. b - k \in Nat /\ b - (b - k) = k
    BY <2>1
  <2> QED
    BY <2>1, <2>2
<1>2. D \subseteq Nat
  OBVIOUS
<1>3. D # {}
  BY <1>1
<1>4. PICK d \in D : \A e \in D : d <= e
  <2> HIDE DEF D
  <2> QED
    BY <1>2, <1>3, LeastNat
<1>5. d \in Nat /\ b - d \in S
  OBVIOUS
<1>6. ASSUME NEW k \in S PROVE k <= b - d
  <2>1. k \in Nat /\ k <= b /\ d <= b - k
    BY <1>1, <1>4
  <2> QED
    BY <1>5, <2>1
<1> QED
  BY <1>5, <1>6

-----------------------------------------------------------------------------
(* Lineages.  C stands for the store, by_id, now or a step later. *)

Far == MaxDepth + Cardinality(Mints)

LEMMA FarNat == Far \in Nat /\ MaxDepth \in Nat /\ MaxDepth <= Far /\ MaxDepth # 0
<1>1. Cardinality(Mints) \in Nat
  BY CapabilityAssumption, FS_CardinalityType
<1> QED
  BY <1>1, CapabilityAssumption DEF Far

AboveIn(C, link) ==
    IF link = << >> THEN << >>
    ELSE IF link[1] \notin DOMAIN C THEN << >> ELSE C[link[1]].parent

\* g is the lineage of k in C, as far as n.
IsLineage(C, k, n, g) ==
    g = [i \in 0..n |-> IF i = 0 THEN <<k>> ELSE AboveIn(C, g[i - 1])]

LineageIn(C, k) == CHOOSE g : IsLineage(C, k, Far, g)

ChainIn(C, k) == {x \in Mints : \E n \in 0..Far : LineageIn(C, k)[n] = <<x>>}

\* A lineage that reaches n - 1 can be carried on to n.
LEMMA LineageStep ==
    ASSUME NEW C, NEW k, NEW n \in Nat, n # 0, NEW h, IsLineage(C, k, n - 1, h)
    PROVE  \E g : IsLineage(C, k, n, g)
<1> DEFINE g == [i \in 0..n |-> IF i = n THEN AboveIn(C, h[n - 1]) ELSE h[i]]
<1>1. n - 1 \in Nat
  OBVIOUS
<1>2. \A i \in 0..(n - 1) : h[i] = IF i = 0 THEN <<k>> ELSE AboveIn(C, h[i - 1])
  BY DEF IsLineage
<1>3. ASSUME NEW i \in 0..n
      PROVE  g[i] = IF i = 0 THEN <<k>> ELSE AboveIn(C, g[i - 1])
  <2>1. CASE i = 0
    BY <1>1, <1>2, <2>1
  <2>2. CASE i # 0 /\ i = n
    <3>1. i - 1 \in 0..n /\ i - 1 # n
      BY <2>2
    <3>2. g[i - 1] = h[i - 1]
      BY <3>1
    <3> QED
      BY <2>2, <3>2
  <2>3. CASE i # 0 /\ i # n
    <3>1. i - 1 \in 0..n /\ i - 1 # n /\ i \in 0..(n - 1)
      BY <2>3
    <3>2. g[i - 1] = h[i - 1] /\ g[i] = h[i]
      BY <2>3, <3>1
    <3> QED
      BY <1>2, <2>3, <3>1, <3>2
  <2> QED
    BY <2>1, <2>2, <2>3
<1>4. IsLineage(C, k, n, g)
  <2>1. g = [i \in 0..n |-> g[i]]
    OBVIOUS
  <2> HIDE DEF g
  <2>2. [i \in 0..n |-> g[i]] = [i \in 0..n |-> IF i = 0 THEN <<k>> ELSE AboveIn(C, g[i - 1])]
    BY <1>3
  <2> QED
    BY <2>1, <2>2 DEF IsLineage
<1> QED
  BY <1>4

LEMMA LineageExists ==
    ASSUME NEW C, NEW k, NEW n \in Nat
    PROVE  \E g : IsLineage(C, k, n, g)
<1> DEFINE Bad == {m \in Nat : ~ \E g : IsLineage(C, k, m, g)}
<1>1. SUFFICES ASSUME Bad # {} PROVE FALSE
  OBVIOUS
<1>2. PICK m \in Bad : \A j \in Bad : m <= j
  <2>1. Bad \subseteq Nat
    OBVIOUS
  <2> HIDE DEF Bad
  <2> QED
    BY <1>1, <2>1, LeastNat
<1>3. m # 0
  <2> DEFINE g == [i \in 0..0 |-> <<k>>]
  <2>1. g = [i \in 0..0 |-> IF i = 0 THEN <<k>> ELSE AboveIn(C, g[i - 1])]
    OBVIOUS
  <2>2. IsLineage(C, k, 0, g)
    BY <2>1 DEF IsLineage
  <2> QED
    BY <2>2
<1>4. m \in Nat /\ m - 1 \in Nat /\ ~ (m <= m - 1)
  BY <1>3
<1>5. m - 1 \notin Bad
  BY <1>2, <1>4
<1>6. PICK h : IsLineage(C, k, m - 1, h)
  BY <1>4, <1>5
<1>7. \E g : IsLineage(C, k, m, g)
  BY <1>3, <1>4, <1>6, LineageStep
<1> QED
  BY <1>7

\* The recurrence of a lineage.
LEMMA LineageRec ==
    ASSUME NEW C, NEW k
    PROVE  /\ LineageIn(C, k)[0] = <<k>>
           /\ \A i \in 1..Far : LineageIn(C, k)[i] = AboveIn(C, LineageIn(C, k)[i - 1])
           /\ DOMAIN LineageIn(C, k) = 0..Far
<1> DEFINE g == LineageIn(C, k)
<1>1. Far \in Nat
  BY FarNat
<1>2. IsLineage(C, k, Far, g)
  BY <1>1, LineageExists DEF LineageIn
<1> HIDE DEF g
<1>3. \A i \in 0..Far : g[i] = IF i = 0 THEN <<k>> ELSE AboveIn(C, g[i - 1])
  BY <1>2 DEF IsLineage
<1>4. DOMAIN g = 0..Far
  BY <1>2 DEF IsLineage
<1>5. g[0] = <<k>> /\ \A i \in 1..Far : g[i] = AboveIn(C, g[i - 1])
  BY <1>1, <1>3
<1> QED
  BY <1>4, <1>5 DEF g

\* The lineages and chains of the model, now and after a step.
LEMMA Lineages ==
    ASSUME NEW k
    PROVE  Lineage(k) = LineageIn(caps, k) /\ Lineage(k)' = LineageIn(caps', k)
  BY DEF Lineage, LineageIn, IsLineage, Above, AboveIn, Far

LEMMA Chains ==
    ASSUME NEW k
    PROVE  Chain(k) = ChainIn(caps, k) /\ Chain(k)' = ChainIn(caps', k)
<1>1. DOMAIN Lineage(k) = 0..Far /\ DOMAIN Lineage(k)' = 0..Far
  BY Lineages, LineageRec
<1>2. Chain(k) = ChainIn(caps, k)
  BY <1>1, Lineages DEF Chain, ChainIn
<1>3. Chain(k)' = ChainIn(caps', k)
  BY <1>1, Lineages DEF Chain, ChainIn
<1> QED
  BY <1>2, <1>3

\* Of the links of a set that leaves out the leaf, one comes right after a
\* link outside the set.
LEMMA FirstLink ==
    ASSUME NEW S, S \subseteq 0..Far, S # {}, 0 \notin S
    PROVE  \E n \in 1..Far : n \in S /\ n - 1 \in 0..Far /\ n - 1 \notin S
<1>1. S \subseteq Nat
  BY FarNat
<1>2. PICK n \in S : \A j \in S : n <= j
  BY <1>1, LeastNat
<1>3. n \in 1..Far /\ n - 1 \in 0..Far /\ ~ (n <= n - 1)
  BY FarNat, <1>1
<1> QED
  BY <1>2, <1>3

\* What lies above the end of a chain is empty.
LEMMA LineageEnds ==
    ASSUME NEW C, NEW k, NEW e \in 0..Far, LineageIn(C, k)[e] = << >>,
           NEW n \in 0..Far, e <= n
    PROVE  LineageIn(C, k)[n] = << >>
<1> DEFINE g == LineageIn(C, k)
<1> DEFINE S == {m \in 0..Far : e <= m /\ g[m] # << >>}
<1>1. \A i \in 1..Far : g[i] = AboveIn(C, g[i - 1])
  BY LineageRec
<1>2. g[0] # << >>
  BY LineageRec
<1> HIDE DEF g
<1>3. SUFFICES ASSUME S # {} PROVE FALSE
  BY DEF g
<1>4. 0 \notin S
  BY <1>2, FarNat DEF g
<1>5. PICK m \in 1..Far : m \in S /\ m - 1 \in 0..Far /\ m - 1 \notin S
  <2>1. S \subseteq 0..Far
    OBVIOUS
  <2> HIDE DEF S
  <2> QED
    BY <1>3, <1>4, <2>1, FirstLink
<1>6. g[e] = << >> /\ m # e
  BY <1>5 DEF g
<1>7. e <= m - 1
  BY FarNat, <1>5, <1>6
<1>8. g[m - 1] = << >>
  BY <1>5, <1>7
<1>9. g[m] = << >>
  BY <1>1, <1>5, <1>8 DEF AboveIn
<1> QED
  BY <1>5, <1>9

\* The links of a lineage are capabilities.
LEMMA LineageType ==
    ASSUME NEW C, NEW k \in Mints, \A x \in DOMAIN C : C[x].parent \in Option(Mints),
           NEW n \in 0..Far
    PROVE  LineageIn(C, k)[n] \in Option(Mints)
<1> DEFINE g == LineageIn(C, k)
<1> DEFINE S == {m \in 0..Far : g[m] \notin Option(Mints)}
<1>1. \A i \in 1..Far : g[i] = AboveIn(C, g[i - 1])
  BY LineageRec
<1>2. g[0] \in Option(Mints)
  BY LineageRec DEF Option
<1> HIDE DEF g
<1>3. SUFFICES ASSUME S # {} PROVE FALSE
  BY DEF g
<1>4. PICK m \in 1..Far : m \in S /\ m - 1 \in 0..Far /\ m - 1 \notin S
  <2>1. S \subseteq 0..Far /\ 0 \notin S
    BY <1>2
  <2> HIDE DEF S
  <2> QED
    BY <1>3, <2>1, FirstLink
<1>5. g[m] = AboveIn(C, g[m - 1])
  BY <1>1, <1>4
<1>6. << >> \in Option(Mints)
  BY DEF Option
<1>7. AboveIn(C, g[m - 1]) \in Option(Mints)
  BY <1>6 DEF AboveIn
<1> QED
  BY <1>4, <1>5, <1>7

\* Stores only grow: what is under a key stays as it is.
Grown(C, D) == DOMAIN C \subseteq DOMAIN D /\ \A x \in DOMAIN C : D[x] = C[x]

\* A store that grows keeps the links that chains have.
LEMMA LineageGrows ==
    ASSUME NEW C, NEW D, Grown(C, D), NEW k,
           NEW n \in 0..Far, LineageIn(C, k)[n] # << >>
    PROVE  LineageIn(D, k)[n] = LineageIn(C, k)[n]
<1> DEFINE g == LineageIn(C, k)
           h == LineageIn(D, k)
<1> DEFINE S == {m \in 0..Far : g[m] # << >> /\ h[m] # g[m]}
<1>1. \A i \in 1..Far : g[i] = AboveIn(C, g[i - 1]) /\ h[i] = AboveIn(D, h[i - 1])
  BY LineageRec
<1>2. g[0] = h[0]
  BY LineageRec
<1> HIDE DEF g, h
<1>3. SUFFICES ASSUME S # {} PROVE FALSE
  BY DEF g, h
<1>4. PICK m \in 1..Far : m \in S /\ m - 1 \in 0..Far /\ m - 1 \notin S
  <2>1. S \subseteq 0..Far /\ 0 \notin S
    BY <1>2
  <2> HIDE DEF S
  <2> QED
    BY <1>3, <2>1, FirstLink
<1>5. g[m] = AboveIn(C, g[m - 1]) /\ h[m] = AboveIn(D, h[m - 1]) /\ g[m] # << >>
  BY <1>1, <1>4
<1>6. g[m - 1] # << >> /\ g[m - 1][1] \in DOMAIN C
  BY <1>5 DEF AboveIn
<1>7. h[m - 1] = g[m - 1]
  BY <1>4, <1>6
<1>8. h[m] = g[m]
  BY <1>5, <1>6, <1>7 DEF AboveIn, Grown
<1> QED
  BY <1>4, <1>8

LEMMA ChainGrows ==
    ASSUME NEW C, NEW D, Grown(C, D), NEW k
    PROVE  ChainIn(C, k) \subseteq ChainIn(D, k)
<1>1. ASSUME NEW x \in ChainIn(C, k) PROVE x \in ChainIn(D, k)
  <2>1. PICK n \in 0..Far : LineageIn(C, k)[n] = <<x>>
    BY DEF ChainIn
  <2>2. LineageIn(C, k)[n] # << >>
    BY <2>1
  <2>3. LineageIn(D, k)[n] = <<x>>
    BY <2>1, <2>2, LineageGrows
  <2> QED
    BY <2>3 DEF ChainIn
<1> QED
  BY <1>1

\* A chain whose links are all stored is what it is for good.
LEMMA ChainSettled ==
    ASSUME NEW C, NEW D, Grown(C, D), NEW k \in Mints,
           \A x \in DOMAIN C : C[x].parent \in Option(Mints),
           ChainIn(C, k) \subseteq DOMAIN C
    PROVE  ChainIn(D, k) = ChainIn(C, k)
<1> DEFINE g == LineageIn(C, k)
           h == LineageIn(D, k)
<1> DEFINE S == {m \in 0..Far : h[m] # g[m]}
<1>1. \A i \in 1..Far : g[i] = AboveIn(C, g[i - 1]) /\ h[i] = AboveIn(D, h[i - 1])
  BY LineageRec
<1>2. g[0] = h[0]
  BY LineageRec
<1>3. \A i \in 0..Far : g[i] \in Option(Mints)
  BY LineageType
<1>4. \A i \in 0..Far : \A x \in Mints : g[i] = <<x>> => x \in DOMAIN C
  BY DEF ChainIn
<1>5. \A i \in 0..Far : h[i] = g[i]
  <2> HIDE DEF g, h
  <2>1. SUFFICES ASSUME S # {} PROVE FALSE
    OBVIOUS
  <2>2. PICK m \in 1..Far : m \in S /\ m - 1 \in 0..Far /\ m - 1 \notin S
    <3>1. S \subseteq 0..Far /\ 0 \notin S
      BY <1>2
    <3> HIDE DEF S
    <3> QED
      BY <2>1, <3>1, FirstLink
  <2>3. h[m - 1] = g[m - 1] /\ g[m - 1] \in Option(Mints)
    BY <1>3, <2>2
  <2>4. CASE g[m - 1] = << >>
    BY <1>1, <2>2, <2>3, <2>4 DEF AboveIn
  <2>5. CASE g[m - 1] # << >>
    <3>1. PICK x \in Mints : g[m - 1] = <<x>>
      BY <2>3, <2>5 DEF Option
    <3>2. x \in DOMAIN C /\ g[m - 1][1] = x
      BY <1>4, <2>2, <3>1
    <3>3. AboveIn(D, g[m - 1]) = AboveIn(C, g[m - 1])
      BY <2>5, <3>2 DEF AboveIn, Grown
    <3> QED
      BY <1>1, <2>2, <2>3, <3>3
  <2> QED
    BY <2>4, <2>5
<1> QED
  BY <1>5 DEF ChainIn

-----------------------------------------------------------------------------
(* The walk *)

\* The chain of the leaf has e links, all of them in order.
Sound(x) == x \in DOMAIN caps /\ x \notin revoked /\ clock <= caps[x].until.wall

Rooted(leaf, e) ==
    /\ e \in 1..MaxDepth /\ Lineage(leaf)[e] = << >>
    /\ \A m \in 0..(e - 1) : Lineage(leaf)[m] # << >> /\ Sound(Lineage(leaf)[m][1])

\* A walk stops at the first link that does not let it on.
LEMMA WalkStops ==
    ASSUME NEW leaf
    PROVE  \E e \in 0..MaxDepth : /\ Walk(leaf) = Visit(leaf, e) /\ Visit(leaf, e) # "on"
                                  /\ \A m \in 0..(e - 1) : Visit(leaf, m) = "on"
<1> DEFINE S == {n \in 0..MaxDepth : Visit(leaf, n) # "on"}
           P(n) == Visit(leaf, n) # "on" /\ \A m \in 0..(n - 1) : Visit(leaf, m) = "on"
<1>1. MaxDepth \in S
  <2>1. MaxDepth \in 0..MaxDepth
    BY FarNat
  <2>2. Visit(leaf, MaxDepth) # "on"
    BY DEF Visit
  <2> QED
    BY <2>1, <2>2
<1>2. \E n \in S : \A j \in S : n <= j
  <2>1. S \subseteq Nat /\ S # {}
    BY <1>1, FarNat
  <2> HIDE DEF S
  <2> QED
    BY <2>1, LeastNat
<1>3. \E n \in 0..MaxDepth : P(n)
  <2>1. PICK n \in S : \A j \in S : n <= j
    BY <1>2
  <2>2. ASSUME NEW m \in 0..(n - 1) PROVE Visit(leaf, m) = "on"
    <3>1. m \in 0..MaxDepth /\ ~ (n <= m)
      BY <2>1, FarNat
    <3> QED
      BY <2>1, <3>1
  <2> QED
    BY <2>1, <2>2
<1> DEFINE e == CHOOSE n \in 0..MaxDepth : P(n)
<1>4. e \in 0..MaxDepth /\ P(e)
  <2> HIDE DEF P
  <2> QED
    BY <1>3
<1>5. Walk(leaf) = Visit(leaf, e)
  BY DEF Walk
<1> HIDE DEF e
<1> QED
  BY <1>4, <1>5

\* A walk that reaches the root has seen every link.
LEMMA WalkReachesRoot ==
    ASSUME NEW leaf, Walk(leaf) = "root"
    PROVE  \E e \in 1..MaxDepth : Rooted(leaf, e)
<1>1. PICK e \in 0..MaxDepth : /\ Walk(leaf) = Visit(leaf, e) /\ Visit(leaf, e) # "on"
                               /\ \A m \in 0..(e - 1) : Visit(leaf, m) = "on"
  BY WalkStops
<1>2. Lineage(leaf)[e] = << >>
  BY <1>1 DEF Visit
<1>3. Lineage(leaf)[0] = <<leaf>>
  BY Lineages, LineageRec
<1>4. e \in 1..MaxDepth
  <2>1. e # 0
    BY <1>2, <1>3
  <2> QED
    BY <2>1, FarNat
<1>5. ASSUME NEW m \in 0..(e - 1)
      PROVE  Lineage(leaf)[m] # << >> /\ Sound(Lineage(leaf)[m][1])
  <2>1. Visit(leaf, m) = "on"
    BY <1>1
  <2> QED
    BY <2>1 DEF Visit, Sound, StopsAtRevoked, WithinWindow
<1> QED
  BY <1>2, <1>4, <1>5 DEF Rooted

LEMMA RootedChain ==
    ASSUME NEW leaf, NEW e, Rooted(leaf, e), NEW x \in Chain(leaf)
    PROVE  \E m \in 0..(e - 1) : Lineage(leaf)[m] = <<x>> /\ Sound(x)
<1>1. e \in 1..MaxDepth /\ e \in 0..Far /\ Lineage(leaf)[e] = << >>
  BY FarNat DEF Rooted
<1>2. PICK m \in 0..Far : Lineage(leaf)[m] = <<x>>
  BY Chains, Lineages DEF ChainIn
<1>3. ~ (e <= m)
  <2>1. Lineage(leaf)[m] # << >>
    BY <1>2
  <2> QED
    BY <1>1, <2>1, LineageEnds, Lineages
<1>4. m \in 0..(e - 1)
  BY <1>1, <1>3, FarNat
<1>5. Sound(Lineage(leaf)[m][1])
  BY <1>4 DEF Rooted
<1>6. Lineage(leaf)[m][1] = x
  BY <1>2
<1> QED
  BY <1>2, <1>4, <1>5, <1>6

\* The leaf is a link of its chain.
LEMMA LeafInChain ==
    ASSUME NEW k \in Mints
    PROVE  k \in Chain(k)
<1>1. 0 \in 0..Far
  BY FarNat
<1> QED
  BY <1>1, Chains, LineageRec DEF ChainIn

\* A permitted check has walked a chain that is stored, not revoked and
\* within its windows.
LEMMA PermitSound ==
    ASSUME NEW d, Evaluate(d) = "permit"
    PROVE  /\ \E e \in 1..MaxDepth : Rooted(d.cap, e)
           /\ \A x \in Chain(d.cap) : Sound(x) /\ caps[x].caveats \subseteq d.meets
           /\ Permits(EffectiveScope(d.cap), d)
<1>1. Walk(d.cap) = "root" /\ Permits(EffectiveScope(d.cap), d)
      /\ \A x \in Chain(d.cap) : caps[x].caveats \subseteq d.meets
  <2>1. Walk(d.cap) = "root"
    <3>1. SUFFICES ASSUME Walk(d.cap) # "root" PROVE FALSE
      OBVIOUS
    <3>2. Walk(d.cap) = "permit"
      BY <3>1 DEF Evaluate
    <3>3. ASSUME NEW n PROVE Visit(d.cap, n) # "permit"
      BY DEF Visit
    <3> QED
      BY <3>2, <3>3 DEF Walk
  <2> QED
    BY <2>1 DEF Evaluate
<1>2. PICK e \in 1..MaxDepth : Rooted(d.cap, e)
  BY <1>1, WalkReachesRoot
<1>3. \A x \in Chain(d.cap) : Sound(x)
  BY <1>2, RootedChain
<1> QED
  BY <1>1, <1>2, <1>3

-----------------------------------------------------------------------------
(* Scopes *)

\* A descriptor within a narrowed scope is within the scope it was narrowed
\* from and within the scope that was asked for.
LEMMA NarrowedPermits ==
    ASSUME NEW p \in Scopes, NEW r \in Scopes, NEW s \in Scopes, NEW d \in Descriptors,
           s = Intersect(p, r), AttenuateGuard(p, s), Permits(s, d)
    PROVE  Permits(p, d) /\ Permits(r, d)
<1>1. /\ s.actions = IntersectOrTakeOne(p.actions, r.actions)
      /\ s.bound = IntersectBounds(p.bound, r.bound)
  BY DEF Intersect
<1>2. /\ s.actions = IntersectOrTakeOne(p.actions, s.actions)
      /\ s.bound = IntersectBounds(p.bound, s.bound)
  BY DEF AttenuateGuard, Intersect
<1>3. s.actions = {} \/ d.action \in s.actions
  BY DEF Permits
<1>4. p.actions = {} \/ d.action \in p.actions
  BY <1>2, <1>3 DEF IntersectOrTakeOne
<1>5. r.actions = {} \/ d.action \in r.actions
  BY <1>1, <1>2, <1>3 DEF IntersectOrTakeOne
<1>6. /\ p.bound \in Option(0..MaxAmount) /\ r.bound \in Option(0..MaxAmount)
      /\ d.amount \in 0..MaxAmount /\ MaxAmount \in Nat
  BY CapabilityAssumption DEF Scopes, Descriptors
<1>7. s.bound = << >> \/ d.amount <= s.bound[1]
  BY DEF Permits
<1>8. (p.bound = << >> \/ d.amount <= p.bound[1]) /\ (r.bound = << >> \/ d.amount <= r.bound[1])
  <2>1. CASE p.bound = << >>
    BY <1>1, <1>7, <2>1 DEF IntersectBounds
  <2>2. CASE r.bound = << >>
    BY <1>1, <1>7, <2>2 DEF IntersectBounds
  <2>3. CASE p.bound # << >> /\ r.bound # << >>
    <3>1. PICK x \in 0..MaxAmount : p.bound = <<x>>
      BY <1>6, <2>3 DEF Option
    <3>2. PICK y \in 0..MaxAmount : r.bound = <<y>>
      BY <1>6, <2>3 DEF Option
    <3>3. s.bound = IF y <= x THEN <<y>> ELSE <<x>>
      BY <1>1, <2>3, <3>1, <3>2 DEF IntersectBounds
    <3>4. d.amount <= x /\ d.amount <= y
      BY <1>6, <1>7, <3>3
    <3> QED
      BY <3>1, <3>2, <3>4
  <2> QED
    BY <2>1, <2>2, <2>3
<1> QED
  BY <1>4, <1>5, <1>8 DEF Permits

LEMMA IntersectType ==
    ASSUME NEW p \in Scopes, NEW r \in Scopes
    PROVE  Intersect(p, r) \in Scopes
<1>1. IntersectOrTakeOne(p.actions, r.actions) \in SUBSET Actions
  BY DEF Scopes, IntersectOrTakeOne
<1>2. IntersectBounds(p.bound, r.bound) \in Option(0..MaxAmount)
  BY DEF Scopes, IntersectBounds
<1> QED
  BY <1>1, <1>2 DEF Scopes, Intersect

\* Each link of the leaf's chain, up to the e-th, is within the one above it.
Nested(leaf, e) ==
    \A m \in 0..(e - 2) :
        AttenuateGuard(caps[Lineage(leaf)[m + 1][1]].scope, caps[Lineage(leaf)[m][1]].scope)

\* A chain has no more members than links.
LEMMA ChainLength ==
    ASSUME NEW leaf \in Mints, NEW e, Rooted(leaf, e)
    PROVE  Cardinality(Chain(leaf)) \in 1..e
<1> DEFINE f == [m \in 0..(e - 1) |-> Lineage(leaf)[m][1]]
           T == {f[m] : m \in 0..(e - 1)}
<1>1. e \in 1..MaxDepth /\ e \in Nat /\ e # 0 /\ e - 1 \in Int
  BY FarNat DEF Rooted
<1>2. IsFiniteSet(0..(e - 1)) /\ Cardinality(0..(e - 1)) = e
  BY <1>1, FS_Interval
<1>3. f \in Surjection(0..(e - 1), T)
  BY DEF Surjection
<1>4. Chain(leaf) \subseteq T
  <2>1. ASSUME NEW x \in Chain(leaf) PROVE x \in T
    <3>1. PICK m \in 0..(e - 1) : Lineage(leaf)[m] = <<x>>
      BY RootedChain
    <3> QED
      BY <3>1
  <2> QED
    BY <2>1
<1> HIDE DEF T, f
<1>5. IsFiniteSet(T) /\ Cardinality(T) <= e
  BY <1>2, <1>3, FS_Surjection
<1>6. IsFiniteSet(Chain(leaf)) /\ Cardinality(Chain(leaf)) <= Cardinality(T)
  BY <1>4, <1>5, FS_Subset
<1>7. Cardinality(T) \in Nat /\ Cardinality(Chain(leaf)) \in Nat
  BY <1>5, <1>6, FS_CardinalityType
<1>8. Cardinality(Chain(leaf)) # 0
  BY <1>6, FS_EmptySet, LeafInChain
<1> QED
  BY <1>1, <1>5, <1>6, <1>7, <1>8

\* Where every link is within the one above it, intersecting the scopes from
\* the root down gives the scope of the leaf.
LEMMA EffectiveIsLeafs ==
    ASSUME NEW leaf \in Mints, NEW e, Rooted(leaf, e), Nested(leaf, e)
    PROVE  EffectiveScope(leaf) = caps[leaf].scope
<1> DEFINE last == Cardinality(Chain(leaf)) - 1
           scope(n) == caps[Lineage(leaf)[n][1]].scope
           From(g) == g = [n \in 0..last |-> IF n = last THEN scope(n)
                                             ELSE Intersect(g[n + 1], scope(n))]
           g == [n \in 0..last |-> scope(n)]
           f == CHOOSE h : From(h)
<1>1. e \in Nat /\ last \in Nat /\ last <= e - 1
  BY ChainLength, FarNat DEF Rooted
<1>2. ASSUME NEW n \in 0..last, n # last
      PROVE  n + 1 \in 0..last /\ Intersect(scope(n + 1), scope(n)) = scope(n)
  <2> HIDE DEF last
  <2>1. n + 1 \in 0..last /\ n \in 0..(e - 2)
    BY <1>1, <1>2
  <2> QED
    BY <2>1 DEF Nested, AttenuateGuard
<1>3. EffectiveScope(leaf) = f[0]
  BY DEF EffectiveScope
<1> HIDE DEF scope, last
<1>4. From(g)
  <2>1. ASSUME NEW n \in 0..last
        PROVE  g[n] = IF n = last THEN scope(n) ELSE Intersect(g[n + 1], scope(n))
    <3>1. CASE n = last
      BY <3>1
    <3>2. CASE n # last
      <4>1. g[n + 1] = scope(n + 1) /\ g[n] = scope(n)
        BY <1>2, <3>2
      <4> QED
        BY <1>2, <3>2, <4>1
    <3> QED
      BY <3>1, <3>2
  <2>2. g = [n \in 0..last |-> g[n]]
    OBVIOUS
  <2> HIDE DEF g
  <2> QED
    BY <2>1, <2>2
<1>5. From(f)
  <2> HIDE DEF From
  <2> QED
    BY <1>4
<1> HIDE DEF f, g
<1>6. \A n \in 0..last : f[n] = IF n = last THEN scope(n) ELSE Intersect(f[n + 1], scope(n))
  BY <1>5
<1> HIDE DEF From
<1>7. f[0] = scope(0)
  <2> DEFINE S == {n \in 0..last : f[n] # scope(n)}
  <2>1. SUFFICES ASSUME S # {} PROVE FALSE
    BY <1>1
  <2>2. PICK n \in S : \A j \in S : j <= n
    <3>1. S \subseteq Nat /\ \A j \in S : j <= last
      BY <1>1
    <3> HIDE DEF S
    <3> QED
      BY <1>1, <2>1, <3>1, GreatestNat
  <2>3. n # last
    BY <1>6, <2>2
  <2>4. n + 1 \in 0..last /\ Intersect(scope(n + 1), scope(n)) = scope(n)
    BY <1>2, <2>2, <2>3
  <2>5. f[n + 1] = scope(n + 1)
    <3>1. ~ (n + 1 <= n)
      BY <1>1, <2>2
    <3> QED
      BY <2>2, <2>4, <3>1
  <2>6. f[n] = scope(n)
    BY <1>6, <2>2, <2>3, <2>4, <2>5
  <2> QED
    BY <2>2, <2>6
<1>8. scope(0) = caps[leaf].scope
  BY Lineages, LineageRec DEF scope
<1> QED
  BY <1>3, <1>7, <1>8

\* Where every capability of the store is either issued as it was asked for
\* or narrowed from its parent, a check that is permitted is within what
\* every mint along the chain asked for.
Derived(x) ==
    IF caps[x].parent = << >> THEN caps[x].scope = Request[x].scope
    ELSE LET p == caps[x].parent[1] IN
         /\ p \in DOMAIN caps
         /\ caps[x].scope = Intersect(caps[p].scope, Request[x].scope)
         /\ AttenuateGuard(caps[p].scope, caps[x].scope)

LEMMA PermitsEveryMint ==
    ASSUME TypeOK, \A x \in DOMAIN caps : Derived(x),
           NEW d \in Descriptors, NEW e, Rooted(d.cap, e),
           Permits(EffectiveScope(d.cap), d), NEW x \in Chain(d.cap)
    PROVE  Permits(Request[x].scope, d)
<1> DEFINE leaf == d.cap
           link(m) == Lineage(leaf)[m][1]
<1>1. leaf \in Mints /\ e \in 1..MaxDepth /\ e \in Nat /\ MaxDepth \in Nat
      /\ e <= Far /\ Far \in Nat
  BY FarNat DEF Descriptors, Rooted
<1>2. ASSUME NEW m \in 0..(e - 1)
      PROVE  /\ link(m) \in DOMAIN caps /\ link(m) \in Mints
             /\ caps[link(m)].scope \in Scopes /\ Request[link(m)].scope \in Scopes
  <2>1. link(m) \in DOMAIN caps
    BY DEF Rooted, Sound
  <2>2. link(m) \in Mints /\ caps[link(m)] \in Minted
    BY <2>1 DEF TypeOK
  <2>3. Request[link(m)] \in Minted
    BY <2>2, CapabilityAssumption
  <2> QED
    BY <2>1, <2>2, <2>3 DEF Minted
<1>3. ASSUME NEW m \in 0..(e - 2)
      PROVE  /\ m \in 0..(e - 1) /\ m + 1 \in 0..(e - 1)
             /\ caps[link(m)].scope = Intersect(caps[link(m + 1)].scope, Request[link(m)].scope)
             /\ AttenuateGuard(caps[link(m + 1)].scope, caps[link(m)].scope)
  <2>1. /\ m \in 0..(e - 1) /\ m + 1 \in 0..(e - 1) /\ m + 1 \in 1..Far /\ (m + 1) - 1 = m
    BY <1>1
  <2>2. Lineage(leaf)[m + 1] = AboveIn(caps, Lineage(leaf)[m])
    BY <2>1, Lineages, LineageRec
  <2>3. Lineage(leaf)[m + 1] # << >> /\ Lineage(leaf)[m] # << >>
    BY <2>1 DEF Rooted
  <2>4. Lineage(leaf)[m + 1] = caps[link(m)].parent
    BY <2>2, <2>3 DEF AboveIn
  <2>5. Derived(link(m))
    BY <1>2, <2>1
  <2> QED
    BY <2>1, <2>3, <2>4, <2>5 DEF Derived
<1>4. Nested(leaf, e)
  BY <1>3 DEF Nested
<1>5. Permits(caps[leaf].scope, d)
  BY <1>1, <1>4, EffectiveIsLeafs
<1>6. link(0) = leaf
  BY Lineages, LineageRec
<1> HIDE DEF link
<1>7. ASSUME NEW m \in 0..(e - 1) PROVE Permits(caps[link(m)].scope, d)
  <2> DEFINE S == {i \in 0..(e - 1) : ~ Permits(caps[link(i)].scope, d)}
  <2>1. SUFFICES ASSUME S # {} PROVE FALSE
    OBVIOUS
  <2>2. S \subseteq 0..Far /\ 0 \notin S
    BY <1>1, <1>5, <1>6
  <2>3. PICK i \in 1..Far : i \in S /\ i - 1 \in 0..Far /\ i - 1 \notin S
    <3> HIDE DEF S
    <3> QED
      BY <2>1, <2>2, FirstLink
  <2>4. i - 1 \in 0..(e - 2) /\ i - 1 \in 0..(e - 1) /\ i \in 0..(e - 1) /\ (i - 1) + 1 = i
    BY <1>1, <2>3
  <2>5. Permits(caps[link(i - 1)].scope, d)
    BY <2>3, <2>4
  <2>6. Permits(caps[link(i)].scope, d)
    BY <1>2, <1>3, <2>4, <2>5, NarrowedPermits
  <2> QED
    BY <2>3, <2>6
<1>8. PICK m \in 0..(e - 1) : Lineage(leaf)[m] = <<x>>
  BY RootedChain
<1>9. x = link(m) /\ Derived(x) /\ Permits(caps[x].scope, d)
  BY <1>2, <1>7, <1>8 DEF link
<1>10. CASE caps[x].parent = << >>
  BY <1>9, <1>10 DEF Derived
<1>11. CASE caps[x].parent # << >>
  <2>1. PICK p \in DOMAIN caps : /\ caps[x].scope = Intersect(caps[p].scope, Request[x].scope)
                                 /\ AttenuateGuard(caps[p].scope, caps[x].scope)
    BY <1>9, <1>11 DEF Derived
  <2>2. caps[p].scope \in Scopes
    BY DEF TypeOK, Minted
  <2>3. caps[x].scope \in Scopes /\ Request[x].scope \in Scopes
    BY <1>2, <1>8, <1>9
  <2> QED
    BY <1>9, <2>1, <2>2, <2>3, NarrowedPermits
<1> QED
  BY <1>10, <1>11

-----------------------------------------------------------------------------
(* The inductive invariant *)

Past == {"record", "done", "failed"}

CallInv(c) ==
    /\ pc[c] = "parent" => c \in Attenuates
    /\ pc[c] = "insert" => c \in Mints
    /\ pc[c] = "mark" => c \in Revokes /\ Revoked[c] \in DOMAIN caps
    /\ pc[c] = "walk" => c \in Checks

\* What a mint is about to store, and what it has stored.
MintInv(c) ==
    /\ built[c].parent = Request[c].parent /\ built[c].until = Request[c].until
    /\ Request[c].caveats \subseteq built[c].caveats
    /\ (pc[c] = "idle" \/ c \in Issues) => built[c] = Request[c]
    /\ c \in DOMAIN caps => caps[c] = built[c] /\ pc[c] \in Past

\* What an attenuation narrows stays in the store.
NarrowInv(c) ==
    LET p == Request[c].parent[1] IN
    /\ (pc[c] \in {"gate", "parent", "insert"} \/ c \in DOMAIN caps) =>
         p \in DOMAIN caps /\ built[c].scope = Intersect(caps[p].scope, Request[c].scope)
    /\ (pc[c] = "insert" \/ c \in DOMAIN caps) => AttenuateGuard(caps[p].scope, built[c].scope)

CheckInv(c) ==
    LET k == Presented[c].cap IN
    /\ verdict[c] # "none" => pc[c] \in Past
    /\ pc[c] = "gate" => k \in DOMAIN caps
    /\ c \in condemned => ChainIn(caps, k) \cap revoked # {} /\ verdict[c] # "permit"
    /\ c \in confined => /\ k \in DOMAIN caps /\ pc[c] # "idle" /\ verdict[c] # "permit"
                         /\ pc[c] = "gate" => caps[k].subject \in quarantined
                         /\ pc[c] = "walk" => k \in revoked

IInv ==
    /\ TypeOK
    /\ \A c \in Calls : CallInv(c)
    /\ \A c \in Mints : MintInv(c)
    /\ \A c \in Attenuates : NarrowInv(c)
    /\ \A c \in Checks : CheckInv(c)

\* What a permitted check has been held to.
HeldInv(c) ==
    LET d == Presented[c] IN
    verdict[c] = "permit" =>
      /\ ChainIn(caps, d.cap) \subseteq DOMAIN caps
      /\ \A x \in ChainIn(caps, d.cap) :
            Permits(Request[x].scope, d) /\ Request[x].caveats \subseteq d.meets

LEMMA IInvInit == Init => IInv
<1> SUFFICES ASSUME Init PROVE IInv
  OBVIOUS
<1>1. TypeOK
  BY CapabilityAssumption DEF Init, TypeOK, Steps
<1>2. ASSUME NEW c \in Calls PROVE CallInv(c)
  BY DEF Init, CallInv
<1>3. ASSUME NEW c \in Mints PROVE MintInv(c)
  BY DEF Init, MintInv, Calls
<1>4. ASSUME NEW c \in Attenuates PROVE NarrowInv(c)
  BY DEF Init, NarrowInv, Calls, Mints
<1>5. ASSUME NEW c \in Checks PROVE CheckInv(c)
  BY DEF Init, CheckInv, Calls
<1> QED
  BY <1>1, <1>2, <1>3, <1>4, <1>5 DEF IInv

LEMMA IssueCallKeeps ==
    ASSUME IInv, NEW c \in Calls, IssueCall(c)
    PROVE  IInv'
<1>1. TypeOK'
  BY CapabilityAssumption DEF IInv, CallInv, IssueCall, Goto, histVars, Calls, TypeOK, Steps
<1>2. ASSUME NEW o \in Calls PROVE CallInv(o)'
  BY CapabilityAssumption DEF IInv, IssueCall, Goto, histVars, Calls, TypeOK, CallInv
<1>3. ASSUME NEW o \in Mints PROVE MintInv(o)'
  BY CapabilityAssumption DEF IInv, IssueCall, Goto, histVars, Calls, Mints, TypeOK, CallInv, MintInv, Past
<1>4. ASSUME NEW o \in Attenuates PROVE NarrowInv(o)'
  BY CapabilityAssumption DEF IInv, IssueCall, Goto, histVars, Calls, Mints, TypeOK, CallInv, MintInv, NarrowInv, Past
<1>5. ASSUME NEW o \in Checks PROVE CheckInv(o)'
  BY CapabilityAssumption DEF IInv, IssueCall, Goto, histVars, Calls, Mints, TypeOK, CallInv, CheckInv, Past
<1> QED
  BY <1>1, <1>2, <1>3, <1>4, <1>5 DEF IInv

\* What an attenuation that finds its parent builds.
AttenuateBuilds(c, p) ==
    /\ pc' = [pc EXCEPT ![c] = "gate"]
    /\ p \in DOMAIN caps /\ p = Request[c].parent[1]
    /\ built' \in [Mints -> Minted] /\ \A o \in Mints : o # c => built'[o] = built[o]
    /\ built'[c].scope = Intersect(caps[p].scope, Request[c].scope)
    /\ built'[c].parent = Request[c].parent /\ built'[c].until = Request[c].until
    /\ Request[c].caveats \subseteq built'[c].caveats

LEMMA AttenuateCallBuilds ==
    ASSUME IInv, NEW c \in Calls, AttenuateCall(c)
    PROVE  \/ \E s \in {"notfound", "refused"} : pc' = [pc EXCEPT ![c] = s] /\ built' = built
           \/ \E p \in Mints : AttenuateBuilds(c, p)
<1> DEFINE p == Request[c].parent[1]
           b == Request[c]
           n == [b EXCEPT !.scope = Intersect(caps[p].scope, @),
                          !.caveats = caps[p].caveats \cup @, !.subject = caps[p].subject]
<1>1. c \in Attenuates /\ c \in Mints /\ pc[c] = "idle"
  BY DEF AttenuateCall, Mints
<1>2. built[c] = b /\ b \in Minted /\ built \in [Mints -> Minted]
  BY <1>1, CapabilityAssumption DEF IInv, MintInv, TypeOK
<1>3. CASE p \notin DOMAIN caps \ revoked \/ b.until.mono > caps[p].until.mono
  BY <1>3 DEF AttenuateCall, Goto
<1>4. CASE ~ (p \notin DOMAIN caps \ revoked \/ b.until.mono > caps[p].until.mono)
  <2>1. p \in DOMAIN caps /\ p \in Mints /\ caps[p] \in Minted
    BY <1>4 DEF IInv, TypeOK
  <2>2. /\ pc' = [pc EXCEPT ![c] = "gate"]
        /\ built' = [built EXCEPT ![c].scope = Intersect(caps[p].scope, @),
                                  ![c].caveats = caps[p].caveats \cup @,
                                  ![c].subject = caps[p].subject]
    BY <1>4 DEF AttenuateCall, Goto
  <2>3. /\ n \in Minted /\ n.scope = Intersect(caps[p].scope, b.scope)
        /\ n.caveats = caps[p].caveats \cup b.caveats
        /\ n.parent = b.parent /\ n.until = b.until
    <3>1. Intersect(caps[p].scope, b.scope) \in Scopes
      BY <1>2, <2>1, IntersectType DEF Minted
    <3> QED
      BY <1>2, <2>1, <3>1 DEF Minted
  <2>4. built' = [built EXCEPT ![c] = n]
    BY <1>1, <1>2, <2>2
  <2>5. built' \in [Mints -> Minted] /\ built'[c] = n /\ \A o \in Mints : o # c => built'[o] = built[o]
    BY <1>1, <1>2, <2>3, <2>4
  <2>6. AttenuateBuilds(c, p)
    BY <2>1, <2>2, <2>3, <2>5 DEF AttenuateBuilds
  <2> QED
    BY <2>1, <2>6
<1> QED
  BY <1>3, <1>4

LEMMA AttenuateCallKeeps ==
    ASSUME IInv, NEW c \in Calls, AttenuateCall(c)
    PROVE  IInv'
<1>1. /\ c \in Attenuates /\ c \in Mints /\ pc[c] = "idle" /\ c \notin DOMAIN caps
      /\ c \notin Checks
      /\ UNCHANGED <<caps, revoked, verdict, quarantined, receipts, clock, condemned,
                     confined, flips, faults>>
  BY CapabilityAssumption DEF AttenuateCall, histVars, Mints, IInv, MintInv, Past
<1>2. CASE \E s \in {"notfound", "refused"} : pc' = [pc EXCEPT ![c] = s] /\ built' = built
  <2>1. PICK s \in {"notfound", "refused"} : pc' = [pc EXCEPT ![c] = s] /\ built' = built
    BY <1>2
  <2>2. TypeOK'
    BY <1>1, <2>1 DEF IInv, TypeOK, Steps
  <2>3. ASSUME NEW o \in Calls PROVE CallInv(o)'
    BY <1>1, <2>1 DEF IInv, TypeOK, CallInv
  <2>4. ASSUME NEW o \in Mints PROVE MintInv(o)'
    BY <1>1, <2>1 DEF IInv, TypeOK, MintInv, Calls
  <2>5. ASSUME NEW o \in Attenuates PROVE NarrowInv(o)'
    BY <1>1, <2>1 DEF IInv, TypeOK, NarrowInv, Calls, Mints
  <2>6. ASSUME NEW o \in Checks PROVE CheckInv(o)'
    BY <1>1, <2>1 DEF IInv, TypeOK, CheckInv, Calls
  <2> QED
    BY <2>2, <2>3, <2>4, <2>5, <2>6 DEF IInv
<1>3. CASE \E p \in Mints : AttenuateBuilds(c, p)
  <2>1. PICK p \in Mints : AttenuateBuilds(c, p)
    BY <1>3
  <2>2. TypeOK'
    BY <1>1, <2>1 DEF IInv, TypeOK, Steps, AttenuateBuilds
  <2>3. ASSUME NEW o \in Calls PROVE CallInv(o)'
    BY <1>1, <2>1 DEF IInv, TypeOK, CallInv, AttenuateBuilds
  <2>4. ASSUME NEW o \in Mints PROVE MintInv(o)'
    BY <1>1, <2>1, CapabilityAssumption DEF IInv, TypeOK, MintInv, Calls, AttenuateBuilds
  <2>5. ASSUME NEW o \in Attenuates PROVE NarrowInv(o)'
    BY <1>1, <2>1 DEF IInv, TypeOK, NarrowInv, Calls, Mints, AttenuateBuilds
  <2>6. ASSUME NEW o \in Checks PROVE CheckInv(o)'
    BY <1>1, <2>1 DEF IInv, TypeOK, CheckInv, Calls, AttenuateBuilds
  <2> QED
    BY <2>2, <2>3, <2>4, <2>5, <2>6 DEF IInv
<1> QED
  BY <1>2, <1>3, AttenuateCallBuilds

LEMMA MintGateKeeps ==
    ASSUME IInv, NEW c \in Calls, MintGate(c)
    PROVE  IInv'
<1>1. TypeOK'
  BY CapabilityAssumption DEF IInv, CallInv, MintGate, Goto, histVars, Calls, TypeOK, Steps
<1>2. ASSUME NEW o \in Calls PROVE CallInv(o)'
  BY CapabilityAssumption DEF IInv, MintGate, Goto, histVars, Calls, TypeOK, CallInv
<1>3. ASSUME NEW o \in Mints PROVE MintInv(o)'
  BY CapabilityAssumption DEF IInv, MintGate, Goto, histVars, Calls, Mints, TypeOK, CallInv, MintInv, Past
<1>4. ASSUME NEW o \in Attenuates PROVE NarrowInv(o)'
  BY CapabilityAssumption DEF IInv, MintGate, Goto, histVars, Calls, Mints, TypeOK, CallInv, MintInv, NarrowInv, Past
<1>5. ASSUME NEW o \in Checks PROVE CheckInv(o)'
  BY CapabilityAssumption DEF IInv, MintGate, Goto, histVars, Calls, Mints, TypeOK, CallInv, CheckInv, Past
<1> QED
  BY <1>1, <1>2, <1>3, <1>4, <1>5 DEF IInv

LEMMA CheckParentKeeps ==
    ASSUME IInv, NEW c \in Calls, CheckParent(c)
    PROVE  IInv'
<1>1. /\ c \in Attenuates /\ c \in Mints /\ pc[c] = "parent" /\ built[c].parent = Request[c].parent
      /\ UNCHANGED <<caps, revoked, built, verdict, quarantined, receipts, clock, condemned,
                     confined, flips, faults>>
  BY CapabilityAssumption DEF CheckParent, histVars, Mints, IInv, CallInv, MintInv
<1>2. PICK s \in {"insert", "refused"} :
         /\ pc' = [pc EXCEPT ![c] = s]
         /\ s = "insert" => AttenuateGuard(caps[Request[c].parent[1]].scope, built[c].scope)
  BY <1>1 DEF CheckParent, Goto
<1>3. TypeOK'
  BY <1>1, <1>2 DEF IInv, TypeOK, Steps
<1>4. ASSUME NEW o \in Calls PROVE CallInv(o)'
  BY <1>1, <1>2 DEF IInv, TypeOK, CallInv
<1>5. ASSUME NEW o \in Mints PROVE MintInv(o)'
  BY <1>1, <1>2 DEF IInv, TypeOK, MintInv, Past, Calls
<1>6. ASSUME NEW o \in Attenuates PROVE NarrowInv(o)'
  BY <1>1, <1>2 DEF IInv, TypeOK, NarrowInv, Calls, Mints
<1>7. ASSUME NEW o \in Checks PROVE CheckInv(o)'
  BY <1>1, <1>2, CapabilityAssumption DEF IInv, TypeOK, CheckInv, Calls
<1> QED
  BY <1>3, <1>4, <1>5, <1>6, <1>7 DEF IInv

\* A capability is stored once.
LEMMA InsertGrows ==
    ASSUME IInv, NEW c \in Calls, Insert(c)
    PROVE  Grown(caps, caps')
  BY DEF IInv, CallInv, MintInv, Past, Insert, Grown

LEMMA InsertKeeps ==
    ASSUME IInv, NEW c \in Calls, Insert(c)
    PROVE  IInv'
<1>1. TypeOK'
  BY CapabilityAssumption DEF IInv, CallInv, Insert, Goto, histVars, Calls, TypeOK, Steps
<1>2. ASSUME NEW o \in Calls PROVE CallInv(o)'
  BY CapabilityAssumption DEF IInv, Insert, Goto, histVars, Calls, TypeOK, CallInv
<1>3. ASSUME NEW o \in Mints PROVE MintInv(o)'
  BY CapabilityAssumption DEF IInv, Insert, Goto, histVars, Calls, Mints, TypeOK, CallInv, MintInv, Past
<1>4. ASSUME NEW o \in Attenuates PROVE NarrowInv(o)'
  BY CapabilityAssumption DEF IInv, Insert, Goto, histVars, Calls, Mints, TypeOK, CallInv, MintInv, NarrowInv, Past
<1>5. ASSUME NEW o \in Checks PROVE CheckInv(o)'
  <2>1. c \in Mints /\ c \notin Checks /\ Grown(caps, caps') /\ pc' = [pc EXCEPT ![c] = "record"]
        /\ UNCHANGED <<revoked, verdict, quarantined, condemned, confined>>
    BY CapabilityAssumption, InsertGrows DEF IInv, Insert, Goto, histVars, CallInv
  <2>2. ChainIn(caps, Presented[o].cap) \subseteq ChainIn(caps', Presented[o].cap)
    BY <2>1, ChainGrows
  <2>3. CheckInv(o) /\ pc'[o] = pc[o]
    BY <2>1 DEF IInv, TypeOK, Calls
  <2> QED
    BY <2>1, <2>2, <2>3 DEF CheckInv, Grown
<1> QED
  BY <1>1, <1>2, <1>3, <1>4, <1>5 DEF IInv

LEMMA RevokeCallKeeps ==
    ASSUME IInv, NEW c \in Calls, RevokeCall(c)
    PROVE  IInv'
<1>1. TypeOK'
  BY CapabilityAssumption DEF IInv, CallInv, RevokeCall, Goto, histVars, Calls, TypeOK, Steps
<1>2. ASSUME NEW o \in Calls PROVE CallInv(o)'
  BY CapabilityAssumption DEF IInv, RevokeCall, Goto, histVars, Calls, TypeOK, CallInv
<1>3. ASSUME NEW o \in Mints PROVE MintInv(o)'
  BY CapabilityAssumption DEF IInv, RevokeCall, Goto, histVars, Calls, Mints, TypeOK, CallInv, MintInv, Past
<1>4. ASSUME NEW o \in Attenuates PROVE NarrowInv(o)'
  BY CapabilityAssumption DEF IInv, RevokeCall, Goto, histVars, Calls, Mints, TypeOK, CallInv, MintInv, NarrowInv, Past
<1>5. ASSUME NEW o \in Checks PROVE CheckInv(o)'
  BY CapabilityAssumption DEF IInv, RevokeCall, Goto, histVars, Calls, Mints, TypeOK, CallInv, CheckInv, Past
<1> QED
  BY <1>1, <1>2, <1>3, <1>4, <1>5 DEF IInv

LEMMA MarkKeeps ==
    ASSUME IInv, NEW c \in Calls, Mark(c)
    PROVE  IInv'
<1>1. TypeOK'
  BY CapabilityAssumption DEF IInv, CallInv, Mark, Goto, histVars, Calls, TypeOK, Steps
<1>2. ASSUME NEW o \in Calls PROVE CallInv(o)'
  BY CapabilityAssumption DEF IInv, Mark, Goto, histVars, Calls, TypeOK, CallInv
<1>3. ASSUME NEW o \in Mints PROVE MintInv(o)'
  BY CapabilityAssumption DEF IInv, Mark, Goto, histVars, Calls, Mints, TypeOK, CallInv, MintInv, Past
<1>4. ASSUME NEW o \in Attenuates PROVE NarrowInv(o)'
  BY CapabilityAssumption DEF IInv, Mark, Goto, histVars, Calls, Mints, TypeOK, CallInv, MintInv, NarrowInv, Past
<1>5. ASSUME NEW o \in Checks PROVE CheckInv(o)'
  BY CapabilityAssumption DEF IInv, Mark, Goto, histVars, Calls, Mints, TypeOK, CallInv, CheckInv, Past
<1> QED
  BY <1>1, <1>2, <1>3, <1>4, <1>5 DEF IInv

LEMMA CheckCallKeeps ==
    ASSUME IInv, NEW c \in Calls, CheckCall(c)
    PROVE  IInv'
<1>1. TypeOK'
  BY CapabilityAssumption DEF IInv, CallInv, CheckCall, Goto, histVars, Calls, TypeOK, Steps
<1>2. ASSUME NEW o \in Calls PROVE CallInv(o)'
  BY CapabilityAssumption DEF IInv, CheckCall, Goto, histVars, Calls, TypeOK, CallInv
<1>3. ASSUME NEW o \in Mints PROVE MintInv(o)'
  BY CapabilityAssumption DEF IInv, CheckCall, Goto, histVars, Calls, Mints, TypeOK, CallInv, MintInv, Past
<1>4. ASSUME NEW o \in Attenuates PROVE NarrowInv(o)'
  BY CapabilityAssumption DEF IInv, CheckCall, Goto, histVars, Calls, Mints, TypeOK, CallInv, MintInv, NarrowInv, Past
<1>5. ASSUME NEW o \in Checks PROVE CheckInv(o)'
  <2> DEFINE k == Presented[c].cap
  <2>1. /\ c \in Checks /\ pc[c] = "idle" /\ verdict[c] = "none" /\ k \in Mints
        /\ UNCHANGED <<caps, revoked, verdict, quarantined>>
    BY CapabilityAssumption DEF IInv, CheckCall, CheckInv, Past, Descriptors, TypeOK
  <2>2. Chain(k) = ChainIn(caps, k)
    BY Chains
  <2>3. CASE o # c
    <3>1. pc'[o] = pc[o] /\ (o \in condemned' <=> o \in condemned)
          /\ (o \in confined' <=> o \in confined)
      BY <2>3 DEF IInv, TypeOK, CheckCall, Goto, Calls
    <3>2. CheckInv(o)
      BY DEF IInv
    <3> QED
      BY <2>1, <3>1, <3>2 DEF CheckInv
  <2>4. CASE o = c
    <3>1. /\ pc'[c] = IF k \in DOMAIN caps \ revoked THEN "gate" ELSE "walk"
          /\ c \in condemned' => ChainIn(caps, k) \cap revoked # {}
          /\ c \in confined' => k \in DOMAIN caps /\ caps[k].subject \in quarantined
      BY <2>1, <2>2 DEF IInv, TypeOK, CheckCall, Goto, CheckInv
    <3> QED
      BY <2>1, <2>4, <3>1 DEF CheckInv
  <2> QED
    BY <2>3, <2>4
<1> QED
  BY <1>1, <1>2, <1>3, <1>4, <1>5 DEF IInv

LEMMA CheckGateKeeps ==
    ASSUME IInv, NEW c \in Calls, CheckGate(c)
    PROVE  IInv'
<1>1. TypeOK'
  BY CapabilityAssumption DEF IInv, CallInv, CheckGate, Goto, histVars, Calls, TypeOK, Steps
<1>2. ASSUME NEW o \in Calls PROVE CallInv(o)'
  BY CapabilityAssumption DEF IInv, CheckGate, Goto, histVars, Calls, TypeOK, CallInv
<1>3. ASSUME NEW o \in Mints PROVE MintInv(o)'
  BY CapabilityAssumption DEF IInv, CheckGate, Goto, histVars, Calls, Mints, TypeOK, CallInv, MintInv, Past
<1>4. ASSUME NEW o \in Attenuates PROVE NarrowInv(o)'
  BY CapabilityAssumption DEF IInv, CheckGate, Goto, histVars, Calls, Mints, TypeOK, CallInv, MintInv, NarrowInv, Past
<1>5. ASSUME NEW o \in Checks PROVE CheckInv(o)'
  BY CapabilityAssumption DEF IInv, CheckGate, Goto, histVars, Calls, Mints, TypeOK, CallInv, CheckInv, Past
<1> QED
  BY <1>1, <1>2, <1>3, <1>4, <1>5 DEF IInv

LEMMA CheckWalkKeeps ==
    ASSUME IInv, NEW c \in Calls, CheckWalk(c)
    PROVE  IInv'
<1> DEFINE v == Evaluate(Presented[c])
<1>1. /\ c \in Checks /\ c \notin Mints /\ pc[c] = "walk" /\ Presented[c].cap \in Mints
      /\ UNCHANGED <<caps, revoked, built, quarantined, receipts, clock, condemned,
                     confined, flips, faults>>
  BY CapabilityAssumption DEF CheckWalk, histVars, IInv, CallInv, Descriptors
<1>2. PICK s \in {"record", "failed"} :
         /\ pc' = [pc EXCEPT ![c] = s]
         /\ verdict' = IF s = "failed" THEN verdict ELSE [verdict EXCEPT ![c] = v]
         /\ v = "error" <=> s = "failed"
  BY <1>1 DEF CheckWalk, Goto
<1>3. v \in {"error", "permit", "deny"}
  <2>1. ASSUME NEW n PROVE Visit(Presented[c].cap, n) \in {"root", "error", "deny", "on"}
    BY DEF Visit
  <2> QED
    BY <2>1, WalkStops DEF Evaluate, Walk
<1>4. v = "permit" => c \notin condemned /\ c \notin confined
  <2>1. SUFFICES ASSUME v = "permit" PROVE c \notin condemned /\ c \notin confined
    OBVIOUS
  <2>2. \A x \in Chain(Presented[c].cap) : x \notin revoked
    BY <2>1, PermitSound DEF Sound
  <2>3. Presented[c].cap \in Chain(Presented[c].cap)
    BY <1>1, LeafInChain
  <2>4. Chain(Presented[c].cap) = ChainIn(caps, Presented[c].cap)
    BY Chains
  <2> QED
    BY <1>1, <2>2, <2>3, <2>4 DEF IInv, CheckInv
<1> HIDE DEF v
<1>5. TypeOK'
  BY <1>1, <1>2, <1>3 DEF IInv, TypeOK, Steps
<1>6. ASSUME NEW o \in Calls PROVE CallInv(o)'
  BY <1>1, <1>2 DEF IInv, TypeOK, CallInv
<1>7. ASSUME NEW o \in Mints PROVE MintInv(o)'
  BY <1>1, <1>2 DEF IInv, TypeOK, MintInv, Calls
<1>8. ASSUME NEW o \in Attenuates PROVE NarrowInv(o)'
  BY <1>1, <1>2 DEF IInv, TypeOK, NarrowInv, Calls, Mints
<1>9. ASSUME NEW o \in Checks PROVE CheckInv(o)'
  <2>1. pc \in [Calls -> Steps] /\ verdict \in [Checks -> {"none", "permit", "deny"}] /\ CheckInv(o)
        /\ o \in Calls
    BY DEF IInv, TypeOK, Calls
  <2>2. CASE o # c
    <3>1. pc'[o] = pc[o] /\ verdict'[o] = verdict[o]
      BY <1>2, <2>1, <2>2
    <3> QED
      BY <1>1, <2>1, <3>1 DEF CheckInv
  <2>3. CASE o = c
    <3>1. pc'[c] \in {"record", "failed"} /\ verdict'[c] \in {verdict[c], v}
      BY <1>1, <1>2, <2>1
    <3> QED
      BY <1>1, <1>4, <2>1, <2>3, <3>1 DEF CheckInv, Past
  <2> QED
    BY <2>2, <2>3
<1> QED
  BY <1>5, <1>6, <1>7, <1>8, <1>9 DEF IInv

LEMMA RecordKeeps ==
    ASSUME IInv, NEW c \in Calls, Record(c)
    PROVE  IInv'
<1>1. TypeOK'
  BY CapabilityAssumption DEF IInv, CallInv, Record, Goto, histVars, Calls, TypeOK, Steps
<1>2. ASSUME NEW o \in Calls PROVE CallInv(o)'
  BY CapabilityAssumption DEF IInv, Record, Goto, histVars, Calls, TypeOK, CallInv
<1>3. ASSUME NEW o \in Mints PROVE MintInv(o)'
  BY CapabilityAssumption DEF IInv, Record, Goto, histVars, Calls, Mints, TypeOK, CallInv, MintInv, Past
<1>4. ASSUME NEW o \in Attenuates PROVE NarrowInv(o)'
  BY CapabilityAssumption DEF IInv, Record, Goto, histVars, Calls, Mints, TypeOK, CallInv, MintInv, NarrowInv, Past
<1>5. ASSUME NEW o \in Checks PROVE CheckInv(o)'
  BY CapabilityAssumption DEF IInv, Record, Goto, histVars, Calls, Mints, TypeOK, CallInv, CheckInv, Past
<1> QED
  BY <1>1, <1>2, <1>3, <1>4, <1>5 DEF IInv

LEMMA RecordFailsKeeps ==
    ASSUME IInv, NEW c \in Calls, RecordFails(c)
    PROVE  IInv'
<1>1. TypeOK'
  BY CapabilityAssumption DEF IInv, CallInv, RecordFails, Goto, histVars, Calls, TypeOK, Steps
<1>2. ASSUME NEW o \in Calls PROVE CallInv(o)'
  BY CapabilityAssumption DEF IInv, RecordFails, Goto, histVars, Calls, TypeOK, CallInv
<1>3. ASSUME NEW o \in Mints PROVE MintInv(o)'
  BY CapabilityAssumption DEF IInv, RecordFails, Goto, histVars, Calls, Mints, TypeOK, CallInv, MintInv, Past
<1>4. ASSUME NEW o \in Attenuates PROVE NarrowInv(o)'
  BY CapabilityAssumption DEF IInv, RecordFails, Goto, histVars, Calls, Mints, TypeOK, CallInv, MintInv, NarrowInv, Past
<1>5. ASSUME NEW o \in Checks PROVE CheckInv(o)'
  BY CapabilityAssumption DEF IInv, RecordFails, Goto, histVars, Calls, Mints, TypeOK, CallInv, CheckInv, Past
<1> QED
  BY <1>1, <1>2, <1>3, <1>4, <1>5 DEF IInv

LEMMA FlipQuarantineKeeps ==
    ASSUME IInv, NEW a \in Agents, FlipQuarantine(a)
    PROVE  IInv'
<1>1. TypeOK'
  BY CapabilityAssumption DEF IInv, FlipQuarantine, TypeOK
<1>2. ASSUME NEW o \in Calls PROVE CallInv(o)'
  BY DEF IInv, FlipQuarantine, CallInv
<1>3. ASSUME NEW o \in Mints PROVE MintInv(o)'
  BY DEF IInv, FlipQuarantine, MintInv
<1>4. ASSUME NEW o \in Attenuates PROVE NarrowInv(o)'
  BY DEF IInv, FlipQuarantine, NarrowInv
<1>5. ASSUME NEW o \in Checks PROVE CheckInv(o)'
  BY DEF IInv, FlipQuarantine, CheckInv
<1> QED
  BY <1>1, <1>2, <1>3, <1>4, <1>5 DEF IInv

LEMMA IInvNext == IInv /\ [Next]_vars => IInv'
<1> SUFFICES ASSUME IInv, [Next]_vars PROVE IInv'
  OBVIOUS
<1>1. CASE Next
  <2>1. ASSUME NEW c \in Calls,
               \/ IssueCall(c) \/ AttenuateCall(c) \/ MintGate(c) \/ CheckParent(c)
               \/ Insert(c) \/ RevokeCall(c) \/ Mark(c)
        PROVE  IInv'
    BY <2>1, IssueCallKeeps, AttenuateCallKeeps, MintGateKeeps, CheckParentKeeps,
       InsertKeeps, RevokeCallKeeps, MarkKeeps
  <2>2. ASSUME NEW c \in Calls,
               \/ CheckCall(c) \/ CheckGate(c) \/ CheckWalk(c) \/ Record(c) \/ RecordFails(c)
        PROVE  IInv'
    BY <2>2, CheckCallKeeps, CheckGateKeeps, CheckWalkKeeps, RecordKeeps, RecordFailsKeeps
  <2>3. ASSUME NEW a \in Agents, FlipQuarantine(a) PROVE IInv'
    BY <2>3, FlipQuarantineKeeps
  <2>4. CASE Tick
    <3>1. TypeOK'
      BY <2>4, CapabilityAssumption DEF IInv, Tick, TypeOK, histVars
    <3>2. UNCHANGED <<pc, caps, revoked, built, verdict, quarantined, condemned, confined>>
      BY <2>4 DEF Tick, histVars
    <3> QED
      BY <3>1, <3>2 DEF IInv, CallInv, MintInv, NarrowInv, CheckInv
  <2> QED
    BY <1>1, <2>1, <2>2, <2>3, <2>4 DEF Next
<1>2. CASE UNCHANGED vars
  BY <1>2 DEF vars, histVars, IInv, TypeOK, CallInv, MintInv, NarrowInv, CheckInv
<1> QED
  BY <1>1, <1>2

-----------------------------------------------------------------------------
(* The theorems *)

LEMMA IInvAlways == Spec => []IInv
  BY IInvInit, IInvNext, PTL DEF Spec

LEMMA StoreGrows ==
    ASSUME IInv, [Next]_vars
    PROVE  Grown(caps, caps')
<1>1. ASSUME NEW c \in Calls, Insert(c) PROVE Grown(caps, caps')
  BY <1>1, InsertGrows
<1>2. CASE caps' = caps
  BY <1>2 DEF Grown
<1>3. (\E c \in Calls : Insert(c)) \/ caps' = caps
  BY DEF Next, vars, IssueCall, AttenuateCall, MintGate, CheckParent, RevokeCall, Mark,
         CheckCall, CheckGate, CheckWalk, Record, RecordFails, FlipQuarantine, Tick
<1> QED
  BY <1>1, <1>2, <1>3

\* Only the walk permits.
LEMMA PermitStep ==
    ASSUME IInv, [Next]_vars, NEW c \in Checks, verdict[c] # "permit", verdict'[c] = "permit"
    PROVE  Evaluate(Presented[c]) = "permit" /\ caps' = caps
<1>1. verdict \in [Checks -> {"none", "permit", "deny"}]
  BY DEF IInv, TypeOK
<1>2. PICK o \in Calls : CheckGate(o) \/ CheckWalk(o)
  <2>1. verdict' # verdict
    OBVIOUS
  <2> QED
    BY <2>1 DEF Next, vars, IssueCall, AttenuateCall, MintGate, CheckParent, Insert, RevokeCall,
                Mark, CheckCall, Record, RecordFails, FlipQuarantine, Tick
<1>3. CASE CheckGate(o)
  BY <1>1, <1>3 DEF CheckGate
<1>4. CASE CheckWalk(o)
  <2>1. verdict' = verdict \/ verdict' = [verdict EXCEPT ![o] = Evaluate(Presented[o])]
    BY <1>4 DEF CheckWalk
  <2>2. o = c /\ Evaluate(Presented[c]) = "permit"
    BY <1>1, <2>1
  <2> QED
    BY <1>4, <2>2 DEF CheckWalk
<1> QED
  BY <1>2, <1>3, <1>4

\* Types of the store, the calls and the verdicts; only stored capabilities
\* are revoked (revoke looks the capability up first).
THEOREM CapabilityTypeCorrect == Spec => []TypeOK
<1>1. IInv => TypeOK
  BY DEF IInv
<1> QED
  BY <1>1, IInvAlways, PTL

\* CondemnedDenied holds of check_inner's walk whatever the calls, the depth
\* limit and the quarantines, with grafts and cycles among the requests: a
\* check that begins once a capability of its chain is revoked, or whose
\* subject is quarantined throughout, is never permitted.
THEOREM CondemnedNeverPermitted == Spec => []CondemnedDenied
<1>1. IInv => CondemnedDenied
  BY DEF IInv, TypeOK, CheckInv, CondemnedDenied
<1> QED
  BY <1>1, IInvAlways, PTL

\* ExpiredChainDenied: the walk compares every link's expiry with the wall
\* clock, so no check is permitted past the expiry any mint of the chain asked
\* for.
THEOREM ExpiredNeverPermitted == Spec => ExpiredChainDenied
<1>1. ASSUME IInv, [Next]_vars, NEW c \in Checks, verdict[c] # "permit", verdict'[c] = "permit",
             NEW k \in Chain(Presented[c].cap)
      PROVE  clock <= Request[k].until.wall
  <2>1. Sound(k)
    BY <1>1, PermitStep, PermitSound
  <2>2. k \in DOMAIN caps /\ k \in Mints /\ clock <= caps[k].until.wall
    BY <1>1, <2>1 DEF Sound, IInv, TypeOK
  <2>3. caps[k].until = Request[k].until
    BY <1>1, <2>2 DEF IInv, MintInv
  <2> QED
    BY <2>2, <2>3
<1>2. IInv /\ [Next]_vars =>
        [\A c \in Checks : (verdict[c] # "permit" /\ verdict'[c] = "permit") =>
            \A k \in Chain(Presented[c].cap) : clock <= Request[k].until.wall]_vars
  BY <1>1
<1> QED
  BY <1>2, IInvAlways, PTL DEF Spec, ExpiredChainDenied

\* Only attenuations name a parent.
NoGrafts == \A c \in Issues : Request[c].parent = << >>

LEMMA StoreDerived ==
    ASSUME NoGrafts, IInv, NEW x \in DOMAIN caps
    PROVE  Derived(x)
<1>1. x \in Mints /\ caps[x] = built[x] /\ built[x].parent = Request[x].parent
  BY DEF IInv, TypeOK, MintInv
<1>2. CASE x \in Issues
  BY <1>1, <1>2 DEF IInv, MintInv, NoGrafts, Derived
<1>3. CASE x \in Attenuates
  BY <1>1, <1>3, CapabilityAssumption DEF IInv, NarrowInv, Derived
<1> QED
  BY <1>1, <1>2, <1>3 DEF Mints

LEMMA HeldStep ==
    ASSUME NoGrafts, IInv, [Next]_vars, NEW c \in Checks, HeldInv(c)
    PROVE  HeldInv(c)'
<1> DEFINE d == Presented[c]
<1>1. d \in Descriptors /\ d.cap \in Mints
  BY CapabilityAssumption DEF Descriptors
<1>2. SUFFICES ASSUME verdict'[c] = "permit"
               PROVE  /\ ChainIn(caps', d.cap) \subseteq DOMAIN caps'
                      /\ \A x \in ChainIn(caps', d.cap) :
                            Permits(Request[x].scope, d) /\ Request[x].caveats \subseteq d.meets
  BY DEF HeldInv
<1>3. CASE verdict[c] = "permit"
  <2>1. Grown(caps, caps')
    BY StoreGrows
  <2>2. ChainIn(caps, d.cap) \subseteq DOMAIN caps
    BY <1>3 DEF HeldInv
  <2>3. \A x \in DOMAIN caps : caps[x].parent \in Option(Mints)
    BY DEF IInv, TypeOK, Minted
  <2>4. ChainIn(caps', d.cap) = ChainIn(caps, d.cap)
    BY <1>1, <2>1, <2>2, <2>3, ChainSettled
  <2>5. DOMAIN caps \subseteq DOMAIN caps'
    BY <2>1 DEF Grown
  <2> QED
    BY <1>3, <2>2, <2>4, <2>5 DEF HeldInv
<1>4. CASE verdict[c] # "permit"
  <2>1. Evaluate(d) = "permit" /\ caps' = caps
    BY <1>2, <1>4, PermitStep
  <2>2. PICK e \in 1..MaxDepth : Rooted(d.cap, e)
    BY <2>1, PermitSound
  <2>3. /\ \A x \in Chain(d.cap) : Sound(x) /\ caps[x].caveats \subseteq d.meets
        /\ Permits(EffectiveScope(d.cap), d)
    BY <2>1, PermitSound
  <2>4. Chain(d.cap) = ChainIn(caps, d.cap)
    BY Chains
  <2>5. ASSUME NEW x \in ChainIn(caps, d.cap)
        PROVE  /\ x \in DOMAIN caps /\ Permits(Request[x].scope, d)
               /\ Request[x].caveats \subseteq d.meets
    <3>1. x \in DOMAIN caps /\ caps[x].caveats \subseteq d.meets
      BY <2>3, <2>4 DEF Sound
    <3>2. x \in Mints /\ caps[x] = built[x] /\ Request[x].caveats \subseteq built[x].caveats
      BY <3>1 DEF IInv, TypeOK, MintInv
    <3>3. TypeOK /\ \A y \in DOMAIN caps : Derived(y)
      BY StoreDerived DEF IInv
    <3>4. Permits(Request[x].scope, d)
      BY <1>1, <2>2, <2>3, <2>4, <3>3, PermitsEveryMint
    <3> QED
      BY <3>1, <3>2, <3>4
  <2> QED
    BY <2>1, <2>5
<1> QED
  BY <1>3, <1>4

\* ConstraintsHold, where only attenuations name a parent: attenuate's
\* narrowing and the store's test for a child that broadens keep every scope
\* within its parent's, so the scope and the caveats of every mint along the
\* chain bind a permitted action.  With an Issue that names a parent it fails:
\* the run on a graft shows how.
THEOREM ConstraintsBind ==
    ASSUME NoGrafts
    PROVE  Spec => []ConstraintsHold
<1> DEFINE Inv == \A c \in Checks : HeldInv(c)
<1>1. Init => Inv
  BY DEF Init, HeldInv
<1>2. IInv /\ Inv /\ [Next]_vars => Inv'
  BY HeldStep
<1>3. Inv => ConstraintsHold
  BY Chains DEF HeldInv, ConstraintsHold
<1> HIDE DEF Inv
<1> QED
  BY <1>1, <1>2, <1>3, IInvAlways, PTL DEF Spec
=============================================================================
