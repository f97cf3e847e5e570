---------------------------- MODULE AnchorProofs ----------------------------
(***************************************************************************)
(* Proofs about Anchor: the seal store never runs ahead of the chain, the  *)
(* batches on chain follow one another in time, and the watermark passes   *)
(* over a receipt only when it came late or tied at a full batch's end,    *)
(* for every threshold, batch size, page, number of retries, of crashes    *)
(* and of receipts.                                                        *)
(***************************************************************************)
EXTENDS Anchor, WellFoundedInduction, TLAPS

LOCAL INSTANCE FiniteSetsExt

-----------------------------------------------------------------------------
(* Least and greatest elements *)

\* A non-empty set of naturals has a least element.
LEMMA LeastNat ==
    ASSUME NEW S, S \subseteq Nat, S # {}
    PROVE  \E m \in S : \A k \in S : m <= k
<1> DEFINE R == {ss \in Nat \X Nat : ss[1] < ss[2]}
<1>1. OpToRel(<, Nat) = R
  BY DEF OpToRel
<1>2. IsWellFoundedOn(R, Nat)
  BY <1>1, NatLessThanWellFounded
<1> HIDE DEF R
<1>3. PICK m \in S : \A k \in S : ~ (<<k, m>> \in R)
  BY <1>2, WFMin
<1>4. ASSUME NEW k \in S PROVE m <= k
  <2>1. m \in Nat /\ k \in Nat
    OBVIOUS
  <2>2. k < m => <<k, m>> \in R
    BY <2>1 DEF R
  <2> QED
    BY <1>3, <2>1, <2>2
<1> QED
  BY <1>4

\* A non-empty bounded set of naturals has a greatest one.
LEMMA GreatestNat ==
    ASSUME NEW S, S \subseteq Nat, S # {}, NEW b \in Nat, \A k \in S : k <= b
    PROVE  \E m \in S : \A k \in S : k <= m
<1> DEFINE D == {d \in Nat : b - d \in S}
<1>1. ASSUME NEW k \in S PROVE k \in Nat /\ k <= b /\ b - k \in D
  <2>1. k \in Nat /\ k <= b
    OBVIOUS
  <2>2. b - k \in Nat /\ b - (b - k) = k
    BY <2>1
  <2> QED
    BY <2>1, <2>2
<1>2. D \subseteq Nat
  OBVIOUS
<1>3. D # {}
  BY <1>1
<1>4. PICK d \in D : \A e \in D : d <= e
  <2> HIDE DEF D
  <2> QED
    BY <1>2, <1>3, LeastNat
<1>5. d \in Nat /\ b - d \in S
  OBVIOUS
<1>6. ASSUME NEW k \in S PROVE k <= b - d
  <2>1. k \in Nat /\ k <= b /\ d <= b - k
    BY <1>1, <1>4
  <2> QED
    BY <1>5, <2>1
<1> QED
  BY <1>5, <1>6

-----------------------------------------------------------------------------
(* Batches *)

\* Readings of a clock that starts at one and stops at its bound.
Times == 1 .. MaxClock + 1
Recs == [id : Nat, ns : Times]

\* compute_ns_range gives the times of a first and a last receipt.
LEMMA RangeFacts ==
    ASSUME NEW b, b \subseteq Recs, b # {}
    PROVE  /\ NsStart(b) \in NsOf(b) /\ NsEnd(b) \in NsOf(b)
           /\ NsStart(b) \in Times /\ NsEnd(b) \in Times
           /\ \A r \in b : NsStart(b) <= r.ns /\ r.ns <= NsEnd(b)
<1>1. MaxClock \in Nat
  BY AnchorAssumption
<1>2. NsOf(b) \subseteq Times /\ NsOf(b) # {}
  BY DEF NsOf, Recs
<1>3. NsOf(b) \subseteq Nat /\ \A k \in NsOf(b) : k <= MaxClock + 1
  BY <1>1, <1>2 DEF Times
<1>4. \E m \in NsOf(b) : \A k \in NsOf(b) : m =< k
  BY <1>2, <1>3, LeastNat
<1>5. \E m \in NsOf(b) : \A k \in NsOf(b) : k <= m
  BY <1>1, <1>2, <1>3, GreatestNat
<1>6. \E m \in NsOf(b) : \A k \in NsOf(b) : m >= k
  BY <1>3, <1>5
<1>7. NsStart(b) \in NsOf(b) /\ \A k \in NsOf(b) : NsStart(b) =< k
  BY <1>4 DEF NsStart, Min
<1>8. NsEnd(b) \in NsOf(b) /\ \A k \in NsOf(b) : NsEnd(b) >= k
  BY <1>6 DEF NsEnd, Max
<1>9. \A r \in b : r.ns \in NsOf(b)
  BY DEF NsOf
<1> QED
  BY <1>2, <1>3, <1>7, <1>8, <1>9

-----------------------------------------------------------------------------
(* The inductive invariant *)

Statuses == {"pending", "success", "abort"}
Pcs == {"down", "fetch", "idle", "submit", "wait", "record"}

Types ==
    /\ clock \in Times /\ minted \in Nat
    /\ inflight \subseteq Recs /\ store \subseteq Recs
    /\ pc \in Pcs /\ watermark \in Nat
    /\ candidates \subseteq Recs
    /\ txs \in Seq([batch : SUBSET Recs, status : Statuses])
    /\ events \in Seq(SUBSET Recs) /\ lastEnd \in Nat

\* The chain has accepted a batch.
OnChain(b) == \E k \in DOMAIN events : events[k] = b

\* A batch is never empty.
BatchInv ==
    /\ pc \in {"submit", "wait", "record"} => candidates # {}
    /\ \A i \in DOMAIN txs : txs[i].batch # {}
    /\ \A k \in DOMAIN events : events[k] # {}

\* The driver waits for its last transaction, and records what that one committed.
WaitInv ==
    /\ pc \in {"wait", "record"} => txs # <<>> /\ txs[Len(txs)].batch = candidates
    /\ pc = "record" => txs[Len(txs)].status = "success"
    /\ \A i \in DOMAIN txs : txs[i].status = "success" => OnChain(txs[i].batch)
    /\ \A i \in DOMAIN seals : OnChain(seals[i])

\* The ranges on chain follow one another; the chain is never behind the driver.
ChainInv ==
    /\ \A k \in DOMAIN events : NsEnd(events[k]) <= lastEnd
    /\ \A j, k \in DOMAIN events : j < k => NsEnd(events[j]) <= NsStart(events[k])
    /\ watermark <= lastEnd

Covered(r) == r \in Anchored \union late \union cut

\* A batch holds what the store held up to its end, but for what is covered.
Took(b) == \A r \in store : r.ns <= NsEnd(b) => r \in b \/ Covered(r)

CoverInv ==
    /\ \A r \in store : r.ns <= lastEnd => Covered(r)
    /\ candidates # {} => Took(candidates)
    /\ \A i \in DOMAIN txs : Took(txs[i].batch)

IInv == Types /\ BatchInv /\ WaitInv /\ ChainInv /\ CoverInv

LEMMA ElementOf ==
    ASSUME NEW T, NEW q \in Seq(T), NEW i \in DOMAIN q
    PROVE  q[i] \in T
  OBVIOUS

LEMMA TxTypes ==
    ASSUME Types, NEW i \in DOMAIN txs
    PROVE  txs[i].batch \subseteq Recs /\ txs[i].status \in Statuses
<1> DEFINE T == [batch : SUBSET Recs, status : Statuses]
<1>0. txs \in Seq(T)
  BY DEF Types
<1>1. txs[i] \in T
  <2> HIDE DEF T
  <2> QED
    BY <1>0, ElementOf
<1>2. txs[i].batch \in SUBSET Recs /\ txs[i].status \in Statuses
  BY <1>1, Zenon
<1> QED
  BY <1>2

LEMMA EventTypes ==
    ASSUME Types, NEW k \in DOMAIN events
    PROVE  events[k] \subseteq Recs
  BY DEF Types

-----------------------------------------------------------------------------
(* Initially *)

LEMMA InitHolds == Init => IInv
<1> SUFFICES ASSUME Init PROVE IInv
  OBVIOUS
<1>1. MaxClock \in Nat
  BY AnchorAssumption
<1>2. Types
  BY <1>1 DEF Init, Types, Times, Pcs
<1>3. BatchInv /\ WaitInv /\ ChainInv /\ CoverInv
  BY DEF Init, BatchInv, WaitInv, ChainInv, CoverInv
<1> QED
  BY <1>2, <1>3 DEF IInv

-----------------------------------------------------------------------------
(* Steps that leave the store, the chain, the seals and the batch alone *)

Still == UNCHANGED <<store, late, cut, seals, watermark, candidates, txs, events, lastEnd>>

LEMMA StillHolds ==
    ASSUME IInv, Still
    PROVE  /\ ChainInv' /\ CoverInv'
           /\ (\A i \in DOMAIN txs : txs[i].batch # {})'
           /\ (\A k \in DOMAIN events : events[k] # {})'
           /\ (\A i \in DOMAIN txs : txs[i].status = "success" => OnChain(txs[i].batch))'
           /\ (\A i \in DOMAIN seals : OnChain(seals[i]))'
<1>1. ChainInv'
  BY DEF IInv, Still, ChainInv
<1>2. CoverInv'
  BY DEF IInv, Still, CoverInv, Took, Covered, Anchored
<1> QED
  BY <1>1, <1>2 DEF IInv, Still, BatchInv, WaitInv, OnChain

LEMMA QuietNext ==
    ASSUME IInv, Tick \/ Stamp \/ FetchFails \/ Confirmed \/ TimedOut
    PROVE  IInv'
<1>1. Still
  BY DEF Still, Tick, Stamp, FetchFails, Confirmed, TimedOut, stampVars, driverVars, chainVars
<1>2. MaxClock \in Nat
  BY AnchorAssumption
<1>3. Types'
  <2>1. CASE Tick
    BY <1>2, <2>1 DEF IInv, Types, Tick, driverVars, chainVars, Times
  <2>2. CASE Stamp
    <3>1. [id |-> minted + 1, ns |-> clock] \in Recs
      BY DEF IInv, Types, Recs
    <3> QED
      BY <2>2, <3>1 DEF IInv, Types, Stamp, driverVars, chainVars
  <2>3. CASE FetchFails \/ Confirmed \/ TimedOut
    BY <2>3 DEF IInv, Types, FetchFails, Confirmed, TimedOut, Goto, stampVars, chainVars, Pcs
  <2> QED
    BY <2>1, <2>2, <2>3
<1>4. BatchInv' /\ WaitInv'
  <2>1. CASE Tick \/ Stamp
    <3>1. UNCHANGED pc
      BY <2>1 DEF Tick, Stamp, driverVars
    <3> QED
      BY <1>1, <3>1, StillHolds DEF IInv, BatchInv, WaitInv, Still
  <2>2. CASE FetchFails
    BY <1>1, <2>2, StillHolds DEF IInv, BatchInv, WaitInv, Still, FetchFails, Goto
  <2>3. CASE Confirmed
    BY <1>1, <2>3, StillHolds DEF IInv, BatchInv, WaitInv, Still, Confirmed, Goto, Mine
  <2>4. CASE TimedOut
    BY <1>1, <2>4, StillHolds DEF IInv, BatchInv, WaitInv, Still, TimedOut, Goto
  <2> QED
    BY <2>1, <2>2, <2>3, <2>4
<1> QED
  BY <1>1, <1>3, <1>4, StillHolds DEF IInv

-----------------------------------------------------------------------------
(* A receipt arrives: late, if something has reached its time *)

LEMMA AppendNext ==
    ASSUME IInv, NEW r \in inflight, AppendReceipt(r)
    PROVE  IInv'
<1> USE DEF IInv
<1>1. UNCHANGED <<cut, seals, watermark, candidates, txs, events, lastEnd, pc>>
  BY DEF AppendReceipt, driverVars, chainVars
<1>2. store' = store \union {r}
  BY DEF AppendReceipt
<1>3. Types'
  BY DEF Types, AppendReceipt, driverVars, chainVars
<1>4. BatchInv' /\ WaitInv' /\ ChainInv'
  BY <1>1 DEF BatchInv, WaitInv, ChainInv, OnChain
<1>5. late \subseteq late'
  BY DEF AppendReceipt
<1>6. ASSUME NEW n \in Reached, r.ns <= n PROVE r \in late'
  BY <1>6 DEF AppendReceipt
<1>7. \A x : Covered(x) => Covered(x)'
  BY <1>1, <1>5 DEF Covered, Anchored
<1>8. ASSUME NEW b, Took(b), b \subseteq Recs, b # {}, NsOf(b) \subseteq Reached
      PROVE  Took(b)'
  <2>1. NsEnd(b) \in Reached
    BY <1>8, RangeFacts
  <2>2. r.ns <= NsEnd(b) => Covered(r)'
    BY <1>6, <2>1 DEF Covered
  <2> QED
    BY <1>2, <1>7, <1>8, <2>2 DEF Took
<1>9. CoverInv'
  <2>1. r.ns <= lastEnd => Covered(r)'
    BY <1>6 DEF Covered, Reached
  <2>2. candidates # {} => Took(candidates)'
    <3>1. candidates # {} => /\ Took(candidates) /\ candidates \subseteq Recs
                             /\ NsOf(candidates) \subseteq Reached
      BY DEF CoverInv, Types, Reached
    <3>2. ASSUME NEW b, b = candidates, b # {} PROVE Took(b)'
      BY <1>8, <3>1, <3>2
    <3> QED
      BY <1>1, <3>2 DEF Took
  <2>3. ASSUME NEW i \in DOMAIN txs PROVE Took(txs[i].batch)'
    <3>1. txs[i].batch \subseteq Recs /\ txs[i].batch # {}
      BY TxTypes DEF BatchInv
    <3>2. NsOf(txs[i].batch) \subseteq Reached
      BY DEF Reached
    <3>3. Took(txs[i].batch)
      BY DEF CoverInv
    <3>4. ASSUME NEW b, b = txs[i].batch PROVE Took(b)'
      BY <1>8, <3>1, <3>2, <3>3, <3>4
    <3> QED
      BY <1>1, <3>4 DEF Took
  <2> QED
    BY <1>1, <1>2, <1>7, <2>1, <2>2, <2>3 DEF CoverInv, Took
<1> QED
  BY <1>3, <1>4, <1>9

-----------------------------------------------------------------------------
(* The driver takes a batch, or drops it *)

LEMMA FetchNext == ASSUME IInv, Fetch PROVE IInv'
<1> USE DEF IInv
<1>1. UNCHANGED <<store, late, seals, watermark, txs, events, lastEnd>>
  BY DEF Fetch, stampVars, chainVars
<1>2. cut \subseteq cut'
  BY DEF Fetch
<1>3. \A x : Covered(x) => Covered(x)'
  BY <1>1, <1>2 DEF Covered, Anchored
<1>4. ChainInv'
  BY <1>1 DEF ChainInv
<1>5. \/ candidates' = {} /\ pc' = "idle"
      \/ /\ pc' = "submit" /\ candidates' # {} /\ candidates' \subseteq Recs
         /\ \A r \in store : r.ns <= NsEnd(candidates') => r \in candidates' \/ Covered(r)'
  <2>1. PICK S \in fetch_candidates(store) :
           \/ /\ S # {} /\ candidates' = S /\ pc' = "submit"
              /\ cut' = cut \union {r \in store \ S : r.ns = NsEnd(S)}
           \/ candidates' = {} /\ pc' = "idle"
    BY DEF Fetch, Goto
  <2>2. CASE candidates' = {} /\ pc' = "idle"
    BY <2>2
  <2>3. CASE /\ S # {} /\ candidates' = S /\ pc' = "submit"
             /\ cut' = cut \union {r \in store \ S : r.ns = NsEnd(S)}
    <3> DEFINE above == {r \in store : r.ns >= watermark + 1}
    <3>1. S \subseteq above /\ \A r \in S, s \in above \ S : r.ns <= s.ns
      BY DEF fetch_candidates
    <3>2. S \subseteq Recs
      BY <3>1 DEF Types
    <3>3. ASSUME NEW r \in store, r.ns <= NsEnd(S) PROVE r \in S \/ Covered(r)'
      <4>1. r.ns \in Times /\ NsEnd(S) \in NsOf(S) /\ NsEnd(S) \in Times
        BY <2>3, <3>2, RangeFacts DEF Types, Recs
      <4>2. r.ns \in Nat /\ NsEnd(S) \in Nat /\ watermark \in Nat /\ lastEnd \in Nat
        BY <4>1, AnchorAssumption DEF Times, Types
      <4>3. CASE r.ns <= watermark
        <5>1. r.ns <= lastEnd
          BY <4>2, <4>3 DEF ChainInv
        <5> QED
          BY <1>3, <5>1 DEF CoverInv
      <4>4. CASE ~(r.ns <= watermark) /\ r \notin S
        <5>1. r \in above \ S
          BY <4>2, <4>4
        <5>2. PICK s \in S : NsEnd(S) = s.ns
          BY <4>1 DEF NsOf
        <5>3. s.ns <= r.ns
          BY <3>1, <5>1
        <5>4. r.ns = NsEnd(S)
          BY <3>3, <4>2, <5>2, <5>3
        <5> QED
          BY <2>3, <4>4, <5>4 DEF Covered
      <4> QED
        BY <4>3, <4>4
    <3> QED
      BY <2>3, <3>2, <3>3
  <2> QED
    BY <2>1, <2>2, <2>3
<1>6. Types'
  BY <1>1, <1>5 DEF Types, Fetch, stampVars, Pcs
<1>7. BatchInv' /\ WaitInv'
  BY <1>1, <1>5 DEF BatchInv, WaitInv, OnChain
<1>8. CoverInv'
  <2>1. (\A r \in store : r.ns <= lastEnd => Covered(r))'
    BY <1>1, <1>3 DEF CoverInv
  <2>2. (candidates # {} => Took(candidates))'
    BY <1>1, <1>5 DEF Took
  <2>3. (\A i \in DOMAIN txs : Took(txs[i].batch))'
    BY <1>1, <1>3 DEF CoverInv, Took
  <2> QED
    BY <2>1, <2>2, <2>3 DEF CoverInv
<1> QED
  BY <1>4, <1>6, <1>7, <1>8

\* The batch is dropped; the watermark stays, or is what the chain says.
LEMMA DropNext == ASSUME IInv, Wake \/ RecordFails \/ Boot \/ Crash PROVE IInv'
<1> USE DEF IInv
<1>1. UNCHANGED <<store, late, cut, seals, txs, events, lastEnd>>
  BY DEF Wake, RecordFails, Boot, Crash, stampVars, chainVars
<1>2. candidates' = {} /\ pc' \in {"fetch", "idle", "down"}
  BY DEF Wake, RecordFails, Boot, Crash, Goto
<1>3. watermark' \in {watermark, lastEnd}
  BY DEF Wake, RecordFails, Boot, Crash, read_anchor_state
<1>4. Types'
  <2>1. clock' \in Times /\ minted' \in Nat /\ inflight' \subseteq Recs
    BY AnchorAssumption DEF Types, Wake, RecordFails, Boot, Crash, stampVars, Times
  <2> QED
    BY <1>1, <1>2, <1>3, <2>1 DEF Types, Pcs
<1>5. BatchInv' /\ WaitInv'
  BY <1>1, <1>2 DEF BatchInv, WaitInv, OnChain
<1>6. ChainInv'
  BY <1>1, <1>3 DEF ChainInv, Types
<1>7. CoverInv'
  BY <1>1, <1>2 DEF CoverInv, Took, Covered, Anchored
<1> QED
  BY <1>4, <1>5, <1>6, <1>7

-----------------------------------------------------------------------------
(* The driver submits, and records what was committed *)

LEMMA SubmitNext == ASSUME IInv, Submit PROVE IInv'
<1> USE DEF IInv
<1>1. UNCHANGED <<store, late, cut, seals, watermark, candidates, events, lastEnd>>
  BY DEF Submit, stampVars
<1>2. CASE pc' = "idle" /\ UNCHANGED txs
  <2>1. Still
    BY <1>1, <1>2 DEF Still
  <2>2. Types'
    BY <1>1, <1>2 DEF Types, Submit, stampVars, Pcs
  <2> QED
    BY <1>2, <2>1, <2>2, StillHolds DEF BatchInv, WaitInv
<1>3. CASE /\ txs' = Append(txs, [batch |-> candidates, status |-> "pending"])
           /\ pc' = "wait"
  <2> DEFINE tx == [batch |-> candidates, status |-> "pending"]
  <2>1. tx \in [batch : SUBSET Recs, status : Statuses]
    BY DEF Types, Statuses
  <2>2. /\ Len(txs') = Len(txs) + 1 /\ DOMAIN txs' = 1 .. Len(txs) + 1
        /\ txs'[Len(txs) + 1] = tx
        /\ \A i \in 1 .. Len(txs) : txs'[i] = txs[i]
        /\ Len(txs) \in Nat /\ DOMAIN txs = 1 .. Len(txs)
    BY <1>3 DEF Types
  <2>3. \A i \in DOMAIN txs' : (i \in DOMAIN txs /\ txs'[i] = txs[i]) \/ txs'[i] = tx
    BY <2>2
  <2>4. Types'
    <3>1. txs' \in Seq([batch : SUBSET Recs, status : Statuses])
      BY <1>3, <2>1 DEF Types
    <3> QED
      BY <1>1, <1>3, <3>1 DEF Types, Submit, stampVars, Pcs
  <2>5. candidates # {} /\ Took(candidates)
    BY DEF Submit, BatchInv, CoverInv
  <2>6. BatchInv'
    BY <1>1, <1>3, <2>3, <2>5 DEF BatchInv
  <2>7. WaitInv'
    <3>1. txs' # <<>> /\ txs'[Len(txs')].batch = candidates'
      BY <1>1, <2>2
    <3>2. (\A i \in DOMAIN txs : txs[i].status = "success" => OnChain(txs[i].batch))'
      BY <1>1, <2>3 DEF WaitInv, OnChain
    <3> QED
      BY <1>1, <1>3, <3>1, <3>2 DEF WaitInv, OnChain
  <2>8. ChainInv'
    BY <1>1 DEF ChainInv
  <2>9. CoverInv'
    BY <1>1, <2>3, <2>5 DEF CoverInv, Took, Covered, Anchored
  <2> QED
    BY <2>4, <2>6, <2>7, <2>8, <2>9
<1> QED
  BY <1>2, <1>3 DEF Submit, Goto

LEMMA RecordNext == ASSUME IInv, Record PROVE IInv'
<1> USE DEF IInv
<1>1. UNCHANGED <<store, late, cut, txs, events, lastEnd>>
  BY DEF Record, stampVars, chainVars
<1>2. candidates' = {} /\ pc' \in {"fetch", "idle"}
  BY DEF Record, Goto
<1>3. candidates \subseteq Recs /\ candidates # {} /\ OnChain(candidates)
  <2>1. /\ pc = "record" /\ txs # <<>> /\ txs[Len(txs)].batch = candidates
        /\ txs[Len(txs)].status = "success"
    BY DEF Record, WaitInv
  <2>2. Len(txs) \in DOMAIN txs
    BY <2>1 DEF Types
  <2> QED
    BY <2>1, <2>2 DEF Types, BatchInv, WaitInv
<1>4. NsEnd(candidates) \in Times /\ NsEnd(candidates) <= lastEnd
  BY <1>3, RangeFacts DEF OnChain, ChainInv
<1>5. watermark' = watermark \/ watermark' = NsEnd(candidates)
  BY DEF Record
<1>6. ASSUME NEW i \in DOMAIN seals' PROVE OnChain(seals'[i])
  <2>1. CASE UNCHANGED seals
    BY <2>1 DEF WaitInv
  <2>2. CASE seals' = [j \in DOMAIN seals \union {r.id : r \in candidates} |->
                         IF \E r \in candidates : r.id = j THEN candidates ELSE seals[j]]
    <3>1. seals'[i] = candidates \/ (i \in DOMAIN seals /\ seals'[i] = seals[i])
      BY <2>2
    <3> QED
      BY <1>3, <3>1 DEF WaitInv
  <2> QED
    BY <2>1, <2>2 DEF Record
<1>7. Types'
  BY <1>1, <1>2, <1>4, <1>5, AnchorAssumption DEF Types, Record, stampVars, Pcs, Times
<1>8. BatchInv'
  BY <1>1, <1>2 DEF BatchInv
<1>9. WaitInv'
  BY <1>1, <1>2, <1>6 DEF WaitInv, OnChain
<1>10. ChainInv'
  BY <1>1, <1>4, <1>5 DEF ChainInv
<1>11. CoverInv'
  BY <1>1, <1>2 DEF CoverInv, Took, Covered, Anchored
<1> QED
  BY <1>7, <1>8, <1>9, <1>10, <1>11

-----------------------------------------------------------------------------
(* The contract executes a transaction *)

LEMMA CommitNext == ASSUME IInv, NEW i \in DOMAIN txs, commit_batch(i) PROVE IInv'
<1> USE DEF IInv
<1>0. PICK b : b = txs[i].batch
  OBVIOUS
<1>1. UNCHANGED <<clock, minted, inflight, store, late, cut, seals, watermark, candidates, pc>>
  BY DEF commit_batch, stampVars, driverVars
<1>2. /\ DOMAIN txs' = DOMAIN txs /\ Len(txs') = Len(txs) /\ (txs = <<>> <=> txs' = <<>>)
      /\ \A j \in DOMAIN txs : txs'[j].batch = txs[j].batch
      /\ \A j \in DOMAIN txs \ {i} : txs'[j] = txs[j]
      /\ txs'[i].status = IF Accepts(b) THEN "success" ELSE "abort"
      /\ txs' \in Seq([batch : SUBSET Recs, status : Statuses])
  <2>1. PICK s \in Statuses : /\ txs' = [txs EXCEPT ![i].status = s]
                              /\ s = IF Accepts(b) THEN "success" ELSE "abort"
    BY <1>0 DEF commit_batch, Statuses
  <2> DEFINE T == [batch : SUBSET Recs, status : Statuses]
  <2>2. txs \in Seq(T)
    BY DEF Types
  <2>3. txs[i] \in T
    <3> HIDE DEF T
    <3> QED
      BY <2>2, ElementOf
  <2> DEFINE tx == [txs[i] EXCEPT !.status = s]
  <2>4. tx \in T /\ tx.batch = txs[i].batch /\ tx.status = s
    BY <2>1, <2>3
  <2>5. txs' = [txs EXCEPT ![i] = tx]
    BY <2>1
  <2> HIDE DEF T, tx
  <2>6. /\ txs' \in Seq(T) /\ DOMAIN txs' = DOMAIN txs /\ Len(txs') = Len(txs)
        /\ txs'[i] = tx
        /\ \A j \in DOMAIN txs \ {i} : txs'[j] = txs[j]
    BY <2>2, <2>4, <2>5
  <2>7. txs # <<>> /\ txs' # <<>>
    BY <2>2, <2>6
  <2> QED
    BY <2>1, <2>4, <2>6, <2>7 DEF T
<1>3. CASE Accepts(b)
  <2>1. /\ txs' = [txs EXCEPT ![i].status = "success"]
        /\ events' = Append(events, b)
        /\ lastEnd' = NsEnd(b)
    BY <1>0, <1>3 DEF commit_batch
  <2>2. b \subseteq Recs /\ b # {}
    BY <1>0, TxTypes DEF BatchInv
  <2>3. /\ NsStart(b) >= lastEnd /\ NsStart(b) <= NsEnd(b)
        /\ NsStart(b) \in Nat /\ NsEnd(b) \in Nat /\ lastEnd \in Nat
    BY <1>3, <2>2, RangeFacts, AnchorAssumption DEF Accepts, canonical_preimage, Times, Types
  <2>4. /\ events' \in Seq(SUBSET Recs)
        /\ DOMAIN events' = 1 .. Len(events) + 1 /\ DOMAIN events = 1 .. Len(events)
        /\ Len(events) \in Nat
        /\ events'[Len(events) + 1] = b
        /\ \A k \in 1 .. Len(events) : events'[k] = events[k]
    BY <2>1, <2>2 DEF Types
  <2>5. \A x : OnChain(x) => OnChain(x)'
    BY <2>4 DEF OnChain
  <2>6. OnChain(b)'
    BY <2>4 DEF OnChain
  <2>7. \A x : Covered(x) => Covered(x)'
    BY <1>1, <2>4 DEF Covered, Anchored
  <2>8. ASSUME NEW x \in b PROVE Covered(x)'
    <3>1. \E k \in DOMAIN events' : x \in events'[k]
      BY <2>4
    <3> QED
      BY <3>1 DEF Covered, Anchored
  <2>9. Types'
    BY <1>1, <1>2, <2>1, <2>3, <2>4 DEF Types
  <2>10. BatchInv'
    BY <1>1, <1>2, <2>2, <2>4 DEF BatchInv
  <2>11. WaitInv'
    <3>1. ASSUME NEW j \in DOMAIN txs, txs'[j].status = "success" PROVE OnChain(txs[j].batch)'
      BY <1>0, <1>2, <2>5, <2>6, <3>1 DEF WaitInv
    <3>2. ASSUME NEW j \in DOMAIN seals PROVE OnChain(seals[j])'
      BY <1>1, <2>5 DEF WaitInv
    <3>3. txs[i].status = "pending"
      BY DEF commit_batch
    <3>4. pc = "record" => Len(txs) # i
      BY <3>3 DEF WaitInv
    <3>5. txs # <<>> => Len(txs) \in DOMAIN txs
      BY DEF Types
    <3> QED
      BY <1>1, <1>2, <3>1, <3>2, <3>4, <3>5 DEF WaitInv
  <2>12. ChainInv'
    <3>1. \A k \in DOMAIN events : NsEnd(events[k]) \in Nat
      BY RangeFacts, EventTypes, AnchorAssumption DEF BatchInv, Times
    <3>2. \A k \in DOMAIN events' : NsEnd(events'[k]) <= lastEnd'
      BY <2>1, <2>3, <2>4, <3>1 DEF ChainInv
    <3>3. \A j, k \in DOMAIN events' : j < k => NsEnd(events'[j]) <= NsStart(events'[k])
      BY <2>3, <2>4, <3>1 DEF ChainInv
    <3>4. watermark' <= lastEnd'
      BY <1>1, <2>1, <2>3 DEF ChainInv, Types
    <3> QED
      BY <3>2, <3>3, <3>4 DEF ChainInv
  <2>13. CoverInv'
    <3>1. ASSUME NEW r \in store, r.ns <= NsEnd(b) PROVE Covered(r)'
      BY <1>0, <2>7, <2>8, <3>1 DEF CoverInv, Took
    <3> QED
      BY <1>1, <1>2, <2>1, <2>7, <3>1 DEF CoverInv, Took
  <2> QED
    BY <2>9, <2>10, <2>11, <2>12, <2>13
<1>4. CASE ~Accepts(b)
  <2>1. txs' = [txs EXCEPT ![i].status = "abort"] /\ UNCHANGED <<events, lastEnd>>
    BY <1>0, <1>4 DEF commit_batch
  <2>2. Types'
    BY <1>1, <1>2, <2>1 DEF Types
  <2>3. BatchInv'
    BY <1>1, <1>2, <2>1 DEF BatchInv
  <2>4. WaitInv'
    <3>1. txs'[i].status = "abort" /\ txs[i].status = "pending"
      BY <1>2, <1>4 DEF commit_batch
    <3>2. pc = "record" => Len(txs) # i
      BY <3>1 DEF WaitInv
    <3>3. txs # <<>> => Len(txs) \in DOMAIN txs
      BY DEF Types
    <3>4. ASSUME NEW j \in DOMAIN txs, txs'[j].status = "success" PROVE OnChain(txs[j].batch)'
      BY <1>2, <2>1, <3>1, <3>4 DEF WaitInv, OnChain
    <3> QED
      BY <1>1, <1>2, <2>1, <3>2, <3>3, <3>4 DEF WaitInv, OnChain
  <2>5. ChainInv'
    BY <1>1, <2>1 DEF ChainInv
  <2>6. CoverInv'
    BY <1>1, <1>2, <2>1 DEF CoverInv, Took, Covered, Anchored
  <2> QED
    BY <2>2, <2>3, <2>4, <2>5, <2>6
<1> QED
  BY <1>3, <1>4

-----------------------------------------------------------------------------
(* The theorems *)

LEMMA Inductive == IInv /\ [Next]_vars => IInv'
<1> SUFFICES ASSUME IInv, [Next]_vars PROVE IInv'
  OBVIOUS
<1>1. CASE Tick \/ Stamp \/ FetchFails \/ Confirmed \/ TimedOut
  BY <1>1, QuietNext
<1>2. CASE \E r \in inflight : AppendReceipt(r)
  BY <1>2, AppendNext
<1>3. CASE Fetch
  BY <1>3, FetchNext
<1>4. CASE Wake \/ RecordFails \/ Boot \/ Crash
  BY <1>4, DropNext
<1>5. CASE Submit
  BY <1>5, SubmitNext
<1>6. CASE Record
  BY <1>6, RecordNext
<1>7. CASE \E i \in DOMAIN txs : commit_batch(i)
  BY <1>7, CommitNext
<1>8. CASE UNCHANGED vars
  <2>1. Still /\ UNCHANGED <<clock, minted, inflight, pc>>
    BY <1>8 DEF vars, Still, stampVars, driverVars, chainVars
  <2>2. Types'
    BY <2>1 DEF IInv, Types, Still
  <2> QED
    BY <2>1, <2>2, StillHolds DEF IInv, BatchInv, WaitInv, Still
<1> QED
  BY <1>1, <1>2, <1>3, <1>4, <1>5, <1>6, <1>7, <1>8 DEF Next, Driver

LEMMA Invariance == Spec => []IInv
  BY InitHolds, Inductive, PTL DEF Spec

\* The seal store never runs ahead of the chain, and the batches on chain follow
\* one another in time (AnchorDriver, SuiSealer and receipt_anchor together),
\* whatever times out, is retried, executes late or is lost in a crash.
THEOREM SealsAreAnchored == Spec => []SealedIsAnchored
<1>1. IInv => SealedIsAnchored
  <2> SUFFICES ASSUME IInv PROVE SealedIsAnchored
    OBVIOUS
  <2>1. \A i \in DOMAIN seals : \E k \in DOMAIN events : events[k] = seals[i]
    BY DEF IInv, WaitInv, OnChain
  <2>2. ASSUME NEW i \in DOMAIN events, NEW j \in DOMAIN events, i < j
        PROVE  /\ NsEnd(events[i]) <= NsStart(events[j])
               /\ \A r \in events[i] \intersect events[j] :
                     r.ns = NsEnd(events[i]) /\ r.ns = NsStart(events[j])
    <3>1. NsEnd(events[i]) <= NsStart(events[j])
      BY <2>2 DEF IInv, ChainInv
    <3>2. /\ events[i] \subseteq Recs /\ events[i] # {}
          /\ events[j] \subseteq Recs /\ events[j] # {}
      BY EventTypes DEF IInv, BatchInv
    <3>3. ASSUME NEW r \in events[i] \intersect events[j]
          PROVE  r.ns = NsEnd(events[i]) /\ r.ns = NsStart(events[j])
      <4>1. r.ns <= NsEnd(events[i]) /\ NsStart(events[j]) <= r.ns
        BY <3>2, RangeFacts
      <4>2. r.ns \in Times /\ NsEnd(events[i]) \in Times /\ NsStart(events[j]) \in Times
        BY <3>2, RangeFacts DEF Recs
      <4>3. r.ns \in Int /\ NsEnd(events[i]) \in Int /\ NsStart(events[j]) \in Int
        BY <4>2, AnchorAssumption DEF Times
      <4> QED
        BY <3>1, <4>1, <4>3
    <3> QED
      BY <3>1, <3>3
  <2> QED
    BY <2>1, <2>2 DEF SealedIsAnchored
<1> QED
  BY <1>1, Invariance, PTL

\* The watermark passes over a receipt only if it came after a batch had reached
\* its time, or tied with the last of a full batch (fetch_candidates, the restart
\* from read_anchor_state, and record_sealed_batch).
THEOREM WatermarkPassesOnlyLate == Spec => []PassedOverOnlyIfLate
<1>1. IInv => PassedOverOnlyIfLate
  <2> SUFFICES ASSUME IInv, NEW r \in store, r.ns < watermark
               PROVE  r \in Anchored \union late \union cut
    BY DEF PassedOverOnlyIfLate
  <2>1. r.ns \in Times /\ watermark \in Nat /\ lastEnd \in Nat /\ watermark <= lastEnd
    BY DEF IInv, Types, Recs, ChainInv
  <2>2. r.ns <= lastEnd
    BY <2>1, AnchorAssumption DEF Times
  <2> QED
    BY <2>2 DEF IInv, CoverInv, Covered
<1> QED
  BY <1>1, Invariance, PTL
=============================================================================
