--------------------------- MODULE EnvelopeProofs ---------------------------
(***************************************************************************)
(* Proofs about an envelope on its way in: replay protection (Replay) and  *)
(* the send path (SendPath).                                               *)
(*                                                                         *)
(* Of replay protection, for every window size, skew and set of senders:   *)
(* always that the window forgets no nonce early and that epochs lag       *)
(* boundedly; and, while a sender keeps one monotonic epoch counter and    *)
(* WindowSize > 2 * MaxEpochSkew, that no envelope of it is admitted       *)
(* twice.                                                                  *)
(*                                                                         *)
(* Of the send path, for any number of calls and constitutions:            *)
(* ReceiptNamesJudge and SentUnderActive speak of the end of a send; the   *)
(* invariant IInv says what every step before it has established: which    *)
(* reading of the active slot the call stands on (SendInv) and that its    *)
(* evaluate receipt appears no earlier than the evaluation (LogInv).       *)
(***************************************************************************)
EXTENDS Replay, SendPath, FiniteSetTheorems, TLAPS

-----------------------------------------------------------------------------
(* Replay protection.                                                      *)

\* The parts of the invariant about one sender: its filter state st and the
\* sequence adm of everything admitted from it.
BelowMax(st, adm) == \A i \in 1..Len(adm) : adm[i].epoch <= st.max_epoch

\* The window holds the nonces of the most recent admissions, all of them
\* until it is full.
WindowIsRecent(st, adm) ==
    /\ Len(st.nonces) <= WindowSize
    /\ Len(st.nonces) <= Len(adm)
    /\ Len(st.nonces) < WindowSize => Len(st.nonces) = Len(adm)
    /\ \A i \in 1..Len(st.nonces) :
          st.nonces[i] = adm[Len(adm) - Len(st.nonces) + i].nonce

LagBounded(adm) ==
    \A i, j \in 1..Len(adm) :
        i < j => adm[j].epoch + MaxEpochSkew >= adm[i].epoch

NoncesApart(adm) ==
    \A i, j \in 1..Len(adm) :
        (i < j /\ adm[i].nonce = adm[j].nonce) => j - i > WindowSize

SenderInv(st, adm) ==
    /\ BelowMax(st, adm)
    /\ WindowIsRecent(st, adm)
    /\ LagBounded(adm)
    /\ NoncesApart(adm)

\* The parts that hold until a sender restarts: a nonce is as good as its
\* epoch, no epoch is admitted twice, and whatever the window forgot the
\* epoch test rejects.
EpochNonces(adm) == \A i \in 1..Len(adm) : adm[i].nonce = <<0, adm[i].epoch>>

EpochsDiffer(adm) ==
    \A i, j \in 1..Len(adm) : adm[i].epoch = adm[j].epoch => i = j

ForgottenIsStale(st, adm) ==
    \A i \in 1..(Len(adm) - Len(st.nonces)) :
        adm[i].epoch + MaxEpochSkew < st.max_epoch

MonotonicInv(st, adm) ==
    /\ EpochNonces(adm)
    /\ EpochsDiffer(adm)
    /\ ForgottenIsStale(st, adm)

\* Nothing minted is large enough for the skew test to wrap, and the first
\* process of a sender numbers its nonces like its epochs.
MintedInv ==
    \A e \in minted : /\ e.epoch <= MaxEpoch
                      /\ incarnation[e.from] = 0 => e.nonce = <<0, e.epoch>>

ReplayIInv ==
    /\ ReplayTypeOK
    /\ MintedInv
    /\ \A s \in Senders : SenderInv(window[s], admitted[s])
    /\ \A s \in Senders :
          incarnation[s] = 0 => MonotonicInv(window[s], admitted[s])
-----------------------------------------------------------------------------
(***************************************************************************)
(* W different epochs, none equal to a, none more than k below a and none  *)
(* above m: if W > 2k then m is more than k above a.                       *)
(***************************************************************************)
LEMMA EpochsSpread ==
    ASSUME NEW W \in Nat, NEW k \in Nat, W > 2 * k,
           NEW a \in Nat, NEW m \in Nat,
           NEW f \in [1..W -> Nat],
           \A i, j \in 1..W : f[i] = f[j] => i = j,
           \A i \in 1..W : f[i] # a /\ f[i] + k >= a /\ f[i] <= m
    PROVE  a + k < m
<1>1. SUFFICES ASSUME m <= a + k PROVE FALSE
  OBVIOUS
<1> DEFINE near == (a - k)..(a + k)
           T == near \ {a}
<1>2. IsFiniteSet(near) /\ Cardinality(near) = 2 * k + 1
  BY FS_Interval
<1>3. IsFiniteSet(T) /\ Cardinality(T) = 2 * k
  <2>1. a \in near
    OBVIOUS
  <2> HIDE DEF near
  <2>2. /\ IsFiniteSet(near \ {a})
        /\ Cardinality(near \ {a}) = Cardinality(near) - 1
    BY <1>2, <2>1, FS_RemoveElement
  <2> QED BY <1>2, <2>2
<1>4. IsFiniteSet(1..W) /\ Cardinality(1..W) = W
  BY FS_Interval
<1>5. f \in [1..W -> T]
  BY <1>1
<1>6. \E x, y \in 1..W : x # y /\ f[x] = f[y]
  <2> HIDE DEF T
  <2> QED BY <1>3, <1>4, <1>5, FS_PigeonHole
<1> QED BY <1>6

\* An epoch below the modulus is its own remainder.
LEMMA SmallMod ==
    ASSUME NEW a \in Nat, NEW m \in Nat \ {0}, a < m
    PROVE  a % m = a
  OBVIOUS

(***************************************************************************)
(* Record pushes one nonce and forgets at most the oldest one.             *)
(***************************************************************************)
LEMMA RecordFacts ==
    ASSUME NEW st \in Windows, NEW e \in Envelopes
    PROVE  LET k  == Len(st.nonces)
               r  == Record(st, e)
               k1 == Len(r.nonces)
           IN  /\ r \in Windows
               /\ k \in Nat /\ k1 \in Nat
               /\ r.max_epoch \in Nat
               /\ r.max_epoch >= st.max_epoch
               /\ r.max_epoch >= e.epoch
               /\ k1 = IF k + 1 > WindowSize THEN k ELSE k + 1
               /\ \A i \in 1..k1 :
                     r.nonces[i] = Append(st.nonces, e.nonce)[i + (k + 1 - k1)]
<1> DEFINE k      == Len(st.nonces)
           pushed == Append(st.nonces, e.nonce)
           r      == Record(st, e)
<1>1. /\ st.nonces \in Seq(Nonces) /\ st.max_epoch \in Nat
      /\ e.nonce \in Nonces /\ e.epoch \in Nat /\ k \in Nat /\ WindowSize \in Nat
  BY WindowAssumption DEF Windows, Envelopes
<1>2. pushed \in Seq(Nonces) /\ Len(pushed) = k + 1
  BY <1>1
<1>3. /\ r.nonces = (IF k + 1 > WindowSize THEN Tail(pushed) ELSE pushed)
      /\ r.max_epoch = (IF e.epoch > st.max_epoch THEN e.epoch ELSE st.max_epoch)
      /\ r = [nonces |-> r.nonces, max_epoch |-> r.max_epoch]
  BY <1>2 DEF Record
<1> HIDE DEF pushed, r
<1>4. /\ Tail(pushed) \in Seq(Nonces) /\ Len(Tail(pushed)) = k
      /\ \A i \in 1..k : Tail(pushed)[i] = pushed[i + 1]
  BY <1>1, <1>2
<1>5. r.max_epoch \in Nat /\ r.max_epoch >= st.max_epoch /\ r.max_epoch >= e.epoch
  BY <1>1, <1>3
<1>6. CASE k + 1 > WindowSize
  <2>1. r.nonces = Tail(pushed)
    BY <1>3, <1>6
  <2>2. r \in Windows
    BY <1>3, <1>4, <1>5, <2>1 DEF Windows
  <2>3. Len(r.nonces) = k
    BY <1>4, <2>1
  <2>4. \A i \in 1..k : r.nonces[i] = pushed[i + (k + 1 - k)]
    BY <1>1, <1>4, <2>1
  <2> QED BY <1>1, <1>5, <1>6, <2>2, <2>3, <2>4 DEF r, pushed
<1>7. CASE ~(k + 1 > WindowSize)
  <2>1. r.nonces = pushed
    BY <1>3, <1>7
  <2>2. r \in Windows
    BY <1>2, <1>3, <1>5, <2>1 DEF Windows
  <2>3. Len(r.nonces) = k + 1
    BY <1>2, <2>1
  <2>4. \A i \in 1..(k + 1) : r.nonces[i] = pushed[i + (k + 1 - (k + 1))]
    BY <1>1, <2>1
  <2> QED BY <1>1, <1>5, <1>7, <2>2, <2>3, <2>4 DEF r, pushed
<1> QED BY <1>6, <1>7

(***************************************************************************)
(* About one sender, restarted or not: an admission keeps the window a     *)
(* list of the most recent nonces and the epochs within the skew.          *)
(***************************************************************************)
LEMMA RecordKeepsSender ==
    ASSUME NEW st \in Windows, NEW adm \in Seq(Envelopes), NEW e \in Envelopes,
           SenderInv(st, adm), Admits(st, e), e.epoch <= MaxEpoch
    PROVE  SenderInv(Record(st, e), Append(adm, e))
<1> DEFINE n   == Len(adm)
           k   == Len(st.nonces)
           W   == WindowSize
           K   == MaxEpochSkew
           r   == Record(st, e)
           new == Append(adm, e)
           k1  == Len(r.nonces)
<1>1. /\ st.nonces \in Seq(Nonces) /\ st.max_epoch \in Nat /\ k \in Nat
      /\ e.nonce \in Nonces /\ e.epoch \in Nat /\ n \in Nat
      /\ W \in Nat /\ K \in Nat /\ W > 2 * K
  BY WindowAssumption, SkewAssumption DEF Windows, Envelopes
<1>2. /\ new \in Seq(Envelopes) /\ Len(new) = n + 1
      /\ \A i \in 1..n : new[i] = adm[i]
      /\ new[n + 1] = e
  OBVIOUS
<1>3. /\ r \in Windows /\ k1 \in Nat /\ r.max_epoch \in Nat
      /\ r.max_epoch >= st.max_epoch /\ r.max_epoch >= e.epoch
      /\ k1 = (IF k + 1 > W THEN k ELSE k + 1)
      /\ \A i \in 1..k1 : r.nonces[i] = Append(st.nonces, e.nonce)[i + (k + 1 - k1)]
  BY RecordFacts
<1>4. e.epoch + K >= st.max_epoch
  <2>1. (e.epoch + K) % EpochModulus = e.epoch + K
    <3>1. e.epoch + K \in Nat /\ e.epoch + K < EpochModulus
      BY <1>1, ReplayAssumption, WindowAssumption
    <3> QED BY <3>1, SmallMod, WindowAssumption
  <2> QED BY <2>1, <1>1 DEF Admits, EpochStale
<1>5. \A i \in 1..k : st.nonces[i] # e.nonce
  BY DEF Admits, DuplicateNonce
<1>6. \A i \in 1..n : adm[i] \in Envelopes /\ adm[i].epoch \in Nat
                      /\ adm[i].epoch <= st.max_epoch
  <2>1. \A i \in 1..n : adm[i] \in Envelopes
    OBVIOUS
  <2>2. \A i \in 1..n : adm[i].epoch <= st.max_epoch
    BY DEF SenderInv, BelowMax
  <2> QED BY <2>1, <2>2 DEF Envelopes
<1>7. /\ k <= W /\ k <= n /\ (k < W => k = n)
      /\ \A i \in 1..k : st.nonces[i] = adm[n - k + i].nonce
  BY DEF SenderInv, WindowIsRecent
<1>8. \A i, j \in 1..n : i < j => adm[j].epoch + K >= adm[i].epoch
  BY DEF SenderInv, LagBounded
<1>9. \A i, j \in 1..n : (i < j /\ adm[i].nonce = adm[j].nonce) => j - i > W
  BY DEF SenderInv, NoncesApart
<1> HIDE DEF n, k, W, K, r, new, k1
<1>12. \A i \in 1..(n + 1) : i \in 1..n \/ i = n + 1
  BY <1>1
<1>13. \A i \in 1..(n + 1) : new[i].epoch \in Nat /\ new[i].epoch <= r.max_epoch
  <2> SUFFICES ASSUME NEW i \in 1..(n + 1)
               PROVE  new[i].epoch \in Nat /\ new[i].epoch <= r.max_epoch
    OBVIOUS
  <2>1. CASE i \in 1..n
    <3>1. new[i] = adm[i]
      BY <2>1, <1>2
    <3>2. adm[i].epoch \in Nat /\ adm[i].epoch <= st.max_epoch
      BY <2>1, <1>6
    <3>3. adm[i].epoch <= r.max_epoch
      BY <3>2, <1>1, <1>3
    <3> QED BY <3>1, <3>2, <3>3
  <2>2. CASE i = n + 1
    BY <2>2, <1>1, <1>2, <1>3
  <2> QED BY <2>1, <2>2, <1>12
<1>14. \A i, j \in 1..(n + 1) : i < j => new[j].epoch + K >= new[i].epoch
  <2> SUFFICES ASSUME NEW i \in 1..(n + 1), NEW j \in 1..(n + 1), i < j
               PROVE  new[j].epoch + K >= new[i].epoch
    OBVIOUS
  <2>1. i \in 1..n /\ new[i] = adm[i]
    BY <1>1, <1>2
  <2>2. CASE j \in 1..n
    <3>1. new[j] = adm[j]
      BY <2>2, <1>2
    <3> QED BY <2>1, <2>2, <3>1, <1>8
  <2>3. CASE j = n + 1
    <3>1. adm[i].epoch <= st.max_epoch /\ adm[i].epoch \in Nat
      BY <2>1, <1>6
    <3>2. new[j] = e
      BY <2>3, <1>2
    <3>3. e.epoch + K >= adm[i].epoch
      BY <3>1, <1>1, <1>4
    <3> QED BY <2>1, <3>2, <3>3
  <2> QED BY <2>2, <2>3, <1>12
<1>15. \A i, j \in 1..(n + 1) :
         (i < j /\ new[i].nonce = new[j].nonce) => j - i > W
  <2> SUFFICES ASSUME NEW i \in 1..(n + 1), NEW j \in 1..(n + 1),
                      i < j, new[i].nonce = new[j].nonce
               PROVE  j - i > W
    OBVIOUS
  <2>1. i \in 1..n /\ new[i] = adm[i]
    BY <1>1, <1>2
  <2>2. CASE j \in 1..n
    <3>1. new[j] = adm[j]
      BY <2>2, <1>2
    <3> QED BY <2>1, <2>2, <3>1, <1>9
  <2>3. CASE j = n + 1
    <3>1. adm[i].nonce = e.nonce
      BY <2>1, <2>3, <1>2
    <3>2. CASE i > n - k
      <4>1. i - (n - k) \in 1..k /\ n - k + (i - (n - k)) = i
        BY <2>1, <3>2, <1>1, <1>7
      <4>2. st.nonces[i - (n - k)] = adm[i].nonce
        BY <4>1, <1>7
      <4> QED BY <3>1, <4>1, <4>2, <1>5
    <3>3. CASE i <= n - k
      BY <2>1, <2>3, <3>3, <1>1, <1>7
    <3> QED BY <2>1, <3>2, <3>3, <1>1
  <2> QED BY <2>2, <2>3, <1>12
<1>16. \A i \in 1..k1 : r.nonces[i] = new[n + 1 - k1 + i].nonce
  <2> SUFFICES ASSUME NEW i \in 1..k1
               PROVE  r.nonces[i] = new[n + 1 - k1 + i].nonce
    OBVIOUS
  <2> DEFINE x == i + (k + 1 - k1)
  <2>1. x \in 1..(k + 1) /\ n - k + x = n + 1 - k1 + i
    BY <1>1, <1>3
  <2>2. r.nonces[i] = Append(st.nonces, e.nonce)[x]
    BY <1>3
  <2> HIDE DEF x
  <2>3. CASE x \in 1..k
    <3>1. Append(st.nonces, e.nonce)[x] = st.nonces[x]
      BY <2>3, <1>1 DEF k
    <3>2. st.nonces[x] = adm[n - k + x].nonce
      BY <2>3, <1>7
    <3>3. n - k + x \in 1..n
      BY <2>3, <1>1, <1>7
    <3>4. new[n - k + x] = adm[n - k + x]
      BY <3>3, <1>2
    <3> QED BY <2>1, <2>2, <3>1, <3>2, <3>4
  <2>4. CASE x = k + 1
    <3>1. Append(st.nonces, e.nonce)[x] = e.nonce
      BY <2>4, <1>1 DEF k
    <3>2. n - k + x = n + 1
      BY <2>4, <1>1
    <3>3. new[n - k + x] = e
      BY <3>2, <1>2
    <3> QED BY <2>1, <2>2, <3>1, <3>3
  <2>5. x \in 1..k \/ x = k + 1
    BY <2>1, <1>1
  <2> QED BY <2>3, <2>4, <2>5
<1>17. k1 <= W /\ k1 <= n + 1 /\ (k1 < W => k1 = n + 1)
  BY <1>1, <1>3, <1>7
<1>19. BelowMax(r, new)
  BY <1>2, <1>13 DEF BelowMax
<1>20. WindowIsRecent(r, new)
  <2>1. Len(new) = n + 1 /\ Len(r.nonces) = k1
    BY <1>2 DEF k1
  <2>2. \A i \in 1..Len(r.nonces) :
          r.nonces[i] = new[Len(new) - Len(r.nonces) + i].nonce
    BY <2>1, <1>1, <1>3, <1>16
  <2>3. /\ Len(r.nonces) <= W /\ Len(r.nonces) <= Len(new)
        /\ Len(r.nonces) < W => Len(r.nonces) = Len(new)
    BY <2>1, <1>17
  <2> QED BY <2>2, <2>3 DEF WindowIsRecent, W
<1>21. LagBounded(new)
  BY <1>2, <1>14 DEF LagBounded, K
<1>22. NoncesApart(new)
  BY <1>2, <1>15 DEF NoncesApart, W
<1> QED BY <1>19, <1>20, <1>21, <1>22 DEF SenderInv, r, new

(***************************************************************************)
(* The heart of the argument, about one sender that was not restarted: the *)
(* admission that pushes an envelope out of the window has raised          *)
(* max_epoch out of its reach.                                             *)
(***************************************************************************)
LEMMA RecordKeepsMonotonic ==
    ASSUME NEW st \in Windows, NEW adm \in Seq(Envelopes), NEW e \in Envelopes,
           SenderInv(st, adm), MonotonicInv(st, adm), Admits(st, e),
           e.nonce = <<0, e.epoch>>, e.epoch <= MaxEpoch
    PROVE  MonotonicInv(Record(st, e), Append(adm, e))
<1> DEFINE n   == Len(adm)
           k   == Len(st.nonces)
           W   == WindowSize
           K   == MaxEpochSkew
           r   == Record(st, e)
           new == Append(adm, e)
           k1  == Len(r.nonces)
<1>1. /\ st.nonces \in Seq(Nonces) /\ st.max_epoch \in Nat /\ k \in Nat
      /\ e.nonce \in Nonces /\ e.epoch \in Nat /\ n \in Nat
      /\ W \in Nat /\ K \in Nat /\ W > 2 * K
  BY WindowAssumption, SkewAssumption DEF Windows, Envelopes
<1>2. /\ new \in Seq(Envelopes) /\ Len(new) = n + 1
      /\ \A i \in 1..n : new[i] = adm[i]
      /\ new[n + 1] = e
  OBVIOUS
<1>3. /\ r \in Windows /\ k1 \in Nat /\ r.max_epoch \in Nat
      /\ r.max_epoch >= st.max_epoch /\ r.max_epoch >= e.epoch
      /\ k1 = (IF k + 1 > W THEN k ELSE k + 1)
      /\ \A i \in 1..k1 : r.nonces[i] = Append(st.nonces, e.nonce)[i + (k + 1 - k1)]
  BY RecordFacts
<1>4. e.epoch + K >= st.max_epoch
  <2>1. (e.epoch + K) % EpochModulus = e.epoch + K
    <3>1. e.epoch + K \in Nat /\ e.epoch + K < EpochModulus
      BY <1>1, ReplayAssumption, WindowAssumption
    <3> QED BY <3>1, SmallMod, WindowAssumption
  <2> QED BY <2>1, <1>1 DEF Admits, EpochStale
<1>5. \A i \in 1..k : st.nonces[i] # e.nonce
  BY DEF Admits, DuplicateNonce
<1>6. \A i \in 1..n : adm[i].epoch \in Nat /\ adm[i].nonce = <<0, adm[i].epoch>>
  <2>1. \A i \in 1..n : adm[i] \in Envelopes
    OBVIOUS
  <2>2. \A i \in 1..n : adm[i].nonce = <<0, adm[i].epoch>>
    BY DEF MonotonicInv, EpochNonces
  <2> QED BY <2>1, <2>2 DEF Envelopes
<1>7. /\ k <= W /\ k <= n /\ (k < W => k = n)
      /\ \A i \in 1..k : st.nonces[i] = adm[n - k + i].nonce
  BY DEF SenderInv, WindowIsRecent
<1>9. \A i, j \in 1..n : adm[i].epoch = adm[j].epoch => i = j
  BY DEF MonotonicInv, EpochsDiffer
<1>10. \A i \in 1..(n - k) : adm[i].epoch + K < st.max_epoch
  BY DEF MonotonicInv, ForgottenIsStale
<1>8. /\ \A i \in 1..(n + 1) : new[i].epoch <= r.max_epoch
      /\ \A i, j \in 1..(n + 1) : i < j => new[j].epoch + K >= new[i].epoch
  <2>1. SenderInv(r, new)
    BY RecordKeepsSender
  <2> QED BY <2>1, <1>2 DEF SenderInv, BelowMax, LagBounded
<1> HIDE DEF n, k, W, K, r, new, k1
<1>11. \A i \in 1..n : adm[i].epoch # e.epoch
  <2> SUFFICES ASSUME NEW i \in 1..n, adm[i].epoch = e.epoch PROVE FALSE
    OBVIOUS
  <2>1. CASE i <= n - k
    <3>1. i \in 1..(n - k)
      BY <2>1, <1>1, <1>7
    <3>2. adm[i].epoch + K < st.max_epoch
      BY <3>1, <1>10
    <3> QED BY <3>2, <1>1, <1>4
  <2>2. CASE i > n - k
    <3>1. i - (n - k) \in 1..k /\ n - k + (i - (n - k)) = i
      BY <2>2, <1>1, <1>7
    <3>2. st.nonces[i - (n - k)] = adm[i].nonce
      BY <3>1, <1>7
    <3>3. adm[i].nonce = e.nonce
      BY <1>6
    <3> QED BY <3>1, <3>2, <3>3, <1>5
  <2> QED BY <2>1, <2>2, <1>1
<1>12. \A i \in 1..(n + 1) : i \in 1..n \/ i = n + 1
  BY <1>1
<1>13. \A i \in 1..(n + 1) : /\ new[i].epoch \in Nat
                            /\ new[i].nonce = <<0, new[i].epoch>>
  <2> SUFFICES ASSUME NEW i \in 1..(n + 1)
               PROVE  /\ new[i].epoch \in Nat
                      /\ new[i].nonce = <<0, new[i].epoch>>
    OBVIOUS
  <2>1. CASE i \in 1..n
    <3>1. new[i] = adm[i]
      BY <2>1, <1>2
    <3> QED BY <2>1, <3>1, <1>6
  <2>2. CASE i = n + 1
    BY <2>2, <1>1, <1>2
  <2> QED BY <2>1, <2>2, <1>12
<1>15. \A i, j \in 1..(n + 1) : new[i].epoch = new[j].epoch => i = j
  <2> SUFFICES ASSUME NEW i \in 1..(n + 1), NEW j \in 1..(n + 1),
                      new[i].epoch = new[j].epoch
               PROVE  i = j
    OBVIOUS
  <2>1. CASE i \in 1..n /\ j \in 1..n
    <3>1. new[i] = adm[i] /\ new[j] = adm[j]
      BY <2>1, <1>2
    <3> QED BY <2>1, <3>1, <1>9
  <2>2. CASE i \in 1..n /\ j = n + 1
    <3>1. new[i] = adm[i] /\ new[j] = e
      BY <2>2, <1>2
    <3> QED BY <2>2, <3>1, <1>11
  <2>3. CASE j \in 1..n /\ i = n + 1
    <3>1. new[j] = adm[j] /\ new[i] = e
      BY <2>3, <1>2
    <3> QED BY <2>3, <3>1, <1>11
  <2> QED BY <2>1, <2>2, <2>3, <1>12
<1>18. \A i \in 1..(n + 1 - k1) : new[i].epoch + K < r.max_epoch
  <2> SUFFICES ASSUME NEW i \in 1..(n + 1 - k1)
               PROVE  new[i].epoch + K < r.max_epoch
    OBVIOUS
  <2>1. CASE i <= n - k
    <3>1. i \in 1..(n - k) /\ i \in 1..n
      BY <2>1, <1>1, <1>7
    <3>2. adm[i].epoch + K < st.max_epoch /\ adm[i].epoch \in Nat
      BY <3>1, <1>6, <1>10
    <3>3. new[i] = adm[i]
      BY <3>1, <1>2
    <3>4. adm[i].epoch + K < r.max_epoch
      BY <3>2, <1>1, <1>3
    <3> QED BY <3>3, <3>4
  <2>2. CASE i > n - k
    <3>1. k = W /\ i = n + 1 - W /\ i \in 1..n
      BY <2>2, <1>1, <1>3, <1>7
    <3> DEFINE a == new[i].epoch
               f == [x \in 1..W |-> new[i + x].epoch]
    <3>2. \A x \in 1..W : i + x \in 1..(n + 1) /\ i < i + x
      BY <3>1, <1>1
    <3>3. a \in Nat /\ i \in 1..(n + 1)
      BY <3>1, <1>1, <1>13
    <3>4. f \in [1..W -> Nat]
      BY <3>2, <1>13
    <3>5. \A x, y \in 1..W : f[x] = f[y] => x = y
      <4> SUFFICES ASSUME NEW x \in 1..W, NEW y \in 1..W, f[x] = f[y] PROVE x = y
        OBVIOUS
      <4>1. i + x = i + y
        BY <3>2, <1>15
      <4> QED BY <4>1, <3>1, <1>1
    <3>6. \A x \in 1..W : f[x] # a /\ f[x] + K >= a /\ f[x] <= r.max_epoch
      <4> SUFFICES ASSUME NEW x \in 1..W
                   PROVE  f[x] # a /\ f[x] + K >= a /\ f[x] <= r.max_epoch
        OBVIOUS
      <4>1. f[x] = new[i + x].epoch /\ i + x \in 1..(n + 1) /\ i < i + x
        BY <3>2
      <4>2. f[x] <= r.max_epoch
        BY <4>1, <1>8
      <4>3. f[x] + K >= a
        BY <4>1, <3>3, <1>8
      <4>4. f[x] # a
        <5>1. i + x # i
          BY <4>1, <3>1, <1>1
        <5> QED BY <5>1, <4>1, <3>3, <1>15
      <4> QED BY <4>2, <4>3, <4>4
    <3> HIDE DEF a, f
    <3>7. a + K < r.max_epoch
      BY <3>3, <3>4, <3>5, <3>6, <1>1, <1>3, EpochsSpread
    <3> QED BY <3>7 DEF a
  <2> QED BY <2>1, <2>2, <1>1
<1>19. EpochNonces(new) /\ EpochsDiffer(new)
  BY <1>2, <1>13, <1>15 DEF EpochNonces, EpochsDiffer
<1>20. ForgottenIsStale(r, new)
  <2>1. Len(new) = n + 1 /\ Len(r.nonces) = k1
    BY <1>2 DEF k1
  <2>2. \A i \in 1..(Len(new) - Len(r.nonces)) : new[i].epoch + K < r.max_epoch
    BY <2>1, <1>1, <1>3, <1>18
  <2> QED BY <2>2 DEF ForgottenIsStale, K
<1> QED BY <1>19, <1>20 DEF MonotonicInv, r, new
-----------------------------------------------------------------------------
\* A new window satisfies the invariant.
LEMMA InitReplayIInv == ReplayInit => ReplayIInv
  BY WindowAssumption, ReplayAssumption
  DEF ReplayInit, ReplayIInv, ReplayTypeOK, MintedInv, SenderInv, BelowMax, WindowIsRecent,
      LagBounded, NoncesApart, MonotonicInv, EpochNonces, EpochsDiffer,
      ForgottenIsStale, Envelopes, Windows, NewSender, Nonces

\* Minting an envelope changes no window.
LEMMA MintIInv ==
    ASSUME ReplayIInv, NEW s \in Senders, Mint(s)
    PROVE  ReplayIInv'
<1>1. PICK x \in ExpiryChoices :
        minted' = minted \cup {[from    |-> s,
                                nonce   |-> <<incarnation[s], nextEpoch[s]>>,
                                epoch   |-> nextEpoch[s],
                                expires |-> x]}
  BY DEF Mint
<1>2. x \in BOOLEAN /\ nextEpoch[s] \in Nat /\ incarnation[s] \in Nat
      /\ nextEpoch[s] <= MaxEpoch
  BY ReplayAssumption DEF ReplayIInv, ReplayTypeOK, Mint
<1>3. ReplayTypeOK'
  BY <1>1, <1>2 DEF ReplayIInv, Mint, ReplayTypeOK, Envelopes, Nonces
<1>4. MintedInv'
  BY <1>1, <1>2 DEF ReplayIInv, Mint, MintedInv
<1> QED BY <1>3, <1>4 DEF ReplayIInv, Mint

\* A restart ends what is known of the sender's epochs and changes no window.
LEMMA RestartIInv ==
    ASSUME ReplayIInv, NEW s \in Senders, Restart(s)
    PROVE  ReplayIInv'
<1>1. /\ incarnation' = [incarnation EXCEPT ![s] = @ + 1]
      /\ incarnation \in [Senders -> Nat]
      /\ UNCHANGED <<minted, aged, window, admitted>>
  BY DEF ReplayIInv, ReplayTypeOK, Restart
<1>2. \A t \in Senders : incarnation'[t] = 0 => incarnation[t] = 0
  BY <1>1
<1>3. ReplayTypeOK'
  BY <1>1, ReplayAssumption DEF ReplayIInv, ReplayTypeOK, Restart
<1>4. MintedInv'
  <2>1. \A e \in minted : e.from \in Senders
    BY DEF ReplayIInv, ReplayTypeOK, Envelopes
  <2> QED BY <1>1, <1>2, <2>1 DEF ReplayIInv, MintedInv
<1> QED BY <1>1, <1>2, <1>3, <1>4 DEF ReplayIInv

\* Time changes no window.
LEMMA AgeIInv ==
    ASSUME ReplayIInv, NEW e \in minted, Age(e)
    PROVE  ReplayIInv'
<1>1. ReplayTypeOK'
  BY DEF ReplayIInv, Age, ReplayTypeOK
<1>2. MintedInv'
  BY DEF ReplayIInv, Age, MintedInv
<1> QED BY <1>1, <1>2 DEF ReplayIInv, Age

\* An admission keeps the invariants of its sender and of the others.
LEMMA AdmitIInv ==
    ASSUME ReplayIInv, NEW e \in minted, Admit(e)
    PROVE  ReplayIInv'
<1> DEFINE s   == e.from
           st  == window[s]
           adm == admitted[s]
<1>1. /\ e \in Envelopes /\ s \in Senders
      /\ e.epoch <= MaxEpoch
      /\ incarnation[s] = 0 => e.nonce = <<0, e.epoch>>
      /\ adm \in Seq(Envelopes) /\ st \in Windows
      /\ SenderInv(st, adm)
      /\ incarnation[s] = 0 => MonotonicInv(st, adm)
  BY DEF ReplayIInv, ReplayTypeOK, MintedInv, Envelopes
<1>2. /\ Admits(st, e)
      /\ window' = [window EXCEPT ![s] = Record(st, e)]
      /\ admitted' = [admitted EXCEPT ![s] = Append(adm, e)]
      /\ UNCHANGED <<nextEpoch, incarnation, minted, aged>>
  BY DEF Admit
<1>3. SenderInv(Record(st, e), Append(adm, e))
  BY <1>1, <1>2, RecordKeepsSender
<1>4. incarnation[s] = 0 => MonotonicInv(Record(st, e), Append(adm, e))
  BY <1>1, <1>2, RecordKeepsMonotonic
<1>5. Record(st, e) \in Windows /\ Append(adm, e) \in Seq(Envelopes)
  <2>1. Append(adm, e) \in Seq(Envelopes)
    BY <1>1
  <2>2. Record(st, e) \in Windows
    <3> HIDE DEF st, s
    <3> QED BY <1>1, RecordFacts
  <2> QED BY <2>1, <2>2
<1>6. ReplayTypeOK'
  <2>1. Len(Record(st, e).nonces) <= WindowSize
    BY <1>3 DEF SenderInv, WindowIsRecent
  <2> HIDE DEF st, adm
  <2> QED BY <1>1, <1>2, <1>5, <2>1 DEF ReplayIInv, ReplayTypeOK
<1>7. MintedInv'
  BY <1>2 DEF ReplayIInv, MintedInv
<1>8. ASSUME NEW t \in Senders
      PROVE  /\ SenderInv(window'[t], admitted'[t])
             /\ incarnation'[t] = 0 => MonotonicInv(window'[t], admitted'[t])
  <2>1. CASE t = s
    BY <2>1, <1>1, <1>2, <1>3, <1>4 DEF ReplayIInv, ReplayTypeOK
  <2>2. CASE t # s
    BY <2>2, <1>1, <1>2 DEF ReplayIInv, ReplayTypeOK
  <2> QED BY <2>1, <2>2
<1> QED BY <1>6, <1>7, <1>8 DEF ReplayIInv

\* The invariant is inductive.
LEMMA NextReplayIInv == ReplayIInv /\ [ReplayNext]_replayVars => ReplayIInv'
<1> SUFFICES ASSUME ReplayIInv, [ReplayNext]_replayVars PROVE ReplayIInv'
  OBVIOUS
<1>1. CASE UNCHANGED replayVars
  BY <1>1 DEF replayVars, ReplayIInv, ReplayTypeOK, MintedInv
<1>2. CASE \E s \in Senders : Mint(s)
  BY <1>2, MintIInv
<1>3. CASE \E s \in Senders : Restart(s)
  BY <1>3, RestartIInv
<1>4. CASE \E e \in minted : Age(e)
  BY <1>4, AgeIInv
<1>5. CASE \E e \in minted : Admit(e)
  BY <1>5, AdmitIInv
<1> QED BY <1>1, <1>2, <1>3, <1>4, <1>5 DEF ReplayNext

(***************************************************************************)
(* ReplayTypeCorrect: the state of ReplayProtection stays well typed and   *)
(* its memory of a sender bounded by window_size.                          *)
(***************************************************************************)
THEOREM ReplayTypeCorrect == ReplaySpec => []ReplayTypeOK
<1>1. ReplayIInv => ReplayTypeOK
  BY DEF ReplayIInv
<1> QED BY <1>1, InitReplayIInv, NextReplayIInv, PTL DEF ReplaySpec

(***************************************************************************)
(* WindowForgetsNothingEarly: two admissions of one nonce by               *)
(* ReplayProtection::admit are more than window_size admissions apart,     *)
(* whatever restarted agents and the network do.                           *)
(***************************************************************************)
THEOREM WindowForgetsNothingEarly == ReplaySpec => []NoReplayInWindow
<1>1. ReplayIInv => NoReplayInWindow
  BY DEF ReplayIInv, SenderInv, NoncesApart, NoReplayInWindow
<1> QED BY <1>1, InitReplayIInv, NextReplayIInv, PTL DEF ReplaySpec

(***************************************************************************)
(* AdmittedEpochsLagBoundedly: nothing ReplayProtection::admit accepts is  *)
(* more than max_epoch_skew epochs behind something accepted before.       *)
(***************************************************************************)
THEOREM AdmittedEpochsLagBoundedly == ReplaySpec => []EpochLagBounded
<1>1. ReplayIInv => EpochLagBounded
  BY DEF ReplayIInv, SenderInv, LagBounded, EpochLagBounded
<1> QED BY <1>1, InitReplayIInv, NextReplayIInv, PTL DEF ReplaySpec

(***************************************************************************)
(* NoEnvelopeAdmittedTwice: ReplayProtection::admit accepts each envelope  *)
(* of a sender that was not restarted at most once, whatever the network   *)
(* reorders, delays or repeats, for every window larger than twice the     *)
(* skew.                                                                   *)
(***************************************************************************)
THEOREM NoEnvelopeAdmittedTwice == ReplaySpec => []AdmitOnce
<1>1. ReplayIInv => AdmitOnce
  BY DEF ReplayIInv, MonotonicInv, EpochsDiffer, AdmitOnce
<1> QED BY <1>1, InitReplayIInv, NextReplayIInv, PTL DEF ReplaySpec
-----------------------------------------------------------------------------
(* The send path.                                                          *)

Early == {"start", "pin", "pinned", "read", "resolved"}
Judged == {"emitted", "decide", "deliver", "sent"}

\* Where a send stands: its pin was active during the call; the pin is not
\* empty once both slots are read; it is what evaluates from then on; and a
\* send past its receipt has that receipt, one past the decision a permit.
SendInv(s) ==
    /\ pc[s] \in {"pin", "pinned", "read", "resolved"} => pin[s].active \in seen[s]
    /\ pc[s] \in {"pinned", "read"} => pin[s].active # None
    /\ pc[s] = "resolved" => got[s].active # None /\ got[s].active = pin[s].active
    /\ pc[s] \in Judged =>
          /\ got[s].active # None
          /\ got[s].active \in seen[s]
          /\ \E r \in log : r.call = s /\ r.kind = "evaluate"
    /\ pc[s] \in {"deliver", "sent"} => s \in Permitted[got[s].active]

\* An evaluate receipt belongs to a send past its evaluation, and says what
\* the constitution that evaluated decided.
LogInv(r) ==
    r.kind = "evaluate" =>
        /\ r.call \in Sends
        /\ pc[r.call] \notin Early
        /\ r.hash = got[r.call].active
        /\ r.outcome = Verdict(r.hash, r.call)

IInv ==
    /\ TypeOK
    /\ \A s \in Sends : SendInv(s)
    /\ \A r \in log : LogInv(r)

-----------------------------------------------------------------------------

\* The empty control plane satisfies the invariant.
LEMMA InitIInv == Init => IInv
<1> SUFFICES ASSUME Init PROVE IInv
  OBVIOUS
<1>1. TypeOK
  BY GenesisSlot, MaxFaultsNat, CallsDisjoint
  DEF Init, TypeOK, Slot, Reading, Locations, Receipt, Calls, Operators
<1>2. \A s \in Sends : SendInv(s)
  BY DEF Init, SendInv, Judged, Calls
<1>3. \A r \in log : LogInv(r)
  BY DEF Init
<1> QED
  BY <1>1, <1>2, <1>3 DEF IInv

\* A receipt of the right parts keeps the log a set of receipts.
LEMMA AppendTypes ==
    ASSUME log \subseteq Receipt,
           NEW c \in Calls, NEW kind \in Kinds, NEW hash \in Slot,
           NEW version \in Slot, NEW other \in Slot, NEW outcome \in {"pass", "deny", "done"},
           AppendReceipt(c, kind, hash, version, other, outcome)
    PROVE  log' \subseteq Receipt
<1> DEFINE r == [call |-> c, kind |-> kind, hash |-> hash,
                 version |-> version, other |-> other, outcome |-> outcome]
<1>1. r \in Receipt
  BY Zenon DEF Receipt
<1>2. log' = log \cup {r}
  BY DEF AppendReceipt
<1> QED
  BY <1>1, <1>2

\* Types, send by send.
LEMMA SendTypes ==
    ASSUME TypeOK, NEW s \in Sends, Send(s) PROVE TypeOK'
<1> USE CallsDisjoint DEF TypeOK, Calls, Operators
<1> s \notin Promotes
  OBVIOUS
<1>1. CASE PinActive(s)
  BY <1>1 DEF PinActive, Go, Locations, Reading
<1>2. CASE PinShadow(s)
  BY <1>2 DEF PinShadow, Go, Locations, Reading
<1>3. CASE ReadActive(s)
  BY <1>3 DEF ReadActive, Go, Locations, Reading
<1>4. CASE ReadShadow(s)
  BY <1>4 DEF ReadShadow, Go, Locations, Reading
<1>5. CASE EmitActive(s)
  <2>1. log' \subseteq Receipt
    <3>1. pin[s].active \in Slot /\ pin[s].active \in Slot /\ pin[s].shadow \in Slot
      BY <1>5 DEF EmitActive, Reading, Slot
    <3>2. AppendReceipt(s, "evaluate", pin[s].active, pin[s].active, pin[s].shadow, Verdict(got[s].active, s))
      BY <1>5 DEF EmitActive
    <3>3. "evaluate" \in Kinds
      BY DEF Kinds
    <3> QED
      BY <3>1, <3>2, <3>3, AppendTypes DEF Verdict
  <2> QED
    BY <1>5, <2>1 DEF EmitActive, Go, Locations
<1>6. CASE EmitShadow(s)
  <2>1. log' \subseteq Receipt
    <3>1. pin[s].shadow \in Slot /\ pin[s].shadow \in Slot /\ None \in Slot
      BY <1>6 DEF EmitShadow, Reading, Slot
    <3>2. AppendReceipt(s, "evaluate.shadow", pin[s].shadow, pin[s].shadow, None, Verdict(got[s].shadow, s))
      BY <1>6 DEF EmitShadow
    <3>3. "evaluate.shadow" \in Kinds
      BY DEF Kinds
    <3> QED
      BY <3>1, <3>2, <3>3, AppendTypes DEF Verdict
  <2> QED
    BY <1>6, <2>1 DEF EmitShadow, Go, Locations
<1>7. CASE Panic(s)
  BY <1>7 DEF Panic, Go, Locations
<1>8. CASE NoShadow(s)
  BY <1>8 DEF NoShadow, Go, Locations
<1>9. CASE Decide(s)
  BY <1>9 DEF Decide, Go, Locations
<1>10. CASE Deliver(s)
  BY <1>10 DEF Deliver, Go, Locations
<1> QED
  BY <1>1, <1>2, <1>3, <1>4, <1>5, <1>6, <1>7, <1>8, <1>9, <1>10 DEF Send

\* Types after a write of the active slot.
LEMMA SetActiveTypes ==
    ASSUME TypeOK, NEW c \in Slot, SetActive(c)
    PROVE active' \in Slot /\ seen' \in [Sends -> SUBSET Slot]
  BY DEF TypeOK, SetActive

\* Types and the guard, operator call by operator call.
LEMMA OperatorTypes ==
    ASSUME TypeOK,
           \/ \E a \in Activates : Activating(a)
           \/ \E h \in Shadows : Shadowing(h)
           \/ \E k \in Clears : Clearing(k)
           \/ \E p \in Promotes : Promoting(p)
    PROVE  TypeOK'
<1> USE CallsDisjoint, LoadsConstitutions DEF TypeOK, Calls, Operators
<1>1. ASSUME NEW a \in Activates, Activating(a) PROVE TypeOK'
  <2> a \notin Promotes
    OBVIOUS
  <2>1. CASE Activate(a)
    <3>1. active' \in Slot /\ seen' \in [Sends -> SUBSET Slot]
      BY <2>1, SetActiveTypes DEF Activate, Slot
    <3> QED
      BY <2>1, <3>1 DEF Activate, Go, Locations
  <2>2. CASE RefetchActive(a)
    BY <2>2 DEF RefetchActive, Go, Locations, Reading
  <2>3. CASE BindActive(a)
    BY <2>3 DEF BindActive, Go, Locations, Reading
  <2>4. CASE RecordActivate(a)
    <3>1. log' \subseteq Receipt
      <4>1. Loads[a] \in Slot /\ got[a].active \in Slot /\ None \in Slot
        BY <2>4 DEF RecordActivate, Reading, Slot
      <4>2. AppendReceipt(a, "activate", Loads[a], got[a].active, None, "done")
        BY <2>4 DEF RecordActivate
      <4>3. "activate" \in Kinds
        BY DEF Kinds
      <4> QED
        BY <4>1, <4>2, <4>3, AppendTypes
    <3> QED
      BY <2>4, <3>1 DEF RecordActivate, Go, Locations
  <2> QED
    BY <1>1, <2>1, <2>2, <2>3, <2>4 DEF Activating
<1>2. ASSUME NEW h \in Shadows, Shadowing(h) PROVE TypeOK'
  <2> h \notin Promotes
    OBVIOUS
  <2>1. CASE ReadParent(h)
    BY <2>1 DEF ReadParent, Go, Locations, Reading
  <2>2. CASE LoadShadow(h)
    BY <2>2 DEF LoadShadow, Go, Locations, Slot
  <2>3. CASE RefetchShadow(h)
    BY <2>3 DEF RefetchShadow, Go, Locations, Reading, Slot
  <2>4. CASE RecordShadow(h)
    <3>1. log' \subseteq Receipt
      <4>1. Loads[h] \in Slot /\ got[h].shadow \in Slot /\ pin[h].active \in Slot
        BY <2>4 DEF RecordShadow, Reading, Slot
      <4>2. AppendReceipt(h, "shadow_activate", Loads[h], got[h].shadow, pin[h].active, "done")
        BY <2>4 DEF RecordShadow
      <4>3. "shadow_activate" \in Kinds
        BY DEF Kinds
      <4> QED
        BY <4>1, <4>2, <4>3, AppendTypes
    <3> QED
      BY <2>4, <3>1 DEF RecordShadow, Go, Locations
  <2> QED
    BY <1>2, <2>1, <2>2, <2>3, <2>4 DEF Shadowing
<1>3. ASSUME NEW k \in Clears, Clearing(k) PROVE TypeOK'
  <2> k \notin Promotes
    OBVIOUS
  <2>1. CASE ReadEvicted(k)
    BY <2>1 DEF ReadEvicted, Go, Locations, Reading
  <2>2. CASE ClearShadow(k)
    BY <2>2 DEF ClearShadow, Go, Locations, Reading, Slot
  <2>3. CASE RecordClear(k)
    <3>1. log' \subseteq Receipt
      <4>1. got[k].shadow \in Slot /\ pin[k].shadow \in Slot /\ None \in Slot
        BY <2>3 DEF RecordClear, Reading, Slot
      <4>2. AppendReceipt(k, "shadow_clear", got[k].shadow, pin[k].shadow, None, "done")
        BY <2>3 DEF RecordClear
      <4>3. "shadow_clear" \in Kinds
        BY DEF Kinds
      <4> QED
        BY <4>1, <4>2, <4>3, AppendTypes
    <3> QED
      BY <2>3, <3>1 DEF RecordClear, Go, Locations
  <2> QED
    BY <1>3, <2>1, <2>2, <2>3 DEF Clearing
<1>4. ASSUME NEW p \in Promotes, Promoting(p) PROVE TypeOK'
  <2>1. CASE PromoteTake(p)
    <3>1. CASE shadow = None
      BY <2>1, <3>1 DEF PromoteTake, Go, Locations
    <3>2. CASE shadow # None
      <4>1. /\ guard' = p /\ guard = Nobody /\ shadow' = None
            /\ pc' = [pc EXCEPT ![p] = "taken"]
            /\ got' = [got EXCEPT ![p].shadow = shadow]
            /\ UNCHANGED <<active, engine, pin, log, seen, faults>>
        BY <2>1, <3>2 DEF PromoteTake, ShadowFree, Go
      <4>2. got' \in [Calls -> Reading] /\ None \in Slot
        BY <4>1 DEF Reading, Slot
      <4>3. \A q \in Promotes : (pc[q] = "taken" <=> guard = q)'
        BY <4>1
      <4> QED
        BY <4>1, <4>2, <4>3 DEF Locations
    <3> QED
      BY <3>1, <3>2
  <2>2. CASE PromoteReplace(p)
    <3>1. active' \in Slot /\ seen' \in [Sends -> SUBSET Slot]
      BY <2>2, SetActiveTypes DEF PromoteReplace, Reading
    <3> QED
      BY <2>2, <3>1 DEF PromoteReplace, Go, Locations, Reading
  <2>3. CASE BindPromoted(p)
    BY <2>3 DEF BindPromoted, Go, Locations, Reading
  <2>4. CASE RecordPromote(p)
    <3>1. log' \subseteq Receipt
      <4>1. got[p].shadow \in Slot /\ got[p].shadow \in Slot /\ got[p].active \in Slot
        BY <2>4 DEF RecordPromote, Reading, Slot
      <4>2. AppendReceipt(p, "shadow_promote", got[p].shadow, got[p].shadow, got[p].active, "done")
        BY <2>4 DEF RecordPromote
      <4>3. "shadow_promote" \in Kinds
        BY DEF Kinds
      <4> QED
        BY <4>1, <4>2, <4>3, AppendTypes
    <3> QED
      BY <2>4, <3>1 DEF RecordPromote, Go, Locations
  <2> QED
    BY <1>4, <2>1, <2>2, <2>3, <2>4 DEF Promoting
<1> QED
  BY <1>1, <1>2, <1>3, <1>4

\* Every step keeps the types and the guard.
LEMMA NextTypes == TypeOK /\ [Next]_vars => TypeOK'
<1> SUFFICES ASSUME TypeOK, [Next]_vars PROVE TypeOK'
  OBVIOUS
<1>1. ASSUME NEW c \in Calls, Refuse(c) PROVE TypeOK'
  BY <1>1, CallsDisjoint DEF TypeOK, Refuse, Go, Locations, Calls, Operators
<1>2. ASSUME NEW c \in Calls, Fail(c) PROVE TypeOK'
  BY <1>2, MaxFaultsNat, CallsDisjoint
  DEF TypeOK, Fail, CanFail, Locations, Calls, Operators
<1>3. CASE UNCHANGED vars
  BY <1>3 DEF TypeOK, vars
<1> QED
  BY <1>1, <1>2, <1>3, SendTypes, OperatorTypes DEF Next

\* A send keeps its invariant while others move: its own readings stay, the
\* log and its history only grow.
LEMMA OthersKeepSend ==
    ASSUME NEW s \in Sends, SendInv(s),
           pc'[s] = pc[s], pin'[s] = pin[s], got'[s] = got[s],
           log \subseteq log', seen[s] \subseteq seen'[s]
    PROVE  SendInv(s)'
  BY DEF SendInv, Judged

\* An evaluate receipt keeps its invariant when its send stays, or moves on
\* past the evaluation with its reading of the active slot.
LEMMA ReceiptKept ==
    ASSUME NEW r, LogInv(r),
           r.call \in Sends /\ pc[r.call] \notin Early =>
               pc'[r.call] \notin Early /\ got'[r.call].active = got[r.call].active
    PROVE  LogInv(r)'
  BY DEF LogInv, Verdict

\* No operator call disturbs a send under way or an evaluate receipt.
LEMMA OperatorIInv ==
    ASSUME IInv,
           \/ \E a \in Activates : Activating(a)
           \/ \E h \in Shadows : Shadowing(h)
           \/ \E k \in Clears : Clearing(k)
           \/ \E p \in Promotes : Promoting(p)
    PROVE  IInv'
<1> USE CallsDisjoint DEF Calls, Operators
<1>0. TypeOK
  BY DEF IInv
<1>1. TypeOK'
  BY <1>0, OperatorTypes
<1>2. \A s \in Sends : /\ pc'[s] = pc[s] /\ pin'[s] = pin[s] /\ got'[s] = got[s]
                       /\ seen[s] \subseteq seen'[s]
  <2> SUFFICES ASSUME NEW s \in Sends
               PROVE /\ pc'[s] = pc[s] /\ pin'[s] = pin[s] /\ got'[s] = got[s]
                     /\ seen[s] \subseteq seen'[s]
    OBVIOUS
  <2>1. ASSUME NEW a \in Activates, Activating(a)
        PROVE /\ pc'[s] = pc[s] /\ pin'[s] = pin[s] /\ got'[s] = got[s]
              /\ seen[s] \subseteq seen'[s]
    BY <2>1, <1>0 DEF TypeOK, Activating, Activate, RefetchActive, BindActive,
       RecordActivate, SetActive, Go
  <2>2. ASSUME NEW h \in Shadows, Shadowing(h)
        PROVE /\ pc'[s] = pc[s] /\ pin'[s] = pin[s] /\ got'[s] = got[s]
              /\ seen[s] \subseteq seen'[s]
    BY <2>2, <1>0 DEF TypeOK, Shadowing, ReadParent, LoadShadow, RefetchShadow,
       RecordShadow, Go
  <2>3. ASSUME NEW k \in Clears, Clearing(k)
        PROVE /\ pc'[s] = pc[s] /\ pin'[s] = pin[s] /\ got'[s] = got[s]
              /\ seen[s] \subseteq seen'[s]
    BY <2>3, <1>0 DEF TypeOK, Clearing, ReadEvicted, ClearShadow, RecordClear, Go
  <2>4. ASSUME NEW p \in Promotes, Promoting(p)
        PROVE /\ pc'[s] = pc[s] /\ pin'[s] = pin[s] /\ got'[s] = got[s]
              /\ seen[s] \subseteq seen'[s]
    BY <2>4, <1>0 DEF TypeOK, Promoting, PromoteTake, PromoteReplace,
       BindPromoted, RecordPromote, SetActive, Go
  <2> QED
    BY <2>1, <2>2, <2>3, <2>4
<1>3. log \subseteq log' /\ \A r \in log' : r \in log \/ r.kind # "evaluate"
  <2>1. ASSUME NEW a \in Activates, Activating(a)
        PROVE log \subseteq log' /\ \A r \in log' : r \in log \/ r.kind # "evaluate"
    BY <2>1 DEF Activating, Activate, RefetchActive, BindActive,
       RecordActivate, AppendReceipt
  <2>2. ASSUME NEW h \in Shadows, Shadowing(h)
        PROVE log \subseteq log' /\ \A r \in log' : r \in log \/ r.kind # "evaluate"
    BY <2>2 DEF Shadowing, ReadParent, LoadShadow, RefetchShadow,
       RecordShadow, AppendReceipt
  <2>3. ASSUME NEW k \in Clears, Clearing(k)
        PROVE log \subseteq log' /\ \A r \in log' : r \in log \/ r.kind # "evaluate"
    BY <2>3 DEF Clearing, ReadEvicted, ClearShadow, RecordClear, AppendReceipt
  <2>4. ASSUME NEW p \in Promotes, Promoting(p)
        PROVE log \subseteq log' /\ \A r \in log' : r \in log \/ r.kind # "evaluate"
    BY <2>4 DEF Promoting, PromoteTake, PromoteReplace, BindPromoted,
       RecordPromote, AppendReceipt
  <2> QED
    BY <2>1, <2>2, <2>3, <2>4
<1>4. ASSUME NEW s \in Sends PROVE SendInv(s)'
  BY <1>2, <1>3, OthersKeepSend DEF IInv
<1>5. ASSUME NEW r \in log' PROVE LogInv(r)'
  <2>1. CASE r.kind # "evaluate"
    BY <2>1 DEF LogInv
  <2>2. CASE r \in log
    BY <2>2, <1>2, ReceiptKept DEF IInv
  <2> QED
    BY <1>3, <2>1, <2>2
<1> QED
  BY <1>1, <1>4, <1>5 DEF IInv

\* A call that is refused or fails leaves nothing half said.
LEMMA EndedIInv ==
    ASSUME IInv, NEW c \in Calls, Refuse(c) \/ Fail(c) PROVE IInv'
<1> USE CallsDisjoint DEF Calls, Operators
<1>1. TypeOK'
  BY NextTypes DEF IInv, Next
<1>2. /\ pin' = pin /\ got' = got /\ log' = log /\ seen' = seen
      /\ \/ pc' = [pc EXCEPT ![c] = "refused"]
         \/ pc' = [pc EXCEPT ![c] = "unrecorded"]
  BY DEF Refuse, Fail, Go
<1>3. ASSUME NEW s \in Sends PROVE SendInv(s)'
  <2>1. CASE s = c
    BY <1>2, <2>1 DEF SendInv, Judged, IInv, TypeOK
  <2>2. CASE s # c
    BY <1>2, <2>2, OthersKeepSend DEF IInv, TypeOK
  <2> QED
    BY <2>1, <2>2
<1>4. ASSUME NEW r \in log' PROVE LogInv(r)'
  BY <1>2, ReceiptKept DEF IInv, TypeOK, Early
<1> QED
  BY <1>1, <1>3, <1>4 DEF IInv

\* A step of a send keeps its own place and everybody else's.
LEMMA SendIInv ==
    ASSUME IInv, NEW s \in Sends, Send(s) PROVE IInv'
<1> USE DEF Calls
<1>0. TypeOK /\ SendInv(s)
  BY DEF IInv
<1>1. TypeOK'
  BY <1>0, SendTypes
<1>2. \A t \in Sends \ {s} : /\ pc'[t] = pc[t] /\ pin'[t] = pin[t]
                             /\ got'[t] = got[t] /\ seen'[t] = seen[t]
  BY <1>0 DEF TypeOK, Send, PinActive, PinShadow, ReadActive, ReadShadow, EmitActive,
     EmitShadow, Panic, NoShadow, Decide, Deliver, Go
<1>3. log \subseteq log'
  BY DEF Send, PinActive, PinShadow, ReadActive, ReadShadow, EmitActive,
     EmitShadow, Panic, NoShadow, Decide, Deliver, AppendReceipt
<1>4. pc[s] \notin Early => pc'[s] \notin Early /\ got'[s] = got[s]
  BY <1>0 DEF TypeOK, Send, PinActive, PinShadow, ReadActive, ReadShadow, EmitActive,
     EmitShadow, Panic, NoShadow, Decide, Deliver, Go, Early
<1>5. ASSUME NEW t \in Sends \ {s} PROVE SendInv(t)'
  BY <1>2, <1>3, OthersKeepSend DEF IInv
<1>6. ASSUME NEW r \in log PROVE LogInv(r)'
  BY <1>2, <1>4, ReceiptKept DEF IInv
<1>7. SendInv(s)' /\ \A r \in log' : LogInv(r)'
  <2>1. CASE PinActive(s)
    BY <1>0, <1>6, <2>1 DEF TypeOK, PinActive, Go, SendInv, Judged
  <2>2. CASE PinShadow(s)
    BY <1>0, <1>6, <2>2 DEF TypeOK, PinShadow, Go, SendInv, Judged, Reading
  <2>3. CASE ReadActive(s)
    BY <1>0, <1>6, <2>3 DEF TypeOK, ReadActive, Go, SendInv, Judged, Reading
  <2>4. CASE ReadShadow(s)
    BY <1>0, <1>6, <2>4 DEF TypeOK, ReadShadow, StillPinned, Go, SendInv, Judged,
       Reading
  <2>5. CASE EmitActive(s)
    <3> DEFINE r == [call |-> s, kind |-> "evaluate", hash |-> pin[s].active,
                     version |-> pin[s].active, other |-> pin[s].shadow,
                     outcome |-> Verdict(got[s].active, s)]
    <3>1. /\ log' = log \cup {r} /\ got' = got /\ pin' = pin /\ seen' = seen
          /\ pc[s] = "resolved" /\ pc'[s] = "emitted"
      BY <1>0, <2>5 DEF EmitActive, AppendReceipt, Go, TypeOK
    <3>2. got[s].active # None /\ got[s].active = pin[s].active
      BY <1>0, <3>1 DEF SendInv
    <3>3. LogInv(r)'
      BY <3>1, <3>2 DEF LogInv, Early, Verdict
    <3>4. pin[s].active \in seen[s]
      BY <1>0, <3>1 DEF SendInv
    <3>5. SendInv(s)'
      <4> HIDE DEF r
      <4>1. r.call = s /\ r.kind = "evaluate" /\ r \in log'
        BY <3>1 DEF r
      <4> QED
        BY <3>1, <3>2, <3>4, <4>1 DEF SendInv, Judged
    <3> QED
      BY <1>6, <3>1, <3>3, <3>5
  <2>6. CASE EmitShadow(s)
    <3>1. \A r \in log' : r \in log \/ r.kind # "evaluate"
      BY <2>6 DEF EmitShadow, AppendReceipt
    <3>2. SendInv(s)'
      BY <1>0, <1>3, <2>6 DEF TypeOK, EmitShadow, Go, SendInv, Judged
    <3> QED
      BY <1>6, <3>1, <3>2 DEF LogInv
  <2>7. CASE Panic(s)
    BY <1>0, <1>6, <2>7 DEF TypeOK, Panic, Go, SendInv, Judged
  <2>8. CASE NoShadow(s)
    BY <1>0, <1>6, <2>8 DEF TypeOK, NoShadow, Go, SendInv, Judged
  <2>9. CASE Decide(s)
    BY <1>0, <1>6, <2>9 DEF TypeOK, Decide, Go, SendInv, Judged, Verdict
  <2>10. CASE Deliver(s)
    BY <1>0, <1>6, <2>10 DEF TypeOK, Deliver, Go, SendInv, Judged
  <2> QED
    BY <2>1, <2>2, <2>3, <2>4, <2>5, <2>6, <2>7, <2>8, <2>9, <2>10 DEF Send
<1> QED
  BY <1>1, <1>5, <1>7 DEF IInv

\* The invariant is inductive.
LEMMA NextIInv == IInv /\ [Next]_vars => IInv'
<1> SUFFICES ASSUME IInv, [Next]_vars PROVE IInv'
  OBVIOUS
<1>1. CASE UNCHANGED vars
  BY <1>1 DEF IInv, TypeOK, SendInv, LogInv, Verdict, vars
<1> QED
  BY <1>1, EndedIInv, SendIInv, OperatorIInv DEF Next

\* What the judge's receipt and the send's position say together.
LEMMA IInvImplies == IInv => ReceiptNamesJudge /\ SentUnderActive
<1> SUFFICES ASSUME IInv PROVE ReceiptNamesJudge /\ SentUnderActive
  OBVIOUS
<1>1. ReceiptNamesJudge
  BY DEF IInv, LogInv, ReceiptNamesJudge
<1>2. ASSUME NEW s \in Sends, pc[s] = "sent"
      PROVE \E r \in log : /\ r.call = s /\ r.kind = "evaluate" /\ r.outcome = "pass"
                           /\ r.hash \in seen[s] /\ s \in Permitted[r.hash]
  <2>1. PICK r \in log : r.call = s /\ r.kind = "evaluate"
    BY <1>2 DEF IInv, SendInv, Judged
  <2>2. got[s].active \in seen[s] /\ s \in Permitted[got[s].active]
    BY <1>2 DEF IInv, SendInv, Judged
  <2>3. r.hash = got[s].active /\ r.outcome = Verdict(r.hash, s)
    BY <2>1 DEF IInv, LogInv
  <2> QED
    BY <2>1, <2>2, <2>3 DEF Verdict
<1> QED
  BY <1>1, <1>2 DEF SentUnderActive

-----------------------------------------------------------------------------

\* Type correctness, with the shadow slot's write guard held exactly by the
\* promotion between its two locks.
THEOREM SendPathTypeCorrect == Spec => []TypeOK
<1>1. Init => TypeOK
  BY InitIInv DEF IInv
<1> QED
  BY <1>1, NextTypes, PTL DEF Spec

\* Every constitution.evaluate receipt names the constitution that decided,
\* whatever is activated or promoted while the send runs.
THEOREM EvaluateReceiptsNameTheJudge == Spec => []ReceiptNamesJudge
<1>1. IInv => ReceiptNamesJudge
  BY IInvImplies
<1> QED
  BY <1>1, InitIInv, NextIInv, PTL DEF Spec

\* Nothing is sent but on a recorded permit of a constitution that was
\* active during the call.
THEOREM SentOnlyUnderActive == Spec => []SentUnderActive
<1>1. IInv => SentUnderActive
  BY IInvImplies
<1> QED
  BY <1>1, InitIInv, NextIInv, PTL DEF Spec

-----------------------------------------------------------------------------
(* The shadow slot: how often a constitution went in and came out *)

Left(c) == {k \in Clears \cup Promotes : got[k].shadow = c}
Loaded(c) == {h \in Shadows : Loads[h] = c /\ Wrote(h)}
InSlot(c) == IF shadow = c THEN 1 ELSE 0

\* The count of ShadowLeavesOnce, with the finiteness that makes it a count:
\* no step adds more than one call to either side.
ShadowInv(c) ==
    /\ IsFiniteSet(Left(c)) /\ IsFiniteSet(Loaded(c))
    /\ Cardinality(Left(c)) + InSlot(c) <= Cardinality(Loaded(c))

\* A set grows by at most one element.
LEMMA GrowsByOne ==
    ASSUME NEW S, IsFiniteSet(S), NEW T, NEW x, S \subseteq T, T \subseteq S \cup {x}
    PROVE  /\ IsFiniteSet(T) /\ Cardinality(S) \in Nat /\ Cardinality(T) \in Nat
           /\ Cardinality(S) <= Cardinality(T) /\ Cardinality(T) <= Cardinality(S) + 1
           /\ x \in T /\ x \notin S => Cardinality(T) = Cardinality(S) + 1
<1>1. T = S \/ T = S \cup {x}
  OBVIOUS
<1>2. Cardinality(S) \in Nat
  BY FS_CardinalityType
<1>3. CASE T = S
  BY <1>2, <1>3
<1>4. CASE T = S \cup {x} /\ x \notin S
  <2>1. IsFiniteSet(T) /\ Cardinality(T) = Cardinality(S) + 1
    BY <1>4, FS_AddElement
  <2> QED
    BY <1>2, <2>1
<1> QED
  BY <1>1, <1>3, <1>4

\* A call moves alone, and one that wrote the shadow slot has written it.
LEMMA OneCallMoves ==
    ASSUME TypeOK, Next
    PROVE  /\ \E x : \A y \in Calls \ {x} : pc'[y] = pc[y]
           /\ \A h \in Shadows : Wrote(h) => Wrote(h)'
<1> USE CallsDisjoint DEF Calls, Operators
<1> DEFINE Alone(x) == /\ \A y \in Calls \ {x} : pc'[y] = pc[y]
                       /\ \A h \in Shadows : Wrote(h) => Wrote(h)'
<1>1. ASSUME NEW x \in Calls, NEW to, pc' = [pc EXCEPT ![x] = to],
             x \in Shadows /\ Wrote(x) => to \in {"written", "fetched", "recorded", "unrecorded"}
      PROVE  Alone(x)
  BY <1>1 DEF TypeOK, Wrote
<1>2. ASSUME NEW x \in Calls, Refuse(x) PROVE Alone(x)
  BY <1>1, <1>2 DEF Refuse, Go, Wrote
<1>3. ASSUME NEW x \in Calls, Fail(x) PROVE Alone(x)
  <2>1. pc' = [pc EXCEPT ![x] = IF x \in Sends THEN "refused" ELSE "unrecorded"]
    BY <1>3 DEF Fail
  <2> QED
    BY <1>1, <2>1
<1>4. ASSUME NEW x \in Sends, Send(x) PROVE Alone(x)
  <2>1. PICK to : pc' = [pc EXCEPT ![x] = to]
    BY <1>4 DEF Send, PinActive, PinShadow, ReadActive, ReadShadow, EmitActive, EmitShadow,
       Panic, NoShadow, Decide, Deliver, Go
  <2> QED
    BY <1>1, <2>1
<1>5. ASSUME NEW x \in Activates, Activating(x) PROVE Alone(x)
  <2>1. PICK to : pc' = [pc EXCEPT ![x] = to]
    BY <1>5 DEF Activating, Activate, RefetchActive, BindActive, RecordActivate, Go
  <2> QED
    BY <1>1, <2>1
<1>6. ASSUME NEW x \in Shadows, Shadowing(x) PROVE Alone(x)
  <2>1. PICK to \in {"begun", "written", "fetched", "recorded"} :
           pc' = [pc EXCEPT ![x] = to] /\ (to = "begun" => pc[x] = "start")
    BY <1>6 DEF Shadowing, ReadParent, LoadShadow, RefetchShadow, RecordShadow, Go
  <2> QED
    BY <1>1, <2>1 DEF Wrote
<1>7. ASSUME NEW x \in Clears, Clearing(x) PROVE Alone(x)
  <2>1. PICK to : pc' = [pc EXCEPT ![x] = to]
    BY <1>7 DEF Clearing, ReadEvicted, ClearShadow, RecordClear, Go
  <2> QED
    BY <1>1, <2>1
<1>8. ASSUME NEW x \in Promotes, Promoting(x) PROVE Alone(x)
  <2>1. PICK to : pc' = [pc EXCEPT ![x] = to]
    BY <1>8 DEF Promoting, PromoteTake, PromoteReplace, BindPromoted, RecordPromote, Go
  <2> QED
    BY <1>1, <2>1
<1> HIDE DEF Alone
<1>9. \E x : Alone(x)
  BY <1>2, <1>3, <1>4, <1>5, <1>6, <1>7, <1>8 DEF Next
<1> QED
  BY <1>9 DEF Alone

\* What a step does to the slot and to the calls that report having emptied it.
LEMMA SlotSteps ==
    ASSUME TypeOK, Next
    PROVE  \/ /\ shadow' = shadow
              /\ \A k \in Clears \cup Promotes : got'[k].shadow = got[k].shadow
           \/ \E h \in Shadows :
                /\ shadow' = Loads[h] /\ ~Wrote(h) /\ Wrote(h)'
                /\ \A k \in Clears \cup Promotes : got'[k].shadow = got[k].shadow
           \/ \E x \in Clears \cup Promotes :
                /\ shadow' = None /\ got'[x].shadow = shadow
                /\ \A k \in (Clears \cup Promotes) \ {x} : got'[k].shadow = got[k].shadow
<1> USE CallsDisjoint DEF TypeOK, Calls, Operators
<1> DEFINE Same == /\ shadow' = shadow
                   /\ \A k \in Clears \cup Promotes : got'[k].shadow = got[k].shadow
           Loading == \E h \in Shadows :
                /\ shadow' = Loads[h] /\ ~Wrote(h) /\ Wrote(h)'
                /\ \A k \in Clears \cup Promotes : got'[k].shadow = got[k].shadow
           Leaving == \E x \in Clears \cup Promotes :
                /\ shadow' = None /\ got'[x].shadow = shadow
                /\ \A k \in (Clears \cup Promotes) \ {x} : got'[k].shadow = got[k].shadow
<1>1. ASSUME NEW x \in Calls, Refuse(x) \/ Fail(x) PROVE Same
  BY <1>1 DEF Refuse, Fail
<1>2. ASSUME NEW x \in Sends, Send(x) PROVE Same
  BY <1>2 DEF Send, PinActive, PinShadow, ReadActive, ReadShadow, EmitActive, EmitShadow,
     Panic, NoShadow, Decide, Deliver
<1>3. ASSUME NEW x \in Activates, Activating(x) PROVE Same
  BY <1>3 DEF Activating, Activate, RefetchActive, BindActive, RecordActivate
<1>4. ASSUME NEW x \in Shadows, Shadowing(x) PROVE Same \/ Loading
  <2>1. CASE LoadShadow(x)
    <3>1. shadow' = Loads[x] /\ UNCHANGED got
      BY <2>1 DEF LoadShadow
    <3>2. ~Wrote(x) /\ Wrote(x)'
      BY <2>1 DEF LoadShadow, Go, Wrote
    <3> QED
      BY <3>1, <3>2
  <2>2. CASE ReadParent(x) \/ RefetchShadow(x) \/ RecordShadow(x)
    BY <2>2 DEF ReadParent, RefetchShadow, RecordShadow
  <2> QED
    BY <1>4, <2>1, <2>2 DEF Shadowing
<1>5. ASSUME NEW x \in Clears, Clearing(x) PROVE Same \/ Leaving
  <2>1. CASE ClearShadow(x)
    <3>1. shadow' = None /\ got' = [got EXCEPT ![x].shadow = shadow]
      BY <2>1 DEF ClearShadow
    <3>2. /\ got'[x].shadow = shadow
          /\ \A k \in (Clears \cup Promotes) \ {x} : got'[k].shadow = got[k].shadow
      BY <3>1 DEF Reading
    <3> QED
      BY <3>1, <3>2
  <2>2. CASE ReadEvicted(x) \/ RecordClear(x)
    BY <2>2 DEF ReadEvicted, RecordClear
  <2> QED
    BY <1>5, <2>1, <2>2 DEF Clearing
<1>6. ASSUME NEW x \in Promotes, Promoting(x) PROVE Same \/ Leaving
  <2>1. CASE PromoteTake(x) /\ shadow # None
    <3>1. shadow' = None /\ got' = [got EXCEPT ![x].shadow = shadow]
      BY <2>1 DEF PromoteTake
    <3>2. /\ got'[x].shadow = shadow
          /\ \A k \in (Clears \cup Promotes) \ {x} : got'[k].shadow = got[k].shadow
      BY <3>1 DEF Reading
    <3> QED
      BY <3>1, <3>2
  <2>2. CASE PromoteTake(x) /\ shadow = None
    BY <2>2 DEF PromoteTake
  <2>3. CASE PromoteReplace(x)
    <3>1. shadow' = shadow /\ got' = [got EXCEPT ![x].active = active]
      BY <2>3 DEF PromoteReplace
    <3> QED
      BY <3>1 DEF Reading
  <2>4. CASE BindPromoted(x) \/ RecordPromote(x)
    BY <2>4 DEF BindPromoted, RecordPromote
  <2> QED
    BY <1>6, <2>1, <2>2, <2>3, <2>4 DEF Promoting
<1> HIDE DEF Same, Loading, Leaving
<1>7. Same \/ Loading \/ Leaving
  BY <1>1, <1>2, <1>3, <1>4, <1>5, <1>6 DEF Next
<1> QED
  BY <1>7 DEF Same, Loading, Leaving

LEMMA ShadowNext ==
    ASSUME TypeOK, [Next]_vars, NEW c \in Constitutions, ShadowInv(c)
    PROVE  ShadowInv(c)'
<1>0. c # None
  BY NoneNoConstitution
<1>1. CASE UNCHANGED vars
  BY <1>1 DEF vars, ShadowInv, Left, Loaded, InSlot, Wrote
<1>2. CASE Next
  <2>1. PICK x : \A y \in Calls \ {x} : pc'[y] = pc[y]
    BY <1>2, OneCallMoves
  <2>2. \A h \in Shadows : Wrote(h) => Wrote(h)'
    BY <1>2, OneCallMoves
  <2>3. Loaded(c) \subseteq Loaded(c)'
    BY <2>2 DEF Loaded
  <2>4. Loaded(c)' \subseteq Loaded(c) \cup {x}
    BY <2>1 DEF Loaded, Wrote, Calls, Operators
  <2>5. /\ IsFiniteSet(Loaded(c)') /\ Cardinality(Loaded(c)) \in Nat
        /\ Cardinality(Loaded(c)') \in Nat
        /\ Cardinality(Loaded(c)) <= Cardinality(Loaded(c)')
    BY <2>3, <2>4, GrowsByOne DEF ShadowInv
  <2>6. IsFiniteSet(Left(c)) /\ Cardinality(Left(c)) \in Nat
    BY FS_CardinalityType DEF ShadowInv
  <2>7. Cardinality(Left(c)) + InSlot(c) <= Cardinality(Loaded(c))
    BY DEF ShadowInv
  <2>8. CASE /\ shadow' = shadow
             /\ \A k \in Clears \cup Promotes : got'[k].shadow = got[k].shadow
    <3>1. Left(c)' = Left(c) /\ InSlot(c)' = InSlot(c)
      BY <2>8 DEF Left, InSlot
    <3> QED
      BY <2>5, <2>6, <2>7, <3>1 DEF ShadowInv, InSlot
  <2>9. ASSUME NEW h \in Shadows, shadow' = Loads[h], ~Wrote(h), Wrote(h)',
               \A k \in Clears \cup Promotes : got'[k].shadow = got[k].shadow
        PROVE  ShadowInv(c)'
    <3>1. Left(c)' = Left(c)
      BY <2>9 DEF Left
    <3>2. CASE Loads[h] # c
      <4>1. InSlot(c)' = 0
        BY <2>9, <3>2 DEF InSlot
      <4> QED
        BY <2>5, <2>6, <2>7, <3>1, <4>1 DEF ShadowInv, InSlot
    <3>3. CASE Loads[h] = c
      <4>1. h \in Loaded(c)' /\ h \notin Loaded(c)
        BY <2>9, <3>3 DEF Loaded
      <4>2. x = h
        BY <2>4, <4>1
      <4>3. Cardinality(Loaded(c)') = Cardinality(Loaded(c)) + 1
        BY <2>3, <2>4, <4>1, <4>2, GrowsByOne DEF ShadowInv
      <4>4. InSlot(c)' = 1
        BY <2>9, <3>3 DEF InSlot
      <4> QED
        BY <2>5, <2>6, <2>7, <3>1, <4>3, <4>4 DEF ShadowInv, InSlot
    <3> QED
      BY <3>2, <3>3
  <2>10. ASSUME NEW y \in Clears \cup Promotes, shadow' = None, got'[y].shadow = shadow,
                \A k \in (Clears \cup Promotes) \ {y} : got'[k].shadow = got[k].shadow
         PROVE  ShadowInv(c)'
    <3>1. InSlot(c)' = 0
      BY <1>0, <2>10 DEF InSlot
    <3>2. CASE shadow = c
      <4>1. Left(c) \subseteq Left(c)' /\ Left(c)' \subseteq Left(c) \cup {y}
        BY <2>10, <3>2 DEF Left
      <4>2. /\ IsFiniteSet(Left(c)') /\ Cardinality(Left(c)') \in Nat
            /\ Cardinality(Left(c)') <= Cardinality(Left(c)) + 1
        BY <2>6, <4>1, GrowsByOne
      <4>3. InSlot(c) = 1
        BY <3>2 DEF InSlot
      <4> QED
        BY <2>5, <2>6, <2>7, <3>1, <4>2, <4>3 DEF ShadowInv
    <3>3. CASE shadow # c
      <4>1. Left(c)' \in SUBSET Left(c)
        BY <2>10, <3>3 DEF Left
      <4>2. IsFiniteSet(Left(c)') /\ Cardinality(Left(c)') <= Cardinality(Left(c))
        BY <2>6, <4>1, FS_Subset
      <4>3. Cardinality(Left(c)') \in Nat
        BY <4>2, FS_CardinalityType
      <4> QED
        BY <2>5, <2>6, <2>7, <3>1, <4>2, <4>3 DEF ShadowInv, InSlot
    <3> QED
      BY <3>2, <3>3
  <2> QED
    BY <1>2, <2>8, <2>9, <2>10, SlotSteps
<1> QED
  BY <1>1, <1>2

\* A shadow constitution is cleared or promoted at most once per time it was
\* loaded (load_shadow, clear_shadow, promote_shadow), however the operator
\* calls interleave around the guard.
THEOREM ShadowsLeaveOnce == Spec => []ShadowLeavesOnce
<1> DEFINE SInv == TypeOK /\ \A c \in Constitutions : ShadowInv(c)
<1>1. Init => SInv
  <2> SUFFICES ASSUME Init PROVE SInv
    OBVIOUS
  <2>1. TypeOK
    BY InitIInv DEF IInv
  <2>2. ASSUME NEW c \in Constitutions PROVE ShadowInv(c)
    <3>1. Left(c) = {} /\ Loaded(c) = {} /\ InSlot(c) = 0
      BY NoneNoConstitution DEF Init, Left, Loaded, InSlot, Wrote, Calls, Operators
    <3> QED
      BY <3>1, FS_EmptySet DEF ShadowInv
  <2> QED
    BY <2>1, <2>2
<1>2. SInv /\ [Next]_vars => SInv'
  <2> SUFFICES ASSUME SInv, [Next]_vars PROVE SInv'
    OBVIOUS
  <2>1. TypeOK'
    BY NextTypes
  <2>2. ASSUME NEW c \in Constitutions PROVE ShadowInv(c)'
    BY ShadowNext
  <2> QED
    BY <2>1, <2>2
<1>3. SInv => ShadowLeavesOnce
  BY DEF ShadowInv, Left, Loaded, InSlot, ShadowLeavesOnce
<1> QED
  BY <1>1, <1>2, <1>3, PTL DEF Spec
=============================================================================
