--------------------------- MODULE AdmissionProofs ---------------------------
(***************************************************************************)
(* Proofs about Admission for any sets of agents, calls and capabilities,  *)
(* finite or not, and any number of failed appends.                        *)
(*                                                                         *)
(* ReceiptsAccount holds only when no call is between the passport store   *)
(* and its receipt; Balance is what holds in between: the receipts still   *)
(* to be appended make up the difference.  BarInv and HeldInv are the      *)
(* strengthenings the other two properties need.                           *)
(***************************************************************************)
EXTENDS Admission, FiniteSetTheorems, TLAPS

Types ==
    /\ TypeOK
    /\ todo \in [Calls -> SUBSET Caps]
    /\ owed \in [Calls -> SUBSET Caps]

\* The agent of a barred call has no live passport.
BarInv ==
    /\ gone \cap live = {}
    /\ \A c \in barred : pc[c] \in {"resolve", "rejected"} /\ Target[c] \in gone

\* An eviction past its receipt is on record.
Recorded == {"list", "cascade", "mark", "notify"}
RecordInv ==
    /\ \A a \in revokedAgents : revokes[a] > 0
    /\ \A c \in Calls : pc[c] \in Recorded => revokes[Target[c]] > 0

\* What the target held is revoked already or still on the cascade's list.
Unspent == {"idle", "resolve", "recheck", "handler", "persist", "registerReceipt"}
HeldInv(c) ==
    /\ \A k \in owed[c] : Subject[k] = Target[c]
    /\ pc[c] \in Unspent => owed[c] = {}
    /\ pc[c] = "cascade" => owed[c] \subseteq capRevoked \cup todo[c]
    /\ c \in Cascade /\ pc[c] \in {"mark", "notify", "done"} => owed[c] \subseteq capRevoked

\* The calls that have changed the passport of an agent and not yet appended the receipt.
Pending(step, a) == {c \in Calls : pc[c] = step /\ Target[c] = a}
Live(a) == IF a \in live THEN 1 ELSE 0

Balance(a) ==
    /\ IsFiniteSet(Pending("registerReceipt", a)) /\ IsFiniteSet(Pending("revokeReceipt", a))
    /\ faults = 0 =>
          registers[a] + Cardinality(Pending("registerReceipt", a))
              = revokes[a] + Cardinality(Pending("revokeReceipt", a)) + Live(a)

IInv ==
    /\ Types
    /\ BarInv
    /\ RecordInv
    /\ \A c \in Calls : HeldInv(c)
    /\ \A a \in Agents : Balance(a)
-----------------------------------------------------------------------------

\* One call moves, the others stay where they are.
LEMMA GotoFacts ==
    ASSUME Types, NEW c \in Calls, NEW step \in Steps, Goto(c, step)
    PROVE  /\ pc' \in [Calls -> Steps]
           /\ pc'[c] = step
           /\ \A d \in Calls : d # c => pc'[d] = pc[d]
  BY DEF Types, TypeOK, Goto

\* A call that neither waits for a receipt of this kind nor comes to do so.
LEMMA PendingSame ==
    ASSUME Types, NEW c \in Calls, NEW step \in Steps, Goto(c, step),
           NEW s, pc[c] # s, step # s, NEW a
    PROVE  Pending(s, a)' = Pending(s, a)
  BY GotoFacts DEF Pending

\* A call that comes to wait for its receipt.
LEMMA PendingAdd ==
    ASSUME Types, NEW c \in Calls, NEW s \in Steps, Goto(c, s), pc[c] # s, NEW a,
           IsFiniteSet(Pending(s, a))
    PROVE  /\ IsFiniteSet(Pending(s, a)')
           /\ Cardinality(Pending(s, a)')
                  = Cardinality(Pending(s, a)) + (IF Target[c] = a THEN 1 ELSE 0)
           /\ Cardinality(Pending(s, a)) \in Nat
<1>1. Pending(s, a)' = IF Target[c] = a THEN Pending(s, a) \cup {c} ELSE Pending(s, a)
  BY GotoFacts DEF Pending
<1>2. c \notin Pending(s, a)
  BY DEF Pending
<1> QED
  BY <1>1, <1>2, FS_AddElement, FS_CardinalityType

\* A call whose receipt is appended, or whose append failed.
LEMMA PendingRemove ==
    ASSUME Types, NEW c \in Calls, NEW step \in Steps, Goto(c, step),
           NEW s, pc[c] = s, step # s, NEW a, IsFiniteSet(Pending(s, a))
    PROVE  /\ IsFiniteSet(Pending(s, a)')
           /\ Cardinality(Pending(s, a)')
                  = Cardinality(Pending(s, a)) - (IF Target[c] = a THEN 1 ELSE 0)
           /\ Cardinality(Pending(s, a)) \in Nat
<1>1. Pending(s, a)' = IF Target[c] = a THEN Pending(s, a) \ {c} ELSE Pending(s, a)
  BY GotoFacts DEF Pending
<1>2. c \in Pending(s, Target[c])
  BY DEF Pending
<1> QED
  BY <1>1, <1>2, FS_RemoveElement, FS_CardinalityType
-----------------------------------------------------------------------------

\* The swarm starts with the receipts of its first agents.
LEMMA InitIInv == Init => IInv
<1> SUFFICES ASSUME Init PROVE IInv
  OBVIOUS
<1> USE AdmissionAssumption
<1>1. Types
  BY DEF Init, Types, TypeOK, Steps
<1>2. BarInv /\ RecordInv
  BY DEF Init, BarInv, RecordInv, Recorded
<1>3. ASSUME NEW c \in Calls PROVE HeldInv(c)
  BY DEF Init, HeldInv
<1>4. ASSUME NEW a \in Agents PROVE Balance(a)
  <2>1. Pending("registerReceipt", a) = {} /\ Pending("revokeReceipt", a) = {}
    BY DEF Init, Pending
  <2>2. IsFiniteSet({}) /\ Cardinality({}) = 0
    BY FS_EmptySet
  <2>3. registers[a] = Live(a) /\ revokes[a] = 0 /\ Live(a) \in Nat
    BY DEF Init, Live
  <2> QED
    BY <2>1, <2>2, <2>3 DEF Balance
<1> QED
  BY <1>1, <1>2, <1>3, <1>4 DEF IInv

\* A step that moves one call and changes nothing the invariant speaks of, between places
\* at which the invariant does not ask for more.
LEMMA MoveStep ==
    ASSUME IInv, NEW c \in Calls, NEW step \in Steps, Goto(c, step),
           c \in barred => step \in {"resolve", "rejected"},
           step \notin Recorded \cup {"registerReceipt", "revokeReceipt"} \/
               (step = "mark" /\ pc[c] = "cascade" /\ todo[c] = {}),
           pc[c] \notin {"registerReceipt", "revokeReceipt"},
           step \in Unspent => pc[c] \in Unspent,
           step = "done" => pc[c] \in Unspent \cup {"notify"},
           UNCHANGED <<storeVars, revokedAgents, auditVars, capVars, barVars, faults>>,
           notified' \subseteq Calls, dropped' \subseteq Calls, items' \in [Calls -> 0..MaxItems]
    PROVE  IInv'
<1> USE DEF storeVars, auditVars, capVars, barVars
<1>0. Types
  BY DEF IInv
<1>1. /\ pc' \in [Calls -> Steps]
      /\ pc'[c] = step
      /\ \A d \in Calls : d # c => pc'[d] = pc[d]
  BY <1>0, GotoFacts
<1>2. Types'
  BY <1>0, <1>1 DEF Types, TypeOK
<1>3. BarInv'
  BY <1>0, <1>1 DEF IInv, BarInv, Types, TypeOK
<1>4. RecordInv'
  BY <1>1 DEF IInv, RecordInv, Recorded
<1>5. ASSUME NEW d \in Calls PROVE HeldInv(d)'
  <2>1. HeldInv(d) /\ HeldInv(c)
    BY DEF IInv
  <2>2. CASE d # c
    BY <1>1, <2>1, <2>2 DEF HeldInv
  <2>3. CASE d = c /\ step = "mark"
    BY <1>1, <2>1, <2>3 DEF HeldInv, Recorded, Unspent
  <2>4. CASE d = c /\ step # "mark"
    BY <1>1, <2>1, <2>4 DEF HeldInv, Recorded, Unspent
  <2> QED
    BY <2>2, <2>3, <2>4
<1>6. ASSUME NEW a \in Agents PROVE Balance(a)'
  <2>1. /\ Pending("registerReceipt", a)' = Pending("registerReceipt", a)
        /\ Pending("revokeReceipt", a)' = Pending("revokeReceipt", a)
    BY <1>0, PendingSame DEF Recorded
  <2>2. Balance(a)
    BY DEF IInv
  <2> QED
    BY <2>1, <2>2 DEF Balance, Live
<1> QED
  BY <1>2, <1>3, <1>4, <1>5, <1>6 DEF IInv
-----------------------------------------------------------------------------

\* Authentication: a call whose agent is gone finds no passport.
LEMMA AuthenticatingStep ==
    ASSUME IInv, NEW c \in Calls, Authenticating(c) \/ Unary(c) PROVE IInv'
<1>0. Types /\ barred \subseteq Calls
  BY DEF IInv, Types, TypeOK
<1>1. UNCHANGED <<storeVars, revokedAgents, auditVars, capVars, streamVars, gone, faults>>
  BY DEF Authenticating, Peek, Resolve, Recheck, OperatorAuth, Unary, barVars
<1>2. notified' \subseteq Calls /\ dropped' \subseteq Calls /\ items' \in [Calls -> 0..MaxItems]
  BY <1>0, <1>1 DEF Types, TypeOK, streamVars
<1> USE DEF Steps, Recorded, Unspent
<1>3. CASE Peek(c)
  <2> DEFINE step == IF Target[c] \in revokedAgents THEN "rejected" ELSE "resolve"
  <2>1. pc[c] = "idle" /\ Goto(c, step)
        /\ barred' = IF Target[c] \in gone THEN barred \cup {c} ELSE barred
    BY <1>3 DEF Peek
  <2>2. /\ pc' \in [Calls -> Steps]
        /\ pc'[c] = step
        /\ \A d \in Calls : d # c => pc'[d] = pc[d]
    BY <1>0, <2>1, GotoFacts
  <2>3. Types'
    BY <1>0, <1>1, <2>1, <2>2
    DEF Types, TypeOK, storeVars, auditVars, capVars, streamVars
  <2>4. BarInv'
    BY <1>0, <1>1, <2>1, <2>2 DEF IInv, BarInv, storeVars
  <2>5. RecordInv'
    BY <1>1, <2>2 DEF IInv, RecordInv, auditVars
  <2>6. ASSUME NEW d \in Calls PROVE HeldInv(d)'
    BY <1>1, <2>1, <2>2 DEF IInv, HeldInv, capVars
  <2>7. ASSUME NEW a \in Agents PROVE Balance(a)'
    <3>1. /\ Pending("registerReceipt", a)' = Pending("registerReceipt", a)
          /\ Pending("revokeReceipt", a)' = Pending("revokeReceipt", a)
      BY <1>0, <2>1, PendingSame
    <3> QED
      BY <1>1, <3>1 DEF IInv, Balance, Live, storeVars, auditVars
  <2> QED
    BY <2>3, <2>4, <2>5, <2>6, <2>7 DEF IInv
<1>4. CASE Resolve(c)
  <2>1. pc[c] = "resolve" /\ UNCHANGED barVars
        /\ Goto(c, IF Target[c] \in live THEN "recheck" ELSE "rejected")
    BY <1>4 DEF Resolve
  <2>2. c \in barred => Target[c] \notin live
    BY DEF IInv, BarInv
  <2> QED
    BY <1>1, <1>2, <2>1, <2>2, MoveStep
<1>5. CASE Recheck(c) \/ OperatorAuth(c) \/ Unary(c)
  <2>1. pc[c] \in {"idle", "recheck", "handler"} /\ UNCHANGED barVars
    BY <1>5 DEF Recheck, OperatorAuth, Unary
  <2>2. c \notin barred
    BY <2>1 DEF IInv, BarInv
  <2>3. PICK step \in {"rejected", "handler", "done"} : Goto(c, step)
    BY <1>5 DEF Recheck, OperatorAuth, Unary
  <2> QED
    BY <1>1, <1>2, <2>1, <2>2, <2>3, MoveStep
<1> QED
  BY <1>3, <1>4, <1>5 DEF Authenticating

\* Streams and their forwarders.
LEMMA StreamingStep ==
    ASSUME IInv, NEW c \in Calls, Streaming(c) \/ TakeItem(c) PROVE IInv'
<1>0. Types /\ items \in [Calls -> 0..MaxItems]
  BY DEF IInv, Types, TypeOK
<1>1. UNCHANGED <<storeVars, revokedAgents, auditVars, capVars, barVars, faults>>
      /\ UNCHANGED <<notified, dropped>>
  BY DEF Streaming, OpenStream, GetSignal, Park, SendItem, TearDown, StreamClosed, TakeItem,
         streamVars
<1>2. notified' \subseteq Calls /\ dropped' \subseteq Calls
  BY <1>0, <1>1 DEF Types, TypeOK
<1>3. items' \in [Calls -> 0..MaxItems]
  <2>1. CASE TakeItem(c)
    <3>1. items[c] + 1 \in 0..MaxItems
      BY <1>0, <2>1, AdmissionAssumption DEF TakeItem
    <3> QED
      BY <1>0, <2>1, <3>1 DEF TakeItem
  <2>2. CASE Streaming(c)
    BY <1>0, <2>2
    DEF Streaming, OpenStream, GetSignal, Park, SendItem, TearDown, StreamClosed, streamVars
  <2> QED
    BY <2>1, <2>2
<1>4. pc[c] \in {"handler", "signal", "spawned", "parked", "sending", "tearing"}
  BY DEF Streaming, OpenStream, GetSignal, Park, SendItem, TearDown, StreamClosed, TakeItem
<1>5. PICK step \in {"signal", "spawned", "parked", "sending", "tearing", "closed"} : Goto(c, step)
  BY DEF Streaming, OpenStream, GetSignal, Park, SendItem, TearDown, StreamClosed, TakeItem
<1>6. c \notin barred
  BY <1>4 DEF IInv, BarInv
<1> QED
  BY <1>1, <1>2, <1>3, <1>4, <1>5, <1>6, MoveStep DEF Steps, Recorded, Unspent

\* Steps that move no call.
LEMMA StillStep ==
    ASSUME IInv, (\E c \in Calls : DropStream(c)) \/ (\E k \in Caps : IssueCap(k)) \/ UNCHANGED vars
    PROVE  IInv'
<1>1. /\ UNCHANGED <<pc, live, revokedBefore, revokedAgents, registers, revokes, denials>>
      /\ UNCHANGED <<capRevoked, todo, owed, notified, items, gone, barred, faults>>
      /\ issued \subseteq issued' /\ issued' \subseteq issued \cup Caps
      /\ dropped' \subseteq dropped \cup Calls
  BY DEF DropStream, IssueCap, vars, storeVars, auditVars, capVars, barVars, streamVars
<1>2. Types'
  BY <1>1 DEF IInv, Types, TypeOK
<1>3. BarInv' /\ RecordInv'
  BY <1>1 DEF IInv, BarInv, RecordInv
<1>4. ASSUME NEW c \in Calls PROVE HeldInv(c)'
  BY <1>1 DEF IInv, HeldInv
<1>5. ASSUME NEW a \in Agents PROVE Balance(a)'
  BY <1>1 DEF IInv, Balance, Live, Pending
<1> QED
  BY <1>2, <1>3, <1>4, <1>5 DEF IInv
-----------------------------------------------------------------------------

\* MemoryRegistry::register.
LEMMA RegisteringStep ==
    ASSUME IInv, NEW c \in Calls, Registering(c) PROVE IInv'
<1> USE DEF storeVars, auditVars, capVars, barVars
<1>0. Types /\ barred \subseteq Calls /\ c \notin barred /\ Target[c] \in Agents
  BY AdmissionAssumption DEF IInv, BarInv, Types, TypeOK, Registering, Attest, Persist,
                             RegisterReceipt, RegisterReceiptFails
<1>1. CASE Attest(c)
  <2>1. PICK step \in {"persist", "denied", "unavailable"} : Goto(c, step)
    BY <1>1 DEF Attest
  <2>2. pc[c] = "idle" /\ denials' \in [Agents -> Nat]
        /\ UNCHANGED <<storeVars, revokedAgents, registers, revokes, capVars, streamVars,
                       barVars, faults>>
    BY <1>0, <1>1 DEF Attest, Types, TypeOK
  <2>3. /\ pc' \in [Calls -> Steps]
        /\ pc'[c] = step
        /\ \A d \in Calls : d # c => pc'[d] = pc[d]
    BY <1>0, <2>1, GotoFacts DEF Steps
  <2>4. Types'
    BY <1>0, <2>2, <2>3 DEF Types, TypeOK, streamVars
  <2>5. BarInv' /\ RecordInv'
    BY <1>0, <2>2, <2>3 DEF IInv, BarInv, RecordInv, Recorded
  <2>6. ASSUME NEW d \in Calls PROVE HeldInv(d)'
    BY <2>2, <2>3 DEF IInv, HeldInv, Unspent
  <2>7. ASSUME NEW a \in Agents PROVE Balance(a)'
    <3>1. /\ Pending("registerReceipt", a)' = Pending("registerReceipt", a)
          /\ Pending("revokeReceipt", a)' = Pending("revokeReceipt", a)
      BY <1>0, <2>1, <2>2, PendingSame DEF Steps
    <3> QED
      BY <2>2, <3>1 DEF IInv, Balance, Live
  <2> QED
    BY <2>4, <2>5, <2>6, <2>7 DEF IInv
<1>2. CASE Persist(c) /\ Target[c] \in live
  <2>1. /\ pc[c] = "persist" /\ Goto(c, "failed")
        /\ UNCHANGED <<storeVars, revokedAgents, auditVars, capVars, barVars, faults>>
        /\ UNCHANGED <<notified, dropped, items>>
    BY <1>2 DEF Persist, streamVars
  <2>2. notified' \subseteq Calls /\ dropped' \subseteq Calls /\ items' \in [Calls -> 0..MaxItems]
    BY <1>0, <2>1 DEF Types, TypeOK
  <2> QED
    BY <1>0, <2>1, <2>2, MoveStep DEF Steps, Recorded, Unspent
<1>3. CASE Persist(c) /\ Target[c] \notin live
  <2>1. /\ pc[c] = "persist" /\ Goto(c, "registerReceipt")
        /\ live' = live \cup {Target[c]}
        /\ gone' = gone \ {Target[c]}
        /\ barred' = {d \in barred : Target[d] # Target[c]}
        /\ UNCHANGED <<revokedBefore, revokedAgents, auditVars, capVars, streamVars, faults>>
    BY <1>3 DEF Persist
  <2>2. /\ pc' \in [Calls -> Steps]
        /\ pc'[c] = "registerReceipt"
        /\ \A d \in Calls : d # c => pc'[d] = pc[d]
    BY <1>0, <2>1, GotoFacts DEF Steps
  <2>3. Types'
    BY <1>0, <2>1, <2>2 DEF Types, TypeOK, streamVars
  <2>4. BarInv' /\ RecordInv'
    BY <1>0, <2>1, <2>2 DEF IInv, BarInv, RecordInv, Recorded
  <2>5. ASSUME NEW d \in Calls PROVE HeldInv(d)'
    BY <2>1, <2>2 DEF IInv, HeldInv, Unspent
  <2>6. ASSUME NEW a \in Agents PROVE Balance(a)'
    <3>1. Balance(a)
      BY DEF IInv
    <3>2. /\ IsFiniteSet(Pending("registerReceipt", a)')
          /\ Cardinality(Pending("registerReceipt", a)') =
                 Cardinality(Pending("registerReceipt", a)) + (IF Target[c] = a THEN 1 ELSE 0)
          /\ Cardinality(Pending("registerReceipt", a)) \in Nat
      BY <1>0, <2>1, <3>1, PendingAdd DEF Steps, Balance
    <3>3. Pending("revokeReceipt", a)' = Pending("revokeReceipt", a)
      BY <1>0, <2>1, PendingSame DEF Steps
    <3>4. Cardinality(Pending("revokeReceipt", a)) \in Nat
      BY <3>1, FS_CardinalityType DEF Balance
    <3>5. Live(a)' = Live(a) + (IF Target[c] = a THEN 1 ELSE 0) /\ Live(a) \in Nat
      BY <1>3, <2>1 DEF Live
    <3>6. registers[a] \in Nat /\ revokes[a] \in Nat /\ UNCHANGED <<registers, revokes, faults>>
      BY <1>0, <2>1 DEF Types, TypeOK
    <3> QED
      BY <3>1, <3>2, <3>3, <3>4, <3>5, <3>6 DEF Balance
  <2> QED
    BY <2>3, <2>4, <2>5, <2>6 DEF IInv
<1>4. CASE RegisterReceipt(c)
  <2>1. /\ pc[c] = "registerReceipt" /\ Goto(c, "done")
        /\ registers' = [registers EXCEPT ![Target[c]] = @ + 1]
        /\ UNCHANGED <<storeVars, revokedAgents, revokes, denials, capVars, streamVars, barVars,
                       faults>>
    BY <1>4 DEF RegisterReceipt
  <2>2. /\ pc' \in [Calls -> Steps]
        /\ pc'[c] = "done"
        /\ \A d \in Calls : d # c => pc'[d] = pc[d]
    BY <1>0, <2>1, GotoFacts DEF Steps
  <2>3. Types'
    BY <1>0, <2>1, <2>2 DEF Types, TypeOK, streamVars
  <2>4. BarInv' /\ RecordInv'
    BY <1>0, <2>1, <2>2 DEF IInv, BarInv, RecordInv, Recorded
  <2>5. ASSUME NEW d \in Calls PROVE HeldInv(d)'
    BY <2>1, <2>2 DEF IInv, HeldInv, Unspent
  <2>6. ASSUME NEW a \in Agents PROVE Balance(a)'
    <3>1. Balance(a)
      BY DEF IInv
    <3>2. /\ IsFiniteSet(Pending("registerReceipt", a)')
          /\ Cardinality(Pending("registerReceipt", a)') =
                 Cardinality(Pending("registerReceipt", a)) - (IF Target[c] = a THEN 1 ELSE 0)
          /\ Cardinality(Pending("registerReceipt", a)) \in Nat
      <4>1. IsFiniteSet(Pending("registerReceipt", a)) /\ "done" \in Steps
        BY <3>1 DEF Balance, Steps
      <4> QED
        BY <1>0, <2>1, <4>1, PendingRemove
    <3>3. Pending("revokeReceipt", a)' = Pending("revokeReceipt", a)
      BY <1>0, <2>1, PendingSame DEF Steps
    <3>4. Cardinality(Pending("revokeReceipt", a)) \in Nat
      BY <3>1, FS_CardinalityType DEF Balance
    <3>5. Live(a)' = Live(a) /\ Live(a) \in Nat
      BY <2>1 DEF Live
    <3>6. /\ registers[a] \in Nat /\ revokes[a] \in Nat /\ UNCHANGED <<revokes, faults>>
          /\ registers'[a] = registers[a] + (IF Target[c] = a THEN 1 ELSE 0)
      BY <1>0, <2>1 DEF Types, TypeOK
    <3> QED
      BY <3>1, <3>2, <3>3, <3>4, <3>5, <3>6 DEF Balance
  <2> QED
    BY <2>3, <2>4, <2>5, <2>6 DEF IInv
<1>5. CASE RegisterReceiptFails(c)
  <2>1. /\ pc[c] = "registerReceipt" /\ Goto(c, "failed")
        /\ faults < MaxFaults /\ faults' = faults + 1
        /\ UNCHANGED <<storeVars, revokedAgents, auditVars, capVars, streamVars, barVars>>
    BY <1>5 DEF RegisterReceiptFails
  <2>2. /\ pc' \in [Calls -> Steps]
        /\ pc'[c] = "failed"
        /\ \A d \in Calls : d # c => pc'[d] = pc[d]
    BY <1>0, <2>1, GotoFacts DEF Steps
  <2>3. faults' \in 0..MaxFaults /\ faults' # 0
    BY <1>0, <2>1, AdmissionAssumption DEF Types, TypeOK
  <2>4. Types'
    BY <1>0, <2>1, <2>2, <2>3 DEF Types, TypeOK, streamVars
  <2>5. BarInv' /\ RecordInv'
    BY <1>0, <2>1, <2>2 DEF IInv, BarInv, RecordInv, Recorded
  <2>6. ASSUME NEW d \in Calls PROVE HeldInv(d)'
    BY <2>1, <2>2 DEF IInv, HeldInv, Unspent
  <2>7. ASSUME NEW a \in Agents PROVE Balance(a)'
    <3>1. Balance(a)
      BY DEF IInv
    <3>2. IsFiniteSet(Pending("registerReceipt", a)')
      <4>1. IsFiniteSet(Pending("registerReceipt", a)) /\ "failed" \in Steps
        BY <3>1 DEF Balance, Steps
      <4> QED
        BY <1>0, <2>1, <4>1, PendingRemove
    <3>3. Pending("revokeReceipt", a)' = Pending("revokeReceipt", a)
      BY <1>0, <2>1, PendingSame DEF Steps
    <3> QED
      BY <2>3, <3>1, <3>2, <3>3 DEF Balance
  <2> QED
    BY <2>4, <2>5, <2>6, <2>7 DEF IInv
<1> QED
  BY <1>1, <1>2, <1>3, <1>4, <1>5 DEF Registering
-----------------------------------------------------------------------------

\* The passport leaves the store, and what its holder has is remembered.
LEMMA RevokePassportStep ==
    ASSUME IInv, NEW c \in Calls, RevokePassport(c) PROVE IInv'
<1> USE DEF storeVars, auditVars, capVars, barVars
<1>0. Types /\ barred \subseteq Calls /\ c \notin barred /\ Target[c] \in Agents
  BY AdmissionAssumption DEF IInv, BarInv, Types, TypeOK, RevokePassport
<1>1. /\ pc[c] = "handler" /\ Target[c] \in live /\ Goto(c, "revokeReceipt")
      /\ live' = live \ {Target[c]}
      /\ revokedBefore' = revokedBefore \cup {Target[c]}
      /\ owed' = [owed EXCEPT ![c] = {k \in issued : Subject[k] = Target[c]}]
      /\ gone' = gone \cup {Target[c]}
      /\ UNCHANGED <<revokedAgents, auditVars, issued, capRevoked, todo, streamVars, barred,
                     faults>>
  BY DEF RevokePassport
<1>2. /\ pc' \in [Calls -> Steps]
      /\ pc'[c] = "revokeReceipt"
      /\ \A d \in Calls : d # c => pc'[d] = pc[d]
  BY <1>0, <1>1, GotoFacts DEF Steps
<1>3. /\ owed' \in [Calls -> SUBSET Caps]
      /\ owed'[c] = {k \in issued : Subject[k] = Target[c]}
      /\ \A d \in Calls : d # c => owed'[d] = owed[d]
  BY <1>0, <1>1 DEF Types, TypeOK
<1>4. Types'
  BY <1>0, <1>1, <1>2, <1>3 DEF Types, TypeOK, streamVars
<1>5. BarInv' /\ RecordInv'
  BY <1>0, <1>1, <1>2 DEF IInv, BarInv, RecordInv, Recorded
<1>6. ASSUME NEW d \in Calls PROVE HeldInv(d)'
  BY <1>1, <1>2, <1>3 DEF IInv, HeldInv, Unspent
<1>7. ASSUME NEW a \in Agents PROVE Balance(a)'
  <2>1. Balance(a) /\ "revokeReceipt" \in Steps
    BY DEF IInv, Steps
  <2>2. IsFiniteSet(Pending("revokeReceipt", a)) /\ IsFiniteSet(Pending("registerReceipt", a))
    BY <2>1 DEF Balance
  <2>3. /\ IsFiniteSet(Pending("revokeReceipt", a)')
        /\ Cardinality(Pending("revokeReceipt", a)') =
               Cardinality(Pending("revokeReceipt", a)) + (IF Target[c] = a THEN 1 ELSE 0)
        /\ Cardinality(Pending("revokeReceipt", a)) \in Nat
    BY <1>0, <1>1, <2>1, <2>2, PendingAdd
  <2>4. Pending("registerReceipt", a)' = Pending("registerReceipt", a)
    BY <1>0, <1>1, <2>1, PendingSame
  <2>5. Cardinality(Pending("registerReceipt", a)) \in Nat
    BY <2>2, FS_CardinalityType
  <2>6. Live(a) = Live(a)' + (IF Target[c] = a THEN 1 ELSE 0) /\ Live(a)' \in Nat
    BY <1>1 DEF Live
  <2>7. registers[a] \in Nat /\ revokes[a] \in Nat /\ UNCHANGED <<registers, revokes, faults>>
    BY <1>0, <1>1 DEF Types, TypeOK
  <2> QED
    BY <2>1, <2>2, <2>3, <2>4, <2>5, <2>6, <2>7 DEF Balance
<1> QED
  BY <1>4, <1>5, <1>6, <1>7 DEF IInv

\* The revocation goes on record.
LEMMA RevokeReceiptStep ==
    ASSUME IInv, NEW c \in Calls, RevokeReceipt(c) PROVE IInv'
<1> USE DEF storeVars, auditVars, capVars, barVars
<1>0. Types /\ barred \subseteq Calls /\ c \notin barred /\ Target[c] \in Agents
      /\ \A d \in Calls : Target[d] \in Agents
  BY AdmissionAssumption DEF IInv, BarInv, Types, TypeOK, RevokeReceipt
<1> DEFINE step == IF c \in Cascade THEN "list" ELSE "mark"
<1>1. /\ pc[c] = "revokeReceipt" /\ Goto(c, step)
      /\ revokes' = [revokes EXCEPT ![Target[c]] = @ + 1]
      /\ UNCHANGED <<storeVars, revokedAgents, registers, denials, capVars, streamVars, barVars,
                     faults>>
  BY DEF RevokeReceipt
<1>2. /\ pc' \in [Calls -> Steps]
      /\ pc'[c] = step
      /\ \A d \in Calls : d # c => pc'[d] = pc[d]
  BY <1>0, <1>1, GotoFacts DEF Steps
<1>3. /\ revokes' \in [Agents -> Nat]
      /\ \A a \in Agents : /\ revokes[a] \in Nat
                           /\ revokes'[a] = revokes[a] + (IF Target[c] = a THEN 1 ELSE 0)
  BY <1>0, <1>1 DEF Types, TypeOK
<1>4. Types'
  BY <1>0, <1>1, <1>2, <1>3 DEF Types, TypeOK, streamVars
<1>5. BarInv'
  BY <1>0, <1>1, <1>2 DEF IInv, BarInv
<1>6. RecordInv'
  <2>1. revokedAgents \subseteq Agents /\ RecordInv
    BY <1>0 DEF IInv, Types, TypeOK
  <2>2. \A a \in revokedAgents' : revokes'[a] > 0
    BY <1>1, <1>3, <2>1 DEF RecordInv
  <2>3. ASSUME NEW d \in Calls, pc'[d] \in Recorded PROVE revokes'[Target[d]] > 0
    <3>1. revokes[Target[d]] \in Nat /\ revokes'[Target[d]] \in Nat
      BY <1>0, <1>3
    <3>2. CASE d = c
      BY <1>0, <1>3, <3>1, <3>2
    <3>3. CASE d # c
      BY <1>0, <1>2, <1>3, <2>1, <2>3, <3>1, <3>3 DEF RecordInv
    <3> QED
      BY <3>2, <3>3
  <2> QED
    BY <2>2, <2>3 DEF RecordInv
<1>7. ASSUME NEW d \in Calls PROVE HeldInv(d)'
  BY <1>1, <1>2 DEF IInv, HeldInv, Unspent
<1>8. ASSUME NEW a \in Agents PROVE Balance(a)'
  <2>1. Balance(a) /\ step \in Steps
    BY DEF IInv, Steps
  <2>2. IsFiniteSet(Pending("revokeReceipt", a)) /\ IsFiniteSet(Pending("registerReceipt", a))
    BY <2>1 DEF Balance
  <2>3. /\ IsFiniteSet(Pending("revokeReceipt", a)')
        /\ Cardinality(Pending("revokeReceipt", a)') =
               Cardinality(Pending("revokeReceipt", a)) - (IF Target[c] = a THEN 1 ELSE 0)
        /\ Cardinality(Pending("revokeReceipt", a)) \in Nat
    BY <1>0, <1>1, <2>1, <2>2, PendingRemove
  <2>4. Pending("registerReceipt", a)' = Pending("registerReceipt", a)
    BY <1>0, <1>1, <2>1, PendingSame
  <2>5. Cardinality(Pending("registerReceipt", a)) \in Nat
    BY <2>2, FS_CardinalityType
  <2>6. Live(a)' = Live(a) /\ Live(a) \in Nat
    BY <1>1 DEF Live
  <2>7. registers[a] \in Nat /\ UNCHANGED <<registers, faults>>
    BY <1>0, <1>1 DEF Types, TypeOK
  <2> QED
    BY <1>3, <2>1, <2>2, <2>3, <2>4, <2>5, <2>6, <2>7 DEF Balance
<1> QED
  BY <1>4, <1>5, <1>6, <1>7, <1>8 DEF IInv
-----------------------------------------------------------------------------

\* The rest of Revoke and OperatorRevoke.
LEMMA RevokingStep ==
    ASSUME IInv, NEW c \in Calls, Revoking(c) PROVE IInv'
<1> USE DEF storeVars, auditVars, capVars, barVars
<1>0. /\ Types /\ barred \subseteq Calls /\ c \notin barred
      /\ notified \subseteq Calls /\ dropped \subseteq Calls /\ items \in [Calls -> 0..MaxItems]
      /\ \A d \in Calls : Target[d] \in Agents
  BY AdmissionAssumption
  DEF IInv, BarInv, Types, TypeOK, Revoking, RevokePassport, RevokeNotFound, RevokeReceipt,
      RevokeReceiptFails, ListCaps, CascadeDone, MarkRevoked, NotifyStreams, CascadeRevoke,
      CascadeFails
<1>1. CASE RevokePassport(c)
  BY <1>1, RevokePassportStep
<1>2. CASE RevokeReceipt(c)
  BY <1>2, RevokeReceiptStep
<1>3. CASE RevokeNotFound(c)
  BY <1>0, <1>3, MoveStep DEF RevokeNotFound, Steps, Recorded, Unspent, streamVars
<1>4. CASE CascadeDone(c)
  BY <1>0, <1>4, MoveStep DEF CascadeDone, Steps, Recorded, Unspent, streamVars
<1>5. CASE NotifyStreams(c)
  <2>1. notified' \subseteq Calls
    BY <1>0, <1>5 DEF NotifyStreams
  <2> QED
    BY <1>0, <1>5, <2>1, MoveStep DEF NotifyStreams, Steps, Recorded, Unspent
<1>6. CASE RevokeReceiptFails(c)
  <2>1. /\ pc[c] = "revokeReceipt" /\ Goto(c, "failed")
        /\ faults < MaxFaults /\ faults' = faults + 1
        /\ UNCHANGED <<storeVars, revokedAgents, auditVars, capVars, streamVars, barVars>>
    BY <1>6 DEF RevokeReceiptFails
  <2>2. /\ pc' \in [Calls -> Steps]
        /\ pc'[c] = "failed"
        /\ \A d \in Calls : d # c => pc'[d] = pc[d]
    BY <1>0, <2>1, GotoFacts DEF Steps
  <2>3. faults' \in 0..MaxFaults /\ faults' # 0
    BY <1>0, <2>1, AdmissionAssumption DEF Types, TypeOK
  <2>4. Types'
    BY <1>0, <2>1, <2>2, <2>3 DEF Types, TypeOK, streamVars
  <2>5. BarInv' /\ RecordInv'
    BY <1>0, <2>1, <2>2 DEF IInv, BarInv, RecordInv, Recorded
  <2>6. ASSUME NEW d \in Calls PROVE HeldInv(d)'
    BY <2>1, <2>2 DEF IInv, HeldInv, Unspent
  <2>7. ASSUME NEW a \in Agents PROVE Balance(a)'
    <3>1. Balance(a) /\ "failed" \in Steps
      BY DEF IInv, Steps
    <3>2. IsFiniteSet(Pending("revokeReceipt", a))
      BY <3>1 DEF Balance
    <3>3. IsFiniteSet(Pending("revokeReceipt", a)')
      BY <1>0, <2>1, <3>1, <3>2, PendingRemove
    <3>4. Pending("registerReceipt", a)' = Pending("registerReceipt", a)
      BY <1>0, <2>1, <3>1, PendingSame
    <3> QED
      BY <2>3, <3>1, <3>3, <3>4 DEF Balance
  <2> QED
    BY <2>4, <2>5, <2>6, <2>7 DEF IInv
<1>7. ASSUME UNCHANGED <<storeVars, auditVars, streamVars, barVars, issued, owed>>,
             NEW step \in {"cascade", "notify", "failed"},
             IF pc'[c] = pc[c] THEN UNCHANGED pc ELSE Goto(c, step),
             pc[c] \in Recorded, step \notin Recorded => faults' # 0,
             faults' \in 0..MaxFaults, faults' \in {faults, faults + 1},
             revokedAgents' \subseteq revokedAgents \cup {Target[c]},
             capRevoked \subseteq capRevoked', capRevoked' \subseteq issued,
             todo' \in [Calls -> SUBSET Caps], todo'[c] \subseteq issued,
             \A d \in Calls : d # c => todo'[d] = todo[d],
             HeldInv(c)'
      PROVE  IInv'
  <2>1. /\ pc' \in [Calls -> Steps]
        /\ pc'[c] \in {pc[c], step}
        /\ \A d \in Calls : d # c => pc'[d] = pc[d]
    BY <1>0, <1>7, GotoFacts DEF Steps, Types, TypeOK
  <2>2. Types'
    BY <1>0, <1>7, <2>1 DEF Types, TypeOK, streamVars
  <2>3. BarInv'
    BY <1>0, <1>7, <2>1 DEF IInv, BarInv
  <2>4. RecordInv'
    BY <1>0, <1>7, <2>1 DEF IInv, RecordInv, Recorded
  <2>5. ASSUME NEW d \in Calls PROVE HeldInv(d)'
    BY <1>7, <2>1 DEF IInv, HeldInv
  <2>6. ASSUME NEW a \in Agents PROVE Balance(a)'
    <3>1. /\ Pending("registerReceipt", a)' = Pending("registerReceipt", a)
          /\ Pending("revokeReceipt", a)' = Pending("revokeReceipt", a)
      BY <1>7, <2>1 DEF Pending, Recorded
    <3>2. faults \in Nat /\ (faults' = 0 => faults = 0)
      BY <1>0, <1>7, AdmissionAssumption DEF Types, TypeOK
    <3> QED
      BY <1>7, <3>1, <3>2 DEF IInv, Balance, Live
  <2> QED
    BY <2>2, <2>3, <2>4, <2>5, <2>6 DEF IInv
<1>8. CASE ListCaps(c)
  <2>1. /\ pc[c] = "list" /\ Goto(c, "cascade")
        /\ todo' = [todo EXCEPT ![c] = {k \in issued \ capRevoked : Subject[k] = Target[c]}]
        /\ UNCHANGED <<storeVars, revokedAgents, auditVars, issued, capRevoked, owed, streamVars,
                       barVars, faults>>
    BY <1>8 DEF ListCaps
  <2>2. /\ todo' \in [Calls -> SUBSET Caps]
        /\ todo'[c] = {k \in issued \ capRevoked : Subject[k] = Target[c]}
        /\ \A d \in Calls : d # c => todo'[d] = todo[d]
    BY <1>0, <2>1 DEF Types, TypeOK
  <2>3. pc'[c] = "cascade"
    BY <1>0, <2>1, GotoFacts DEF Steps
  <2>4. HeldInv(c)'
    BY <1>0, <2>1, <2>2, <2>3 DEF IInv, HeldInv, Types, TypeOK, Unspent
  <2>5. capRevoked' \subseteq issued /\ faults' \in 0..MaxFaults
    BY <1>0, <2>1 DEF Types, TypeOK
  <2> QED
    BY <1>7, <2>1, <2>2, <2>3, <2>4, <2>5 DEF Recorded
<1>9. ASSUME NEW k \in Caps, CascadeRevoke(c, k) \/ CascadeFails(c, k) PROVE IInv'
  <2>1. /\ pc[c] = "cascade" /\ k \in todo[c]
        /\ capRevoked' = capRevoked \cup {k}
        /\ UNCHANGED <<storeVars, revokedAgents, auditVars, issued, owed, streamVars, barVars>>
    BY <1>9 DEF CascadeRevoke, CascadeFails
  <2>2. k \in issued /\ capRevoked' \subseteq issued /\ todo[c] \subseteq issued
    BY <1>0, <2>1 DEF Types, TypeOK
  <2>3. CASE CascadeRevoke(c, k)
    <3>1. todo' = [todo EXCEPT ![c] = todo[c] \ {k}] /\ UNCHANGED <<pc, faults>>
      BY <1>0, <2>3 DEF CascadeRevoke, Types
    <3>2. /\ todo' \in [Calls -> SUBSET Caps]
          /\ todo'[c] = todo[c] \ {k}
          /\ \A d \in Calls : d # c => todo'[d] = todo[d]
      BY <1>0, <3>1 DEF Types
    <3>3. HeldInv(c)'
      BY <2>1, <3>1, <3>2 DEF IInv, HeldInv, Unspent
    <3>4. faults' \in 0..MaxFaults
      BY <1>0, <3>1 DEF Types, TypeOK
    <3> QED
      BY <1>7, <2>1, <2>2, <3>1, <3>2, <3>3, <3>4 DEF Recorded
  <2>4. CASE CascadeFails(c, k)
    <3>1. faults < MaxFaults /\ faults' = faults + 1 /\ Goto(c, "failed") /\ UNCHANGED todo
      BY <2>4 DEF CascadeFails
    <3>2. pc'[c] = "failed"
      BY <1>0, <3>1, GotoFacts DEF Steps
    <3>3. HeldInv(c)'
      BY <2>1, <3>2 DEF IInv, HeldInv, Unspent
    <3>4. faults' \in 0..MaxFaults /\ faults' # 0
      BY <1>0, <3>1, AdmissionAssumption DEF Types, TypeOK
    <3>5. todo' \in [Calls -> SUBSET Caps] /\ todo'[c] \subseteq issued
      BY <1>0, <2>2, <3>1 DEF Types
    <3> QED
      BY <1>7, <2>1, <2>2, <3>1, <3>2, <3>3, <3>4, <3>5 DEF Recorded
  <2> QED
    BY <1>9, <2>3, <2>4
<1>10. CASE MarkRevoked(c)
  <2>1. /\ pc[c] = "mark" /\ Goto(c, "notify")
        /\ revokedAgents' = revokedAgents \cup {Target[c]}
        /\ UNCHANGED <<storeVars, auditVars, capVars, streamVars, barVars, faults>>
    BY <1>10 DEF MarkRevoked
  <2>2. pc'[c] = "notify"
    BY <1>0, <2>1, GotoFacts DEF Steps
  <2>3. HeldInv(c)'
    BY <2>1, <2>2 DEF IInv, HeldInv, Unspent
  <2>4. /\ todo \in [Calls -> SUBSET Caps] /\ todo[c] \subseteq issued
        /\ capRevoked \subseteq issued /\ faults \in 0..MaxFaults
    BY <1>0 DEF Types, TypeOK
  <2> QED
    BY <1>7, <2>1, <2>2, <2>3, <2>4 DEF Recorded
<1> QED
  BY <1>1, <1>2, <1>3, <1>4, <1>5, <1>6, <1>8, <1>9, <1>10 DEF Revoking

\* Every step keeps the invariant.
LEMMA NextIInv == IInv /\ [Next]_vars => IInv'
  BY AuthenticatingStep, StreamingStep, StillStep, RegisteringStep, RevokingStep DEF Next

\* The properties follow from the invariant: with nothing pending the balance is what
\* the receipts say.
LEMMA IInvImplies ==
    ASSUME IInv PROVE TypeOK /\ BarredStayOut /\ ReceiptsAccount /\ CascadeTakesHeld
<1>1. TypeOK
  BY DEF IInv, Types
<1>2. BarredStayOut
  BY DEF IInv, BarInv, BarredStayOut
<1>3. ReceiptsAccount
  <2>1. \A a \in revokedAgents : revokes[a] > 0
    BY DEF IInv, RecordInv
  <2>2. ASSUME faults = 0, Quiet, NEW a \in Agents
        PROVE  registers[a] = revokes[a] + (IF a \in live THEN 1 ELSE 0)
    <3>1. Pending("registerReceipt", a) = {} /\ Pending("revokeReceipt", a) = {}
      BY <2>2 DEF Quiet, RevokingSteps, Pending
    <3>2. Cardinality({}) = 0
      BY FS_EmptySet
    <3>3. Balance(a) /\ registers[a] \in Nat /\ revokes[a] \in Nat
      BY DEF IInv, Types, TypeOK
    <3> QED
      BY <2>2, <3>1, <3>2, <3>3 DEF Balance, Live
  <2> QED
    BY <2>1, <2>2 DEF ReceiptsAccount
<1>4. CascadeTakesHeld
  BY AdmissionAssumption DEF IInv, HeldInv, CascadeTakesHeld
<1> QED
  BY <1>1, <1>2, <1>3, <1>4
-----------------------------------------------------------------------------

\* Types: every call stays at a step of its handler, and the bounds hold.
THEOREM AdmissionTypeCorrect == Spec => []TypeOK
  BY InitIInv, NextIInv, IInvImplies, PTL DEF Spec

\* Nobody whose passport is revoked gets past authentication, whatever the eviction's
\* remaining steps do and however calls interleave.
THEOREM RevokedAgentsAreBarred == Spec => []BarredStayOut
  BY InitIInv, NextIInv, IInvImplies, PTL DEF Spec

\* The receipts account for the passports: every eviction in the revoked-set is on
\* record, and registrations and revocations balance whenever nothing is pending.
THEOREM ReceiptsBalancePassports == Spec => []ReceiptsAccount
  BY InitIInv, NextIInv, IInvImplies, PTL DEF Spec

\* A cascade has revoked all its target held before it marks the target.
THEOREM CascadeIsComplete == Spec => []CascadeTakesHeld
  BY InitIInv, NextIInv, IInvImplies, PTL DEF Spec
=============================================================================
