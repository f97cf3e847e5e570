--------------------------- MODULE TransportProofs ---------------------------
(***************************************************************************)
(* Proofs about Transport for any sets of agents, subscribers, sends and   *)
(* envelopes, any capacities and any workloads.                            *)
(*                                                                         *)
(* Every channel has one owner.  An envelope an agent's inboxes have       *)
(* accepted is in one place: a queue, or the flow of one subscriber, which *)
(* is what the subscriber has read, what is in its stream and what its     *)
(* task holds.  Flows and queues are ordered as the envelopes were         *)
(* accepted (Before).                                                      *)
(***************************************************************************)
EXTENDS Transport, FiniteSetTheorems, SequenceTheorems, TLAPS

SendPcs == {"idle", "route", "push", "targets", "fan", "record", "ok", "failed"}
SubPcs == {"idle", "register", "inbox", "notify", "lock", "parked", "record", "send", "done"}

Types ==
    /\ chans \in Nat
    /\ current \in [Agents -> 0..chans]
    /\ queue \in Seq(Seq(Envs)) /\ Len(queue) = chans
    /\ \A c \in 1..chans : Len(queue[c]) <= Cap
    /\ roles \subseteq Agents
    /\ tags \in [Agents -> SUBSET Tags]
    /\ seen \subseteq Envs
    /\ sendPc \in [Sends -> SendPcs]
    /\ sendChan \in [Sends -> 0..chans]
    /\ targets \in [Sends -> SUBSET Agents]
    /\ delivered \in [Sends -> Nat]
    /\ subPc \in [Subs -> SubPcs]
    /\ subChan \in [Subs -> 0..chans]
    /\ item \in [Subs -> Items \cup {NoItem}]
    /\ notified \in [Subs -> BOOLEAN]
    /\ stream \in [Subs -> Seq(Items)]
    /\ \A x \in Subs : Len(stream[x]) <= StreamCap
    /\ closed \in [Subs -> BOOLEAN]
    /\ got \in [Subs -> Seq(Items)]
    /\ receipts \subseteq Receipts
    /\ accepted \in [Agents -> Seq(Envs)]
    /\ fresh \subseteq Subs
    /\ workload \in Workloads
    /\ faults \in 0..workload.maxFaults
    /\ drops \in 0..workload.maxDrops

\* The envelopes of an agent, in the order its inboxes accepted them.
Before(a, e, f) ==
    \E p, q \in DOMAIN accepted[a] : p < q /\ accepted[a][p] = e /\ accepted[a][q] = f

Queued(c, e) == \E i \in DOMAIN queue[c] : queue[c][i] = e
Flow(x) == got[x] \o stream[x]
Flowed(x, e) == \E i \in DOMAIN Flow(x) : Flow(x)[i].env = e
Has(x, e) == Flowed(x, e) \/ item[x].env = e

\* A channel is used by and for one agent.
OwnInv(own) ==
    /\ own \in [1..chans -> Agents]
    /\ \A a \in Agents : current[a] # 0 => own[current[a]] = a
    /\ \A x \in Subs : subChan[x] # 0 => own[subChan[x]] = SubAgent[x]
    /\ \A s \in Sends : sendChan[s] # 0 => own[sendChan[s]] = workload.sendTo[s].agent

AcceptInv ==
    /\ \A a \in Agents : \A p, q \in DOMAIN accepted[a] : accepted[a][p] = accepted[a][q] => p = q
    /\ \A a \in Agents : Accepted(a) \subseteq seen

\* What is queued was accepted, in this order, and is in no other queue of the agent.
QueueInv(own) ==
    \A c \in 1..chans :
        /\ \A e \in Envs : Queued(c, e) => e \in Accepted(own[c])
        /\ \A i, j \in DOMAIN queue[c] : i < j => Before(own[c], queue[c][i], queue[c][j])
        /\ \A d \in 1..chans, e \in Envs :
              own[c] = own[d] /\ Queued(c, e) /\ Queued(d, e) => c = d

\* What a subscriber has was accepted, is with no other subscriber and in no queue, and
\* comes before whatever its queue still holds.
HasInv(own) ==
    \A x \in Subs : \A e \in Envs : Has(x, e) =>
        /\ e \in Accepted(SubAgent[x])
        /\ \A y \in Subs : SubAgent[y] = SubAgent[x] /\ Has(y, e) => x = y
        /\ \A c \in 1..chans : own[c] = SubAgent[x] => ~Queued(c, e)
        /\ subChan[x] # 0 => \A f \in Envs : Queued(subChan[x], f) => Before(SubAgent[x], e, f)

FlowInv(x) ==
    /\ \A i, j \in DOMAIN Flow(x) :
          i < j => Before(SubAgent[x], Flow(x)[i].env, Flow(x)[j].env)
    /\ item[x] # NoItem => \A i \in DOMAIN Flow(x) : Before(SubAgent[x], Flow(x)[i].env, item[x].env)

\* Where a subscription is.
Held == {"notify", "lock", "parked", "record", "send"}
SubInv(x) ==
    /\ subPc[x] # "idle" => x \in workload.subs
    /\ subPc[x] \in {"record", "send"} => item[x] \in Items
    /\ subPc[x] \notin {"record", "send", "done"} => item[x] = NoItem
    /\ subChan[x] # 0 <=> subPc[x] \in Held
    /\ subPc[x] \in {"idle", "register", "inbox"} => got[x] = << >> /\ stream[x] = << >>
    /\ subPc[x] = "inbox" => current[SubAgent[x]] # 0
    /\ x \in Receivers => stream[x] = << >> /\ subPc[x] \in {"idle", "lock", "parked", "record", "done"}

Deliver(e, a) == [kind |-> "deliver", env |-> e, to |-> a]
OkInv(x) ==
    /\ \A i \in DOMAIN Flow(x) : Flow(x)[i].ok => Deliver(Flow(x)[i].env, SubAgent[x]) \in receipts
    /\ subPc[x] = "send" /\ item[x].ok => Deliver(item[x].env, SubAgent[x]) \in receipts

\* Where a send is, and how many inboxes have its envelope.
Active == {"route", "push", "targets", "fan", "record", "ok"}
AcceptedBy(e) == {a \in Agents : e \in Accepted(a)}
SendInv(s) ==
    /\ sendPc[s] \in Active =>
          /\ SendEnv[s] \in seen
          /\ s \in DOMAIN workload.sendTo
          /\ IsFiniteSet(AcceptedBy(SendEnv[s]))
          /\ delivered[s] = Cardinality(AcceptedBy(SendEnv[s]))
    /\ sendPc[s] = "idle" => delivered[s] = 0
    /\ sendPc[s] \in {"route", "push", "targets"} => AcceptedBy(SendEnv[s]) = {}
    /\ sendPc[s] = "fan" => targets[s] \cap AcceptedBy(SendEnv[s]) = {}
    /\ sendChan[s] # 0 <=> sendPc[s] = "push"
    /\ sendPc[s] = "push" => workload.sendTo[s].kind = "agent"

\* One send of an envelope gets past ReplayProtection.
SendUnique ==
    \A s, t \in Sends : sendPc[s] \in Active /\ sendPc[t] \in Active /\ SendEnv[s] = SendEnv[t]
                        => s = t

ReceiptInv ==
    \A r \in receipts : r.kind = "send" =>
        \E s \in Sends : sendPc[s] = "ok" /\ SendEnv[s] = r.env /\ r.count = delivered[s]

IInv(own) ==
    /\ Types
    /\ OwnInv(own)
    /\ AcceptInv
    /\ QueueInv(own)
    /\ HasInv(own)
    /\ \A x \in Subs : FlowInv(x) /\ SubInv(x) /\ OkInv(x)
    /\ (\A s \in Sends : SendInv(s)) /\ SendUnique
    /\ ReceiptInv

\* An inbox is replaced only by a subscription that found none although one had come:
\* a registered inbox that was not there at the start is another such subscription's.
KeptChans ==
    /\ \A a \in workload.registered : current[a] # 0
    /\ \A x \in fresh : SubAgent[x] \notin workload.registered
    /\ \A x \in Subs : subPc[x] = "register" => x \in fresh
    /\ \A a \in Agents : current[a] # 0 /\ a \notin workload.registered =>
          \E y \in SubsOf(a) \cap fresh : subPc[y] # "register"
    /\ \A x \in Subs : subChan[x] # 0 => subChan[x] = current[SubAgent[x]] \/ Raced(SubAgent[x])
    /\ \A s \in Sends : LET a == workload.sendTo[s].agent IN
          sendChan[s] # 0 => sendChan[s] = current[a] \/ Raced(a)

\* Nobody but agent a uses channel c.
Private(a, c) ==
    /\ \A b \in Agents : current[b] = c => b = a
    /\ \A x \in Subs : subChan[x] = c => SubAgent[x] = a

\* What was accepted is with a subscriber or in an inbox of the agent: the one registered
\* now, unless there was a race.
KeptIn(a, e, c) == Private(a, c) /\ Queued(c, e) /\ (c = current[a] \/ Raced(a))
KeptEnvs ==
    \A a \in Agents : \A e \in Accepted(a) :
        \/ \E c \in 1..chans : KeptIn(a, e, c)
        \/ \E x \in Subs : SubAgent[x] = a /\ Has(x, e)
-----------------------------------------------------------------------------
(* Sequences. *)

\* What Append adds.
LEMMA AppendFacts ==
    ASSUME NEW S, NEW s \in Seq(S), NEW e \in S
    PROVE  /\ Append(s, e) \in Seq(S)
           /\ Len(Append(s, e)) = Len(s) + 1
           /\ DOMAIN Append(s, e) = 1..(Len(s) + 1)
           /\ \A i \in 1..Len(s) : Append(s, e)[i] = s[i]
           /\ Append(s, e)[Len(s) + 1] = e
           /\ DOMAIN s = 1..Len(s) /\ Len(s) \in Nat
  OBVIOUS

\* What Head and Tail take apart.
LEMMA HeadTailFacts ==
    ASSUME NEW S, NEW s \in Seq(S), s # << >>
    PROVE  /\ Head(s) = s[1] /\ Head(s) \in S /\ 1 \in DOMAIN s
           /\ Tail(s) \in Seq(S)
           /\ Len(Tail(s)) = Len(s) - 1 /\ Len(s) \in Nat \ {0}
           /\ DOMAIN Tail(s) = 1..(Len(s) - 1) /\ DOMAIN s = 1..Len(s)
           /\ \A i \in 1..(Len(s) - 1) : Tail(s)[i] = s[i + 1]
  OBVIOUS

\* Where the elements of a concatenation come from.
LEMMA ConcatFacts ==
    ASSUME NEW S, NEW s \in Seq(S), NEW t \in Seq(S)
    PROVE  /\ s \o t \in Seq(S)
           /\ Len(s \o t) = Len(s) + Len(t) /\ Len(s) \in Nat /\ Len(t) \in Nat
           /\ DOMAIN (s \o t) = 1..(Len(s) + Len(t))
           /\ DOMAIN s = 1..Len(s) /\ DOMAIN t = 1..Len(t)
           /\ \A i \in 1..Len(s) : (s \o t)[i] = s[i]
           /\ \A i \in 1..Len(t) : (s \o t)[Len(s) + i] = t[i]
           /\ \A i \in DOMAIN (s \o t) : i <= Len(s) \/ (i - Len(s) \in 1..Len(t) /\ (s \o t)[i] = t[i - Len(s)])
  OBVIOUS

\* Appending at the end of a flow.
LEMMA ConcatAppend ==
    ASSUME NEW S, NEW s \in Seq(S), NEW t \in Seq(S), NEW e \in S
    PROVE  s \o Append(t, e) = Append(s \o t, e)
  OBVIOUS

\* Moving the border between the two parts of a flow.
LEMMA ConcatMove ==
    ASSUME NEW S, NEW s \in Seq(S), NEW t \in Seq(S), t # << >>
    PROVE  Append(s, Head(t)) \o Tail(t) = s \o t
  OBVIOUS

\* A flow with nothing in its stream.
LEMMA ConcatEmpty ==
    ASSUME NEW S, NEW s \in Seq(S)
    PROVE  s \o << >> = s
  OBVIOUS

\* The two parts of an interval.
LEMMA IntervalParts ==
    ASSUME NEW m \in Nat, NEW n \in Nat
    PROVE  (\A i \in 1..m : i \in 1..(m + n)) /\ (\A i \in 1..n : m + i \in 1..(m + n))
  OBVIOUS

\* A function on 1..n is a sequence of length n.
LEMMA FunctionIsSeq ==
    ASSUME NEW S, NEW n \in Nat, NEW q \in [1..n -> S]
    PROVE  q \in Seq(S) /\ Len(q) = n
<1>1. q \in Seq(S)
  BY SeqDef
<1>2. Len(q) \in Nat /\ DOMAIN q = 1..Len(q)
  BY <1>1, LenProperties
<1>3. DOMAIN q = 1..n
  OBVIOUS
<1> QED
  BY <1>1, <1>2, <1>3
-----------------------------------------------------------------------------
(* The core of the invariant: order and uniqueness. *)

Core(own) ==
    /\ AcceptInv
    /\ QueueInv(own)
    /\ HasInv(own)
    /\ \A x \in Subs : FlowInv(x)

\* The flow of a subscriber is a sequence of items.
LEMMA FlowFacts ==
    ASSUME Types, NEW x \in Subs
    PROVE  /\ Flow(x) \in Seq(Items)
           /\ DOMAIN Flow(x) = 1..Len(Flow(x)) /\ Len(Flow(x)) \in Nat
           /\ \A i \in DOMAIN Flow(x) : Flow(x)[i] \in Items /\ Flow(x)[i].env \in Envs
           /\ item[x] \in Items \cup {NoItem}
           /\ item[x] # NoItem => item[x].env \in Envs
           /\ item[x] = NoItem => item[x].env \notin Envs
<1>1. got[x] \in Seq(Items) /\ stream[x] \in Seq(Items) /\ item[x] \in Items \cup {NoItem}
  BY DEF Types
<1>2. Flow(x) \in Seq(Items)
  BY <1>1, ConcatFacts DEF Flow
<1>3. DOMAIN Flow(x) = 1..Len(Flow(x)) /\ Len(Flow(x)) \in Nat
      /\ \A i \in DOMAIN Flow(x) : Flow(x)[i] \in Items
  BY <1>2
<1>4. \A it \in Items : it.env \in Envs
  BY DEF Items
<1>5. NoItem.env \notin Envs
  BY TransportAssumption DEF NoItem
<1> QED
  BY <1>1, <1>2, <1>3, <1>4, <1>5

\* Before is a strict order on what was accepted.
LEMMA BeforeStrict ==
    ASSUME Types, AcceptInv, NEW a \in Agents, NEW e, NEW f, Before(a, e, f)
    PROVE  e # f /\ e \in Accepted(a) /\ f \in Accepted(a)
<1>1. DOMAIN accepted[a] = 1..Len(accepted[a]) /\ Len(accepted[a]) \in Nat
  BY DEF Types
<1> QED
  BY <1>1 DEF AcceptInv, Before, Accepted

\* Nothing that matters to order and uniqueness changes: an item may turn into an error,
\* and a subscription may get or lose its channel as long as it gets one before it has
\* anything.
LEMMA CoreSame ==
    ASSUME NEW own, Core(own), UNCHANGED <<chans, queue, accepted>>, seen \subseteq seen',
           \A y \in Subs : /\ Flow(y)' = Flow(y)
                           /\ item'[y].env = item[y].env
                           /\ item'[y] = NoItem <=> item[y] = NoItem,
           \A y \in Subs : \/ subChan'[y] \in {subChan[y], 0}
                           \/ \A e \in Envs : ~Has(y, e)
    PROVE  Core(own)' /\ \A y \in Subs : \A e : Has(y, e)' <=> Has(y, e)
<1>1. AcceptInv'
  BY DEF Core, AcceptInv, Accepted
<1>2. /\ \A a, e, f : Before(a, e, f)' <=> Before(a, e, f)
      /\ \A c, e : Queued(c, e)' <=> Queued(c, e)
      /\ \A a : Accepted(a)' = Accepted(a)
  BY DEF Before, Queued, Accepted
<1>3. \A y \in Subs : \A e : Has(y, e)' <=> Has(y, e)
  BY DEF Has, Flowed
<1>4. QueueInv(own)'
  BY <1>2 DEF Core, QueueInv
<1>5. HasInv(own)'
  BY <1>2, <1>3 DEF Core, HasInv
<1>6. ASSUME NEW x \in Subs PROVE FlowInv(x)'
  BY <1>2 DEF Core, FlowInv
<1> QED
  BY <1>1, <1>3, <1>4, <1>5, <1>6 DEF Core
-----------------------------------------------------------------------------

\* What a push of envelope e into channel c of agent a does.
Pushes(a, c, e) ==
    /\ queue' \in Seq(Seq(Envs)) /\ Len(queue') = chans
    /\ queue'[c] = Append(queue[c], e)
    /\ \A d \in 1..chans : d # c => queue'[d] = queue[d]
    /\ accepted' \in [Agents -> Seq(Envs)]
    /\ accepted'[a] = Append(accepted[a], e)
    /\ \A b \in Agents : b # a => accepted'[b] = accepted[b]

\* An envelope not accepted before goes into an inbox of its recipient: it comes after
\* everything the agent has.
LEMMA CoreAccept ==
    ASSUME NEW own, Types, OwnInv(own), Core(own),
           NEW a \in Agents, NEW c \in 1..chans, NEW e \in Envs,
           own[c] = a, e \notin Accepted(a), e \in seen,
           Pushes(a, c, e), UNCHANGED <<chans, got, stream, item, subChan, seen>>
    PROVE  /\ Core(own)'
           /\ Accepted(a)' = Accepted(a) \cup {e}
           /\ \A b \in Agents : b # a => Accepted(b)' = Accepted(b)
           /\ Len(queue'[c]) = Len(queue[c]) + 1
           /\ \A d \in 1..chans, f \in Envs : Queued(d, f)' <=> Queued(d, f) \/ (d = c /\ f = e)
<1>1. /\ accepted[a] \in Seq(Envs)
      /\ accepted'[a] = Append(accepted[a], e)
      /\ \A b \in Agents : b # a => accepted'[b] = accepted[b]
  BY DEF Types, Pushes
<1>2. /\ accepted'[a] \in Seq(Envs) /\ Len(accepted[a]) \in Nat
      /\ DOMAIN accepted[a] = 1..Len(accepted[a])
      /\ DOMAIN accepted'[a] = 1..(Len(accepted[a]) + 1)
      /\ \A i \in 1..Len(accepted[a]) : accepted'[a][i] = accepted[a][i]
      /\ accepted'[a][Len(accepted[a]) + 1] = e
  BY <1>1, AppendFacts
<1>3. /\ DOMAIN queue = 1..chans /\ queue[c] \in Seq(Envs)
      /\ queue'[c] = Append(queue[c], e)
      /\ \A d \in 1..chans : d # c => queue'[d] = queue[d]
  BY DEF Types, Pushes
<1>4. /\ queue'[c] \in Seq(Envs) /\ Len(queue[c]) \in Nat
      /\ Len(queue'[c]) = Len(queue[c]) + 1
      /\ DOMAIN queue[c] = 1..Len(queue[c])
      /\ DOMAIN queue'[c] = 1..(Len(queue[c]) + 1)
      /\ \A i \in 1..Len(queue[c]) : queue'[c][i] = queue[c][i]
      /\ queue'[c][Len(queue[c]) + 1] = e
  BY <1>3, AppendFacts
<1>5. /\ Accepted(a)' = Accepted(a) \cup {e}
      /\ \A b \in Agents : b # a => Accepted(b)' = Accepted(b)
  BY <1>1, <1>2 DEF Accepted
<1>6. ASSUME NEW b \in Agents, NEW u, NEW v, Before(b, u, v) PROVE Before(b, u, v)'
  <2>1. CASE b # a
    BY <1>1, <1>6, <2>1 DEF Before
  <2>2. CASE b = a
    <3>1. PICK p \in DOMAIN accepted[a], q \in DOMAIN accepted[a] :
            p < q /\ accepted[a][p] = u /\ accepted[a][q] = v
      BY <1>6, <2>2 DEF Before
    <3>2. /\ p \in DOMAIN accepted'[a] /\ q \in DOMAIN accepted'[a]
          /\ accepted'[a][p] = u /\ accepted'[a][q] = v
      BY <1>2, <3>1
    <3> QED
      BY <2>2, <3>1, <3>2 DEF Before
  <2> QED
    BY <2>1, <2>2
<1>7. ASSUME NEW u \in Accepted(a) PROVE Before(a, u, e)'
  <2>1. PICK p \in DOMAIN accepted[a] : accepted[a][p] = u
    BY DEF Accepted
  <2>2. /\ p \in DOMAIN accepted'[a] /\ Len(accepted[a]) + 1 \in DOMAIN accepted'[a]
        /\ p < Len(accepted[a]) + 1
        /\ accepted'[a][p] = u /\ accepted'[a][Len(accepted[a]) + 1] = e
    BY <1>2, <2>1
  <2> QED
    BY <2>2 DEF Before
<1>8. ASSUME NEW d \in 1..chans, NEW f \in Envs
      PROVE  Queued(d, f)' <=> Queued(d, f) \/ (d = c /\ f = e)
  <2>1. CASE d # c
    BY <1>3, <2>1 DEF Queued
  <2>2. CASE d = c
    BY <1>4, <2>2 DEF Queued
  <2> QED
    BY <2>1, <2>2
<1>9. \A x \in Subs : \A f : (Has(x, f)' <=> Has(x, f)) /\ Flow(x)' = Flow(x)
  BY DEF Has, Flowed, Flow
<1>10. AcceptInv'
  <2>1. ASSUME NEW b \in Agents, NEW p \in DOMAIN accepted'[b], NEW q \in DOMAIN accepted'[b],
               accepted'[b][p] = accepted'[b][q]
        PROVE  p = q
    <3>1. CASE b # a
      BY <1>1, <2>1, <3>1 DEF Core, AcceptInv
    <3>2. CASE b = a
      <4>1. \A i \in 1..Len(accepted[a]) : accepted'[a][i] # e
        BY <1>2 DEF Accepted
      <4>2. \A i, j \in 1..Len(accepted[a]) : accepted[a][i] = accepted[a][j] => i = j
        BY <1>2 DEF Core, AcceptInv
      <4>3. p \in 1..(Len(accepted[a]) + 1) /\ q \in 1..(Len(accepted[a]) + 1)
            /\ accepted'[a][p] = accepted'[a][q]
        BY <1>2, <2>1, <3>2
      <4>4. CASE p \in 1..Len(accepted[a]) /\ q \in 1..Len(accepted[a])
        BY <1>2, <4>2, <4>3, <4>4
      <4>5. CASE p = Len(accepted[a]) + 1 \/ q = Len(accepted[a]) + 1
        BY <1>2, <4>1, <4>3, <4>5
      <4> QED
        BY <1>2, <4>3, <4>4, <4>5
    <3> QED
      BY <3>1, <3>2
  <2>2. ASSUME NEW b \in Agents PROVE Accepted(b)' \subseteq seen'
    BY <1>5 DEF Core, AcceptInv
  <2> QED
    BY <2>1, <2>2 DEF AcceptInv
<1>11. \A d \in 1..chans : own[d] \in Agents
  BY DEF OwnInv
<1>12. QueueInv(own)'
  <2> SUFFICES ASSUME NEW d \in 1..chans
               PROVE  /\ \A f \in Envs : Queued(d, f)' => f \in Accepted(own[d])'
                      /\ \A i, j \in DOMAIN queue'[d] :
                             i < j => Before(own[d], queue[d][i], queue[d][j])'
                      /\ \A g \in 1..chans, f \in Envs :
                             own[d] = own[g] /\ Queued(d, f)' /\ Queued(g, f)' => d = g
    BY DEF QueueInv
  <2>1. \A f \in Envs : Queued(d, f)' => f \in Accepted(own[d])'
    BY <1>5, <1>8, <1>11 DEF Core, QueueInv
  <2>2. ASSUME NEW i \in DOMAIN queue'[d], NEW j \in DOMAIN queue'[d], i < j
        PROVE  Before(own[d], queue[d][i], queue[d][j])'
    <3>1. CASE d # c
      BY <1>3, <1>6, <1>11, <2>2, <3>1 DEF Core, QueueInv
    <3>2. CASE d = c /\ j <= Len(queue[c])
      <4>1. /\ i \in DOMAIN queue[c] /\ j \in DOMAIN queue[c]
            /\ queue'[c][i] = queue[c][i] /\ queue'[c][j] = queue[c][j]
        <5>1. i \in 1..(Len(queue[c]) + 1) /\ j \in 1..(Len(queue[c]) + 1)
          BY <1>4, <2>2, <3>2
        <5>2. i \in 1..Len(queue[c]) /\ j \in 1..Len(queue[c])
          BY <1>4, <2>2, <3>2, <5>1
        <5> QED
          BY <1>4, <5>2
      <4>2. Before(own[c], queue[c][i], queue[c][j])
        BY <2>2, <4>1 DEF Core, QueueInv
      <4> QED
        BY <1>6, <1>11, <3>2, <4>1, <4>2
    <3>3. CASE d = c /\ j = Len(queue[c]) + 1
      <4>1. i \in DOMAIN queue[c] /\ queue'[c][i] = queue[c][i] /\ queue'[c][j] = e
        BY <1>4, <2>2, <3>3
      <4>2. queue[c][i] \in Envs /\ Queued(c, queue[c][i])
        BY <1>3, <4>1 DEF Queued
      <4>3. queue[c][i] \in Accepted(a)
        BY <4>2 DEF Core, QueueInv
      <4> QED
        BY <1>7, <3>3, <4>1, <4>3
    <3> QED
      BY <1>4, <2>2, <3>1, <3>2, <3>3
  <2>3. ASSUME NEW g \in 1..chans, NEW f \in Envs, own[d] = own[g], Queued(d, f)', Queued(g, f)'
        PROVE  d = g
    <3>1. CASE f # e
      BY <1>8, <2>3, <3>1 DEF Core, QueueInv
    <3>2. CASE f = e
      <4>1. /\ \A h \in 1..chans : own[h] = a => ~Queued(h, e)
            /\ Queued(d, e) /\ Queued(g, e) => d = g
        BY <2>3 DEF Core, QueueInv
      <4> QED
        BY <1>8, <2>3, <3>2, <4>1
    <3> QED
      BY <3>1, <3>2
  <2> QED
    BY <2>1, <2>2, <2>3
<1>13. HasInv(own)'
  <2> SUFFICES ASSUME NEW x \in Subs, NEW f \in Envs, Has(x, f)
               PROVE  /\ f \in Accepted(SubAgent[x])'
                      /\ \A y \in Subs : SubAgent[y] = SubAgent[x] /\ Has(y, f) => x = y
                      /\ \A d \in 1..chans : own[d] = SubAgent[x] => ~Queued(d, f)'
                      /\ subChan[x] # 0 =>
                            \A g \in Envs : Queued(subChan[x], g)' => Before(SubAgent[x], f, g)'
    BY <1>9 DEF HasInv
  <2>1. SubAgent[x] \in Agents /\ f \in Accepted(SubAgent[x])
    BY TransportAssumption DEF Core, HasInv
  <2>2. f \in Accepted(SubAgent[x])'
    BY <1>5, <2>1
  <2>3. \A y \in Subs : SubAgent[y] = SubAgent[x] /\ Has(y, f) => x = y
    BY DEF Core, HasInv
  <2>4. ASSUME NEW d \in 1..chans, own[d] = SubAgent[x] PROVE ~Queued(d, f)'
    BY <1>8, <2>1, <2>4 DEF Core, HasInv
  <2>5. ASSUME subChan[x] # 0, NEW g \in Envs, Queued(subChan[x], g)'
        PROVE  Before(SubAgent[x], f, g)'
    <3>1. subChan[x] \in 1..chans /\ own[subChan[x]] = SubAgent[x]
      <4>1. chans \in Nat /\ subChan[x] \in 0..chans
        BY DEF Types
      <4>2. subChan[x] \in 1..chans
        BY <2>5, <4>1
      <4>3. own[subChan[x]] = SubAgent[x]
        BY <2>5 DEF OwnInv
      <4> QED
        BY <4>2, <4>3
    <3>2. CASE Queued(subChan[x], g)
      <4>1. Before(SubAgent[x], f, g)
        BY <2>5, <3>2 DEF Core, HasInv
      <4> QED
        BY <1>6, <2>1, <4>1
    <3>3. CASE subChan[x] = c /\ g = e
      BY <1>7, <2>1, <3>1, <3>3
    <3> QED
      BY <1>8, <2>5, <3>1, <3>2, <3>3
  <2> QED
    BY <2>2, <2>3, <2>4, <2>5
<1>14. ASSUME NEW x \in Subs PROVE FlowInv(x)'
  <2>1. SubAgent[x] \in Agents /\ Flow(x)' = Flow(x) /\ FlowInv(x)
    BY <1>9, TransportAssumption DEF Core
  <2> QED
    BY <1>6, <2>1 DEF FlowInv
<1> QED
  BY <1>4, <1>5, <1>8, <1>10, <1>12, <1>13, <1>14 DEF Core

\* A subscriber's channel exists, and is its agent's.
LEMMA ChanFacts ==
    ASSUME NEW own, Types, OwnInv(own), NEW x \in Subs, subChan[x] # 0
    PROVE  /\ subChan[x] \in 1..chans /\ own[subChan[x]] = SubAgent[x]
           /\ SubAgent[x] \in Agents
           /\ queue[subChan[x]] \in Seq(Envs) /\ DOMAIN queue = 1..chans
<1>1. chans \in Nat /\ subChan[x] \in 0..chans
  BY DEF Types
<1>2. subChan[x] \in 1..chans
  BY <1>1
<1>3. own[subChan[x]] = SubAgent[x]
  BY DEF OwnInv
<1>4. DOMAIN queue = 1..chans /\ queue[subChan[x]] \in Seq(Envs)
  BY <1>2 DEF Types
<1> QED
  BY <1>2, <1>3, <1>4, TransportAssumption

\* A forwarder takes the oldest envelope out of its agent's inbox: nobody else has it, and
\* it comes after what the forwarder took before.
LEMMA CoreTake ==
    ASSUME NEW own, Types, OwnInv(own), Core(own), NEW x \in Subs, SubInv(x), Recv(x)
    PROVE  /\ Core(own)'
           /\ queue' \in Seq(Seq(Envs)) /\ Len(queue') = chans
           /\ Len(queue'[subChan[x]]) = Len(queue[subChan[x]]) - 1
           /\ \A d \in 1..chans : d # subChan[x] => queue'[d] = queue[d]
           /\ item' \in [Subs -> Items \cup {NoItem}] /\ item'[x] \in Items
           /\ \A d \in 1..chans, f \in Envs :
                 Queued(d, f) => Queued(d, f)' \/ (own[d] = SubAgent[x] /\ Has(x, f)')
           /\ \A y \in Subs, f \in Envs : Has(y, f) => Has(y, f)'
<1>0. /\ subChan[x] # 0 /\ queue[subChan[x]] # << >> /\ item[x] = NoItem
      /\ item' = [item EXCEPT ![x] = [env |-> Head(queue[subChan[x]]), ok |-> TRUE]]
      /\ queue' = [queue EXCEPT ![subChan[x]] = Tail(@)]
      /\ UNCHANGED <<chans, accepted, got, stream, subChan, seen>>
  BY DEF Recv, SubInv, Held, mapVars
<1> USE <1>0
<1> DEFINE c == subChan[x]
           e == Head(queue[c])
<1>1. /\ c \in 1..chans /\ own[c] = SubAgent[x] /\ SubAgent[x] \in Agents
      /\ queue[c] \in Seq(Envs) /\ DOMAIN queue = 1..chans
  BY ChanFacts
<1>2. /\ e = queue[c][1] /\ e \in Envs /\ 1 \in DOMAIN queue[c]
      /\ Tail(queue[c]) \in Seq(Envs)
      /\ Len(Tail(queue[c])) = Len(queue[c]) - 1 /\ Len(queue[c]) \in Nat \ {0}
      /\ DOMAIN Tail(queue[c]) = 1..(Len(queue[c]) - 1) /\ DOMAIN queue[c] = 1..Len(queue[c])
      /\ \A i \in 1..(Len(queue[c]) - 1) : Tail(queue[c])[i] = queue[c][i + 1]
  BY <1>1, HeadTailFacts
<1>3. /\ queue'[c] = Tail(queue[c])
      /\ \A d \in 1..chans : d # c => queue'[d] = queue[d]
      /\ DOMAIN queue' = 1..chans
  BY <1>1
<1>4. queue' \in Seq(Seq(Envs)) /\ Len(queue') = chans
  BY <1>1, <1>2 DEF Types
<1>5. item' \in [Subs -> Items \cup {NoItem}] /\ item'[x] = [env |-> e, ok |-> TRUE]
      /\ item'[x] \in Items /\ \A y \in Subs : y # x => item'[y] = item[y]
  BY <1>2 DEF Types, Items
<1>6. QueueInv(own) /\ HasInv(own) /\ AcceptInv /\ FlowInv(x)
  BY DEF Core
<1>7. Queued(c, e) /\ e \in Accepted(SubAgent[x])
  BY <1>1, <1>2, <1>6 DEF Queued, QueueInv
<1>8. \A i \in DOMAIN queue[c] : i # 1 => Before(SubAgent[x], e, queue[c][i])
  BY <1>1, <1>2, <1>6 DEF QueueInv
<1>9. \A i \in DOMAIN queue[c] : i # 1 => queue[c][i] # e
  BY <1>1, <1>6, <1>8, BeforeStrict
<1>10. ASSUME NEW d \in 1..chans, NEW f \in Envs
       PROVE  Queued(d, f)' <=> Queued(d, f) /\ ~(d = c /\ f = e)
  <2>1. CASE d # c
    BY <1>3, <2>1 DEF Queued
  <2>2. CASE d = c
    <3>1. ASSUME Queued(c, f)' PROVE Queued(c, f) /\ f # e
      <4>1. PICK i \in 1..(Len(queue[c]) - 1) : Tail(queue[c])[i] = f
        BY <1>2, <1>3, <3>1 DEF Queued
      <4>2. i + 1 \in DOMAIN queue[c] /\ i + 1 # 1 /\ queue[c][i + 1] = f
        BY <1>2, <4>1
      <4> QED
        BY <1>9, <4>2 DEF Queued
    <3>2. ASSUME Queued(c, f), f # e PROVE Queued(c, f)'
      <4>1. PICK i \in DOMAIN queue[c] : queue[c][i] = f
        BY <3>2 DEF Queued
      <4>2. i # 1
        BY <1>2, <3>2, <4>1
      <4>3. i - 1 \in 1..(Len(queue[c]) - 1) /\ Tail(queue[c])[i - 1] = queue[c][(i - 1) + 1]
        BY <1>2, <4>1, <4>2
      <4>4. Tail(queue[c])[i - 1] = f
        BY <1>2, <4>1, <4>3
      <4>5. i - 1 \in DOMAIN queue'[c] /\ queue'[c][i - 1] = f
        BY <1>2, <1>3, <4>3, <4>4
      <4> QED
        BY <4>5 DEF Queued
    <3> QED
      BY <2>2, <3>1, <3>2
  <2> QED
    BY <2>1, <2>2
<1>11. \A y \in Subs : Flow(y)' = Flow(y)
  BY DEF Flow
<1>12. /\ \A b, u, v : Before(b, u, v)' <=> Before(b, u, v)
       /\ \A b : Accepted(b)' = Accepted(b)
  BY DEF Before, Accepted
<1>13. ASSUME NEW y \in Subs, NEW f \in Envs
       PROVE  Has(y, f)' <=> Has(y, f) \/ (y = x /\ f = e)
  <2>1. CASE y # x
    BY <1>5, <1>11, <2>1 DEF Has, Flowed
  <2>2. CASE y = x
    <3>1. item[x].env \notin Envs
      BY TransportAssumption DEF NoItem
    <3> QED
      BY <1>5, <1>11, <2>2, <3>1 DEF Has, Flowed
  <2> QED
    BY <2>1, <2>2
<1>14. \A y \in Subs : SubAgent[y] = SubAgent[x] => ~Has(y, e)
  BY <1>1, <1>2, <1>6, <1>7 DEF HasInv
<1>15. AcceptInv'
  BY <1>6, <1>12 DEF AcceptInv
<1>16. QueueInv(own)'
  <2> SUFFICES ASSUME NEW d \in 1..chans
               PROVE  /\ \A f \in Envs : Queued(d, f)' => f \in Accepted(own[d])
                      /\ \A i, j \in DOMAIN queue'[d] :
                             i < j => Before(own[d], queue'[d][i], queue'[d][j])
                      /\ \A g \in 1..chans, f \in Envs :
                             own[d] = own[g] /\ Queued(d, f)' /\ Queued(g, f)' => d = g
    BY <1>12 DEF QueueInv
  <2>1. \A f \in Envs : Queued(d, f)' => f \in Accepted(own[d])
    BY <1>6, <1>10 DEF QueueInv
  <2>2. ASSUME NEW i \in DOMAIN queue'[d], NEW j \in DOMAIN queue'[d], i < j
        PROVE  Before(own[d], queue'[d][i], queue'[d][j])
    <3>1. CASE d # c
      BY <1>3, <1>6, <2>2, <3>1 DEF QueueInv
    <3>2. CASE d = c
      <4>1. /\ i + 1 \in DOMAIN queue[c] /\ j + 1 \in DOMAIN queue[c] /\ i + 1 < j + 1
            /\ queue'[c][i] = queue[c][i + 1] /\ queue'[c][j] = queue[c][j + 1]
        BY <1>2, <1>3, <2>2, <3>2
      <4>2. Before(own[c], queue[c][i + 1], queue[c][j + 1])
        BY <1>1, <1>6, <4>1 DEF QueueInv
      <4> QED
        BY <3>2, <4>1, <4>2
    <3> QED
      BY <3>1, <3>2
  <2>3. \A g \in 1..chans, f \in Envs :
            own[d] = own[g] /\ Queued(d, f)' /\ Queued(g, f)' => d = g
    BY <1>6, <1>10 DEF QueueInv
  <2> QED
    BY <2>1, <2>2, <2>3
<1>17. HasInv(own)'
  <2> SUFFICES ASSUME NEW y \in Subs, NEW f \in Envs, Has(y, f)'
               PROVE  /\ f \in Accepted(SubAgent[y])
                      /\ \A z \in Subs : SubAgent[z] = SubAgent[y] /\ Has(z, f)' => y = z
                      /\ \A d \in 1..chans : own[d] = SubAgent[y] => ~Queued(d, f)'
                      /\ subChan[y] # 0 =>
                            \A g \in Envs : Queued(subChan[y], g)' => Before(SubAgent[y], f, g)
    BY <1>12 DEF HasInv
  <2>1. f \in Accepted(SubAgent[y])
    BY <1>6, <1>7, <1>13 DEF HasInv
  <2>2. ASSUME NEW z \in Subs, SubAgent[z] = SubAgent[y], Has(z, f)' PROVE y = z
    <3>1. CASE f = e /\ (y = x \/ z = x)
      BY <1>13, <1>14, <2>2, <3>1
    <3>2. CASE f # e \/ (y # x /\ z # x)
      BY <1>6, <1>13, <2>2, <3>2 DEF HasInv
    <3> QED
      BY <3>1, <3>2
  <2>3. ASSUME NEW d \in 1..chans, own[d] = SubAgent[y], Queued(d, f)' PROVE FALSE
    <3>1. CASE Has(y, f)
      BY <1>6, <1>10, <2>3, <3>1 DEF HasInv
    <3>2. CASE y = x /\ f = e
      <4>1. Queued(d, e) /\ d # c
        BY <1>10, <2>3, <3>2
      <4> QED
        BY <1>1, <1>2, <1>6, <1>7, <2>3, <3>2, <4>1 DEF QueueInv
    <3> QED
      BY <1>13, <3>1, <3>2
  <2>4. ASSUME subChan[y] # 0, NEW g \in Envs, Queued(subChan[y], g)'
        PROVE  Before(SubAgent[y], f, g)
    <3>1. subChan[y] \in 1..chans
      BY <2>4, ChanFacts
    <3>2. Queued(subChan[y], g) /\ ~(subChan[y] = c /\ g = e)
      BY <1>10, <2>4, <3>1
    <3>3. CASE Has(y, f)
      BY <1>6, <2>4, <3>2, <3>3 DEF HasInv
    <3>4. CASE y = x /\ f = e
      <4>1. PICK i \in DOMAIN queue[c] : queue[c][i] = g
        BY <3>2, <3>4 DEF Queued
      <4>2. i # 1
        BY <1>2, <3>2, <3>4, <4>1
      <4> QED
        BY <1>8, <3>4, <4>1, <4>2
    <3> QED
      BY <1>13, <3>3, <3>4
  <2> QED
    BY <2>1, <2>2, <2>3, <2>4
<1>18. ASSUME NEW y \in Subs PROVE FlowInv(y)'
  <2>1. FlowInv(y) /\ Flow(y)' = Flow(y)
    BY <1>11 DEF Core
  <2>2. \A i, j \in DOMAIN Flow(y) :
            i < j => Before(SubAgent[y], Flow(y)[i].env, Flow(y)[j].env)
    BY <2>1 DEF FlowInv
  <2>3. ASSUME item'[y] # NoItem, NEW i \in DOMAIN Flow(y)
        PROVE  Before(SubAgent[y], Flow(y)[i].env, item'[y].env)
    <3>1. CASE y # x
      BY <1>5, <2>1, <2>3, <3>1 DEF FlowInv
    <3>2. CASE y = x
      <4>1. Flow(x)[i].env \in Envs /\ Has(x, Flow(x)[i].env)
        BY <2>3, <3>2, FlowFacts DEF Has, Flowed
      <4>2. Before(SubAgent[x], Flow(x)[i].env, e)
        BY <1>2, <1>6, <1>7, <4>1 DEF HasInv
      <4> QED
        BY <1>5, <3>2, <4>2
    <3> QED
      BY <3>1, <3>2
  <2> QED
    BY <1>12, <2>1, <2>2, <2>3 DEF FlowInv
<1>19. ASSUME NEW d \in 1..chans, NEW f \in Envs, Queued(d, f)
       PROVE  Queued(d, f)' \/ (own[d] = SubAgent[x] /\ Has(x, f)')
  BY <1>1, <1>10, <1>13, <1>19
<1> QED
  BY <1>2, <1>3, <1>4, <1>5, <1>13, <1>15, <1>16, <1>17, <1>18, <1>19 DEF Core

\* What a task holds goes to the end of its subscriber's flow.
LEMMA CoreFlow ==
    ASSUME NEW own, Types, Core(own), NEW x \in Subs, NEW it \in Items,
           item[x] # NoItem, it.env = item[x].env,
           Flow(x)' = Append(Flow(x), it), item'[x] = NoItem,
           \A y \in Subs : y # x => Flow(y)' = Flow(y) /\ item'[y] = item[y],
           \A y \in Subs : subChan'[y] \in {subChan[y], 0},
           UNCHANGED <<chans, queue, accepted, seen>>
    PROVE  /\ Core(own)'
           /\ \A y \in Subs, f \in Envs : Has(y, f)' <=> Has(y, f)
           /\ \A i \in DOMAIN Flow(x)' : \/ (Flow(x)')[i] = it
                                         \/ i \in DOMAIN Flow(x) /\ (Flow(x)')[i] = Flow(x)[i]
<1>1. /\ Flow(x) \in Seq(Items) /\ DOMAIN Flow(x) = 1..Len(Flow(x)) /\ Len(Flow(x)) \in Nat
      /\ item[x] \in Items \cup {NoItem} /\ item[x].env \in Envs
  BY FlowFacts
<1>2. /\ DOMAIN Flow(x)' = 1..(Len(Flow(x)) + 1)
      /\ \A i \in 1..Len(Flow(x)) : (Flow(x)')[i] = Flow(x)[i]
      /\ (Flow(x)')[Len(Flow(x)) + 1] = it
  BY <1>1, AppendFacts
<1>3. /\ \A a, e, f : Before(a, e, f)' <=> Before(a, e, f)
      /\ \A c, e : Queued(c, e)' <=> Queued(c, e)
      /\ \A a : Accepted(a)' = Accepted(a)
  BY DEF Before, Queued, Accepted
<1>4. item'[x] = NoItem /\ item'[x].env \notin Envs /\ \A y \in Subs : y # x => item'[y] = item[y]
  BY TransportAssumption DEF Types, NoItem
<1>5. ASSUME NEW y \in Subs, NEW f \in Envs PROVE Has(y, f)' <=> Has(y, f)
  <2>1. CASE y # x
    BY <1>4, <2>1 DEF Has, Flowed
  <2>2. CASE y = x
    <3>1. Flowed(x, f)' <=> Flowed(x, f) \/ it.env = f
      BY <1>1, <1>2 DEF Flowed
    <3> QED
      BY <1>4, <2>2, <3>1 DEF Has
  <2> QED
    BY <2>1, <2>2
<1>6. AcceptInv' /\ QueueInv(own)'
  BY <1>3 DEF Core, AcceptInv, QueueInv
<1>7. HasInv(own)'
  BY <1>3, <1>5 DEF Core, HasInv
<1>8. ASSUME NEW y \in Subs PROVE FlowInv(y)'
  <2>1. CASE y # x
    BY <1>3, <1>4, <2>1 DEF Core, FlowInv
  <2>2. CASE y = x
    <3>1. ASSUME NEW i \in DOMAIN Flow(x)', NEW j \in DOMAIN Flow(x)', i < j
          PROVE  Before(SubAgent[x], (Flow(x)')[i].env, (Flow(x)')[j].env)
      <4>1. FlowInv(x)
        BY DEF Core
      <4>2. i \in DOMAIN Flow(x) /\ (Flow(x)')[i] = Flow(x)[i]
        BY <1>1, <1>2, <3>1
      <4>3. CASE j \in DOMAIN Flow(x)
        BY <1>1, <1>2, <3>1, <4>1, <4>2, <4>3 DEF FlowInv
      <4>4. CASE j = Len(Flow(x)) + 1
        BY <1>2, <4>1, <4>2, <4>4 DEF FlowInv
      <4> QED
        BY <1>1, <1>2, <3>1, <4>3, <4>4
    <3> QED
      BY <1>3, <1>4, <2>2, <3>1 DEF FlowInv
  <2> QED
    BY <2>1, <2>2
<1>9. ASSUME NEW i \in DOMAIN Flow(x)'
      PROVE  (Flow(x)')[i] = it \/ (i \in DOMAIN Flow(x) /\ (Flow(x)')[i] = Flow(x)[i])
  BY <1>1, <1>2
<1> QED
  BY <1>5, <1>6, <1>7, <1>8, <1>9 DEF Core

\* A new, empty inbox for the agent of subscriber x.
LEMMA CoreRegister ==
    ASSUME NEW own, Types, OwnInv(own), Core(own), NEW x \in Subs,
           RegisterRecipient(x)
    PROVE  /\ \E o : OwnInv(o)' /\ Core(o)'
           /\ queue' \in Seq(Seq(Envs)) /\ Len(queue') = chans + 1
           /\ \A c \in 1..chans : queue'[c] = queue[c]
           /\ queue'[chans + 1] = << >>
<1>0. /\ chans' = chans + 1 /\ queue' = Append(queue, << >>)
      /\ current' = [current EXCEPT ![SubAgent[x]] = chans + 1]
      /\ UNCHANGED <<accepted, got, stream, item, subChan, sendChan, seen, workload>>
  BY DEF RegisterRecipient, sendVars, runVars
<1> USE <1>0
<1>1. chans \in Nat /\ queue \in Seq(Seq(Envs)) /\ Len(queue) = chans /\ << >> \in Seq(Envs)
  BY DEF Types
<1>2. /\ queue' \in Seq(Seq(Envs)) /\ Len(queue') = chans + 1
      /\ \A c \in 1..chans : queue'[c] = queue[c]
      /\ queue'[chans + 1] = << >>
  BY <1>1, AppendFacts
<1>3. PICK o : o = [c \in 1..(chans + 1) |-> IF c \in 1..chans THEN own[c] ELSE SubAgent[x]]
  OBVIOUS
<1>4. SubAgent[x] \in Agents /\ own \in [1..chans -> Agents]
  BY TransportAssumption DEF OwnInv
<1>5. o \in [1..(chans + 1) -> Agents] /\ o[chans + 1] = SubAgent[x]
      /\ \A c \in 1..chans : o[c] = own[c]
  BY <1>1, <1>3, <1>4
<1>6. OwnInv(o)'
  <2>1. ASSUME NEW a \in Agents, current'[a] # 0 PROVE o[current'[a]] = a
    <3>1. CASE a = SubAgent[x]
      BY <1>5, <3>1 DEF Types
    <3>2. CASE a # SubAgent[x]
      <4>1. current'[a] = current[a] /\ current[a] \in 0..chans
        BY <3>2 DEF Types
      <4> QED
        BY <1>1, <1>5, <2>1, <4>1 DEF OwnInv
    <3> QED
      BY <3>1, <3>2
  <2>2. ASSUME NEW y \in Subs, subChan[y] # 0 PROVE o[subChan[y]] = SubAgent[y]
    BY <1>5, <2>2, ChanFacts
  <2>3. ASSUME NEW s \in Sends, sendChan[s] # 0 PROVE o[sendChan[s]] = workload.sendTo[s].agent
    <3>1. sendChan[s] \in 1..chans
      <4>1. sendChan[s] \in 0..chans
        BY DEF Types
      <4> QED
        BY <1>1, <2>3, <4>1
    <3> QED
      BY <1>5, <2>3, <3>1 DEF OwnInv
  <2> QED
    BY <1>5, <2>1, <2>2, <2>3 DEF OwnInv
<1>7. /\ \A a, e, f : Before(a, e, f)' <=> Before(a, e, f)
      /\ \A a : Accepted(a)' = Accepted(a)
      /\ \A y \in Subs : \A e : Has(y, e)' <=> Has(y, e)
      /\ \A y \in Subs : Flow(y)' = Flow(y)
  BY DEF Before, Accepted, Has, Flowed, Flow
<1>8. PICK n : n = chans + 1
  OBVIOUS
<1>9. /\ \A c \in 1..chans : \A e : Queued(c, e)' <=> Queued(c, e)
      /\ \A e : ~Queued(n, e)'
      /\ chans' = n /\ \A c \in 1..n : c \in 1..chans \/ c = n
  BY <1>1, <1>2, <1>8 DEF Queued
<1>10. AcceptInv'
  BY <1>7 DEF Core, AcceptInv
<1>11. QueueInv(o)'
  <2> SUFFICES ASSUME NEW c \in 1..n
               PROVE  /\ \A e \in Envs : Queued(c, e)' => e \in Accepted(o[c])
                      /\ \A i, j \in DOMAIN queue'[c] :
                             i < j => Before(o[c], queue'[c][i], queue'[c][j])
                      /\ \A d \in 1..n, e \in Envs :
                             o[c] = o[d] /\ Queued(c, e)' /\ Queued(d, e)' => c = d
    BY <1>7, <1>9 DEF QueueInv
  <2>1. CASE c = n
    BY <1>2, <1>8, <1>9, <2>1
  <2>2. CASE c \in 1..chans
    <3>1. \A e \in Envs : Queued(c, e)' => e \in Accepted(o[c])
      BY <1>5, <1>9, <2>2 DEF Core, QueueInv
    <3>2. \A i, j \in DOMAIN queue'[c] : i < j => Before(o[c], queue'[c][i], queue'[c][j])
      BY <1>2, <1>5, <2>2 DEF Core, QueueInv
    <3>3. \A d \in 1..n, e \in Envs :
              o[c] = o[d] /\ Queued(c, e)' /\ Queued(d, e)' => c = d
      BY <1>5, <1>9, <2>2 DEF Core, QueueInv
    <3> QED
      BY <3>1, <3>2, <3>3
  <2> QED
    BY <1>9, <2>1, <2>2
<1>12. HasInv(o)'
  <2> SUFFICES ASSUME NEW y \in Subs, NEW e \in Envs, Has(y, e)
               PROVE  /\ e \in Accepted(SubAgent[y])
                      /\ \A z \in Subs : SubAgent[z] = SubAgent[y] /\ Has(z, e) => y = z
                      /\ \A c \in 1..n : o[c] = SubAgent[y] => ~Queued(c, e)'
                      /\ subChan[y] # 0 =>
                            \A f \in Envs : Queued(subChan[y], f)' => Before(SubAgent[y], e, f)
    BY <1>7, <1>9 DEF HasInv
  <2>1. /\ e \in Accepted(SubAgent[y])
        /\ \A z \in Subs : SubAgent[z] = SubAgent[y] /\ Has(z, e) => y = z
    BY DEF Core, HasInv
  <2>2. \A c \in 1..n : o[c] = SubAgent[y] => ~Queued(c, e)'
    BY <1>5, <1>9 DEF Core, HasInv
  <2>3. ASSUME subChan[y] # 0, NEW f \in Envs, Queued(subChan[y], f)'
        PROVE  Before(SubAgent[y], e, f)
    <3>1. subChan[y] \in 1..chans
      BY <2>3, ChanFacts
    <3> QED
      BY <1>9, <2>3, <3>1 DEF Core, HasInv
  <2> QED
    BY <2>1, <2>2, <2>3
<1>13. ASSUME NEW y \in Subs PROVE FlowInv(y)'
  BY <1>7 DEF Core, FlowInv
<1> QED
  BY <1>2, <1>6, <1>10, <1>11, <1>12, <1>13 DEF Core
-----------------------------------------------------------------------------
(* Who is where: what a step of one party leaves alone. *)

\* The recipient of a send call.
LEMMA RecipientFacts ==
    ASSUME Types, NEW s \in DOMAIN workload.sendTo, workload.sendTo[s].kind = "agent"
    PROVE  workload.sendTo[s].agent \in Agents
<1>1. workload.sendTo \in UNION {[S -> Recipients] : S \in SUBSET Sends}
  BY TransportAssumption DEF Types, IsWorkload
<1>2. workload.sendTo[s] \in Recipients
  BY <1>1
<1> QED
  BY <1>2 DEF Recipients

\* Channels stay with their owners when calls let go of them or look up their agent's.
LEMMA OwnFrame ==
    ASSUME NEW own, Types, OwnInv(own), UNCHANGED <<chans, current, workload>>,
           \A y \in Subs : subChan'[y] \in {subChan[y], 0, current[SubAgent[y]]},
           \A s \in Sends : \/ sendChan'[s] \in {sendChan[s], 0}
                            \/ /\ workload.sendTo[s].agent \in Agents
                               /\ sendChan'[s] = current[workload.sendTo[s].agent]
    PROVE  OwnInv(own)'
<1>1. \A y \in Subs : SubAgent[y] \in Agents
  BY TransportAssumption
<1>2. own \in [1..chans -> Agents] /\ \A a \in Agents : current[a] # 0 => own[current[a]] = a
  BY DEF OwnInv
<1>3. ASSUME NEW y \in Subs, subChan'[y] # 0 PROVE own[subChan'[y]] = SubAgent[y]
  BY <1>1, <1>2, <1>3 DEF OwnInv
<1>4. ASSUME NEW s \in Sends, sendChan'[s] # 0 PROVE own[sendChan'[s]] = workload.sendTo[s].agent
  BY <1>2, <1>4 DEF OwnInv
<1> QED
  BY <1>2, <1>3, <1>4 DEF OwnInv

\* A step of one subscription, and none at all if x is no subscription, leaves the others
\* as they are.
LEMMA SubsStep ==
    ASSUME NEW x, \A y \in Subs : SubInv(y) /\ OkInv(y),
           \A y \in Subs : y # x => /\ subPc'[y] = subPc[y] /\ subChan'[y] = subChan[y]
                                    /\ item'[y] = item[y]
                                    /\ stream'[y] = stream[y] /\ got'[y] = got[y],
           \A y \in Subs : current[SubAgent[y]] # 0 => current'[SubAgent[y]] # 0,
           workload' = workload, receipts \subseteq receipts',
           x \in Subs => SubInv(x)' /\ OkInv(x)'
    PROVE  \A y \in Subs : SubInv(y)' /\ OkInv(y)'
<1> SUFFICES ASSUME NEW y \in Subs, y # x PROVE SubInv(y)' /\ OkInv(y)'
  OBVIOUS
<1>1. SubInv(y) /\ OkInv(y)
  OBVIOUS
<1>2. SubInv(y)'
  BY <1>1 DEF SubInv
<1>3. Flow(y)' = Flow(y)
  BY DEF Flow
<1>4. OkInv(y)'
  BY <1>1, <1>3 DEF OkInv
<1> QED
  BY <1>2, <1>4

\* A step of one send leaves the others as they are.
LEMMA SendsStep ==
    ASSUME NEW s \in Sends, \A t \in Sends : SendInv(t), SendUnique, ReceiptInv,
           \A t \in Sends : t # s => /\ sendPc'[t] = sendPc[t] /\ sendChan'[t] = sendChan[t]
                                     /\ targets'[t] = targets[t] /\ delivered'[t] = delivered[t],
           workload' = workload, seen \subseteq seen',
           sendPc[s] \in Active \/ sendPc'[s] \notin Active \/ SendEnv[s] \notin seen,
           sendPc[s] # "ok",
           \A e \in Envs : \/ AcceptedBy(e)' = AcceptedBy(e)
                           \/ e = SendEnv[s] /\ sendPc[s] \in Active,
           \A r \in receipts' : \/ r \in receipts
                                \/ r.kind # "send"
                                \/ /\ r.env = SendEnv[s] /\ r.count = delivered'[s]
                                   /\ sendPc'[s] = "ok",
           SendInv(s)'
    PROVE  (\A t \in Sends : SendInv(t)') /\ SendUnique' /\ ReceiptInv'
<1>1. \A t \in Sends : SendEnv[t] \in Envs
  BY TransportAssumption
<1>2. ASSUME NEW t \in Sends, t # s, sendPc[t] \in Active
      PROVE  AcceptedBy(SendEnv[t])' = AcceptedBy(SendEnv[t])
  BY <1>1, <1>2 DEF SendUnique
<1>3. ASSUME NEW t \in Sends, t # s PROVE SendInv(t)'
  <2>1. SendInv(t)
    OBVIOUS
  <2>2. CASE sendPc[t] \in Active
    BY <1>2, <1>3, <2>1, <2>2 DEF SendInv, Active
  <2>3. CASE sendPc[t] \notin Active
    BY <1>3, <2>1, <2>3 DEF SendInv, Active
  <2> QED
    BY <2>2, <2>3
<1>4. SendUnique'
  <2>1. ASSUME NEW t \in Sends, t # s, sendPc'[t] \in Active, sendPc'[s] \in Active
        PROVE  SendEnv[s] # SendEnv[t]
    <3>1. sendPc[t] \in Active /\ SendEnv[t] \in seen
      BY <2>1 DEF SendInv
    <3> QED
      BY <2>1, <3>1 DEF SendUnique
  <2> QED
    BY <2>1 DEF SendUnique
<1>5. ReceiptInv'
  <2> SUFFICES ASSUME NEW r \in receipts', r.kind = "send"
               PROVE  \E t \in Sends : sendPc'[t] = "ok" /\ SendEnv[t] = r.env /\ r.count = delivered'[t]
    BY DEF ReceiptInv
  <2>1. CASE r \in receipts
    <3>1. PICK t \in Sends : sendPc[t] = "ok" /\ SendEnv[t] = r.env /\ r.count = delivered[t]
      BY <2>1 DEF ReceiptInv
    <3> QED
      BY <3>1
  <2>2. CASE r \notin receipts
    BY <2>2
  <2> QED
    BY <2>1, <2>2
<1> QED
  BY <1>3, <1>4, <1>5

\* A step without a send leaves the sends as they are.
LEMMA SendsSame ==
    ASSUME \A t \in Sends : SendInv(t), SendUnique, ReceiptInv,
           UNCHANGED <<sendVars, accepted, workload, seen>>,
           \A r \in receipts' : r \in receipts \/ r.kind # "send"
    PROVE  (\A t \in Sends : SendInv(t)') /\ SendUnique' /\ ReceiptInv'
<1> USE DEF sendVars
<1>1. \A e : AcceptedBy(e)' = AcceptedBy(e)
  BY DEF AcceptedBy, Accepted
<1>2. ASSUME NEW t \in Sends PROVE SendInv(t)'
  <2>1. SendInv(t)
    OBVIOUS
  <2> QED
    BY <1>1, <2>1 DEF SendInv
<1>3. SendUnique' /\ ReceiptInv'
  BY DEF SendUnique, ReceiptInv
<1> QED
  BY <1>2, <1>3
-----------------------------------------------------------------------------
(* The steps of send. *)

\* What a send call that pushes nothing does: it moves on, looks up a channel or its
\* targets, or writes its receipt.
LEMMA SendMoves ==
    ASSUME NEW own, IInv(own), NEW s \in Sends, Sending(s) \/ SendFails(s),
           UNCHANGED <<accepted, queue>>
    PROVE  /\ Types' /\ SendInv(s)'
           /\ UNCHANGED <<mapVars, subVars, workload>>
           /\ seen \subseteq seen' /\ receipts \subseteq receipts'
           /\ \A t \in Sends : t # s => /\ sendPc'[t] = sendPc[t] /\ sendChan'[t] = sendChan[t]
                                         /\ targets'[t] = targets[t] /\ delivered'[t] = delivered[t]
           /\ sendPc[s] \in Active \/ sendPc'[s] \notin Active \/ SendEnv[s] \notin seen
           /\ sendPc[s] # "ok"
           /\ \A r \in receipts' : \/ r \in receipts
                                    \/ r.kind # "send"
                                    \/ /\ r.env = SendEnv[s] /\ r.count = delivered'[s]
                                       /\ sendPc'[s] = "ok"
           /\ \/ sendChan'[s] \in {sendChan[s], 0}
              \/ /\ workload.sendTo[s].agent \in Agents
                 /\ sendChan'[s] = current[workload.sendTo[s].agent]
<1> USE DEF mapVars, subVars, runVars
<1>1. Types /\ SendInv(s) /\ AcceptInv /\ SendEnv[s] \in Envs
  BY TransportAssumption DEF IInv
<1>2. \A e : AcceptedBy(e)' = AcceptedBy(e)
  BY DEF AcceptedBy, Accepted
<1>3. CASE Admit(s)
  <2>1. AcceptedBy(SendEnv[s]) = {}
    BY <1>1, <1>3 DEF Admit, AcceptInv, AcceptedBy
  <2>2. IsFiniteSet(AcceptedBy(SendEnv[s])) /\ Cardinality(AcceptedBy(SendEnv[s])) = 0
    BY <2>1, FS_EmptySet
  <2>3. Types'
    BY <1>1, <1>3 DEF Admit, Types, SendPcs
  <2>4. SendInv(s)'
    BY <1>1, <1>2, <1>3, <2>1, <2>2 DEF Admit, Types, SendInv, Active
  <2> QED
    BY <1>1, <1>3, <2>3, <2>4 DEF Admit, Types
<1>4. CASE Reject(s)
  <2>1. Types'
    BY <1>1, <1>4 DEF Reject, Types, SendPcs
  <2>2. SendInv(s)'
    BY <1>1, <1>2, <1>4 DEF Reject, Types, SendInv, Active
  <2> QED
    BY <1>1, <1>4, <2>1, <2>2 DEF Reject, Types, Active
<1>5. CASE Lookup(s)
  <2>1. s \in DOMAIN workload.sendTo
    BY <1>1, <1>5 DEF Lookup, SendInv, Active
  <2>2. workload.sendTo[s].agent \in Agents
    BY <1>1, <1>5, <2>1, RecipientFacts DEF Lookup
  <2>3. current[workload.sendTo[s].agent] \in 0..chans
    BY <1>1, <2>2 DEF Types
  <2>4. Types'
    BY <1>1, <1>5, <2>3 DEF Lookup, Types, SendPcs
  <2>5. SendInv(s)'
    BY <1>1, <1>2, <1>5 DEF Lookup, Types, SendInv, Active
  <2> QED
    BY <1>1, <1>5, <2>2, <2>4, <2>5 DEF Lookup, Types, Active
<1>6. CASE Snapshot(s)
  <2>1. Types'
    BY <1>1, <1>6 DEF Snapshot, Types, SendPcs
  <2>2. SendInv(s)'
    BY <1>1, <1>2, <1>6 DEF Snapshot, Types, SendInv, Active
  <2> QED
    BY <1>1, <1>6, <2>1, <2>2 DEF Snapshot, Types, Active
<1>7. CASE External(s)
  <2>1. Types'
    BY <1>1, <1>7 DEF External, Types, SendPcs
  <2>2. SendInv(s)'
    BY <1>1, <1>2, <1>7 DEF External, Types, SendInv, Active
  <2> QED
    BY <1>1, <1>7, <2>1, <2>2 DEF External, Types, Active
<1>8. CASE Push(s)
  <2>1. ~CanPush(sendChan[s])
    <3>1. ASSUME accepted' = [accepted EXCEPT ![workload.sendTo[s].agent] = Append(@, SendEnv[s])]
          PROVE  FALSE
      <4>1. s \in DOMAIN workload.sendTo /\ workload.sendTo[s].kind = "agent"
        BY <1>1, <1>8 DEF Push, SendInv, Active
      <4>2. workload.sendTo[s].agent \in Agents
        BY <1>1, <4>1, RecipientFacts
      <4>3. accepted[workload.sendTo[s].agent] \in Seq(Envs)
            /\ accepted'[workload.sendTo[s].agent] = Append(accepted[workload.sendTo[s].agent], SendEnv[s])
        BY <1>1, <3>1, <4>2 DEF Types
      <4>4. PICK q \in Seq(Envs) : q = Append(q, SendEnv[s])
        BY <4>3
      <4> QED
        BY <1>1, <4>4, AppendFacts
    <3> QED
      BY <1>8, <3>1 DEF Push
  <2>2. Types'
    <3>1. /\ sendPc' = [sendPc EXCEPT ![s] = "failed"] /\ sendChan' = [sendChan EXCEPT ![s] = 0]
          /\ UNCHANGED <<delivered, mapVars, seen, targets, subVars, receipts, runVars>>
      BY <1>8, <2>1 DEF Push
    <3>2. chans \in Nat /\ 0 \in 0..chans
      BY <1>1 DEF Types
    <3>3. sendPc' \in [Sends -> SendPcs] /\ sendChan' \in [Sends -> 0..chans]
      BY <1>1, <3>1, <3>2 DEF Types, SendPcs
    <3> QED
      BY <1>1, <3>1, <3>3 DEF Types
  <2>3. SendInv(s)'
    BY <1>1, <1>2, <1>8, <2>1 DEF Push, Types, SendInv, Active
  <2> QED
    BY <1>1, <1>8, <2>1, <2>2, <2>3 DEF Push, Types, Active
<1>9. CASE LockSenders(s)
  <2>1. Types'
    BY <1>1, <1>9 DEF LockSenders, Types, SendPcs
  <2>2. SendInv(s)'
    BY <1>1, <1>2, <1>9 DEF LockSenders, Types, SendInv, Active
  <2> QED
    BY <1>1, <1>9, <2>1, <2>2 DEF LockSenders, Types, Active
<1>10. ASSUME NEW a \in Agents, Skip(s, a)
       PROVE  /\ Types' /\ SendInv(s)' /\ sendPc' = sendPc /\ sendPc[s] = "fan"
              /\ UNCHANGED <<mapVars, subVars, workload, seen, receipts, sendChan, delivered>>
              /\ \A t \in Sends : t # s => targets'[t] = targets[t]
  <2>1. Types'
    BY <1>1, <1>10 DEF Skip, Types, SendPcs
  <2>2. SendInv(s)'
    BY <1>1, <1>2, <1>10 DEF Skip, Types, SendInv, Active
  <2> QED
    BY <1>1, <1>10, <2>1, <2>2 DEF Skip, Types
<1>11. ASSUME NEW a \in Agents, Fan(s, a)
       PROVE  /\ Types' /\ SendInv(s)' /\ sendPc'[s] = "failed" /\ sendPc[s] = "fan"
              /\ UNCHANGED <<mapVars, subVars, workload, seen, receipts, sendChan, delivered>>
              /\ \A t \in Sends : t # s => targets'[t] = targets[t] /\ sendPc'[t] = sendPc[t]
  <2>1. ~CanPush(current[a])
    <3>1. ASSUME accepted' = [accepted EXCEPT ![a] = Append(@, SendEnv[s])]
          PROVE  FALSE
      <4>1. accepted[a] \in Seq(Envs) /\ accepted'[a] = Append(accepted[a], SendEnv[s])
        BY <1>1, <3>1 DEF Types
      <4> QED
        BY <1>1, <4>1, AppendFacts
    <3> QED
      BY <1>11, <3>1 DEF Fan
  <2>2. Types'
    BY <1>1, <1>11, <2>1 DEF Fan, Types, SendPcs
  <2>3. SendInv(s)'
    BY <1>1, <1>2, <1>11, <2>1 DEF Fan, Types, SendInv, Active
  <2> QED
    BY <1>1, <1>11, <2>1, <2>2, <2>3 DEF Fan, Types
<1>12. CASE FanDone(s)
  <2>1. Types'
    BY <1>1, <1>12 DEF FanDone, Types, SendPcs
  <2>2. SendInv(s)'
    BY <1>1, <1>2, <1>12 DEF FanDone, Types, SendInv, Active
  <2> QED
    BY <1>1, <1>12, <2>1, <2>2 DEF FanDone, Types, Active
<1>13. CASE RecordSend(s)
  <2>1. delivered[s] \in Nat
    BY <1>1 DEF Types
  <2>2. [kind |-> "send", env |-> SendEnv[s], count |-> delivered[s]] \in Receipts
    BY <1>1, <2>1 DEF Receipts
  <2>3. Types'
    BY <1>1, <1>13, <2>2 DEF RecordSend, Types, SendPcs
  <2>4. SendInv(s)'
    BY <1>1, <1>2, <1>13 DEF RecordSend, Types, SendInv, Active
  <2> QED
    BY <1>1, <1>13, <2>3, <2>4 DEF RecordSend, Types, Active
<1>14. CASE SendFails(s)
  <2>1. workload.maxFaults \in Nat /\ faults \in 0..workload.maxFaults
    BY <1>1, TransportAssumption DEF Types, IsWorkload
  <2>2. faults' \in 0..workload.maxFaults
    BY <1>14, <2>1 DEF SendFails
  <2>3. Types'
    BY <1>1, <1>14, <2>2 DEF SendFails, Types, SendPcs
  <2>4. SendInv(s)'
    BY <1>1, <1>2, <1>14 DEF SendFails, Types, SendInv, Active
  <2> QED
    BY <1>1, <1>14, <2>3, <2>4 DEF SendFails, Types, Active
<1>15. CASE \E a \in Agents : Skip(s, a)
  BY <1>10, <1>15 DEF Active
<1>16. CASE \E a \in Agents : Fan(s, a)
  BY <1>11, <1>16 DEF Active
<1> QED
  BY <1>3, <1>4, <1>5, <1>6, <1>7, <1>8, <1>9, <1>12, <1>13, <1>14, <1>15, <1>16 DEF Sending

\* A step of send that pushes nothing.
LEMMA SendQuietly ==
    ASSUME NEW own, IInv(own), NEW s \in Sends, Sending(s) \/ SendFails(s),
           UNCHANGED <<accepted, queue>>
    PROVE  IInv(own)'
<1>1. /\ Types /\ OwnInv(own) /\ Core(own) /\ \A x \in Subs : SubInv(x) /\ OkInv(x)
      /\ (\A t \in Sends : SendInv(t)) /\ SendUnique /\ ReceiptInv
  BY DEF IInv, Core
<1>2. /\ Types' /\ SendInv(s)'
      /\ UNCHANGED <<mapVars, subVars, workload>>
      /\ seen \subseteq seen' /\ receipts \subseteq receipts'
      /\ \A t \in Sends : t # s => /\ sendPc'[t] = sendPc[t] /\ sendChan'[t] = sendChan[t]
                                    /\ targets'[t] = targets[t] /\ delivered'[t] = delivered[t]
      /\ sendPc[s] \in Active \/ sendPc'[s] \notin Active \/ SendEnv[s] \notin seen
      /\ sendPc[s] # "ok"
      /\ \A r \in receipts' : \/ r \in receipts
                               \/ r.kind # "send"
                               \/ /\ r.env = SendEnv[s] /\ r.count = delivered'[s]
                                  /\ sendPc'[s] = "ok"
      /\ \/ sendChan'[s] \in {sendChan[s], 0}
         \/ /\ workload.sendTo[s].agent \in Agents
            /\ sendChan'[s] = current[workload.sendTo[s].agent]
  BY SendMoves
<1>3. OwnInv(own)'
  <2>1. UNCHANGED <<chans, current, workload>> /\ UNCHANGED subChan
    BY <1>2 DEF mapVars, subVars
  <2>2. \A t \in Sends : \/ sendChan'[t] \in {sendChan[t], 0}
                         \/ /\ workload.sendTo[t].agent \in Agents
                            /\ sendChan'[t] = current[workload.sendTo[t].agent]
    BY <1>2
  <2> QED
    BY <1>1, <2>1, <2>2, OwnFrame
<1>4. Core(own)'
  <2>1. UNCHANGED <<chans, queue, accepted>> /\ UNCHANGED <<got, stream, item, subChan>>
    BY <1>2 DEF mapVars, subVars
  <2>2. \A y \in Subs : Flow(y)' = Flow(y)
    BY <2>1 DEF Flow
  <2> QED
    BY <1>1, <1>2, <2>1, <2>2, CoreSame
<1>5. \A y \in Subs : SubInv(y)' /\ OkInv(y)'
  <2>1. UNCHANGED <<subPc, subChan, item, stream, got, current, workload>>
    BY <1>2 DEF mapVars, subVars
  <2> QED
    BY <1>1, <1>2, <2>1 DEF SubInv, OkInv, Flow
<1>6. \A e \in Envs : AcceptedBy(e)' = AcceptedBy(e)
  BY DEF AcceptedBy, Accepted
<1>7. (\A t \in Sends : SendInv(t)') /\ SendUnique' /\ ReceiptInv'
  BY <1>1, <1>2, <1>6, SendsStep
<1> QED
  BY <1>2, <1>3, <1>4, <1>5, <1>7 DEF IInv, Core

\* A send pushes its envelope into an inbox of an agent that does not have it yet.
LEMMA Accepting ==
    ASSUME NEW own, IInv(own), NEW s \in Sends, NEW a \in Agents, NEW c \in 1..chans,
           own[c] = a, a \notin AcceptedBy(SendEnv[s]), Len(queue[c]) < Cap,
           \/ sendPc[s] = "push" /\ sendPc'[s] = "record"
           \/ /\ sendPc[s] = "fan" /\ sendPc'[s] = "fan"
              /\ targets'[s] \cap (AcceptedBy(SendEnv[s]) \cup {a}) = {},
           Pushes(a, c, SendEnv[s]),
           delivered' \in [Sends -> Nat], delivered'[s] = delivered[s] + 1,
           sendPc' \in [Sends -> SendPcs],
           sendChan' \in [Sends -> 0..chans], sendChan'[s] = 0,
           targets' \in [Sends -> SUBSET Agents],
           \A t \in Sends : t # s => /\ sendPc'[t] = sendPc[t] /\ sendChan'[t] = sendChan[t]
                                     /\ targets'[t] = targets[t] /\ delivered'[t] = delivered[t],
           UNCHANGED <<mapVars, seen, subVars, receipts, runVars>>
    PROVE  /\ IInv(own)'
           /\ \A d \in 1..chans, f \in Envs : Queued(d, f) => Queued(d, f)'
           /\ Queued(c, SendEnv[s])'
           /\ Accepted(a)' = Accepted(a) \cup {SendEnv[s]}
           /\ \A b \in Agents : b # a => Accepted(b)' = Accepted(b)
<1> USE DEF mapVars, subVars, runVars
<1> DEFINE e == SendEnv[s]
<1>1. /\ Types /\ OwnInv(own) /\ Core(own) /\ \A x \in Subs : SubInv(x) /\ OkInv(x)
      /\ (\A t \in Sends : SendInv(t)) /\ SendUnique /\ ReceiptInv
  BY DEF IInv, Core
<1>2. e \in Envs /\ e \notin Accepted(a) /\ e \in seen /\ sendPc[s] \in Active
  BY <1>1, TransportAssumption DEF SendInv, Active, AcceptedBy
<1>3. /\ Core(own)'
      /\ Accepted(a)' = Accepted(a) \cup {e}
      /\ \A b \in Agents : b # a => Accepted(b)' = Accepted(b)
      /\ Len(queue'[c]) = Len(queue[c]) + 1
      /\ \A d \in 1..chans, f \in Envs : Queued(d, f)' <=> Queued(d, f) \/ (d = c /\ f = e)
  <2>1. UNCHANGED <<chans, got, stream, item, subChan, seen>>
    OBVIOUS
  <2> QED
    BY <1>1, <1>2, <2>1, CoreAccept
<1>4. Types'
  <2>1. \A d \in 1..chans : Len(queue'[d]) <= Cap
    <3>1. Cap \in Nat /\ Len(queue[c]) \in Nat
      BY <1>1, TransportAssumption DEF Types
    <3>2. \A d \in 1..chans : Len(queue[d]) <= Cap
      BY <1>1 DEF Types
    <3>3. Len(queue'[c]) <= Cap
      BY <1>3, <3>1
    <3> QED
      BY <3>2, <3>3 DEF Pushes
  <2> QED
    BY <1>1, <2>1 DEF Types, Pushes
<1>5. OwnInv(own)'
  <2>1. \A t \in Sends : sendChan'[t] \in {sendChan[t], 0}
    OBVIOUS
  <2> QED
    BY <1>1, <2>1, OwnFrame
<1>6. \A y \in Subs : SubInv(y)' /\ OkInv(y)'
  BY <1>1 DEF SubInv, OkInv, Flow
<1>7. /\ AcceptedBy(e)' = AcceptedBy(e) \cup {a}
      /\ \A f \in Envs : f # e => AcceptedBy(f)' = AcceptedBy(f)
  <2>1. \A f : \A b \in Agents : f \in Accepted(b)' <=> f \in Accepted(b) \/ (b = a /\ f = e)
    BY <1>3
  <2> QED
    BY <2>1, <1>3 DEF AcceptedBy
<1>8. /\ IsFiniteSet(AcceptedBy(e)) /\ delivered[s] = Cardinality(AcceptedBy(e))
      /\ delivered[s] \in Nat /\ s \in DOMAIN workload.sendTo
  BY <1>1, <1>2 DEF SendInv, Types
<1>9. IsFiniteSet(AcceptedBy(e)') /\ Cardinality(AcceptedBy(e)') = delivered[s] + 1
  BY <1>7, <1>8, FS_AddElement
<1>10. SendInv(s)'
  <2>1. /\ delivered'[s] = delivered[s] + 1 /\ sendChan'[s] = 0
        /\ workload' = workload /\ seen' = seen
    OBVIOUS
  <2> QED
    BY <1>2, <1>7, <1>8, <1>9, <2>1 DEF SendInv, Active
<1>11. (\A t \in Sends : SendInv(t)') /\ SendUnique' /\ ReceiptInv'
  <2>1. \A t \in Sends : t # s => /\ sendPc'[t] = sendPc[t] /\ sendChan'[t] = sendChan[t]
                                  /\ targets'[t] = targets[t] /\ delivered'[t] = delivered[t]
    OBVIOUS
  <2>2. \A f \in Envs : AcceptedBy(f)' = AcceptedBy(f) \/ (f = SendEnv[s] /\ sendPc[s] \in Active)
    BY <1>2, <1>7
  <2> QED
    BY <1>1, <1>2, <1>10, <2>1, <2>2, SendsStep
<1> QED
  BY <1>2, <1>3, <1>4, <1>5, <1>6, <1>11 DEF IInv, Core

\* The channel a pushing send or a fan-out pushes into, when it has room.
Pushing(own, s, a, c) ==
    /\ c \in 1..chans /\ own[c] = a /\ a \in Agents
    /\ c = current[a] \/ (sendPc[s] = "push" /\ c = sendChan[s] /\ a = workload.sendTo[s].agent)
    /\ Accepted(a)' = Accepted(a) \cup {SendEnv[s]}
    /\ \A b \in Agents : b # a => Accepted(b)' = Accepted(b)
    /\ \A d \in 1..chans, f \in Envs : Queued(d, f) => Queued(d, f)'
    /\ Queued(c, SendEnv[s])'

\* A push into one agent's inbox, or one step of a fan-out.
LEMMA SendStep ==
    ASSUME NEW own, IInv(own), NEW s \in Sends, Sending(s) \/ SendFails(s)
    PROVE  /\ IInv(own)'
           /\ UNCHANGED <<accepted, queue>> \/ \E a, c : Pushing(own, s, a, c)
<1>1. Types /\ OwnInv(own) /\ SendInv(s) /\ SendEnv[s] \in Envs
  BY TransportAssumption DEF IInv
<1>2. CASE UNCHANGED <<accepted, queue>>
  BY <1>2, SendQuietly
<1>3. CASE Push(s) /\ CanPush(sendChan[s])
  <2>1. PICK a, c : a = workload.sendTo[s].agent /\ c = sendChan[s]
    OBVIOUS
  <2>2. s \in DOMAIN workload.sendTo /\ workload.sendTo[s].kind = "agent" /\ sendChan[s] # 0
    BY <1>1, <1>3 DEF Push, SendInv, Active
  <2>3. a \in Agents
    BY <1>1, <2>1, <2>2, RecipientFacts
  <2>4. c \in 1..chans
    <3>1. chans \in Nat /\ c \in 0..chans
      BY <1>1, <2>1 DEF Types
    <3> QED
      BY <2>1, <2>2, <3>1
  <2>5. own[c] = a /\ AcceptedBy(SendEnv[s]) = {} /\ Len(queue[c]) < Cap
    BY <1>1, <1>3, <2>1, <2>2 DEF OwnInv, Push, SendInv, CanPush, FitsInto
  <2>6. delivered[s] = 0
    BY <1>1, <1>3, <2>5, FS_EmptySet DEF Push, SendInv, Active
  <2>7. /\ queue' = [queue EXCEPT ![c] = Append(@, SendEnv[s])]
        /\ accepted' = [accepted EXCEPT ![a] = Append(@, SendEnv[s])]
        /\ delivered' = [delivered EXCEPT ![s] = delivered[s] + 1]
        /\ sendPc' = [sendPc EXCEPT ![s] = "record"]
        /\ sendChan' = [sendChan EXCEPT ![s] = 0]
        /\ UNCHANGED <<mapVars, seen, targets, subVars, receipts, runVars>>
        /\ sendPc[s] = "push"
    BY <1>3, <2>1, <2>6 DEF Push
  <2>8. /\ delivered' \in [Sends -> Nat] /\ delivered'[s] = delivered[s] + 1
        /\ sendPc' \in [Sends -> SendPcs] /\ sendPc'[s] = "record"
        /\ sendChan' \in [Sends -> 0..chans] /\ sendChan'[s] = 0
        /\ targets' \in [Sends -> SUBSET Agents]
        /\ \A t \in Sends : t # s => /\ sendPc'[t] = sendPc[t] /\ sendChan'[t] = sendChan[t]
                                      /\ targets'[t] = targets[t] /\ delivered'[t] = delivered[t]
    BY <1>1, <2>1, <2>7 DEF Types, SendPcs
  <2>9. /\ IInv(own)'
        /\ \A d \in 1..chans, f \in Envs : Queued(d, f) => Queued(d, f)'
        /\ Queued(c, SendEnv[s])'
        /\ Accepted(a)' = Accepted(a) \cup {SendEnv[s]}
        /\ \A b \in Agents : b # a => Accepted(b)' = Accepted(b)
    <3>1. a \notin AcceptedBy(SendEnv[s])
      BY <2>5
    <3>2. \/ sendPc[s] = "push" /\ sendPc'[s] = "record"
          \/ /\ sendPc[s] = "fan" /\ sendPc'[s] = "fan"
             /\ targets'[s] \cap (AcceptedBy(SendEnv[s]) \cup {a}) = {}
      BY <2>7, <2>8
    <3>3. UNCHANGED <<mapVars, seen, subVars, receipts, runVars>>
      BY <2>7
    <3>4. Pushes(a, c, SendEnv[s])
      BY <1>1, <2>3, <2>4, <2>7 DEF Types, Pushes
    <3> QED
      BY <2>3, <2>4, <2>5, <2>8, <3>1, <3>2, <3>3, <3>4, Accepting
  <2> QED
    BY <2>1, <2>3, <2>4, <2>5, <2>7, <2>9 DEF Pushing
<1>4. ASSUME NEW a \in Agents, Fan(s, a), CanPush(current[a])
      PROVE  IInv(own)' /\ \E c : Pushing(own, s, a, c)
  <2>1. PICK c : c = current[a]
    OBVIOUS
  <2>2. c \in 1..chans
    <3>1. chans \in Nat /\ c \in 0..chans /\ c # 0
      BY <1>1, <1>4, <2>1 DEF Types, Fan
    <3> QED
      BY <3>1
  <2>3. own[c] = a /\ Len(queue[c]) < Cap
    BY <1>1, <1>4, <2>1, <2>2 DEF OwnInv, Fan, CanPush, FitsInto
  <2>4. a \in targets[s] /\ targets[s] \cap AcceptedBy(SendEnv[s]) = {} /\ sendChan[s] = 0
    BY <1>1, <1>4 DEF Fan, SendInv
  <2>5. /\ queue' = [queue EXCEPT ![c] = Append(@, SendEnv[s])]
        /\ accepted' = [accepted EXCEPT ![a] = Append(@, SendEnv[s])]
        /\ delivered' = [delivered EXCEPT ![s] = delivered[s] + 1]
        /\ sendPc' = sendPc /\ sendChan' = sendChan
        /\ UNCHANGED <<mapVars, seen, subVars, receipts, runVars>>
        /\ sendPc[s] = "fan" /\ targets' = [targets EXCEPT ![s] = @ \ {a}]
    BY <1>4, <2>1 DEF Fan
  <2>7. /\ delivered' \in [Sends -> Nat] /\ delivered'[s] = delivered[s] + 1
        /\ sendPc' \in [Sends -> SendPcs] /\ sendPc'[s] = "fan"
        /\ sendChan' \in [Sends -> 0..chans] /\ sendChan'[s] = 0
        /\ targets' \in [Sends -> SUBSET Agents] /\ targets'[s] = targets[s] \ {a}
        /\ \A t \in Sends : t # s => /\ sendPc'[t] = sendPc[t] /\ sendChan'[t] = sendChan[t]
                                      /\ targets'[t] = targets[t] /\ delivered'[t] = delivered[t]
    BY <1>1, <2>1, <2>4, <2>5 DEF Types
  <2>8. targets'[s] \cap (AcceptedBy(SendEnv[s]) \cup {a}) = {}
    BY <2>4, <2>7
  <2>9. /\ IInv(own)'
        /\ \A d \in 1..chans, f \in Envs : Queued(d, f) => Queued(d, f)'
        /\ Queued(c, SendEnv[s])'
        /\ Accepted(a)' = Accepted(a) \cup {SendEnv[s]}
        /\ \A b \in Agents : b # a => Accepted(b)' = Accepted(b)
    <3>1. a \notin AcceptedBy(SendEnv[s])
      BY <2>4
    <3>2. \/ sendPc[s] = "push" /\ sendPc'[s] = "record"
          \/ /\ sendPc[s] = "fan" /\ sendPc'[s] = "fan"
             /\ targets'[s] \cap (AcceptedBy(SendEnv[s]) \cup {a}) = {}
      BY <2>5, <2>7, <2>8
    <3>3. UNCHANGED <<mapVars, seen, subVars, receipts, runVars>>
      BY <2>5
    <3>4. Pushes(a, c, SendEnv[s])
      BY <1>1, <2>2, <2>5 DEF Types, Pushes
    <3> QED
      BY <2>2, <2>3, <2>7, <3>1, <3>2, <3>3, <3>4, Accepting
  <2> QED
    BY <2>1, <2>2, <2>3, <2>9 DEF Pushing
<1>5. \/ UNCHANGED <<accepted, queue>>
      \/ Push(s) /\ CanPush(sendChan[s])
      \/ \E a \in Agents : Fan(s, a) /\ CanPush(current[a])
  BY DEF Sending, SendFails, Admit, Reject, Lookup, Snapshot, External, Push, LockSenders,
         Skip, Fan, FanDone, RecordSend
<1> QED
  BY <1>2, <1>3, <1>4, <1>5
-----------------------------------------------------------------------------
(* The steps of a subscription. *)

\* A step that changes neither a queue nor what the subscriber has.
Quiet(x) ==
    /\ UNCHANGED <<current, chans, queue, seen, sendVars, accepted, workload>>
    /\ \A y \in Subs : Flow(y)' = Flow(y)
    /\ \A y \in Subs : item'[y].env = item[y].env /\ (item'[y] = NoItem <=> item[y] = NoItem)
    /\ \A y \in Subs : y # x => /\ subPc'[y] = subPc[y] /\ subChan'[y] = subChan[y]
                                 /\ item'[y] = item[y]
                                 /\ stream'[y] = stream[y] /\ got'[y] = got[y]
    /\ \/ subChan'[x] \in {subChan[x], 0}
       \/ subChan'[x] = current[SubAgent[x]] /\ \A e \in Envs : ~Has(x, e)
    /\ receipts \subseteq receipts'
    /\ \A r \in receipts' : r \in receipts \/ r.kind # "send"

\* A quiet step keeps the invariant.
LEMMA QuietStep ==
    ASSUME NEW own, IInv(own), NEW x \in Subs, Quiet(x), Types', SubInv(x)', OkInv(x)'
    PROVE  IInv(own)' /\ \A y \in Subs : \A e : Has(y, e)' <=> Has(y, e)
<1>1. /\ Types /\ OwnInv(own) /\ Core(own) /\ \A y \in Subs : SubInv(y) /\ OkInv(y)
      /\ (\A t \in Sends : SendInv(t)) /\ SendUnique /\ ReceiptInv
  BY DEF IInv, Core
<1>2. OwnInv(own)'
  <2>1. UNCHANGED <<chans, current, workload>> /\ \A t \in Sends : sendChan'[t] = sendChan[t]
    BY DEF Quiet, sendVars
  <2>2. \A y \in Subs : subChan'[y] \in {subChan[y], 0, current[SubAgent[y]]}
    BY DEF Quiet
  <2> QED
    BY <1>1, <2>1, <2>2, OwnFrame
<1>3. Core(own)' /\ \A y \in Subs : \A e : Has(y, e)' <=> Has(y, e)
  <2>1. UNCHANGED <<chans, queue, accepted>> /\ seen \subseteq seen'
    BY DEF Quiet
  <2>2. \A y \in Subs : subChan'[y] \in {subChan[y], 0} \/ \A e \in Envs : ~Has(y, e)
    BY DEF Quiet
  <2>3. \A y \in Subs : /\ Flow(y)' = Flow(y)
                        /\ item'[y].env = item[y].env
                        /\ item'[y] = NoItem <=> item[y] = NoItem
    BY DEF Quiet
  <2> QED
    BY <1>1, <2>1, <2>2, <2>3, CoreSame
<1>4. \A y \in Subs : SubInv(y)' /\ OkInv(y)'
  <2>1. /\ \A y \in Subs : y # x => /\ subPc'[y] = subPc[y] /\ subChan'[y] = subChan[y]
                                     /\ item'[y] = item[y]
                                     /\ stream'[y] = stream[y] /\ got'[y] = got[y]
        /\ current' = current /\ workload' = workload /\ receipts \subseteq receipts'
    BY DEF Quiet
  <2> QED
    BY <1>1, <2>1, SubsStep
<1>5. (\A t \in Sends : SendInv(t)') /\ SendUnique' /\ ReceiptInv'
  <2>1. UNCHANGED <<sendVars, accepted, workload, seen>>
        /\ \A r \in receipts' : r \in receipts \/ r.kind # "send"
    BY DEF Quiet
  <2> QED
    BY <1>1, <2>1, SendsSame
<1> QED
  BY <1>2, <1>3, <1>4, <1>5 DEF IInv, Core

\* A subscription that has got nothing yet has nothing.
LEMMA HasNothing ==
    ASSUME NEW x \in Subs, got[x] = << >>, stream[x] = << >>, item[x] = NoItem, NEW e \in Envs
    PROVE  ~Has(x, e)
<1>1. Flow(x) = << >> /\ DOMAIN Flow(x) = {}
  BY DEF Flow
<1>2. item[x].env # e
  BY TransportAssumption DEF NoItem
<1> QED
  BY <1>1, <1>2 DEF Has, Flowed

\* subscribe up to its forwarder, receive up to its wait, the end of a task and the
\* subscriber's own steps are quiet.
LEMMA QuietMoves ==
    ASSUME NEW own, IInv(own), NEW x \in Subs,
           \/ CheckRegistered(x) \/ GetInbox(x) \/ Supersede(x) \/ ReceiveCall(x)
           \/ LockInbox(x) \/ ExitParked(x) \/ ForwardFails(x)
    PROVE  Quiet(x) /\ Types' /\ SubInv(x)' /\ OkInv(x)'
<1> USE DEF mapVars, runVars
<1>1. Types /\ SubInv(x) /\ OkInv(x) /\ SubAgent[x] \in Agents
  BY TransportAssumption DEF IInv
<1>2. chans \in Nat /\ current[SubAgent[x]] \in 0..chans /\ 0 \in 0..chans
  BY <1>1 DEF Types
<1>3. CASE CheckRegistered(x)
  <2>1. Types'
    BY <1>1, <1>3 DEF CheckRegistered, sendVars, Types, SubPcs
  <2>2. SubInv(x)'
    BY <1>1, <1>3 DEF CheckRegistered, Types, SubInv, Held
  <2>3. OkInv(x)'
    BY <1>1, <1>3 DEF CheckRegistered, Types, OkInv, Flow
  <2>4. Quiet(x)
    BY <1>1, <1>3 DEF CheckRegistered, Types, Quiet, Flow
  <2> QED
    BY <2>1, <2>2, <2>3, <2>4
<1>4. CASE GetInbox(x)
  <2>1. Types'
    BY <1>1, <1>2, <1>4 DEF GetInbox, sendVars, Types, SubPcs
  <2>2. SubInv(x)'
    BY <1>1, <1>4 DEF GetInbox, Types, SubInv, Held
  <2>3. OkInv(x)'
    BY <1>1, <1>4 DEF GetInbox, Types, OkInv, Flow
  <2>4. \A e \in Envs : ~Has(x, e)
    BY <1>1, <1>4, HasNothing DEF GetInbox, SubInv
  <2>5. Quiet(x)
    BY <1>1, <1>4, <2>4 DEF GetInbox, Types, Quiet, Flow
  <2> QED
    BY <2>1, <2>2, <2>3, <2>5
<1>5. CASE Supersede(x)
  <2>1. Types'
    BY <1>1, <1>5 DEF Supersede, sendVars, Types, SubPcs
  <2>2. SubInv(x)'
    BY <1>1, <1>5 DEF Supersede, Types, SubInv, Held
  <2>3. OkInv(x)'
    BY <1>1, <1>5 DEF Supersede, Types, OkInv, Flow
  <2>4. Quiet(x)
    BY <1>1, <1>5 DEF Supersede, Types, Quiet, Flow
  <2> QED
    BY <2>1, <2>2, <2>3, <2>4
<1>6. CASE ReceiveCall(x)
  <2>1. Types'
    BY <1>1, <1>2, <1>6 DEF ReceiveCall, sendVars, Types, SubPcs
  <2>2. SubInv(x)'
    BY <1>1, <1>6 DEF ReceiveCall, Types, SubInv, Held
  <2>3. OkInv(x)'
    BY <1>1, <1>6 DEF ReceiveCall, Types, OkInv, Flow
  <2>4. \A e \in Envs : ~Has(x, e)
    BY <1>1, <1>6, HasNothing DEF ReceiveCall, SubInv
  <2>5. Quiet(x)
    BY <1>1, <1>6, <2>4 DEF ReceiveCall, Types, Quiet, Flow
  <2> QED
    BY <2>1, <2>2, <2>3, <2>5
<1>7. CASE LockInbox(x)
  <2>1. Types'
    BY <1>1, <1>7 DEF LockInbox, sendVars, Types, SubPcs
  <2>2. SubInv(x)'
    BY <1>1, <1>7 DEF LockInbox, Types, SubInv, Held
  <2>3. OkInv(x)'
    BY <1>1, <1>7 DEF LockInbox, Types, OkInv, Flow
  <2>4. Quiet(x)
    BY <1>1, <1>7 DEF LockInbox, Types, Quiet, Flow
  <2> QED
    BY <2>1, <2>2, <2>3, <2>4
<1>8. CASE ExitParked(x)
  <2>1. Types'
    BY <1>1, <1>2, <1>8 DEF ExitParked, Exit, sendVars, Types, SubPcs
  <2>2. SubInv(x)'
    BY <1>1, <1>8 DEF ExitParked, Exit, Types, SubInv, Held
  <2>3. OkInv(x)'
    BY <1>1, <1>8 DEF ExitParked, Exit, Types, OkInv, Flow
  <2>4. Quiet(x)
    BY <1>1, <1>8 DEF ExitParked, Exit, Types, Quiet, Flow
  <2> QED
    BY <2>1, <2>2, <2>3, <2>4
<1>9. CASE ForwardFails(x)
  <2>1. Types'
    BY <1>1, <1>2, <1>9 DEF ForwardFails, Exit, sendVars, Types, SubPcs
  <2>2. SubInv(x)'
    BY <1>1, <1>9 DEF ForwardFails, Exit, Types, SubInv, Held
  <2>3. OkInv(x)'
    BY <1>1, <1>9 DEF ForwardFails, Exit, Types, OkInv, Flow
  <2>4. Quiet(x)
    BY <1>1, <1>9 DEF ForwardFails, Exit, Types, Quiet, Flow
  <2> QED
    BY <2>1, <2>2, <2>3, <2>4
<1> QED
  BY <1>3, <1>4, <1>5, <1>6, <1>7, <1>8, <1>9

\* So are reading and dropping a stream, and the deliver receipt, or its failure, of a
\* forwarder.
LEMMA QuietStreams ==
    ASSUME NEW own, IInv(own), NEW x \in Subs,
           \/ ReadStream(x) \/ DropStream(x)
           \/ (RecordDeliver(x) \/ DeliverFails(x)) /\ x \notin Receivers
    PROVE  Quiet(x) /\ Types' /\ SubInv(x)' /\ OkInv(x)'
<1> USE DEF mapVars, runVars
<1>1. Types /\ SubInv(x) /\ OkInv(x) /\ SubAgent[x] \in Agents
  BY TransportAssumption DEF IInv
<1>2. /\ workload.maxFaults \in Nat /\ faults \in 0..workload.maxFaults
      /\ workload.maxDrops \in Nat /\ drops \in 0..workload.maxDrops
  BY <1>1, TransportAssumption DEF Types, IsWorkload
<1>3. CASE ReadStream(x)
  <2>1. got[x] \in Seq(Items) /\ stream[x] \in Seq(Items) /\ stream[x] # << >>
    BY <1>1, <1>3 DEF ReadStream, Types
  <2>2. /\ Head(stream[x]) \in Items /\ Tail(stream[x]) \in Seq(Items)
        /\ Len(Tail(stream[x])) = Len(stream[x]) - 1 /\ Len(stream[x]) \in Nat
        /\ Append(got[x], Head(stream[x])) \in Seq(Items)
        /\ Append(got[x], Head(stream[x])) \o Tail(stream[x]) = got[x] \o stream[x]
    <3>1. /\ Head(stream[x]) \in Items /\ Tail(stream[x]) \in Seq(Items)
          /\ Len(Tail(stream[x])) = Len(stream[x]) - 1 /\ Len(stream[x]) \in Nat
      BY <2>1, HeadTailFacts
    <3>2. Append(got[x], Head(stream[x])) \in Seq(Items)
      BY <2>1, <3>1, AppendFacts
    <3>3. Append(got[x], Head(stream[x])) \o Tail(stream[x]) = got[x] \o stream[x]
      BY <2>1, ConcatMove
    <3> QED
      BY <3>1, <3>2, <3>3
  <2>3. /\ got'[x] = Append(got[x], Head(stream[x])) /\ stream'[x] = Tail(stream[x])
        /\ \A y \in Subs : y # x => got'[y] = got[y] /\ stream'[y] = stream[y]
    BY <1>1, <1>3 DEF ReadStream, Types
  <2>4. \A y \in Subs : Flow(y)' = Flow(y)
    BY <2>2, <2>3 DEF Flow
  <2>5. got' \in [Subs -> Seq(Items)] /\ stream' \in [Subs -> Seq(Items)]
    BY <1>1, <1>3, <2>2 DEF ReadStream, Types
  <2>6. \A y \in Subs : Len(stream'[y]) <= StreamCap
    <3>1. StreamCap \in Nat /\ \A y \in Subs : Len(stream[y]) <= StreamCap
      BY <1>1, TransportAssumption DEF Types
    <3>2. Len(stream'[x]) <= StreamCap
      BY <2>2, <2>3, <3>1
    <3> QED
      BY <2>3, <3>1, <3>2
  <2>7. Types'
    BY <1>1, <1>3, <2>5, <2>6 DEF ReadStream, sendVars, Types
  <2>8. SubInv(x)'
    BY <1>1, <1>3 DEF ReadStream, Subscribed, Types, SubInv, Held
  <2>9. OkInv(x)'
    BY <1>1, <1>3, <2>4 DEF ReadStream, OkInv
  <2>10. Quiet(x)
    BY <1>1, <1>3, <2>3, <2>4 DEF ReadStream, Quiet
  <2> QED
    BY <2>7, <2>8, <2>9, <2>10
<1>4. CASE DropStream(x)
  <2>1. drops' \in 0..workload.maxDrops
    BY <1>2, <1>4 DEF DropStream
  <2>2. Types'
    BY <1>1, <1>4, <2>1 DEF DropStream, sendVars, Types
  <2>3. SubInv(x)'
    BY <1>1, <1>4 DEF DropStream, SubInv
  <2>4. OkInv(x)'
    BY <1>1, <1>4 DEF DropStream, OkInv, Flow
  <2>5. Quiet(x)
    BY <1>4 DEF DropStream, Quiet, Flow
  <2> QED
    BY <2>2, <2>3, <2>4, <2>5
<1>5. CASE RecordDeliver(x) /\ x \notin Receivers
  <2>1. /\ subPc[x] = "record" /\ subPc' = [subPc EXCEPT ![x] = "send"]
        /\ receipts' = receipts \cup {Deliver(item[x].env, SubAgent[x])}
        /\ UNCHANGED <<subChan, got, item, mapVars, queue, seen, sendVars, notified, stream,
                       closed, accepted, runVars>>
    BY <1>5 DEF RecordDeliver, Deliver
  <2>2. item[x] \in Items
    BY <1>1, <2>1 DEF SubInv
  <2>3. Deliver(item[x].env, SubAgent[x]) \in Receipts /\ Deliver(item[x].env, SubAgent[x]).kind # "send"
    BY <1>1, <2>2 DEF Deliver, Receipts, Items
  <2>4. Types'
    BY <1>1, <2>1, <2>3 DEF sendVars, Types, SubPcs
  <2>5. SubInv(x)'
    BY <1>1, <1>5, <2>1 DEF Types, SubInv, Held
  <2>6. OkInv(x)'
    BY <1>1, <2>1 DEF Types, OkInv, Flow
  <2>7. Quiet(x)
    BY <1>1, <2>1, <2>3 DEF Types, Quiet, Flow
  <2> QED
    BY <2>4, <2>5, <2>6, <2>7
<1>6. CASE DeliverFails(x) /\ x \notin Receivers
  <2>1. /\ subPc[x] = "record" /\ subPc' = [subPc EXCEPT ![x] = "send"]
        /\ faults < workload.maxFaults /\ faults' = faults + 1
        /\ item' = [item EXCEPT ![x] = [item[x] EXCEPT !.ok = FALSE]]
        /\ UNCHANGED <<subChan, got, mapVars, queue, seen, sendVars, notified, stream,
                       closed, receipts, accepted, drops, workload>>
    BY <1>6 DEF DeliverFails
  <2>2. item[x] \in Items
    BY <1>1, <2>1 DEF SubInv
  <2>3. /\ [item[x] EXCEPT !.ok = FALSE] \in Items
        /\ [item[x] EXCEPT !.ok = FALSE].env = item[x].env
        /\ [item[x] EXCEPT !.ok = FALSE].ok = FALSE
    BY <2>2 DEF Items
  <2>4. faults' \in 0..workload.maxFaults
    BY <1>2, <2>1
  <2>5. NoItem \notin Items
    BY TransportAssumption DEF NoItem, Items
  <2>6. /\ item' \in [Subs -> Items \cup {NoItem}] /\ item'[x] \in Items
        /\ item'[x].env = item[x].env /\ item'[x].ok = FALSE
        /\ \A y \in Subs : y # x => item'[y] = item[y]
    BY <1>1, <2>1, <2>3 DEF Types
  <2>7. Types'
    BY <1>1, <2>1, <2>4, <2>6 DEF sendVars, Types, SubPcs
  <2>8. SubInv(x)'
    BY <1>1, <1>6, <2>1, <2>6 DEF Types, SubInv, Held
  <2>9. OkInv(x)'
    BY <1>1, <2>1, <2>6 DEF Types, OkInv, Flow
  <2>10. Quiet(x)
    BY <1>1, <2>1, <2>2, <2>5, <2>6 DEF Types, Quiet, Flow
  <2> QED
    BY <2>7, <2>8, <2>9, <2>10
<1> QED
  BY <1>3, <1>4, <1>5, <1>6

\* The item goes to the subscriber: into its stream, or from receive.
Hands(x) ==
    /\ UNCHANGED <<current, chans, queue, seen, sendVars, accepted, workload>>
    /\ item'[x] = NoItem
    /\ \A y \in Subs : y # x => /\ subPc'[y] = subPc[y] /\ subChan'[y] = subChan[y]
                                 /\ item'[y] = item[y]
                                 /\ stream'[y] = stream[y] /\ got'[y] = got[y]
    /\ subChan'[x] \in {subChan[x], 0}
    /\ receipts \subseteq receipts'
    /\ \A r \in receipts' : r \in receipts \/ r.kind # "send"

\* Handing over an item keeps the invariant.
LEMMA HandsOver ==
    ASSUME NEW own, IInv(own), NEW x \in Subs, NEW it \in Items, Hands(x), Types', SubInv(x)',
           item[x] \in Items, it.env = item[x].env, Flow(x)' = Append(Flow(x), it),
           subPc'[x] # "send", it.ok => Deliver(it.env, SubAgent[x]) \in receipts'
    PROVE  IInv(own)' /\ \A y \in Subs, e \in Envs : Has(y, e)' <=> Has(y, e)
<1>1. /\ Types /\ OwnInv(own) /\ Core(own) /\ \A y \in Subs : SubInv(y) /\ OkInv(y)
      /\ (\A t \in Sends : SendInv(t)) /\ SendUnique /\ ReceiptInv
  BY DEF IInv, Core
<1>2. OwnInv(own)'
  <2>1. UNCHANGED <<chans, current, workload>> /\ \A t \in Sends : sendChan'[t] = sendChan[t]
    BY DEF Hands, sendVars
  <2>2. \A y \in Subs : subChan'[y] \in {subChan[y], 0, current[SubAgent[y]]}
    BY DEF Hands
  <2> QED
    BY <1>1, <2>1, <2>2, OwnFrame
<1>3. /\ Core(own)' /\ \A y \in Subs, e \in Envs : Has(y, e)' <=> Has(y, e)
      /\ \A i \in DOMAIN Flow(x)' : \/ (Flow(x)')[i] = it
                                    \/ i \in DOMAIN Flow(x) /\ (Flow(x)')[i] = Flow(x)[i]
  <2>1. UNCHANGED <<chans, queue, accepted, seen>> /\ item'[x] = NoItem
    BY DEF Hands
  <2>2. \A y \in Subs : subChan'[y] \in {subChan[y], 0}
    BY DEF Hands
  <2>3. \A y \in Subs : y # x => Flow(y)' = Flow(y) /\ item'[y] = item[y]
    BY DEF Hands, Flow
  <2>4. item[x] # NoItem
    BY TransportAssumption DEF NoItem, Items
  <2> QED
    BY <1>1, <2>1, <2>2, <2>3, <2>4, CoreFlow
<1>4. OkInv(x)'
  <2>1. OkInv(x) /\ receipts \subseteq receipts'
    BY <1>1 DEF Hands
  <2> QED
    BY <1>3, <2>1 DEF OkInv
<1>5. \A y \in Subs : SubInv(y)' /\ OkInv(y)'
  <2>1. /\ \A y \in Subs : y # x => /\ subPc'[y] = subPc[y] /\ subChan'[y] = subChan[y]
                                     /\ item'[y] = item[y]
                                     /\ stream'[y] = stream[y] /\ got'[y] = got[y]
        /\ current' = current /\ workload' = workload /\ receipts \subseteq receipts'
    BY DEF Hands
  <2> QED
    BY <1>1, <1>4, <2>1, SubsStep
<1>6. (\A t \in Sends : SendInv(t)') /\ SendUnique' /\ ReceiptInv'
  <2>1. UNCHANGED <<sendVars, accepted, workload, seen>>
        /\ \A r \in receipts' : r \in receipts \/ r.kind # "send"
    BY DEF Hands
  <2> QED
    BY <1>1, <2>1, SendsSame
<1> QED
  BY <1>2, <1>3, <1>5, <1>6 DEF IInv, Core

\* Forward, and receive's answer, hand the item over.
LEMMA HandingSteps ==
    ASSUME NEW own, IInv(own), NEW x \in Subs,
           Forward(x) \/ ((RecordDeliver(x) \/ DeliverFails(x)) /\ x \in Receivers)
    PROVE  IInv(own)' /\ \A y \in Subs, e \in Envs : Has(y, e)' <=> Has(y, e)
<1> USE DEF mapVars, runVars
<1>1. Types /\ SubInv(x) /\ OkInv(x) /\ SubAgent[x] \in Agents
  BY TransportAssumption DEF IInv
<1>2. /\ workload.maxFaults \in Nat /\ faults \in 0..workload.maxFaults
      /\ chans \in Nat /\ 0 \in 0..chans
      /\ got[x] \in Seq(Items) /\ stream[x] \in Seq(Items)
  BY <1>1, TransportAssumption DEF Types, IsWorkload
<1>3. item[x] \in Items
  BY <1>1 DEF SubInv, Forward, RecordDeliver, DeliverFails
<1>4. CASE Forward(x)
  <2>1. /\ Append(stream[x], item[x]) \in Seq(Items)
        /\ Len(Append(stream[x], item[x])) = Len(stream[x]) + 1 /\ Len(stream[x]) \in Nat
    BY <1>2, <1>3, AppendFacts
  <2>2. got[x] \o Append(stream[x], item[x]) = Append(got[x] \o stream[x], item[x])
    <3>1. got[x] \in Seq(Items) /\ stream[x] \in Seq(Items)
      BY <1>2
    <3>2. \A u, v \in Seq(Items), it \in Items : u \o Append(v, it) = Append(u \o v, it)
      BY ConcatAppend
    <3> QED
      BY <1>3, <3>1, <3>2, Zenon
  <2>3. /\ stream' \in [Subs -> Seq(Items)] /\ stream'[x] = Append(stream[x], item[x])
        /\ \A y \in Subs : y # x => stream'[y] = stream[y]
        /\ item' \in [Subs -> Items \cup {NoItem}] /\ item'[x] = NoItem
        /\ \A y \in Subs : y # x => item'[y] = item[y]
        /\ got' = got
    BY <1>1, <1>4, <2>1 DEF Forward, Types
  <2>4. Flow(x)' = Append(Flow(x), item[x])
    BY <2>2, <2>3 DEF Flow
  <2>5. \A y \in Subs : Len(stream'[y]) <= StreamCap
    <3>1. StreamCap \in Nat /\ \A y \in Subs : Len(stream[y]) <= StreamCap
      BY <1>1, TransportAssumption DEF Types
    <3>2. Len(stream'[x]) <= StreamCap
      BY <1>4, <2>1, <2>3, <3>1 DEF Forward, FitsInto
    <3> QED
      BY <2>3, <3>1, <3>2
  <2>6. Types'
    BY <1>1, <1>4, <2>3, <2>5 DEF Forward, sendVars, Types, SubPcs
  <2>7. SubInv(x)'
    BY <1>1, <1>4, <2>3 DEF Forward, Types, SubInv, Held
  <2>8. Hands(x)
    BY <1>1, <1>4, <2>3 DEF Forward, Types, Hands
  <2>9. subPc'[x] # "send" /\ (item[x].ok => Deliver(item[x].env, SubAgent[x]) \in receipts')
    BY <1>1, <1>4 DEF Forward, Types, OkInv
  <2> QED
    BY <1>3, <2>4, <2>6, <2>7, <2>8, <2>9, HandsOver
<1>5. CASE RecordDeliver(x) /\ x \in Receivers
  <2>1. /\ subPc[x] = "record" /\ stream[x] = << >>
        /\ got' = [got EXCEPT ![x] = Append(@, item[x])]
        /\ item' = [item EXCEPT ![x] = NoItem]
        /\ subPc' = [subPc EXCEPT ![x] = "done"] /\ subChan' = [subChan EXCEPT ![x] = 0]
        /\ receipts' = receipts \cup {Deliver(item[x].env, SubAgent[x])}
        /\ UNCHANGED <<mapVars, queue, seen, sendVars, notified, stream, closed, accepted, runVars>>
    BY <1>1, <1>5 DEF RecordDeliver, Deliver, Exit, SubInv
  <2>2. Append(got[x], item[x]) \in Seq(Items)
    BY <1>2, <1>3, AppendFacts
  <2>3. /\ got' \in [Subs -> Seq(Items)] /\ got'[x] = Append(got[x], item[x])
        /\ \A y \in Subs : y # x => got'[y] = got[y]
        /\ item' \in [Subs -> Items \cup {NoItem}] /\ item'[x] = NoItem
        /\ \A y \in Subs : y # x => item'[y] = item[y]
    BY <1>1, <2>1, <2>2 DEF Types
  <2>4. Flow(x)' = Append(Flow(x), item[x])
    BY <1>2, <2>1, <2>2, <2>3, ConcatEmpty DEF Flow
  <2>5. Deliver(item[x].env, SubAgent[x]) \in Receipts /\ Deliver(item[x].env, SubAgent[x]).kind # "send"
    BY <1>1, <1>3 DEF Deliver, Receipts, Items
  <2>6. Types'
    BY <1>1, <1>2, <2>1, <2>3, <2>5 DEF sendVars, Types, SubPcs
  <2>7. SubInv(x)'
    BY <1>1, <1>5, <2>1, <2>3 DEF Types, SubInv, Held
  <2>8. Hands(x)
    BY <1>1, <2>1, <2>3, <2>5 DEF Types, Hands
  <2>9. subPc'[x] # "send" /\ (item[x].ok => Deliver(item[x].env, SubAgent[x]) \in receipts')
    BY <1>1, <2>1 DEF Types
  <2> QED
    BY <1>3, <2>4, <2>6, <2>7, <2>8, <2>9, HandsOver
<1>6. CASE DeliverFails(x) /\ x \in Receivers
  <2>1. PICK error : error = [item[x] EXCEPT !.ok = FALSE]
    OBVIOUS
  <2>2. error \in Items /\ error.env = item[x].env /\ error.ok = FALSE
    BY <1>3, <2>1 DEF Items
  <2>3. /\ subPc[x] = "record" /\ stream[x] = << >>
        /\ faults < workload.maxFaults /\ faults' = faults + 1
        /\ got' = [got EXCEPT ![x] = Append(@, error)]
        /\ item' = [item EXCEPT ![x] = NoItem]
        /\ subPc' = [subPc EXCEPT ![x] = "done"] /\ subChan' = [subChan EXCEPT ![x] = 0]
        /\ UNCHANGED <<mapVars, queue, seen, sendVars, notified, stream, closed, receipts,
                       accepted, drops, workload>>
    BY <1>1, <1>6, <2>1 DEF DeliverFails, Exit, SubInv
  <2>4. Append(got[x], error) \in Seq(Items)
    BY <1>2, <2>2, AppendFacts
  <2>5. /\ got' \in [Subs -> Seq(Items)] /\ got'[x] = Append(got[x], error)
        /\ \A y \in Subs : y # x => got'[y] = got[y]
        /\ item' \in [Subs -> Items \cup {NoItem}] /\ item'[x] = NoItem
        /\ \A y \in Subs : y # x => item'[y] = item[y]
    BY <1>1, <2>3, <2>4 DEF Types
  <2>6. Flow(x)' = Append(Flow(x), error)
    BY <1>2, <2>3, <2>4, <2>5, ConcatEmpty DEF Flow
  <2>7. faults' \in 0..workload.maxFaults
    BY <1>2, <2>3
  <2>8. Types'
    BY <1>1, <1>2, <2>3, <2>5, <2>7 DEF sendVars, Types, SubPcs
  <2>9. SubInv(x)'
    BY <1>1, <1>6, <2>3, <2>5 DEF Types, SubInv, Held
  <2>10. Hands(x)
    BY <1>1, <2>3, <2>5 DEF Types, Hands
  <2>11. subPc'[x] # "send"
    BY <1>1, <2>3 DEF Types
  <2> QED
    BY <1>3, <2>2, <2>6, <2>8, <2>9, <2>10, <2>11, HandsOver
<1> QED
  BY <1>4, <1>5, <1>6

\* A forwarder takes an envelope out of the inbox.
LEMMA RecvStep ==
    ASSUME NEW own, IInv(own), NEW x \in Subs, Recv(x)
    PROVE  /\ IInv(own)'
           /\ \A d \in 1..chans, f \in Envs :
                 Queued(d, f) => Queued(d, f)' \/ (own[d] = SubAgent[x] /\ Has(x, f)')
           /\ \A y \in Subs, f \in Envs : Has(y, f) => Has(y, f)'
<1> USE DEF mapVars, runVars
<1>1. /\ Types /\ OwnInv(own) /\ Core(own) /\ \A y \in Subs : SubInv(y) /\ OkInv(y)
      /\ (\A t \in Sends : SendInv(t)) /\ SendUnique /\ ReceiptInv
  BY DEF IInv, Core
<1>2. SubInv(x) /\ OkInv(x)
  BY <1>1
<1>3. /\ Core(own)'
      /\ queue' \in Seq(Seq(Envs)) /\ Len(queue') = chans
      /\ Len(queue'[subChan[x]]) = Len(queue[subChan[x]]) - 1
      /\ \A d \in 1..chans : d # subChan[x] => queue'[d] = queue[d]
      /\ item' \in [Subs -> Items \cup {NoItem}] /\ item'[x] \in Items
      /\ \A d \in 1..chans, f \in Envs :
            Queued(d, f) => Queued(d, f)' \/ (own[d] = SubAgent[x] /\ Has(x, f)')
      /\ \A y \in Subs, f \in Envs : Has(y, f) => Has(y, f)'
  BY <1>1, <1>2, CoreTake
<1>4. subChan[x] # 0 /\ subChan[x] \in 1..chans /\ queue[subChan[x]] \in Seq(Envs)
  <2>1. subChan[x] # 0
    BY <1>2 DEF Recv, SubInv, Held
  <2> QED
    BY <1>1, <2>1, ChanFacts
<1>5. Types'
  <2>1. \A d \in 1..chans : Len(queue'[d]) <= Cap
    <3>1. Cap \in Nat /\ Len(queue[subChan[x]]) \in Nat
      BY <1>4, TransportAssumption
    <3>2. \A d \in 1..chans : Len(queue[d]) <= Cap
      BY <1>1 DEF Types
    <3>3. Len(queue'[subChan[x]]) <= Cap
      BY <1>3, <1>4, <3>1, <3>2
    <3> QED
      BY <1>3, <3>2, <3>3
  <2> QED
    BY <1>1, <1>3, <2>1 DEF Recv, sendVars, Types, SubPcs
<1>6. OwnInv(own)'
  <2>1. UNCHANGED <<chans, current, workload>> /\ subChan' = subChan /\ sendChan' = sendChan
    BY DEF Recv, sendVars
  <2> QED
    BY <1>1, <2>1, OwnFrame
<1>7. \A y \in Subs : SubInv(y)' /\ OkInv(y)'
  <2>1. /\ \A y \in Subs : y # x => /\ subPc'[y] = subPc[y] /\ subChan'[y] = subChan[y]
                                     /\ item'[y] = item[y]
                                     /\ stream'[y] = stream[y] /\ got'[y] = got[y]
        /\ current' = current /\ workload' = workload /\ receipts' = receipts
    BY <1>1 DEF Recv, Types
  <2>2. SubInv(x)'
    BY <1>1, <1>2, <1>3 DEF Recv, Types, SubInv, Held
  <2>3. OkInv(x)'
    BY <1>1, <1>2 DEF Recv, Types, OkInv, Flow
  <2> QED
    BY <1>1, <2>1, <2>2, <2>3, SubsStep
<1>8. (\A t \in Sends : SendInv(t)') /\ SendUnique' /\ ReceiptInv'
  <2>1. UNCHANGED <<sendVars, accepted, workload, seen>> /\ receipts' = receipts
    BY DEF Recv
  <2> QED
    BY <1>1, <2>1, SendsSame
<1> QED
  BY <1>3, <1>5, <1>6, <1>7, <1>8 DEF IInv, Core

\* subscribe registers a fresh inbox.
LEMMA RegisterStep ==
    ASSUME NEW own, IInv(own), NEW x \in Subs, RegisterRecipient(x)
    PROVE  \E o : IInv(o)'
<1> USE DEF runVars
<1>1. /\ Types /\ OwnInv(own) /\ Core(own) /\ \A y \in Subs : SubInv(y) /\ OkInv(y)
      /\ (\A t \in Sends : SendInv(t)) /\ SendUnique /\ ReceiptInv
  BY DEF IInv, Core
<1>2. SubInv(x) /\ OkInv(x) /\ SubAgent[x] \in Agents /\ chans \in Nat /\ Cap \in Nat
  BY <1>1, TransportAssumption DEF Types
<1>3. /\ \E o : OwnInv(o)' /\ Core(o)'
      /\ queue' \in Seq(Seq(Envs)) /\ Len(queue') = chans + 1
      /\ \A c \in 1..chans : queue'[c] = queue[c]
      /\ queue'[chans + 1] = << >>
  BY <1>1, CoreRegister
<1>4. PICK o : OwnInv(o)' /\ Core(o)'
  BY <1>3
<1>5. Types'
  <2>1. chans' = chans + 1 /\ current' \in [Agents -> 0..chans']
    BY <1>1, <1>2 DEF RegisterRecipient, Types
  <2>2. \A c \in 1..chans' : Len(queue'[c]) <= Cap
    <3>1. Len(queue'[chans + 1]) = 0
      BY <1>3
    <3>2. \A c \in 1..chans : Len(queue[c]) <= Cap
      BY <1>1 DEF Types
    <3>3. \A c \in 1..chans' : c \in 1..chans \/ c = chans + 1
      BY <1>2, <2>1
    <3> QED
      <4>1. \A c \in 1..chans : Len(queue'[c]) <= Cap
        BY <1>3, <3>2
      <4>2. Len(queue'[chans + 1]) <= Cap
        BY <1>2, <3>1
      <4> QED
        BY <3>3, <4>1, <4>2
  <2>3. subChan' \in [Subs -> 0..chans'] /\ sendChan' \in [Sends -> 0..chans']
    BY <1>1, <1>2, <2>1 DEF RegisterRecipient, sendVars, Types
  <2>4. chans' \in Nat /\ Len(queue') = chans'
    BY <1>2, <1>3, <2>1
  <2> QED
    BY <1>1, <1>3, <2>1, <2>2, <2>3, <2>4 DEF RegisterRecipient, sendVars, Types, SubPcs
<1>6. \A y \in Subs : SubInv(y)' /\ OkInv(y)'
  <2>1. /\ \A y \in Subs : y # x => /\ subPc'[y] = subPc[y] /\ subChan'[y] = subChan[y]
                                     /\ item'[y] = item[y]
                                     /\ stream'[y] = stream[y] /\ got'[y] = got[y]
        /\ workload' = workload /\ receipts' = receipts
    BY <1>1 DEF RegisterRecipient, Types
  <2>2. \A y \in Subs : current[SubAgent[y]] # 0 => current'[SubAgent[y]] # 0
    BY <1>1, <1>2, TransportAssumption DEF RegisterRecipient, Types
  <2>3. SubInv(x)'
    BY <1>1, <1>2 DEF RegisterRecipient, Types, SubInv, Held
  <2>4. OkInv(x)'
    BY <1>1, <1>2 DEF RegisterRecipient, Types, OkInv, Flow
  <2> QED
    BY <1>1, <2>1, <2>2, <2>3, <2>4, SubsStep
<1>7. (\A t \in Sends : SendInv(t)') /\ SendUnique' /\ ReceiptInv'
  <2>1. UNCHANGED <<sendVars, accepted, workload, seen>> /\ receipts' = receipts
    BY DEF RegisterRecipient
  <2> QED
    BY <1>1, <2>1, SendsSame
<1>8. IInv(o)'
  BY <1>4, <1>5, <1>6, <1>7 DEF IInv, Core
<1> QED
  BY <1>8
-----------------------------------------------------------------------------
(* Induction. *)

\* Administration, and a step of something else.
LEMMA AsideStep ==
    ASSUME NEW own, IInv(own), Administration \/ UNCHANGED vars
    PROVE  /\ IInv(own)'
           /\ UNCHANGED <<current, chans, fresh, queue, accepted, sendVars, subVars, workload>>
<1>1. /\ Types /\ OwnInv(own) /\ Core(own) /\ \A y \in Subs : SubInv(y) /\ OkInv(y)
      /\ (\A t \in Sends : SendInv(t)) /\ SendUnique /\ ReceiptInv
  BY DEF IInv, Core
<1> DEFINE Aside == /\ UNCHANGED <<current, chans, fresh, queue, seen, sendVars, subVars, receipts,
                                    accepted, faults, drops, workload>>
                    /\ roles' \subseteq Agents /\ tags' \in [Agents -> SUBSET Tags]
<1>2. Aside
  <2>1. ASSUME NEW a \in Agents, RegisterRoleMember(a) PROVE Aside
    BY <1>1, <2>1 DEF RegisterRoleMember, runVars, Types
  <2>2. ASSUME NEW a \in Agents, NEW T \in SUBSET Tags, SetAgentTags(a, T) PROVE Aside
    BY <1>1, <2>2 DEF SetAgentTags, runVars, Types
  <2>3. CASE UNCHANGED vars
    BY <1>1, <2>3 DEF vars, mapVars, runVars, Types
  <2> QED
    BY <2>1, <2>2, <2>3 DEF Administration
<1>3. UNCHANGED <<subPc, subChan, item, notified, stream, closed, got>>
      /\ UNCHANGED <<sendPc, sendChan, targets, delivered>>
  BY <1>2 DEF subVars, sendVars
<1>4. Types'
  BY <1>1, <1>2, <1>3 DEF Types
<1>5. OwnInv(own)'
  BY <1>1, <1>2, <1>3, OwnFrame
<1>6. Core(own)'
  <2>1. \A y \in Subs : Flow(y)' = Flow(y)
    BY <1>3 DEF Flow
  <2> QED
    BY <1>1, <1>2, <1>3, <2>1, CoreSame
<1>7. \A y \in Subs : SubInv(y)' /\ OkInv(y)'
  BY <1>1, <1>2, <1>3 DEF SubInv, OkInv, Flow
<1>8. (\A t \in Sends : SendInv(t)') /\ SendUnique' /\ ReceiptInv'
  <2>1. UNCHANGED <<sendVars, accepted, workload, seen>> /\ receipts' = receipts
    BY <1>2
  <2> QED
    BY <1>1, <2>1, SendsSame
<1> QED
  BY <1>2, <1>4, <1>5, <1>6, <1>7, <1>8 DEF IInv, Core

\* The inductive invariant holds at the start.
LEMMA InitInv == Init => \E own : IInv(own)
<1> SUFFICES ASSUME Init PROVE \E own : IInv(own)
  OBVIOUS
<1> USE DEF Init
<1>1. IsWorkload(workload)
  BY TransportAssumption
<1>2. chans \in Nat
  BY <1>1, FS_CardinalityType DEF IsWorkload
<1>3. PICK f \in [workload.registered -> 1..chans] :
         /\ \A a, b \in workload.registered : f[a] = f[b] => a = b
         /\ current = [a \in Agents |-> IF a \in workload.registered THEN f[a] ELSE 0]
  OBVIOUS
<1>4. PICK own : own = [c \in 1..chans |->
                          IF \E a \in workload.registered : f[a] = c
                          THEN CHOOSE a \in workload.registered : f[a] = c
                          ELSE CHOOSE a \in workload.registered : TRUE]
  OBVIOUS
<1>5. own \in [1..chans -> Agents]
  <2> SUFFICES ASSUME NEW c \in 1..chans PROVE own[c] \in Agents
    BY <1>4
  <2>1. workload.registered # {} /\ workload.registered \subseteq Agents
    BY <1>1, <1>2, FS_EmptySet DEF IsWorkload
  <2> QED
    BY <1>4, <2>1
<1>6. ASSUME NEW a \in Agents, current[a] # 0 PROVE own[current[a]] = a
  <2>1. a \in workload.registered /\ current[a] = f[a] /\ f[a] \in 1..chans
    BY <1>3, <1>6
  <2>2. own[f[a]] = CHOOSE b \in workload.registered : f[b] = f[a]
    BY <1>4, <2>1
  <2>3. f[CHOOSE b \in workload.registered : f[b] = f[a]] = f[a]
        /\ (CHOOSE b \in workload.registered : f[b] = f[a]) \in workload.registered
    BY <2>1
  <2> QED
    BY <1>3, <2>1, <2>2, <2>3
<1>7. OwnInv(own)
  BY <1>5, <1>6 DEF OwnInv
<1>8. queue \in Seq(Seq(Envs)) /\ Len(queue) = chans /\ \A c \in 1..chans : queue[c] = << >>
  <2>1. queue \in [1..chans -> Seq(Envs)]
    OBVIOUS
  <2>2. \A n \in Nat : \A q \in [1..n -> Seq(Envs)] : q \in Seq(Seq(Envs)) /\ Len(q) = n
    BY FunctionIsSeq
  <2>3. queue \in Seq(Seq(Envs)) /\ Len(queue) = chans
    <3> HIDE DEF Init
    <3> QED
      BY <1>2, <2>1, <2>2
  <2> QED
    BY <2>3
<1>9. Types
  <2>1. Cap \in Nat /\ StreamCap \in Nat /\ 0 \in 0..chans
    BY <1>2, TransportAssumption
  <2>2. current \in [Agents -> 0..chans]
    BY <1>2, <1>3
  <2>3. 0 \in 0..workload.maxFaults /\ 0 \in 0..workload.maxDrops
    BY <1>1 DEF IsWorkload
  <2>4. \A c \in 1..chans : Len(queue[c]) <= Cap
    BY <1>8, <2>1
  <2>5. /\ stream \in [Subs -> Seq(Items)] /\ got \in [Subs -> Seq(Items)]
        /\ accepted \in [Agents -> Seq(Envs)] /\ \A x \in Subs : Len(stream[x]) <= StreamCap
    BY <2>1
  <2>6. /\ sendPc \in [Sends -> SendPcs] /\ subPc \in [Subs -> SubPcs]
        /\ sendChan \in [Sends -> 0..chans] /\ subChan \in [Subs -> 0..chans]
        /\ delivered \in [Sends -> Nat] /\ targets \in [Sends -> SUBSET Agents]
        /\ item \in [Subs -> Items \cup {NoItem}]
        /\ notified \in [Subs -> BOOLEAN] /\ closed \in [Subs -> BOOLEAN]
        /\ tags \in [Agents -> SUBSET Tags]
    BY <2>1 DEF SendPcs, SubPcs
  <2> QED
    BY <1>2, <1>8, <2>2, <2>3, <2>4, <2>5, <2>6 DEF Types
<1>10. \A a \in Agents : accepted[a] = << >> /\ Accepted(a) = {}
  BY DEF Accepted
<1>11. ASSUME NEW x \in Subs PROVE Flow(x) = << >> /\ item[x] = NoItem /\ \A e \in Envs : ~Has(x, e)
  <2>1. got[x] = << >> /\ stream[x] = << >> /\ item[x] = NoItem
    OBVIOUS
  <2> QED
    BY <2>1, HasNothing DEF Flow
<1>12. AcceptInv
  BY <1>10 DEF AcceptInv
<1>13. QueueInv(own)
  BY <1>8 DEF QueueInv, Queued
<1>14. HasInv(own)
  BY <1>11 DEF HasInv
<1>15. ASSUME NEW x \in Subs PROVE FlowInv(x) /\ SubInv(x) /\ OkInv(x)
  <2>1. FlowInv(x) /\ OkInv(x)
    BY <1>11 DEF FlowInv, OkInv
  <2>2. SubInv(x)
    BY DEF SubInv, Held
  <2> QED
    BY <2>1, <2>2
<1>16. (\A s \in Sends : SendInv(s)) /\ SendUnique /\ ReceiptInv
  BY DEF SendInv, SendUnique, ReceiptInv, Active
<1> QED
  BY <1>7, <1>9, <1>12, <1>13, <1>14, <1>15, <1>16 DEF IInv

\* Every step of a subscription.
LEMMA SubStep ==
    ASSUME NEW own, IInv(own), NEW x \in Subs,
           \/ Subscribing(x) \/ Forwarding(x) \/ ReceiveCall(x)
           \/ DeliverFails(x) \/ ReadStream(x) \/ DropStream(x)
    PROVE  \E o : IInv(o)'
<1>1. CASE Quiet(x) /\ Types' /\ SubInv(x)' /\ OkInv(x)'
  BY <1>1, QuietStep
<1>2. CASE \/ CheckRegistered(x) \/ GetInbox(x) \/ Supersede(x) \/ ReceiveCall(x)
           \/ LockInbox(x) \/ ExitParked(x) \/ ForwardFails(x)
  BY <1>1, <1>2, QuietMoves
<1>3. CASE \/ ReadStream(x) \/ DropStream(x)
           \/ (RecordDeliver(x) \/ DeliverFails(x)) /\ x \notin Receivers
  BY <1>1, <1>3, QuietStreams
<1>4. CASE Forward(x) \/ ((RecordDeliver(x) \/ DeliverFails(x)) /\ x \in Receivers)
  BY <1>4, HandingSteps
<1>5. CASE Recv(x)
  BY <1>5, RecvStep
<1>6. CASE RegisterRecipient(x)
  BY <1>6, RegisterStep
<1> QED
  BY <1>2, <1>3, <1>4, <1>5, <1>6 DEF Subscribing, Forwarding

\* Every step keeps the inductive invariant.
LEMMA NextInv == (\E own : IInv(own)) /\ [Next]_vars => (\E own : IInv(own))'
<1> SUFFICES ASSUME NEW own, IInv(own), [Next]_vars PROVE \E o : IInv(o)'
  OBVIOUS
<1>1. CASE Administration \/ UNCHANGED vars
  BY <1>1, AsideStep
<1>2. ASSUME NEW s \in Sends, Sending(s) \/ SendFails(s) PROVE \E o : IInv(o)'
  BY <1>2, SendStep
<1>3. ASSUME NEW x \in Subs,
             \/ Subscribing(x) \/ Forwarding(x) \/ ReceiveCall(x)
             \/ DeliverFails(x) \/ ReadStream(x) \/ DropStream(x)
      PROVE  \E o : IInv(o)'
  BY <1>3, SubStep
<1> QED
  BY <1>1, <1>2, <1>3 DEF Next

\* The inductive invariant holds in every reachable state.
LEMMA Invariance == Spec => [](\E own : IInv(own))
  BY InitInv, NextInv, PTL DEF Spec
-----------------------------------------------------------------------------
(* What the invariant says. *)

\* TransportTypeCorrect: every variable of the transport keeps its type; in particular no
\* inbox and no stream ever holds more than its capacity (memory.rs INBOX_CAPACITY,
\* subscribe's channel).
THEOREM TransportTypeCorrect == Spec => []TypeOK
<1>1. ASSUME NEW own, IInv(own) PROVE TypeOK
  <2>1. Types
    BY <1>1 DEF IInv
  <2>2. DOMAIN queue = 1..chans /\ \A c \in 1..chans : queue[c] \in Seq(Envs)
    BY <2>1 DEF Types
  <2> QED
    BY <2>1, <2>2 DEF Types, TypeOK, SendPcs, SubPcs
<1>2. (\E own : IInv(own)) => TypeOK
  BY <1>1
<1> QED
  BY <1>2, Invariance, PTL

\* Where an envelope of agent a can be.
InQueue(own, a, e, p) ==
    \E c \in 1..chans : \E i \in DOMAIN queue[c] :
        own[c] = a /\ queue[c][i] = e /\ p = <<"queue", c, i>>
InTask(a, e, p) == \E x \in Subs : SubAgent[x] = a /\ item[x].env = e /\ p = <<"task", x, 0>>
InStream(a, e, p) ==
    \E x \in Subs : \E i \in DOMAIN stream[x] :
        SubAgent[x] = a /\ stream[x][i].env = e /\ p = <<"stream", x, i>>
InGot(a, e, p) ==
    \E x \in Subs : \E i \in DOMAIN got[x] :
        SubAgent[x] = a /\ got[x][i].env = e /\ p = <<"got", x, i>>

\* Places lists these places.
LEMMA PlaceCases ==
    ASSUME NEW own, Types, OwnInv(own), NEW a \in Agents, NEW e \in Envs, NEW p \in Places(a, e)
    PROVE  InQueue(own, a, e, p) \/ InTask(a, e, p) \/ InStream(a, e, p) \/ InGot(a, e, p)
<1>1. ASSUME NEW c \in ChannelsOf(a) PROVE c \in 1..chans /\ own[c] = a
  <2>1. /\ c \in 1..chans
        /\ current[a] = c \/ \E x \in Subs : SubAgent[x] = a /\ subChan[x] = c
    BY DEF ChannelsOf
  <2>2. c # 0 /\ chans \in Nat
    BY <2>1 DEF Types
  <2>3. CASE current[a] = c
    BY <2>1, <2>2, <2>3 DEF OwnInv
  <2>4. ASSUME NEW x \in Subs, SubAgent[x] = a, subChan[x] = c PROVE own[c] = a
    BY <2>2, <2>4 DEF OwnInv
  <2> QED
    BY <2>1, <2>3, <2>4
<1>2. p \in InboxPlaces(a, e) => InQueue(own, a, e, p)
  BY <1>1 DEF InboxPlaces, InQueue
<1>3. p \in TaskPlaces(a, e) => InTask(a, e, p)
  BY DEF TaskPlaces, SubsOf, InTask
<1>4. p \in StreamPlaces(a, e) => InStream(a, e, p)
  BY DEF StreamPlaces, SubsOf, InStream
<1>5. p \in GotPlaces(a, e) => InGot(a, e, p)
  BY DEF GotPlaces, SubsOf, InGot
<1> QED
  BY <1>2, <1>3, <1>4, <1>5 DEF Places

\* An envelope is in a flow once, and not there while the task holds it.
LEMMA FlowOnce ==
    ASSUME Types, AcceptInv, NEW x \in Subs, FlowInv(x), NEW e \in Envs
    PROVE  /\ \A i, j \in DOMAIN Flow(x) : Flow(x)[i].env = e /\ Flow(x)[j].env = e => i = j
           /\ \A i \in DOMAIN Flow(x) : Flow(x)[i].env = e => item[x].env # e
<1>1. /\ DOMAIN Flow(x) = 1..Len(Flow(x)) /\ Len(Flow(x)) \in Nat
      /\ item[x] = NoItem => item[x].env \notin Envs
  BY FlowFacts
<1>2. SubAgent[x] \in Agents
  BY TransportAssumption
<1>3. ~Before(SubAgent[x], e, e)
  BY <1>2, BeforeStrict
<1>4. ASSUME NEW i \in DOMAIN Flow(x), NEW j \in DOMAIN Flow(x), Flow(x)[i].env = e,
             Flow(x)[j].env = e
      PROVE  i = j
  <2>1. ~(i < j) /\ ~(j < i)
    BY <1>3, <1>4 DEF FlowInv
  <2> QED
    BY <1>1, <2>1
<1>5. ASSUME NEW i \in DOMAIN Flow(x), Flow(x)[i].env = e PROVE item[x].env # e
  BY <1>1, <1>3, <1>5 DEF FlowInv
<1> QED
  BY <1>4, <1>5

\* Where the elements of got and stream are in the flow.
LEMMA FlowParts ==
    ASSUME Types, NEW x \in Subs, NEW e
    PROVE  /\ Len(got[x]) \in Nat
           /\ DOMAIN got[x] = 1..Len(got[x]) /\ DOMAIN stream[x] = 1..Len(stream[x])
           /\ \A i \in DOMAIN got[x] : i \in DOMAIN Flow(x) /\ Flow(x)[i] = got[x][i]
           /\ \A i \in DOMAIN stream[x] : /\ Len(got[x]) + i \in DOMAIN Flow(x)
                                           /\ Flow(x)[Len(got[x]) + i] = stream[x][i]
           /\ \A i \in DOMAIN got[x] : got[x][i].env = e => Has(x, e)
           /\ \A i \in DOMAIN stream[x] : stream[x][i].env = e => Has(x, e)
           /\ Has(x, e) => \/ item[x].env = e
                           \/ \E i \in DOMAIN got[x] : got[x][i].env = e
                           \/ \E i \in DOMAIN stream[x] : stream[x][i].env = e
<1>1. got[x] \in Seq(Items) /\ stream[x] \in Seq(Items)
  BY DEF Types
<1>2. /\ Len(got[x]) \in Nat /\ Len(stream[x]) \in Nat
      /\ DOMAIN Flow(x) = 1..(Len(got[x]) + Len(stream[x]))
      /\ DOMAIN got[x] = 1..Len(got[x]) /\ DOMAIN stream[x] = 1..Len(stream[x])
      /\ \A i \in 1..Len(got[x]) : Flow(x)[i] = got[x][i]
      /\ \A i \in 1..Len(stream[x]) : Flow(x)[Len(got[x]) + i] = stream[x][i]
      /\ \A i \in DOMAIN Flow(x) : \/ i <= Len(got[x])
                                   \/ /\ i - Len(got[x]) \in 1..Len(stream[x])
                                      /\ Flow(x)[i] = stream[x][i - Len(got[x])]
  <2>1. PICK u \in Seq(Items), v \in Seq(Items) : u = got[x] /\ v = stream[x]
    BY <1>1
  <2>2. /\ Len(u) \in Nat /\ Len(v) \in Nat
        /\ DOMAIN (u \o v) = 1..(Len(u) + Len(v))
        /\ DOMAIN u = 1..Len(u) /\ DOMAIN v = 1..Len(v)
        /\ \A i \in 1..Len(u) : (u \o v)[i] = u[i]
        /\ \A i \in 1..Len(v) : (u \o v)[Len(u) + i] = v[i]
        /\ \A i \in DOMAIN (u \o v) : \/ i <= Len(u)
                                      \/ i - Len(u) \in 1..Len(v) /\ (u \o v)[i] = v[i - Len(u)]
    BY ConcatFacts
  <2> QED
    BY <2>1, <2>2, Zenon DEF Flow
<1>3. ASSUME NEW i \in DOMAIN got[x] PROVE i \in DOMAIN Flow(x) /\ Flow(x)[i] = got[x][i]
  <2>1. i \in 1..Len(got[x]) /\ Len(got[x]) \in Nat /\ Len(stream[x]) \in Nat
    BY <1>2, Zenon
  <2>2. i \in 1..(Len(got[x]) + Len(stream[x]))
    BY <2>1, IntervalParts, Zenon
  <2> QED
    BY <1>2, <2>1, <2>2, Zenon
<1>4. ASSUME NEW i \in DOMAIN stream[x]
      PROVE  Len(got[x]) + i \in DOMAIN Flow(x) /\ Flow(x)[Len(got[x]) + i] = stream[x][i]
  <2>1. i \in 1..Len(stream[x]) /\ Len(got[x]) \in Nat /\ Len(stream[x]) \in Nat
    BY <1>2, Zenon
  <2>2. Len(got[x]) + i \in 1..(Len(got[x]) + Len(stream[x]))
    BY <2>1, IntervalParts, Zenon
  <2> QED
    BY <1>2, <2>1, <2>2, Zenon
<1>5. /\ \A i \in DOMAIN got[x] : got[x][i].env = e => Has(x, e)
      /\ \A i \in DOMAIN stream[x] : stream[x][i].env = e => Has(x, e)
  BY <1>3, <1>4 DEF Has, Flowed
<1>6. ASSUME Has(x, e), item[x].env # e
      PROVE  \/ \E i \in DOMAIN got[x] : got[x][i].env = e
             \/ \E i \in DOMAIN stream[x] : stream[x][i].env = e
  <2>1. PICK i \in DOMAIN Flow(x) : Flow(x)[i].env = e
    BY <1>6 DEF Has, Flowed
  <2>2. CASE i <= Len(got[x])
    <3>1. i \in DOMAIN got[x] /\ got[x][i].env = e
      <4>1. i \in 1..Len(got[x])
        BY <1>2, <2>1, <2>2
      <4> QED
        BY <1>2, <2>1, <4>1
    <3> QED
      BY <3>1
  <2>3. CASE i - Len(got[x]) \in 1..Len(stream[x]) /\ Flow(x)[i] = stream[x][i - Len(got[x])]
    <3>1. i - Len(got[x]) \in DOMAIN stream[x] /\ stream[x][i - Len(got[x])].env = e
      BY <1>2, <2>1, <2>3
    <3> QED
      BY <3>1
  <2> QED
    BY <1>2, <2>2, <2>3
<1> QED
  BY <1>2, <1>3, <1>4, <1>5, <1>6

\* An envelope is in one queue position at most.
LEMMA OneQueue ==
    ASSUME NEW own, IInv(own), NEW a \in Agents, NEW e \in Envs, NEW p, NEW q,
           InQueue(own, a, e, p), InQueue(own, a, e, q)
    PROVE  p = q
<1>1. Types /\ AcceptInv /\ QueueInv(own)
  BY DEF IInv
<1>2. PICK c, i :
        /\ c \in 1..chans /\ i \in DOMAIN queue[c]
        /\ own[c] = a /\ queue[c][i] = e /\ p = <<"queue", c, i>>
  BY DEF InQueue
<1>3. PICK d, j :
        /\ d \in 1..chans /\ j \in DOMAIN queue[d]
        /\ own[d] = a /\ queue[d][j] = e /\ q = <<"queue", d, j>>
  BY DEF InQueue
<1>4. c = d
  BY <1>1, <1>2, <1>3 DEF QueueInv, Queued
<1>5. ~Before(a, e, e)
  BY <1>1, BeforeStrict
<1>6. ~(i < j) /\ ~(j < i)
  BY <1>1, <1>2, <1>3, <1>4, <1>5 DEF QueueInv
<1>7. DOMAIN queue[c] = 1..Len(queue[c]) /\ Len(queue[c]) \in Nat
  BY <1>1 DEF Types
<1>8. i = j
  BY <1>2, <1>3, <1>4, <1>6, <1>7
<1> QED
  BY <1>2, <1>3, <1>4, <1>8

\* A subscriber's place: with its task, in its stream or read.
InSub(a, e, p) == InTask(a, e, p) \/ InStream(a, e, p) \/ InGot(a, e, p)

\* The place a subscriber x has an envelope in, counted along its flow.
At(x, e, p) ==
    \/ item[x].env = e /\ p = <<"task", x, 0>>
    \/ \E i \in DOMAIN stream[x] : /\ p = <<"stream", x, i>>
                                    /\ Len(got[x]) + i \in DOMAIN Flow(x)
                                    /\ Flow(x)[Len(got[x]) + i].env = e
    \/ \E i \in DOMAIN got[x] : /\ p = <<"got", x, i>>
                                 /\ i \in DOMAIN Flow(x) /\ Flow(x)[i].env = e

\* Whoever has an envelope in some place has it.
LEMMA SubPlace ==
    ASSUME Types, NEW a, NEW e, NEW p, InSub(a, e, p)
    PROVE  \E x \in Subs : SubAgent[x] = a /\ Has(x, e) /\ At(x, e, p)
<1>1. CASE InTask(a, e, p)
  BY <1>1 DEF InTask, Has, At
<1>2. CASE InStream(a, e, p)
  <2>1. PICK x, i :
          /\ x \in Subs /\ i \in DOMAIN stream[x]
          /\ SubAgent[x] = a /\ stream[x][i].env = e /\ p = <<"stream", x, i>>
    BY <1>2 DEF InStream
  <2>2. Has(x, e) /\ Len(got[x]) + i \in DOMAIN Flow(x) /\ Flow(x)[Len(got[x]) + i].env = e
    BY <2>1, FlowParts
  <2> QED
    BY <2>1, <2>2 DEF At
<1>3. CASE InGot(a, e, p)
  <2>1. PICK x, i :
          /\ x \in Subs /\ i \in DOMAIN got[x]
          /\ SubAgent[x] = a /\ got[x][i].env = e /\ p = <<"got", x, i>>
    BY <1>3 DEF InGot
  <2>2. Has(x, e) /\ i \in DOMAIN Flow(x) /\ Flow(x)[i].env = e
    BY <2>1, FlowParts
  <2> QED
    BY <2>1, <2>2 DEF At
<1> QED
  BY <1>1, <1>2, <1>3 DEF InSub

\* An envelope is with one subscriber, in one place.
LEMMA OneSub ==
    ASSUME NEW own, IInv(own), NEW a \in Agents, NEW e \in Envs, NEW p, NEW q,
           InSub(a, e, p), InSub(a, e, q)
    PROVE  p = q
<1>1. Types /\ AcceptInv /\ HasInv(own) /\ \A x \in Subs : FlowInv(x)
  BY DEF IInv
<1>2. PICK x \in Subs : SubAgent[x] = a /\ Has(x, e) /\ At(x, e, p)
  BY <1>1, SubPlace
<1>3. PICK y \in Subs : SubAgent[y] = a /\ Has(y, e) /\ At(y, e, q)
  BY <1>1, SubPlace
<1>4. x = y
  BY <1>1, <1>2, <1>3 DEF HasInv
<1>5. At(x, e, p) /\ At(x, e, q)
  BY <1>2, <1>3, <1>4
<1>6. /\ \A i, j \in DOMAIN Flow(x) : Flow(x)[i].env = e /\ Flow(x)[j].env = e => i = j
      /\ \A i \in DOMAIN Flow(x) : Flow(x)[i].env = e => item[x].env # e
  BY <1>1, FlowOnce
<1>7. /\ Len(got[x]) \in Nat /\ DOMAIN got[x] = 1..Len(got[x])
      /\ DOMAIN stream[x] = 1..Len(stream[x]) /\ Len(stream[x]) \in Nat
  BY <1>1, FlowParts DEF Types
<1>8. CASE item[x].env = e
  BY <1>5, <1>6, <1>8 DEF At
<1>9. CASE item[x].env # e
  <2>1. ASSUME NEW i \in DOMAIN stream[x], NEW j \in DOMAIN stream[x],
               Len(got[x]) + i = Len(got[x]) + j
        PROVE  i = j
    BY <1>7, <2>1
  <2>2. ASSUME NEW i \in DOMAIN stream[x], NEW j \in DOMAIN got[x] PROVE Len(got[x]) + i # j
    BY <1>7
  <2> QED
    BY <1>5, <1>6, <1>9, <2>1, <2>2 DEF At
<1> QED
  BY <1>8, <1>9

\* An envelope in a queue is with no subscriber.
LEMMA QueueOrSub ==
    ASSUME NEW own, IInv(own), NEW a \in Agents, NEW e \in Envs, NEW p, NEW q,
           InQueue(own, a, e, p), InSub(a, e, q)
    PROVE  FALSE
<1>1. Types /\ HasInv(own)
  BY DEF IInv
<1>2. PICK c \in 1..chans : own[c] = a /\ Queued(c, e)
  BY DEF InQueue, Queued
<1>3. PICK x \in Subs : SubAgent[x] = a /\ Has(x, e)
  BY <1>1, SubPlace
<1> QED
  BY <1>1, <1>2, <1>3 DEF HasInv

\* The order clause of OnceAndInOrder: accepted gives an envelope one position.
LEMMA InOrder ==
    ASSUME NEW own, IInv(own), NEW x \in Subs,
           NEW i \in DOMAIN Flow(x), NEW j \in DOMAIN Flow(x), i < j
    PROVE  (CHOOSE k \in DOMAIN accepted[SubAgent[x]] : accepted[SubAgent[x]][k] = Flow(x)[i].env)
             < (CHOOSE k \in DOMAIN accepted[SubAgent[x]] : accepted[SubAgent[x]][k] = Flow(x)[j].env)
<1> DEFINE order == accepted[SubAgent[x]]
<1>1. SubAgent[x] \in Agents /\ FlowInv(x) /\ AcceptInv
  BY TransportAssumption DEF IInv
<1>2. \A k, l \in DOMAIN order : order[k] = order[l] => k = l
  BY <1>1 DEF AcceptInv
<1>3. PICK k \in DOMAIN order, l \in DOMAIN order :
        k < l /\ order[k] = Flow(x)[i].env /\ order[l] = Flow(x)[j].env
  BY <1>1 DEF FlowInv, Before
<1>4. (CHOOSE m \in DOMAIN order : order[m] = Flow(x)[i].env) = k
  BY <1>2, <1>3
<1>5. (CHOOSE m \in DOMAIN order : order[m] = Flow(x)[j].env) = l
  BY <1>2, <1>3
<1> QED
  BY <1>3, <1>4, <1>5

\* DeliveredOnceInOrder: for any agents, subscriptions and sends, with any capacities and
\* faults, an agent has one copy of an envelope and each subscriber gets envelopes in the
\* order the inbox took them (memory.rs send and the forwarder loop).
THEOREM DeliveredOnceInOrder == Spec => []OnceAndInOrder
<1>1. ASSUME NEW own, IInv(own) PROVE OnceAndInOrder
  <2>1. Types /\ OwnInv(own) /\ AcceptInv
    BY <1>1 DEF IInv
  <2>2. ASSUME NEW a \in Agents, NEW e \in Envs PROVE Cardinality(Places(a, e)) <= 1
    <3>1. ASSUME NEW p \in Places(a, e), NEW q \in Places(a, e) PROVE p = q
      <4>1. InQueue(own, a, e, p) \/ InSub(a, e, p)
        BY <2>1, PlaceCases DEF InSub
      <4>2. InQueue(own, a, e, q) \/ InSub(a, e, q)
        BY <2>1, PlaceCases DEF InSub
      <4> QED
        BY <1>1, <4>1, <4>2, OneQueue, OneSub, QueueOrSub
    <3>2. CASE Places(a, e) = {}
      BY <3>2, FS_EmptySet
    <3>3. CASE Places(a, e) # {}
      <4>1. PICK p : Places(a, e) = {p}
        BY <3>1, <3>3
      <4>2. Cardinality({p}) = 1
        BY FS_Singleton
      <4> QED
        BY <4>1, <4>2
    <3> QED
      BY <3>2, <3>3
  <2>3. ASSUME NEW x \in Subs,
               NEW i \in DOMAIN (got[x] \o stream[x]), NEW j \in DOMAIN (got[x] \o stream[x]), i < j
        PROVE  (CHOOSE k \in DOMAIN accepted[SubAgent[x]] :
                    accepted[SubAgent[x]][k] = (got[x] \o stream[x])[i].env)
                 < (CHOOSE k \in DOMAIN accepted[SubAgent[x]] :
                      accepted[SubAgent[x]][k] = (got[x] \o stream[x])[j].env)
    BY <1>1, <2>3, InOrder, Zenon DEF Flow
  <2> QED
    BY <2>1, <2>2, <2>3 DEF OnceAndInOrder, AcceptInv
<1>2. (\E own : IInv(own)) => OnceAndInOrder
  BY <1>1
<1> QED
  BY <1>2, Invariance, PTL

\* ReceiptsTellTheTruth: what is delivered as an envelope has its envelope.deliver receipt,
\* and an envelope.send receipt counts the inboxes the envelope went into, however sends,
\* registrations and failures interleave (memory.rs fanout_to and record).
THEOREM ReceiptsTellTheTruth == Spec => []ReceiptsMatch
<1>1. ASSUME NEW own, IInv(own) PROVE ReceiptsMatch
  <2>1. ASSUME NEW x \in Subs, NEW i \in DOMAIN (got[x] \o stream[x]), (got[x] \o stream[x])[i].ok
        PROVE  [kind |-> "deliver", env |-> (got[x] \o stream[x])[i].env, to |-> SubAgent[x]] \in receipts
    <3>1. OkInv(x)
      BY <1>1 DEF IInv
    <3> QED
      BY <2>1, <3>1 DEF OkInv, Flow, Deliver
  <2>2. ASSUME NEW r \in receipts, r.kind = "send"
        PROVE  r.count = Cardinality({a \in Agents : r.env \in Accepted(a)})
    <3>1. PICK s \in Sends : sendPc[s] = "ok" /\ SendEnv[s] = r.env /\ r.count = delivered[s]
      BY <1>1, <2>2 DEF IInv, ReceiptInv
    <3>2. SendInv(s)
      BY <1>1 DEF IInv
    <3>3. delivered[s] = Cardinality(AcceptedBy(SendEnv[s]))
      BY <3>1, <3>2 DEF SendInv, Active
    <3> QED
      BY <3>1, <3>3 DEF AcceptedBy
  <2> QED
    BY <2>1, <2>2 DEF ReceiptsMatch
<1>2. (\E own : IInv(own)) => ReceiptsMatch
  BY <1>1
<1> QED
  BY <1>2, Invariance, PTL
-----------------------------------------------------------------------------
(* What is lost, and when. *)

\* Accepted envelopes are envelopes, and a registered channel exists.
LEMMA KeptTypes ==
    ASSUME Types, NEW a \in Agents
    PROVE  /\ Accepted(a) \subseteq Envs
           /\ current[a] # 0 => current[a] \in 1..chans
<1>1. accepted[a] \in Seq(Envs) /\ chans \in Nat /\ current[a] \in 0..chans
  BY DEF Types
<1> QED
  BY <1>1 DEF Accepted

\* A race is not forgotten.
LEMMA RaceStays ==
    ASSUME fresh \subseteq fresh', NEW a, Raced(a)
    PROVE  Raced(a)'
  BY DEF Raced, SubsOf

\* Subscriptions that found no inbox, while nothing is registered.
Found(x) == x \in fresh' => x \in fresh \/ current[SubAgent[x]] = 0

\* While nothing is registered, calls use the registered channels.
LEMMA KeptFrame ==
    ASSUME Types, KeptChans, UNCHANGED <<current, workload>>, fresh \subseteq fresh', fresh' \subseteq Subs,
           \A x \in Subs : subChan'[x] \in {subChan[x], 0, current[SubAgent[x]]},
           \A s \in Sends : sendChan'[s] \in {sendChan[s], 0, current[workload.sendTo[s].agent]},
           \A x \in Subs : Found(x),
           \A x \in Subs : subPc'[x] = "register" =>
               \/ subPc[x] = "register"
               \/ current[SubAgent[x]] = 0 /\ x \in fresh'
    PROVE  KeptChans'
<1>1. \A a \in workload.registered : current'[a] # 0
  BY DEF KeptChans
<1>2. ASSUME NEW x \in fresh' PROVE SubAgent[x] \notin workload'.registered
  BY <1>2 DEF KeptChans, Found
<1>3. ASSUME NEW x \in Subs, subPc'[x] = "register" PROVE x \in fresh'
  BY <1>3 DEF KeptChans
<1>4. ASSUME NEW a \in Agents, current'[a] # 0, a \notin workload'.registered
      PROVE  \E y \in SubsOf(a) \cap fresh' : subPc'[y] # "register"
  <2>1. PICK y \in SubsOf(a) \cap fresh : subPc[y] # "register"
    BY <1>4 DEF KeptChans
  <2>2. y \in Subs /\ SubAgent[y] = a /\ y \in fresh'
    BY <2>1 DEF SubsOf
  <2> QED
    BY <1>4, <2>1, <2>2
<1>5. ASSUME NEW x \in Subs, subChan'[x] # 0
      PROVE  subChan'[x] = current'[SubAgent[x]] \/ Raced(SubAgent[x])'
  BY <1>5, RaceStays DEF KeptChans
<1>6. ASSUME NEW s \in Sends, sendChan'[s] # 0
      PROVE  \/ sendChan'[s] = current'[workload'.sendTo[s].agent]
             \/ Raced(workload.sendTo[s].agent)'
  BY <1>6, RaceStays DEF KeptChans
<1>7. \A a : SubsOf(a)' = SubsOf(a)
  BY DEF SubsOf
<1> QED
  BY <1>1, <1>2, <1>3, <1>4, <1>5, <1>6, <1>7 DEF KeptChans

\* While nothing is registered, a channel stays its agent's own.
LEMMA PrivateFrame ==
    ASSUME UNCHANGED current, NEW a \in Agents, NEW c, c # 0, Private(a, c),
           \A x \in Subs : SubAgent[x] \in Agents,
           \A x \in Subs : subChan'[x] \in {subChan[x], 0, current[SubAgent[x]]}
    PROVE  Private(a, c)'
  BY DEF Private

\* What is in the inboxes and with the subscribers stays there.
LEMMA KeptSame ==
    ASSUME KeptEnvs, Types, UNCHANGED <<current, chans, queue, accepted>>, fresh \subseteq fresh',
           \A x \in Subs : subChan'[x] \in {subChan[x], 0, current[SubAgent[x]]},
           \A x \in Subs : \A e : Has(x, e)' <=> Has(x, e)
    PROVE  KeptEnvs'
<1>1. \A a : Accepted(a)' = Accepted(a)
  BY DEF Accepted
<1>2. ASSUME NEW a \in Agents, NEW e, NEW c \in 1..chans, KeptIn(a, e, c) PROVE KeptIn(a, e, c)'
  <2>1. Private(a, c)'
    BY <1>2, PrivateFrame, TransportAssumption DEF KeptIn, Types
  <2>2. Queued(c, e)'
    BY <1>2 DEF KeptIn, Queued
  <2> QED
    BY <1>2, <2>1, <2>2, RaceStays DEF KeptIn
<1> QED
  BY <1>1, <1>2 DEF KeptEnvs

\* A send leaves the registered channels alone and looks its channel up among them.
LEMMA SendFrame ==
    ASSUME Types, NEW s \in Sends, Sending(s) \/ SendFails(s)
    PROVE  /\ UNCHANGED <<current, chans, fresh, workload, subVars>>
           /\ \A t \in Sends : sendChan'[t] \in {sendChan[t], 0, current[workload.sendTo[t].agent]}
<1>1. UNCHANGED <<current, chans, fresh, workload, subVars>>
  BY DEF Sending, SendFails, Admit, Reject, Lookup, Snapshot, External, Push, LockSenders, Skip,
         Fan, FanDone, RecordSend, mapVars, runVars
<1>2. CASE Lookup(s) \/ Push(s)
  BY <1>1, <1>2 DEF Lookup, Push, Types
<1>3. CASE sendChan' = sendChan
  BY <1>1, <1>3
<1>4. Lookup(s) \/ Push(s) \/ sendChan' = sendChan
  BY DEF Sending, SendFails, Admit, Reject, Snapshot, External, LockSenders, Skip,
         Fan, FanDone, RecordSend
<1> QED
  BY <1>1, <1>2, <1>3, <1>4

\* A channel is private to its owner.
LEMMA OwnedIsPrivate ==
    ASSUME NEW own, OwnInv(own), NEW c, c # 0, NEW a, own[c] = a
    PROVE  Private(a, c)
  BY DEF OwnInv, Private

\* A send keeps what was accepted.
LEMMA KeptSend ==
    ASSUME NEW own, IInv(own), KeptChans, KeptEnvs, NEW s \in Sends, Sending(s) \/ SendFails(s)
    PROVE  KeptChans' /\ KeptEnvs'
<1>1. Types /\ OwnInv(own) /\ SendInv(s)
  BY DEF IInv
<1>2. /\ UNCHANGED <<current, chans, fresh, workload, subVars>>
      /\ \A t \in Sends : sendChan'[t] \in {sendChan[t], 0, current[workload.sendTo[t].agent]}
  BY <1>1, SendFrame
<1>3. UNCHANGED <<subPc, subChan, item, stream, got>>
  BY <1>2 DEF subVars
<1>4. KeptChans'
  BY <1>1, <1>2, <1>3, KeptFrame DEF Types, Found
<1>5. \A x \in Subs : \A e : Has(x, e)' <=> Has(x, e)
  BY <1>3 DEF Has, Flowed, Flow
<1>6. CASE UNCHANGED <<accepted, queue>>
  BY <1>1, <1>2, <1>3, <1>4, <1>5, <1>6, KeptSame
<1>7. ASSUME NEW a, NEW c, Pushing(own, s, a, c) PROVE KeptEnvs'
  <2>1. /\ c \in 1..chans /\ a \in Agents /\ own[c] = a
        /\ Accepted(a)' = Accepted(a) \cup {SendEnv[s]}
        /\ \A b \in Agents : b # a => Accepted(b)' = Accepted(b)
        /\ \A d \in 1..chans, f \in Envs : Queued(d, f) => Queued(d, f)'
        /\ Queued(c, SendEnv[s])'
    BY <1>7 DEF Pushing
  <2>2. c = current[a] \/ Raced(a)
    <3>1. CASE c = current[a]
      BY <3>1
    <3>2. CASE sendPc[s] = "push" /\ c = sendChan[s] /\ a = workload.sendTo[s].agent
      BY <1>1, <2>1, <3>2 DEF SendInv, KeptChans
    <3> QED
      BY <1>7, <3>1, <3>2 DEF Pushing
  <2>3. ASSUME NEW b \in Agents, NEW d, d # 0, Private(b, d) PROVE Private(b, d)'
    BY <1>2, <1>3, <2>3 DEF Private
  <2>4. \A b : Raced(b)' <=> Raced(b)
    BY <1>2 DEF Raced, SubsOf
  <2> SUFFICES ASSUME NEW b \in Agents, NEW e \in Accepted(b)'
               PROVE  \/ \E d \in 1..chans : KeptIn(b, e, d)'
                      \/ \E x \in Subs : SubAgent[x] = b /\ Has(x, e)'
    BY <1>2 DEF KeptEnvs
  <2>5. CASE e \in Accepted(b)
    <3>1. ASSUME NEW d \in 1..chans, KeptIn(b, e, d) PROVE KeptIn(b, e, d)'
      <4>1. e \in Envs /\ d # 0
        BY <1>1, <2>5, KeptTypes
      <4> QED
        BY <1>2, <2>1, <2>3, <2>4, <3>1, <4>1 DEF KeptIn
    <3>2. CASE \E x \in Subs : SubAgent[x] = b /\ Has(x, e)
      BY <1>5, <3>2
    <3> QED
      BY <2>5, <3>1, <3>2 DEF KeptEnvs
  <2>6. CASE b = a /\ e = SendEnv[s]
    <3>1. c # 0
      BY <2>1
    <3>2. Private(a, c)
      BY <1>1, <2>1, <3>1, OwnedIsPrivate
    <3> QED
      BY <1>2, <2>1, <2>2, <2>3, <2>4, <2>6, <3>1, <3>2 DEF KeptIn
  <2> QED
    BY <2>1, <2>5, <2>6
<1> QED
  BY <1>4, <1>6, <1>7, SendStep

\* Which steps of a subscription come to registering, and what they do to channels.
LEMMA SubFrame ==
    ASSUME Types, NEW x \in Subs,
           \/ CheckRegistered(x) \/ GetInbox(x) \/ Supersede(x) \/ ReceiveCall(x)
           \/ Forwarding(x) \/ DeliverFails(x) \/ ReadStream(x) \/ DropStream(x)
    PROVE  /\ UNCHANGED <<current, chans, accepted, sendChan, workload>>
           /\ fresh \subseteq fresh' /\ fresh' \subseteq Subs
           /\ \A y \in Subs : Found(y)
           /\ \A y \in Subs : subChan'[y] \in {subChan[y], 0, current[SubAgent[y]]}
           /\ \A y \in Subs : subPc'[y] = "register" =>
                 \/ subPc[y] = "register"
                 \/ current[SubAgent[y]] = 0 /\ y \in fresh'
<1> USE DEF mapVars, runVars, sendVars, Types, Found
<1>1. CASE GetInbox(x) \/ Supersede(x) \/ ReceiveCall(x)
  BY <1>1 DEF GetInbox, Supersede, ReceiveCall
<1>2. CASE LockInbox(x) \/ ExitParked(x) \/ Recv(x) \/ Forward(x) \/ ForwardFails(x)
  BY <1>2 DEF LockInbox, ExitParked, Recv, Forward, ForwardFails, Exit
<1>3. CASE RecordDeliver(x)
  BY <1>3 DEF RecordDeliver, Exit
<1>4. CASE DeliverFails(x)
  BY <1>4 DEF DeliverFails, Exit
<1>5. CASE ReadStream(x) \/ DropStream(x)
  BY <1>5 DEF ReadStream, DropStream
<1>6. CASE CheckRegistered(x)
  BY <1>6 DEF CheckRegistered
<1> QED
  BY <1>1, <1>2, <1>3, <1>4, <1>5, <1>6 DEF Forwarding

\* A step of a subscription that registers nothing keeps what was accepted: it only moves
\* an envelope from the inbox to the task and on to the subscriber.
LEMMA KeptSub ==
    ASSUME NEW own, IInv(own), KeptChans, KeptEnvs, NEW x \in Subs,
           \/ CheckRegistered(x) \/ GetInbox(x) \/ Supersede(x) \/ ReceiveCall(x)
           \/ Forwarding(x) \/ DeliverFails(x) \/ ReadStream(x) \/ DropStream(x)
    PROVE  KeptChans' /\ KeptEnvs'
<1>1. Types /\ OwnInv(own)
  BY DEF IInv
<1>2. /\ UNCHANGED <<current, chans, accepted, sendChan, workload>>
      /\ fresh \subseteq fresh' /\ fresh' \subseteq Subs
      /\ \A y \in Subs : Found(y)
      /\ \A y \in Subs : subChan'[y] \in {subChan[y], 0, current[SubAgent[y]]}
      /\ \A y \in Subs : subPc'[y] = "register" =>
            \/ subPc[y] = "register"
            \/ current[SubAgent[y]] = 0 /\ y \in fresh'
  BY <1>1, SubFrame
<1>3. KeptChans'
  BY <1>1, <1>2, KeptFrame
<1>4. \/ Recv(x)
      \/ queue' = queue /\ \A y \in Subs, e \in Envs : Has(y, e)' <=> Has(y, e)
  <2>1. CASE Quiet(x) /\ Types' /\ SubInv(x)' /\ OkInv(x)'
    BY <2>1, QuietStep DEF Quiet
  <2>2. CASE \/ CheckRegistered(x) \/ GetInbox(x) \/ Supersede(x) \/ ReceiveCall(x)
             \/ LockInbox(x) \/ ExitParked(x) \/ ForwardFails(x)
    BY <2>1, <2>2, QuietMoves
  <2>3. CASE \/ ReadStream(x) \/ DropStream(x)
             \/ (RecordDeliver(x) \/ DeliverFails(x)) /\ x \notin Receivers
    BY <2>1, <2>3, QuietStreams
  <2>4. CASE Forward(x) \/ ((RecordDeliver(x) \/ DeliverFails(x)) /\ x \in Receivers)
    BY <2>4, HandingSteps DEF Forward, RecordDeliver, DeliverFails
  <2> QED
    BY <2>2, <2>3, <2>4 DEF Forwarding
<1>5. ASSUME NEW a \in Agents, NEW e \in Accepted(a), NEW c \in 1..chans, KeptIn(a, e, c)
      PROVE  KeptIn(a, e, c)' \/ \E y \in Subs : SubAgent[y] = a /\ Has(y, e)'
  <2>1. e \in Envs /\ c # 0
    BY <1>1, KeptTypes
  <2>2. Private(a, c)'
    BY <1>2, <1>5, <2>1, PrivateFrame, TransportAssumption DEF KeptIn
  <2>3. c = current'[a] \/ Raced(a)'
    BY <1>2, <1>5, RaceStays DEF KeptIn
  <2>4. CASE Recv(x) /\ c = subChan[x]
    <3>1. SubAgent[x] = a
      BY <1>5, <2>4 DEF KeptIn, Private
    <3>2. Queued(c, e)' \/ Has(x, e)'
      BY <1>5, <2>1, <2>4, RecvStep DEF KeptIn
    <3> QED
      BY <2>2, <2>3, <3>1, <3>2 DEF KeptIn
  <2>5. CASE Recv(x) /\ c # subChan[x]
    <3>1. queue'[c] = queue[c]
      BY <1>1, <2>5 DEF Recv, Types
    <3>2. Queued(c, e)'
      BY <1>5, <3>1 DEF Queued, KeptIn
    <3> QED
      BY <2>2, <2>3, <3>2 DEF KeptIn
  <2>6. CASE queue' = queue
    <3>1. Queued(c, e)'
      BY <1>5, <2>6 DEF Queued, KeptIn
    <3> QED
      BY <2>2, <2>3, <3>1 DEF KeptIn
  <2> QED
    BY <1>4, <2>4, <2>5, <2>6
<1>6. ASSUME NEW y \in Subs, NEW e \in Envs, Has(y, e) PROVE Has(y, e)'
  <2>1. CASE Recv(x)
    BY <1>6, <2>1, RecvStep
  <2> QED
    BY <1>4, <1>6, <2>1
<1>7. KeptEnvs'
  <2> SUFFICES ASSUME NEW a \in Agents, NEW e \in Accepted(a)
               PROVE  \/ \E c \in 1..chans : KeptIn(a, e, c)'
                      \/ \E y \in Subs : SubAgent[y] = a /\ Has(y, e)'
    BY <1>2 DEF KeptEnvs, Accepted
  <2>1. e \in Envs
    BY <1>1, KeptTypes
  <2> QED
    BY <1>5, <1>6, <2>1 DEF KeptEnvs
<1> QED
  BY <1>3, <1>7

\* A subscription that registers replaces an inbox only if another one has found none
\* before it: there was a race.
LEMMA KeptRegister ==
    ASSUME NEW own, IInv(own), KeptChans, KeptEnvs, NEW x \in Subs, RegisterRecipient(x)
    PROVE  KeptChans' /\ KeptEnvs'
<1> DEFINE a == SubAgent[x]
<1>1. Types /\ a \in Agents /\ chans \in Nat
      /\ \A y \in Subs : SubAgent[y] \in Agents
  BY TransportAssumption DEF IInv, Types
<1>2. /\ subPc[x] = "register" /\ chans' = chans + 1 /\ queue' = Append(queue, << >>)
      /\ current'[a] = chans + 1
      /\ \A b \in Agents : b # a => current'[b] = current[b]
      /\ subPc'[x] = "inbox" /\ \A y \in Subs : y # x => subPc'[y] = subPc[y]
      /\ UNCHANGED <<subChan, sendChan, item, stream, got, accepted, fresh, workload>>
  BY <1>1 DEF RegisterRecipient, Types, sendVars, runVars
<1>3. x \in fresh /\ a \notin workload.registered
  BY <1>2 DEF KeptChans
<1>4. current[a] = 0 \/ Raced(a)
  <2>1. SUFFICES ASSUME current[a] # 0 PROVE Raced(a)
    OBVIOUS
  <2>2. PICK y \in SubsOf(a) \cap fresh : subPc[y] # "register"
    BY <1>1, <1>3, <2>1 DEF KeptChans
  <2>3. y # x /\ x \in SubsOf(a) \cap fresh
    BY <1>2, <1>3, <2>2 DEF SubsOf
  <2> QED
    BY <2>2, <2>3 DEF Raced
<1>5. \A b : (Raced(b)' <=> Raced(b)) /\ SubsOf(b)' = SubsOf(b)
  BY <1>2 DEF Raced, SubsOf
<1>6. \A b \in workload.registered : b \in Agents
  BY <1>1, TransportAssumption DEF Types, IsWorkload
<1>7. KeptChans'
  <2>1. \A b \in workload.registered : current'[b] # 0
    BY <1>1, <1>2, <1>3, <1>6 DEF KeptChans
  <2>2. ASSUME NEW y \in Subs, subChan[y] # 0
        PROVE  subChan[y] = current'[SubAgent[y]] \/ Raced(SubAgent[y])
    BY <1>1, <1>2, <1>4, <2>2 DEF KeptChans
  <2>3. ASSUME NEW s \in Sends, sendChan[s] # 0
        PROVE  \/ sendChan[s] = current'[workload.sendTo[s].agent]
               \/ Raced(workload.sendTo[s].agent)
    <3>1. SendInv(s)
      BY DEF IInv
    <3>2. s \in DOMAIN workload.sendTo /\ workload.sendTo[s].kind = "agent"
      BY <2>3, <3>1 DEF SendInv, Active
    <3>3. workload.sendTo[s].agent \in Agents
      BY <1>1, <3>2, RecipientFacts
    <3> QED
      BY <1>2, <1>4, <2>3, <3>3 DEF KeptChans
  <2>4. ASSUME NEW b \in Agents, current'[b] # 0, b \notin workload.registered
        PROVE  \E y \in SubsOf(b) \cap fresh : subPc'[y] # "register"
    <3>1. CASE b = a
      <4>1. x \in SubsOf(a) \cap fresh /\ subPc'[x] # "register"
        BY <1>2, <1>3 DEF SubsOf
      <4> QED
        BY <3>1, <4>1
    <3>2. CASE b # a
      <4>1. PICK y \in SubsOf(b) \cap fresh : subPc[y] # "register"
        BY <1>2, <2>4, <3>2 DEF KeptChans
      <4>2. y \in Subs /\ y # x
        BY <3>2, <4>1 DEF SubsOf
      <4> QED
        BY <1>2, <4>1, <4>2
    <3> QED
      BY <3>1, <3>2
  <2>5. \A y \in Subs : subPc'[y] = "register" => y \in fresh
    BY <1>2 DEF KeptChans
  <2>6. \A y \in fresh : SubAgent[y] \notin workload.registered
    BY DEF KeptChans
  <2> QED
    BY <1>2, <1>5, <2>1, <2>2, <2>3, <2>4, <2>5, <2>6 DEF KeptChans
<1>8. \A c \in 1..chans : queue'[c] = queue[c]
  <2>1. queue \in Seq(Seq(Envs)) /\ Len(queue) = chans /\ << >> \in Seq(Envs)
    BY <1>1 DEF Types
  <2> QED
    BY <1>2, <2>1, AppendFacts
<1>9. /\ \A c \in 1..chans : \A e : Queued(c, e)' <=> Queued(c, e)
      /\ \A y \in Subs : \A e : Has(y, e)' <=> Has(y, e)
      /\ \A b : Accepted(b)' = Accepted(b)
  BY <1>2, <1>8 DEF Queued, Has, Flowed, Flow, Accepted
<1>10. ASSUME NEW b \in Agents, NEW e, NEW c \in 1..chans, KeptIn(b, e, c)
       PROVE  KeptIn(b, e, c)'
  <2>1. c # chans + 1 /\ c # 0
    BY <1>1
  <2>2. Private(b, c)'
    BY <1>2, <1>10, <2>1 DEF KeptIn, Private
  <2>3. c = current'[b] \/ Raced(b)'
    BY <1>2, <1>4, <1>5, <1>10, <2>1 DEF KeptIn
  <2>4. Queued(c, e)'
    BY <1>9, <1>10 DEF KeptIn
  <2> QED
    BY <2>2, <2>3, <2>4 DEF KeptIn
<1>11. KeptEnvs'
  <2> SUFFICES ASSUME NEW b \in Agents, NEW e \in Accepted(b)
               PROVE  \/ \E c \in 1..chans' : KeptIn(b, e, c)'
                      \/ \E y \in Subs : SubAgent[y] = b /\ Has(y, e)'
    BY <1>9 DEF KeptEnvs
  <2>1. CASE \E y \in Subs : SubAgent[y] = b /\ Has(y, e)
    BY <1>9, <2>1
  <2>2. ASSUME NEW c \in 1..chans, KeptIn(b, e, c) PROVE c \in 1..chans' /\ KeptIn(b, e, c)'
    BY <1>1, <1>2, <1>10, <2>2
  <2> QED
    BY <2>1, <2>2 DEF KeptEnvs
<1> QED
  BY <1>7, <1>11

\* What was accepted is kept.
LEMMA KeptNext ==
    ASSUME \E own : IInv(own), KeptChans, KeptEnvs, [Next]_vars
    PROVE  KeptChans' /\ KeptEnvs'
<1>1. PICK own : IInv(own)
  OBVIOUS
<1>2. CASE Administration \/ UNCHANGED vars
  <2>1. UNCHANGED <<current, chans, fresh, queue, accepted, sendVars, subVars, workload>>
    BY <1>1, <1>2, AsideStep
  <2>2. UNCHANGED <<subPc, subChan, sendChan, item, stream, got>> /\ Types
    BY <1>1, <2>1 DEF sendVars, subVars, IInv
  <2>3. KeptChans'
    BY <2>1, <2>2, KeptFrame DEF Types, Found
  <2>4. KeptEnvs'
    <3>1. \A x \in Subs : \A e : Has(x, e)' <=> Has(x, e)
      BY <2>2 DEF Has, Flowed, Flow
    <3> QED
      BY <2>1, <2>2, <3>1, KeptSame
  <2> QED
    BY <2>3, <2>4
<1>3. ASSUME NEW s \in Sends, Sending(s) \/ SendFails(s) PROVE KeptChans' /\ KeptEnvs'
  BY <1>1, <1>3, KeptSend
<1>4. ASSUME NEW x \in Subs,
             \/ Subscribing(x) \/ Forwarding(x) \/ ReceiveCall(x)
             \/ DeliverFails(x) \/ ReadStream(x) \/ DropStream(x)
      PROVE  KeptChans' /\ KeptEnvs'
  BY <1>1, <1>4, KeptSub, KeptRegister DEF Subscribing
<1> QED
  BY <1>2, <1>3, <1>4 DEF Next

\* LossNeedsARace: for any callers, an envelope an inbox accepted is in an inbox somebody
\* reads, with a forwarder, in a stream or with a subscriber, whoever supersedes whom,
\* unless two subscriptions found the agent without an inbox (memory.rs:435 subscribe); it
\* is then still in the queue of the inbox the second one replaced.
THEOREM LossNeedsARace == Spec => []LostOnlyInRace
<1>1. ASSUME NEW own, IInv(own), KeptEnvs PROVE LostOnlyInRace
  <2> SUFFICES ASSUME NEW a \in Agents, NEW e \in Accepted(a), Places(a, e) = {}
               PROVE  /\ Raced(a)
                      /\ \E c \in 1..chans : /\ ~RxLive(c)
                                             /\ \E i \in DOMAIN queue[c] : queue[c][i] = e
    BY DEF LostOnlyInRace
  <2>1. Types /\ e \in Envs
    BY <1>1, KeptTypes DEF IInv
  <2>2. ASSUME NEW c \in 1..chans, KeptIn(a, e, c)
        PROVE  Raced(a) /\ ~RxLive(c) /\ \E i \in DOMAIN queue[c] : queue[c][i] = e
    <3>1. PICK i \in DOMAIN queue[c] : queue[c][i] = e
      BY <2>2 DEF KeptIn, Queued
    <3>2. c \notin ChannelsOf(a)
      <4>1. SUFFICES ASSUME c \in ChannelsOf(a) PROVE FALSE
        OBVIOUS
      <4>2. <<"queue", c, i>> \in InboxPlaces(a, e)
        BY <3>1, <4>1 DEF InboxPlaces
      <4> QED
        BY <4>2 DEF Places
    <3>3. c # current[a] /\ \A x \in Subs : SubAgent[x] = a => subChan[x] # c
      BY <3>2 DEF ChannelsOf
    <3>4. ~RxLive(c)
      BY <2>2, <3>3 DEF KeptIn, Private, RxLive
    <3> QED
      BY <2>2, <3>1, <3>3, <3>4 DEF KeptIn
  <2>3. ASSUME NEW x \in Subs, SubAgent[x] = a, Has(x, e) PROVE FALSE
    <3>1. \/ item[x].env = e
          \/ \E i \in DOMAIN got[x] : got[x][i].env = e
          \/ \E i \in DOMAIN stream[x] : stream[x][i].env = e
      BY <2>1, <2>3, FlowParts
    <3>2. CASE item[x].env = e
      <4>1. <<"task", x, 0>> \in TaskPlaces(a, e)
        BY <2>3, <3>2 DEF TaskPlaces, SubsOf
      <4> QED
        BY <4>1 DEF Places
    <3>3. ASSUME NEW i \in DOMAIN got[x], got[x][i].env = e PROVE FALSE
      <4>1. <<"got", x, i>> \in GotPlaces(a, e)
        BY <2>3, <3>3 DEF GotPlaces, SubsOf
      <4> QED
        BY <4>1 DEF Places
    <3>4. ASSUME NEW i \in DOMAIN stream[x], stream[x][i].env = e PROVE FALSE
      <4>1. <<"stream", x, i>> \in StreamPlaces(a, e)
        BY <2>3, <3>4 DEF StreamPlaces, SubsOf
      <4> QED
        BY <4>1 DEF Places
    <3> QED
      BY <3>1, <3>2, <3>3, <3>4
  <2>4. \E c \in 1..chans : KeptIn(a, e, c)
    BY <1>1, <2>3 DEF KeptEnvs
  <2> QED
    BY <2>2, <2>4
<1>2. (\E own : IInv(own)) /\ KeptEnvs => LostOnlyInRace
  BY <1>1
<1>3. Init => KeptChans /\ KeptEnvs
  <2> SUFFICES ASSUME Init PROVE KeptChans /\ KeptEnvs
    OBVIOUS
  <2>1. workload.registered \subseteq Agents
    BY TransportAssumption DEF Init, IsWorkload
  <2>2. /\ \A a \in workload.registered : current[a] # 0
        /\ \A a \in Agents \ workload.registered : current[a] = 0
    BY <2>1 DEF Init
  <2>3. KeptChans
    BY <2>2 DEF Init, KeptChans
  <2>4. KeptEnvs
    BY DEF Init, KeptEnvs, Accepted
  <2> QED
    BY <2>3, <2>4
<1>4. (\E own : IInv(own)) /\ (KeptChans /\ KeptEnvs) /\ [Next]_vars => (KeptChans /\ KeptEnvs)'
  BY KeptNext
<1> QED
  BY <1>2, <1>3, <1>4, Invariance, PTL DEF Spec
=============================================================================
