----------------------------- MODULE Transport -----------------------------
(***************************************************************************)
(* MemoryTransport (crates/yutha-transport/src/memory.rs): senders push    *)
(* envelopes into bounded per-agent inboxes, and every subscription runs a *)
(* forwarder task that takes envelopes out of its agent's inbox, appends a *)
(* deliver receipt and hands them to the subscriber's stream.              *)
(*                                                                         *)
(* A step ends where the code awaits: a lock, the receipt store, or room   *)
(* in a stream.  A channel is named by the order of its creation, 0 means  *)
(* no channel.  inboxes and senders are written together under both locks, *)
(* so `current` stands for the two maps.  A channel's receiving end lives  *)
(* as long as `current` or a forwarder holds it (RxLive), its sending end  *)
(* as long as `current` or a send in progress does (TxLive).               *)
(***************************************************************************)
EXTENDS Naturals, Sequences, FiniteSets

CONSTANTS Agents,
          Subs,        \* subscribe and receive calls
          Receivers,   \* the calls of Subs that are receive, not subscribe
          SubAgent,    \* whose inbox each call of Subs reads
          Sends,       \* send calls
          Envs,        \* envelopes
          SendEnv,     \* the envelope each call sends (a retry repeats one)
          Tags,
          Cap,         \* inbox capacity (64)
          StreamCap,   \* stream capacity (8)
          Workloads    \* the callers of the transport, see IsWorkload

Recipients ==
    [kind : {"agent"}, agent : Agents]
    \cup [kind : {"role"}]
    \cup [kind : {"swarm"}, filter : SUBSET Tags]
    \cup [kind : {"external"}]

\* Who has an inbox at the start, whose role and tags change, which calls are
\* made and to whom the sends go; and how many receipt appends and send calls
\* fail, and how many subscribers drop their stream.
IsWorkload(w) ==
    /\ w.registered \subseteq Agents /\ IsFiniteSet(w.registered)
    /\ w.administered \subseteq Agents
    /\ w.subs \subseteq Subs
    /\ w.sendTo \in UNION {[S -> Recipients] : S \in SUBSET Sends}
    /\ w.maxFaults \in Nat /\ w.maxDrops \in Nat

ASSUME TransportAssumption ==
    /\ SubAgent \in [Subs -> Agents]
    /\ SendEnv \in [Sends -> Envs] /\ "none" \notin Envs
    /\ Receivers \subseteq Subs
    /\ Cap \in Nat \ {0} /\ StreamCap \in Nat \ {0}
    /\ \A w \in Workloads : IsWorkload(w)

VARIABLES current,   \* each agent's channel in senders and inboxes
          chans,     \* channels created so far
          queue,     \* what each channel holds
          roles,     \* the members of the role
          tags,      \* each agent's tags
          seen,      \* envelopes ReplayProtection has admitted
          sendPc, sendChan, targets, delivered,       \* send calls
          subPc, subChan, item, notified,             \* forwarders
          stream, closed, got,                        \* subscribers
          receipts,  \* the envelope receipts in the store
          accepted,  \* history: what was pushed into each agent's inboxes
          fresh,     \* history: the subscriptions that found no inbox
          faults, drops,
          workload   \* the workload, chosen at the start

sendVars == <<sendPc, sendChan, targets, delivered>>
subVars  == <<subPc, subChan, item, notified, stream, closed, got>>
mapVars  == <<current, chans, roles, tags, fresh>>
runVars  == <<faults, drops, workload>>
vars == <<mapVars, queue, seen, sendVars, subVars, receipts, accepted, runVars>>

NoItem == [env |-> "none", ok |-> FALSE]
Items  == [env : Envs, ok : BOOLEAN]
Receipts == [kind : {"send"}, env : Envs, count : Nat]
            \cup [kind : {"deliver"}, env : Envs, to : Agents]

TypeOK ==
    /\ chans \in Nat
    /\ current \in [Agents -> 0..chans]
    /\ DOMAIN queue = 1..chans
    /\ \A c \in 1..chans : queue[c] \in Seq(Envs) /\ Len(queue[c]) <= Cap
    /\ roles \subseteq Agents
    /\ tags \in [Agents -> SUBSET Tags]
    /\ seen \subseteq Envs
    /\ sendPc \in [Sends -> {"idle", "route", "push", "targets", "fan",
                             "record", "ok", "failed"}]
    /\ sendChan \in [Sends -> 0..chans]
    /\ targets \in [Sends -> SUBSET Agents]
    /\ delivered \in [Sends -> Nat]
    /\ subPc \in [Subs -> {"idle", "register", "inbox", "notify", "lock", "parked",
                           "record", "send", "done"}]
    /\ subChan \in [Subs -> 0..chans]
    /\ item \in [Subs -> Items \cup {NoItem}]
    /\ notified \in [Subs -> BOOLEAN]
    /\ \A x \in Subs : stream[x] \in Seq(Items) /\ Len(stream[x]) <= StreamCap
    /\ closed \in [Subs -> BOOLEAN]
    /\ got \in [Subs -> Seq(Items)]
    /\ receipts \subseteq Receipts
    /\ accepted \in [Agents -> Seq(Envs)]
    /\ fresh \subseteq Subs
    /\ workload \in Workloads
    /\ faults \in 0..workload.maxFaults
    /\ drops \in 0..workload.maxDrops
-----------------------------------------------------------------------------
RxLive(c) == (\E a \in Agents : current[a] = c) \/ (\E x \in Subs : subChan[x] = c)
TxLive(c) == (\E a \in Agents : current[a] = c) \/ (\E s \in Sends : sendChan[s] = c)

\* The Mutex around a channel's receiver is held by a parked forwarder.
Locked(c) == \E x \in Subs : subPc[x] = "parked" /\ subChan[x] = c

\* fanout_to holds the read lock on senders for its whole loop.
SendersReadLocked == \E s \in Sends : sendPc[s] = "fan"

Init ==
    /\ workload \in Workloads
    /\ chans = Cardinality(workload.registered)
    /\ \E f \in [workload.registered -> 1..chans] :
         /\ \A a, b \in workload.registered : f[a] = f[b] => a = b
         /\ current = [a \in Agents |-> IF a \in workload.registered THEN f[a] ELSE 0]
    /\ queue = [c \in 1..chans |-> << >>]
    /\ roles = {}
    /\ tags = [a \in Agents |-> {}]
    /\ seen = {}
    /\ sendPc = [s \in Sends |-> "idle"]
    /\ sendChan = [s \in Sends |-> 0]
    /\ targets = [s \in Sends |-> {}]
    /\ delivered = [s \in Sends |-> 0]
    /\ subPc = [x \in Subs |-> "idle"]
    /\ subChan = [x \in Subs |-> 0]
    /\ item = [x \in Subs |-> NoItem]
    /\ notified = [x \in Subs |-> FALSE]
    /\ stream = [x \in Subs |-> << >>]
    /\ closed = [x \in Subs |-> FALSE]
    /\ got = [x \in Subs |-> << >>]
    /\ receipts = {}
    /\ accepted = [a \in Agents |-> << >>]
    /\ fresh = {}
    /\ faults = 0
    /\ drops = 0
-----------------------------------------------------------------------------
(* Mutants. *)
Admit_NoReplayCheck(s) ==
    /\ s \in DOMAIN workload.sendTo /\ sendPc[s] = "idle"
    /\ seen' = seen \cup {SendEnv[s]}
    /\ sendPc' = [sendPc EXCEPT ![s] = "route"]
    /\ UNCHANGED <<mapVars, queue, sendChan, targets, delivered, subVars, receipts,
                   accepted, runVars>>
CheckRegistered_Always(x) ==
    /\ x \in workload.subs \ Receivers
    /\ subPc[x] = "idle"
    /\ subPc' = [subPc EXCEPT ![x] = "register"]
    /\ fresh' = IF current[SubAgent[x]] = 0 THEN fresh \cup {x} ELSE fresh
    /\ UNCHANGED <<current, chans, roles, tags, queue, seen, sendVars, subChan, item, notified, stream,
                   closed, got, receipts, accepted, runVars>>
ExitParked_IgnoresClosed(x) ==
    /\ subPc[x] = "parked"
    /\ notified[x] \/ (queue[subChan[x]] = << >> /\ ~TxLive(subChan[x]))
    /\ subPc' = [subPc EXCEPT ![x] = "done"]
    /\ subChan' = [subChan EXCEPT ![x] = 0]
    /\ UNCHANGED <<mapVars, queue, seen, sendVars, item, notified, stream, closed, got,
                   receipts, accepted, runVars>>
Skip_Counts(s, a) ==
    /\ sendPc[s] = "fan" /\ a \in targets[s] /\ current[a] = 0
    /\ targets' = [targets EXCEPT ![s] = @ \ {a}]
    /\ delivered' = [delivered EXCEPT ![s] = @ + 1]
    /\ UNCHANGED <<mapVars, queue, seen, sendPc, sendChan, subVars, receipts, accepted, runVars>>
-----------------------------------------------------------------------------
(* Registration.                                                           *)

\* register_role_member
RegisterRoleMember(a) ==
    /\ a \in workload.administered \ roles
    /\ roles' = roles \cup {a}
    /\ UNCHANGED <<current, chans, tags, fresh, queue, seen, sendVars, subVars, receipts,
                   accepted, runVars>>

\* set_agent_tags
SetAgentTags(a, T) ==
    /\ a \in workload.administered /\ tags[a] # T
    /\ tags' = [tags EXCEPT ![a] = T]
    /\ UNCHANGED <<current, chans, roles, fresh, queue, seen, sendVars, subVars, receipts,
                   accepted, runVars>>
-----------------------------------------------------------------------------
(* send.                                                                   *)

\* ReplayProtection::admit; what it rejects, the call reports as an error.
\* An envelope seen before is a replay (module Replay says why that is what
\* the filter does).
Admit(s) ==
    /\ s \in DOMAIN workload.sendTo /\ sendPc[s] = "idle"
    /\ SendEnv[s] \notin seen
    /\ seen' = seen \cup {SendEnv[s]}
    /\ sendPc' = [sendPc EXCEPT ![s] = "route"]
    /\ UNCHANGED <<mapVars, queue, sendChan, targets, delivered, subVars, receipts,
                   accepted, runVars>>

\* A replay, or an envelope the filter finds expired or too far behind.
Reject(s) ==
    /\ s \in DOMAIN workload.sendTo /\ sendPc[s] = "idle"
    /\ sendPc' = [sendPc EXCEPT ![s] = "failed"]
    /\ UNCHANGED <<mapVars, queue, seen, sendChan, targets, delivered, subVars, receipts,
                   accepted, runVars>>

\* Recipient::Agent: clone the sender handle and let go of the lock.
Lookup(s) ==
    /\ sendPc[s] = "route" /\ workload.sendTo[s].kind = "agent"
    /\ LET c == current[workload.sendTo[s].agent]
       IN  /\ sendChan' = [sendChan EXCEPT ![s] = c]
           /\ sendPc' = [sendPc EXCEPT ![s] = IF c = 0 THEN "failed" ELSE "push"]
    /\ UNCHANGED <<mapVars, queue, seen, targets, delivered, subVars, receipts, accepted, runVars>>

\* Recipient::Role and Recipient::Swarm: a snapshot of whom to send to.
Snapshot(s) ==
    /\ sendPc[s] = "route"
    /\ workload.sendTo[s].kind \in {"role", "swarm"}
    /\ targets' = [targets EXCEPT ![s] =
                     IF workload.sendTo[s].kind = "role" THEN roles
                     ELSE {a \in Agents : /\ current[a] # 0
                                          /\ workload.sendTo[s].filter \subseteq tags[a]}]
    /\ sendPc' = [sendPc EXCEPT ![s] = "targets"]
    /\ UNCHANGED <<mapVars, queue, seen, sendChan, delivered, subVars, receipts, accepted, runVars>>

\* Recipient::External is not implemented: the nonce is spent, nothing is sent.
External(s) ==
    /\ sendPc[s] = "route" /\ workload.sendTo[s].kind = "external"
    /\ sendPc' = [sendPc EXCEPT ![s] = "failed"]
    /\ UNCHANGED <<mapVars, queue, seen, sendChan, targets, delivered, subVars, receipts,
                   accepted, runVars>>

FitsInto(q, cap) == Len(q) < cap

\* try_send into channel c succeeds: there is a receiver, and room.
CanPush(c) == RxLive(c) /\ FitsInto(queue[c], Cap)

Push(s) ==
    /\ sendPc[s] = "push"
    /\ IF CanPush(sendChan[s])
       THEN /\ queue' = [queue EXCEPT ![sendChan[s]] = Append(@, SendEnv[s])]
            /\ accepted' = [accepted EXCEPT ![workload.sendTo[s].agent] = Append(@, SendEnv[s])]
            /\ delivered' = [delivered EXCEPT ![s] = 1]
            /\ sendPc' = [sendPc EXCEPT ![s] = "record"]
       ELSE /\ sendPc' = [sendPc EXCEPT ![s] = "failed"]
            /\ UNCHANGED <<queue, accepted, delivered>>
    /\ sendChan' = [sendChan EXCEPT ![s] = 0]
    /\ UNCHANGED <<mapVars, seen, targets, subVars, receipts, runVars>>

\* fanout_to takes the read lock on senders for its whole loop.
LockSenders(s) ==
    /\ sendPc[s] = "targets"
    /\ sendPc' = [sendPc EXCEPT ![s] = "fan"]
    /\ UNCHANGED <<mapVars, queue, seen, sendChan, targets, delivered, subVars, receipts,
                   accepted, runVars>>

\* fanout_to, one target at a time in any order: a missing inbox is skipped,
\* a full or closed one ends the send with an error after the earlier pushes.
Skip(s, a) ==
    /\ sendPc[s] = "fan" /\ a \in targets[s] /\ current[a] = 0
    /\ targets' = [targets EXCEPT ![s] = @ \ {a}]
    /\ UNCHANGED <<mapVars, queue, seen, sendPc, sendChan, delivered, subVars, receipts,
                   accepted, runVars>>

Fan(s, a) ==
    /\ sendPc[s] = "fan" /\ a \in targets[s] /\ current[a] # 0
    /\ targets' = [targets EXCEPT ![s] = @ \ {a}]
    /\ IF CanPush(current[a])
       THEN /\ queue' = [queue EXCEPT ![current[a]] = Append(@, SendEnv[s])]
            /\ accepted' = [accepted EXCEPT ![a] = Append(@, SendEnv[s])]
            /\ delivered' = [delivered EXCEPT ![s] = @ + 1]
            /\ UNCHANGED sendPc
       ELSE /\ sendPc' = [sendPc EXCEPT ![s] = "failed"]
            /\ UNCHANGED <<queue, accepted, delivered>>
    /\ UNCHANGED <<mapVars, seen, sendChan, subVars, receipts, runVars>>

FanDone(s) ==
    /\ sendPc[s] = "fan" /\ targets[s] = {}
    /\ sendPc' = [sendPc EXCEPT ![s] = "record"]
    /\ UNCHANGED <<mapVars, queue, seen, sendChan, targets, delivered, subVars, receipts,
                   accepted, runVars>>

\* record("envelope.send", ...): the receipt carries the fan-out count.
RecordSend(s) ==
    /\ sendPc[s] = "record"
    /\ receipts' = receipts \cup {[kind |-> "send", env |-> SendEnv[s], count |-> delivered[s]]}
    /\ sendPc' = [sendPc EXCEPT ![s] = "ok"]
    /\ UNCHANGED <<mapVars, queue, seen, sendChan, targets, delivered, subVars, accepted, runVars>>

\* The receipt store refuses, or the caller goes away and the call is dropped
\* at an await: the envelope stays pushed.
SendFails(s) ==
    /\ sendPc[s] \in {"route", "targets", "record"} /\ faults < workload.maxFaults
    /\ faults' = faults + 1
    /\ sendPc' = [sendPc EXCEPT ![s] = "failed"]
    /\ UNCHANGED <<mapVars, queue, seen, sendChan, targets, delivered, subVars, receipts,
                   accepted, drops, workload>>
-----------------------------------------------------------------------------
(* subscribe and its forwarder task.                                       *)

\* already_registered, read under a lock that is given up again.
CheckRegistered(x) ==
    /\ x \in workload.subs \ Receivers
    /\ subPc[x] = "idle"
    /\ subPc' = [subPc EXCEPT ![x] = IF current[SubAgent[x]] = 0 THEN "register" ELSE "inbox"]
    /\ fresh' = IF current[SubAgent[x]] = 0 THEN fresh \cup {x} ELSE fresh
    /\ UNCHANGED <<current, chans, roles, tags, queue, seen, sendVars, subChan, item, notified, stream,
                   closed, got, receipts, accepted, runVars>>

\* register_recipient: a fresh channel, whatever is registered by now.
RegisterRecipient(x) ==
    /\ subPc[x] = "register" /\ ~SendersReadLocked
    /\ chans' = chans + 1
    /\ queue' = Append(queue, << >>)
    /\ current' = [current EXCEPT ![SubAgent[x]] = chans + 1]
    /\ subPc' = [subPc EXCEPT ![x] = "inbox"]
    /\ UNCHANGED <<roles, tags, fresh, seen, sendVars, subChan, item, notified, stream, closed,
                   got, receipts, accepted, runVars>>

\* Clone the handle of the inbox registered now.
GetInbox(x) ==
    /\ subPc[x] = "inbox"
    /\ subChan' = [subChan EXCEPT ![x] = current[SubAgent[x]]]
    /\ subPc' = [subPc EXCEPT ![x] = "notify"]
    /\ UNCHANGED <<mapVars, queue, seen, sendVars, item, notified, stream, closed, got,
                   receipts, accepted, runVars>>

\* notify_waiters reaches the forwarders parked in their select!, then the
\* new forwarder is spawned.
Supersede(x) ==
    /\ subPc[x] = "notify"
    /\ notified' = [y \in Subs |-> notified[y] \/ (/\ y \notin Receivers
                                                   /\ SubAgent[y] = SubAgent[x]
                                                   /\ subPc[y] = "parked")]
    /\ subPc' = [subPc EXCEPT ![x] = "lock"]
    /\ UNCHANGED <<mapVars, queue, seen, sendVars, subChan, item, stream, closed, got,
                   receipts, accepted, runVars>>

\* receive: the inbox must exist.
ReceiveCall(x) ==
    /\ x \in workload.subs \cap Receivers
    /\ subPc[x] = "idle" /\ current[SubAgent[x]] # 0
    /\ subChan' = [subChan EXCEPT ![x] = current[SubAgent[x]]]
    /\ subPc' = [subPc EXCEPT ![x] = "lock"]
    /\ UNCHANGED <<mapVars, queue, seen, sendVars, item, notified, stream, closed, got,
                   receipts, accepted, runVars>>

LockInbox(x) ==
    /\ subPc[x] = "lock" /\ ~Locked(subChan[x])
    /\ subPc' = [subPc EXCEPT ![x] = "parked"]
    /\ UNCHANGED <<mapVars, queue, seen, sendVars, subChan, item, notified, stream,
                   closed, got, receipts, accepted, runVars>>

\* The task ends: its inbox handle goes, its stream can still be read.
Exit(x) ==
    /\ subPc' = [subPc EXCEPT ![x] = "done"]
    /\ subChan' = [subChan EXCEPT ![x] = 0]

\* select! is biased: closed downstream, superseded, then the inbox.
ExitParked(x) ==
    /\ subPc[x] = "parked"
    /\ \/ closed[x]
       \/ notified[x]
       \/ queue[subChan[x]] = << >> /\ ~TxLive(subChan[x])
    /\ Exit(x)
    /\ UNCHANGED <<mapVars, queue, seen, sendVars, item, notified, stream, closed, got,
                   receipts, accepted, runVars>>

Recv(x) ==
    /\ subPc[x] = "parked" /\ ~closed[x] /\ ~notified[x]
    /\ queue[subChan[x]] # << >>
    /\ item' = [item EXCEPT ![x] = [env |-> Head(queue[subChan[x]]), ok |-> TRUE]]
    /\ queue' = [queue EXCEPT ![subChan[x]] = Tail(@)]
    /\ subPc' = [subPc EXCEPT ![x] = "record"]
    /\ UNCHANGED <<mapVars, seen, sendVars, subChan, notified, stream, closed, got,
                   receipts, accepted, runVars>>

\* record("envelope.deliver", ...) before the envelope is handed on; receive
\* returns it at once.
RecordDeliver(x) ==
    /\ subPc[x] = "record"
    /\ receipts' = receipts \cup {[kind |-> "deliver", env |-> item[x].env, to |-> SubAgent[x]]}
    /\ IF x \in Receivers
       THEN /\ got' = [got EXCEPT ![x] = Append(@, item[x])]
            /\ item' = [item EXCEPT ![x] = NoItem]
            /\ Exit(x)
       ELSE /\ subPc' = [subPc EXCEPT ![x] = "send"]
            /\ UNCHANGED <<subChan, got, item>>
    /\ UNCHANGED <<mapVars, queue, seen, sendVars, notified, stream, closed, accepted, runVars>>

\* The receipt store refuses: subscribe passes the error on in the envelope's
\* place, receive returns it.
DeliverFails(x) ==
    /\ subPc[x] = "record" /\ faults < workload.maxFaults
    /\ faults' = faults + 1
    /\ LET error == [item[x] EXCEPT !.ok = FALSE]
       IN  IF x \in Receivers
           THEN /\ got' = [got EXCEPT ![x] = Append(@, error)]
                /\ item' = [item EXCEPT ![x] = NoItem]
                /\ Exit(x)
           ELSE /\ item' = [item EXCEPT ![x] = error]
                /\ subPc' = [subPc EXCEPT ![x] = "send"]
                /\ UNCHANGED <<subChan, got>>
    /\ UNCHANGED <<mapVars, queue, seen, sendVars, notified, stream, closed, receipts,
                   accepted, drops, workload>>

\* tx.send waits for room.
Forward(x) ==
    /\ subPc[x] = "send" /\ ~closed[x] /\ FitsInto(stream[x], StreamCap)
    /\ stream' = [stream EXCEPT ![x] = Append(@, item[x])]
    /\ item' = [item EXCEPT ![x] = NoItem]
    /\ subPc' = [subPc EXCEPT ![x] = "lock"]
    /\ UNCHANGED <<mapVars, queue, seen, sendVars, subChan, notified, closed, got,
                   receipts, accepted, runVars>>

\* The subscriber has gone: the envelope in hand is dropped with the task.
ForwardFails(x) ==
    /\ subPc[x] = "send" /\ closed[x]
    /\ Exit(x)
    /\ UNCHANGED <<mapVars, queue, seen, sendVars, item, notified, stream, closed, got,
                   receipts, accepted, runVars>>
-----------------------------------------------------------------------------
(* The subscriber, who holds the stream once subscribe has returned.       *)

Subscribed(x) == x \notin Receivers /\ subPc[x] \in {"lock", "parked", "record", "send", "done"}

ReadStream(x) ==
    /\ Subscribed(x) /\ ~closed[x] /\ stream[x] # << >>
    /\ got' = [got EXCEPT ![x] = Append(@, Head(stream[x]))]
    /\ stream' = [stream EXCEPT ![x] = Tail(@)]
    /\ UNCHANGED <<mapVars, queue, seen, sendVars, subPc, subChan, item, notified, closed,
                   receipts, accepted, runVars>>

DropStream(x) ==
    /\ Subscribed(x) /\ ~closed[x] /\ drops < workload.maxDrops
    /\ closed' = [closed EXCEPT ![x] = TRUE]
    /\ drops' = drops + 1
    /\ UNCHANGED <<mapVars, queue, seen, sendVars, subPc, subChan, item, notified, stream,
                   got, receipts, accepted, faults, workload>>
-----------------------------------------------------------------------------
Administration ==
    \/ \E a \in Agents : RegisterRoleMember(a)
    \/ \E a \in Agents, T \in SUBSET Tags : SetAgentTags(a, T)

Sending(s) ==
    \/ Admit(s) \/ Reject(s) \/ Lookup(s) \/ Snapshot(s) \/ External(s) \/ Push(s)
    \/ LockSenders(s)
    \/ \E a \in Agents : Skip(s, a) \/ Fan(s, a)
    \/ FanDone(s) \/ RecordSend(s)

Forwarding(x) ==
    \/ LockInbox(x) \/ ExitParked(x) \/ Recv(x) \/ RecordDeliver(x)
    \/ Forward(x) \/ ForwardFails(x)

Subscribing(x) ==
    \/ CheckRegistered(x) \/ RegisterRecipient(x) \/ GetInbox(x) \/ Supersede(x)

Next ==
    \/ Administration
    \/ \E s \in Sends : Sending(s) \/ SendFails(s)
    \/ \E x \in Subs : \/ Subscribing(x) \/ Forwarding(x) \/ ReceiveCall(x)
                       \/ DeliverFails(x) \/ ReadStream(x) \/ DropStream(x)

Spec == Init /\ [][Next]_vars

\* The runtime keeps polling tasks that can run, and subscribers read.
Fairness == \A x \in Subs : /\ WF_vars(Subscribing(x) /\ subPc[x] # "idle")
                            /\ WF_vars(Forwarding(x))
                            /\ WF_vars(ReadStream(x))

FairSpec == Spec /\ Fairness
-----------------------------------------------------------------------------
(* Where an envelope addressed to an agent can be.                         *)

ChannelsOf(a) == {c \in 1..chans : \/ current[a] = c
                                   \/ \E x \in Subs : SubAgent[x] = a /\ subChan[x] = c}

\* An item is with a task, in a stream, or read by its subscriber.
SubsOf(a) == {x \in Subs : SubAgent[x] = a}
InboxPlaces(a, e) ==
    UNION {{<<"queue", c, i>> : i \in {i \in DOMAIN queue[c] : queue[c][i] = e}} : c \in ChannelsOf(a)}
TaskPlaces(a, e) == {<<"task", x, 0>> : x \in {x \in SubsOf(a) : item[x].env = e}}
StreamPlaces(a, e) ==
    UNION {{<<"stream", x, i>> : i \in {i \in DOMAIN stream[x] : stream[x][i].env = e}} : x \in SubsOf(a)}
GotPlaces(a, e) ==
    UNION {{<<"got", x, i>> : i \in {i \in DOMAIN got[x] : got[x][i].env = e}} : x \in SubsOf(a)}

Places(a, e) == InboxPlaces(a, e) \cup TaskPlaces(a, e) \cup StreamPlaces(a, e) \cup GotPlaces(a, e)

Accepted(a) == {accepted[a][i] : i \in DOMAIN accepted[a]}

(***************************************************************************)
(* OnceAndInOrder: whatever subscribers, retries and failures do, an agent *)
(* has one copy of an envelope (one send of it was accepted, and no two    *)
(* forwarders of the agent hold it), and each subscriber sees envelopes in *)
(* the order the inbox accepted them, across the receipt append in between *)
(* (memory.rs send, subscribe and the forwarder loop).                     *)
(***************************************************************************)
OnceAndInOrder ==
    /\ \A a \in Agents :
          /\ \A i, j \in DOMAIN accepted[a] : accepted[a][i] = accepted[a][j] => i = j
          /\ \A e \in Envs : Cardinality(Places(a, e)) <= 1
    /\ \A x \in Subs :
          LET seenBy == got[x] \o stream[x]
              order  == accepted[SubAgent[x]]
              At(e)  == CHOOSE i \in DOMAIN order : order[i] = e
          IN  \A i, j \in DOMAIN seenBy :
                  i < j => At(seenBy[i].env) < At(seenBy[j].env)

(***************************************************************************)
(* LostOnlyInRace: an accepted envelope is in an inbox some reader will    *)
(* reach, with a task that took it out, in a stream, or with the           *)
(* subscriber, unless two subscriptions both found the agent without an    *)
(* inbox: then the second replaces the inbox of the first (memory.rs:435), *)
(* and what was queued in it when its last reader left is lost there.      *)
(* Superseding, failed receipts, receive calls and sends that hold a       *)
(* channel across a registration lose nothing else.                        *)
(***************************************************************************)
Raced(a) == \E x, y \in SubsOf(a) \cap fresh : x # y

LostOnlyInRace ==
    \A a \in Agents : \A e \in Accepted(a) : Places(a, e) = {} =>
        /\ Raced(a)
        /\ \E c \in 1..chans : ~RxLive(c) /\ \E i \in DOMAIN queue[c] : queue[c][i] = e

(***************************************************************************)
(* NoSilentDrop, which does not hold: no accepted envelope is lost.        *)
(* transport.rs:20 asks every transport to "Surface backpressure rather    *)
(* than silently drop".                                                    *)
(***************************************************************************)
NoSilentDrop ==
    \A a \in Agents : \A e \in Accepted(a) : Places(a, e) # {}

(***************************************************************************)
(* ReceiptsMatch: what a subscriber gets as an envelope, rather than as an *)
(* error, has its envelope.deliver receipt in the store already            *)
(* (transport.rs:50 "Every delivery yields an `envelope.deliver` receipt");*)
(* and the count in an envelope.send receipt is the number of inboxes the  *)
(* envelope went into, however registrations and other sends interleave    *)
(* with the fan-out (memory.rs fanout_to).                                 *)
(***************************************************************************)
ReceiptsMatch ==
    /\ \A x \in Subs : \A i \in DOMAIN (got[x] \o stream[x]) :
          LET it == (got[x] \o stream[x])[i]
          IN  it.ok => [kind |-> "deliver", env |-> it.env, to |-> SubAgent[x]] \in receipts
    /\ \A r \in receipts : r.kind = "send" =>
          r.count = Cardinality({a \in Agents : r.env \in Accepted(a)})

(***************************************************************************)
(* EventuallyDelivered: an envelope accepted for a subscribed agent is     *)
(* read by one of its subscribers, as the envelope or as an error.  When a *)
(* subscriber drops its stream it may take what is in it along, but what   *)
(* is in the inbox goes to the next one: superseding evicts no more than   *)
(* it may (memory.rs:454-462), and a forwarder whose stream is gone lets   *)
(* go of the inbox (the zombie forwarders of memory.rs:485-492).  The race *)
(* of LostOnlyInRace is the exception.                                     *)
(***************************************************************************)
Forwarders(a) == {x \in Subs \ Receivers :
                    /\ SubAgent[x] = a
                    /\ subPc[x] \in {"lock", "parked", "record", "send"}}

Holds(q, e) == \E i \in DOMAIN q : q[i].env = e

EventuallyDelivered ==
    \A a \in Agents, e \in Envs :
        (e \in Accepted(a) /\ \E x \in SubsOf(a) : Subscribed(x))
            ~> \/ Raced(a)
               \/ \E x \in SubsOf(a) :
                     \/ Holds(got[x], e)
                     \/ closed[x] /\ \/ Holds(<<item[x]>> \o stream[x], e)
                                     \/ \A y \in Forwarders(a) : closed[y]
=============================================================================
