----------------------------- MODULE Admission -----------------------------
(***************************************************************************)
(* Agents entering and leaving a swarm: AdmissionService (crates/          *)
(* yutha-control-plane/src/grpc/admission.rs) over MemoryRegistry and      *)
(* MemoryPassportStore, bearer authentication (auth.rs), and the           *)
(* Subscribe streams that a revocation must tear down (grpc/envelope.rs).  *)
(*                                                                         *)
(* A call is one RPC; a step of it ends where the handler awaits a lock,   *)
(* the attestor or the receipt store.  Receipts are counted per agent and  *)
(* kind.  What a stream carries is only counted: Transport models it.      *)
(***************************************************************************)
EXTENDS Naturals, FiniteSets

CONSTANTS Agents,
          Calls,
          Kind,        \* the RPC of each call
          Target,      \* the agent it is made by or is about
          Cascade,     \* the OperatorRevoke calls with cascade_capabilities
          Caps,        \* capabilities
          Subject,     \* the agent each capability is for
          InitialLive, \* agents registered at the start
          MaxFaults,   \* bound: receipt appends that fail
          MaxItems     \* bound: envelopes a stream receives

ASSUME AdmissionAssumption ==
    /\ Kind \in [Calls -> {"register", "unary", "subscribe", "revoke", "operator"}]
    /\ Target \in [Calls -> Agents]
    /\ Cascade \subseteq Calls
    /\ Subject \in [Caps -> Agents]
    /\ InitialLive \subseteq Agents
    /\ MaxFaults \in Nat /\ MaxItems \in Nat

VARIABLES pc,
          live,          \* MemoryPassportStore.live
          revokedBefore, \* MemoryPassportStore.revoked
          revokedAgents, \* ControlPlaneState.revoked_agents
          registers, revokes, denials,  \* receipts per agent
          issued, capRevoked,           \* MemoryCapabilityStore
          todo,          \* capabilities a cascade has yet to revoke
          notified,      \* streams whose notified() future has fired
          dropped,       \* streams the client has dropped
          items,         \* envelopes each stream has received
          owed,          \* history: what the target held when its eviction began
          gone,          \* history: agents revoked and not registered since
          barred,        \* history: calls begun while their agent was gone
          faults

storeVars  == <<live, revokedBefore>>
auditVars  == <<registers, revokes, denials>>
capVars    == <<issued, capRevoked, todo, owed>>
streamVars == <<notified, dropped, items>>
barVars    == <<gone, barred>>
vars == <<pc, storeVars, revokedAgents, auditVars, capVars, streamVars, barVars, faults>>

Steps == {"idle", "resolve", "recheck", "handler", "rejected", "denied", "unavailable",
          "notfound", "failed", "done",
          "persist", "registerReceipt",
          "revokeReceipt", "list", "cascade", "mark", "notify",
          "signal", "spawned", "parked", "sending", "tearing", "closed"}

TypeOK ==
    /\ pc \in [Calls -> Steps]
    /\ live \subseteq Agents /\ revokedBefore \subseteq Agents
    /\ revokedAgents \subseteq Agents
    /\ registers \in [Agents -> Nat] /\ revokes \in [Agents -> Nat]
    /\ denials \in [Agents -> Nat]
    /\ issued \subseteq Caps /\ capRevoked \subseteq issued
    /\ \A c \in Calls : todo[c] \subseteq issued
    /\ notified \subseteq Calls /\ dropped \subseteq Calls
    /\ items \in [Calls -> 0..MaxItems]
    /\ \A c \in Calls : owed[c] \subseteq issued
    /\ gone \subseteq Agents /\ barred \subseteq Calls
    /\ faults \in 0..MaxFaults
-----------------------------------------------------------------------------
Goto(c, step) == pc' = [pc EXCEPT ![c] = step]

RevokingSteps == {"revokeReceipt", "list", "cascade", "mark", "notify"}

Init ==
    /\ pc = [c \in Calls |-> "idle"]
    /\ live = InitialLive /\ revokedBefore = {}
    /\ revokedAgents = {}
    /\ registers = [a \in Agents |-> IF a \in InitialLive THEN 1 ELSE 0]
    /\ revokes = [a \in Agents |-> 0]
    /\ denials = [a \in Agents |-> 0]
    /\ issued = {} /\ capRevoked = {}
    /\ todo = [c \in Calls |-> {}]
    /\ notified = {} /\ dropped = {}
    /\ items = [c \in Calls |-> 0]
    /\ owed = [c \in Calls |-> {}]
    /\ gone = {} /\ barred = {}
    /\ faults = 0
-----------------------------------------------------------------------------
(* Mutants. *)
RevokePassport_KeepsLive(c) ==
    /\ pc[c] = "handler" /\ Kind[c] \in {"revoke", "operator"}
    /\ Target[c] \in live
    /\ revokedBefore' = revokedBefore \cup {Target[c]}
    /\ gone' = gone \cup {Target[c]}
    /\ Goto(c, "revokeReceipt")
    /\ UNCHANGED <<live, revokedAgents, auditVars, capVars, streamVars, barred, faults>>
RevokeReceiptFails_MarksAnyway(c) ==
    /\ pc[c] = "revokeReceipt" /\ faults < MaxFaults
    /\ faults' = faults + 1
    /\ Goto(c, "mark")
    /\ UNCHANGED <<storeVars, revokedAgents, auditVars, capVars, streamVars, barVars>>
StreamClosed_OnlyWhenParked(c) ==
    /\ pc[c] = "parked" /\ c \in dropped
    /\ Goto(c, "closed")
    /\ UNCHANGED <<storeVars, revokedAgents, auditVars, capVars, notified, dropped, items,
                   barVars, faults>>
CascadeRevoke_SkipsLast(c, k) ==
    /\ pc[c] = "cascade" /\ k \in todo[c]
    /\ capRevoked' = capRevoked \cup (IF Cardinality(todo[c]) = 1 THEN {} ELSE {k})
    /\ todo' = [todo EXCEPT ![c] = @ \ {k}]
    /\ UNCHANGED <<pc, storeVars, revokedAgents, auditVars, issued, owed, streamVars, barVars,
                   faults>>
-----------------------------------------------------------------------------
(* require_active_bearer_auth: revoked-set, passport, revoked-set again.   *)

Peek(c) ==
    /\ pc[c] = "idle" /\ Kind[c] \in {"unary", "subscribe", "revoke"}
    /\ Goto(c, IF Target[c] \in revokedAgents THEN "rejected" ELSE "resolve")
    /\ barred' = IF Target[c] \in gone THEN barred \cup {c} ELSE barred
    /\ UNCHANGED <<storeVars, revokedAgents, auditVars, capVars, streamVars, gone, faults>>

Resolve(c) ==
    /\ pc[c] = "resolve"
    /\ Goto(c, IF Target[c] \in live THEN "recheck" ELSE "rejected")
    /\ UNCHANGED <<storeVars, revokedAgents, auditVars, capVars, streamVars, barVars, faults>>

Recheck(c) ==
    /\ pc[c] = "recheck"
    /\ Goto(c, IF Target[c] \in revokedAgents THEN "rejected" ELSE "handler")
    /\ UNCHANGED <<storeVars, revokedAgents, auditVars, capVars, streamVars, barVars, faults>>

\* require_operator_bearer_auth asks nothing of the registry.
OperatorAuth(c) ==
    /\ pc[c] = "idle" /\ Kind[c] = "operator"
    /\ Goto(c, "handler")
    /\ UNCHANGED <<storeVars, revokedAgents, auditVars, capVars, streamVars, barVars, faults>>

\* Any other authenticated unary RPC runs to its end.
Unary(c) ==
    /\ pc[c] = "handler" /\ Kind[c] = "unary"
    /\ Goto(c, "done")
    /\ UNCHANGED <<storeVars, revokedAgents, auditVars, capVars, streamVars, barVars, faults>>
-----------------------------------------------------------------------------
(* MemoryRegistry::register.                                               *)

\* The self-signature, the swarm, the admission policy and the attestor are
\* asked in turn; which of them refuses is the environment's choice.  Only a
\* refusal by the attestor leaves a receipt, and its append may fail unseen.
Attest(c) ==
    /\ pc[c] = "idle" /\ Kind[c] = "register"
    /\ \/ Goto(c, "persist") /\ UNCHANGED denials
       \/ /\ Goto(c, "denied")
          /\ \/ denials' = [denials EXCEPT ![Target[c]] = @ + 1]
             \/ UNCHANGED denials
       \/ Goto(c, "unavailable") /\ UNCHANGED denials
    /\ UNCHANGED <<storeVars, revokedAgents, registers, revokes, capVars, streamVars, barVars,
                   faults>>

\* MemoryPassportStore::register refuses a live agent, and lets a revoked one
\* come back.
Persist(c) ==
    /\ pc[c] = "persist"
    /\ IF Target[c] \in live
       THEN Goto(c, "failed") /\ UNCHANGED <<live, barVars>>
       ELSE /\ live' = live \cup {Target[c]}
            /\ gone' = gone \ {Target[c]}
            /\ barred' = {d \in barred : Target[d] # Target[c]}
            /\ Goto(c, "registerReceipt")
    /\ UNCHANGED <<revokedBefore, revokedAgents, auditVars, capVars, streamVars, faults>>

RegisterReceipt(c) ==
    /\ pc[c] = "registerReceipt"
    /\ registers' = [registers EXCEPT ![Target[c]] = @ + 1]
    /\ Goto(c, "done")
    /\ UNCHANGED <<storeVars, revokedAgents, revokes, denials, capVars, streamVars, barVars,
                   faults>>

\* The append fails: the passport stays live.
RegisterReceiptFails(c) ==
    /\ pc[c] = "registerReceipt" /\ faults < MaxFaults
    /\ faults' = faults + 1
    /\ Goto(c, "failed")
    /\ UNCHANGED <<storeVars, revokedAgents, auditVars, capVars, streamVars, barVars>>
-----------------------------------------------------------------------------
(* Revoke and OperatorRevoke.                                              *)

\* MemoryPassportStore::revoke.
RevokePassport(c) ==
    /\ pc[c] = "handler" /\ Kind[c] \in {"revoke", "operator"}
    /\ Target[c] \in live
    /\ live' = live \ {Target[c]}
    /\ revokedBefore' = revokedBefore \cup {Target[c]}
    /\ owed' = [owed EXCEPT ![c] = {k \in issued : Subject[k] = Target[c]}]
    /\ gone' = gone \cup {Target[c]}
    /\ Goto(c, "revokeReceipt")
    /\ UNCHANGED <<revokedAgents, auditVars, issued, capRevoked, todo, streamVars, barred,
                   faults>>

RevokeNotFound(c) ==
    /\ pc[c] = "handler" /\ Kind[c] \in {"revoke", "operator"}
    /\ Target[c] \notin live
    /\ Goto(c, "notfound")
    /\ UNCHANGED <<storeVars, revokedAgents, auditVars, capVars, streamVars, barVars, faults>>

RevokeReceipt(c) ==
    /\ pc[c] = "revokeReceipt"
    /\ revokes' = [revokes EXCEPT ![Target[c]] = @ + 1]
    /\ Goto(c, IF c \in Cascade THEN "list" ELSE "mark")
    /\ UNCHANGED <<storeVars, revokedAgents, registers, denials, capVars, streamVars, barVars,
                   faults>>

RevokeReceiptFails(c) ==
    /\ pc[c] = "revokeReceipt" /\ faults < MaxFaults
    /\ faults' = faults + 1
    /\ Goto(c, "failed")
    /\ UNCHANGED <<storeVars, revokedAgents, auditVars, capVars, streamVars, barVars>>

\* list_for_subject.
ListCaps(c) ==
    /\ pc[c] = "list"
    /\ todo' = [todo EXCEPT ![c] = {k \in issued \ capRevoked : Subject[k] = Target[c]}]
    /\ Goto(c, "cascade")
    /\ UNCHANGED <<storeVars, revokedAgents, auditVars, issued, capRevoked, owed, streamVars,
                   barVars, faults>>

\* MemoryCapabilityStore::revoke marks the capability, then appends.
CascadeRevoke(c, k) ==
    /\ pc[c] = "cascade" /\ k \in todo[c]
    /\ capRevoked' = capRevoked \cup {k}
    /\ todo' = [todo EXCEPT ![c] = @ \ {k}]
    /\ UNCHANGED <<pc, storeVars, revokedAgents, auditVars, issued, owed, streamVars, barVars,
                   faults>>

\* The append fails: the capability is revoked, the rest of the handler, the
\* marking included, is skipped.
CascadeFails(c, k) ==
    /\ pc[c] = "cascade" /\ k \in todo[c] /\ faults < MaxFaults
    /\ faults' = faults + 1
    /\ capRevoked' = capRevoked \cup {k}
    /\ Goto(c, "failed")
    /\ UNCHANGED <<storeVars, revokedAgents, auditVars, issued, todo, owed, streamVars, barVars>>

CascadeDone(c) ==
    /\ pc[c] = "cascade" /\ todo[c] = {}
    /\ Goto(c, "mark")
    /\ UNCHANGED <<storeVars, revokedAgents, auditVars, capVars, streamVars, barVars, faults>>

\* mark_revoked: first the set, then notify_waiters, which reaches the
\* forwarders parked in their select! and no others.
MarkRevoked(c) ==
    /\ pc[c] = "mark"
    /\ revokedAgents' = revokedAgents \cup {Target[c]}
    /\ Goto(c, "notify")
    /\ UNCHANGED <<storeVars, auditVars, capVars, streamVars, barVars, faults>>

NotifyStreams(c) ==
    /\ pc[c] = "notify"
    /\ notified' = notified \cup {d \in Calls : pc[d] = "parked" /\ Target[d] = Target[c]}
    /\ Goto(c, "done")
    /\ UNCHANGED <<storeVars, revokedAgents, auditVars, capVars, dropped, items,
                   barVars, faults>>

\* The capability services mint a capability for some agent.
IssueCap(k) ==
    /\ k \notin issued
    /\ issued' = issued \cup {k}
    /\ UNCHANGED <<pc, storeVars, revokedAgents, auditVars, capRevoked, todo, owed, streamVars,
                   barVars, faults>>
-----------------------------------------------------------------------------
(* EnvelopeService.Subscribe and the forwarder task it spawns.             *)

OpenStream(c) ==
    /\ pc[c] = "handler" /\ Kind[c] = "subscribe"
    /\ Goto(c, "signal")
    /\ UNCHANGED <<storeVars, revokedAgents, auditVars, capVars, streamVars, barVars, faults>>

\* revocation_signal_for, then tokio::spawn.
GetSignal(c) ==
    /\ pc[c] = "signal"
    /\ Goto(c, "spawned")
    /\ UNCHANGED <<storeVars, revokedAgents, auditVars, capVars, streamVars, barVars, faults>>

\* The select! is entered: a fresh notified() future.
Park(c) ==
    /\ pc[c] = "spawned"
    /\ Goto(c, "parked")
    /\ UNCHANGED <<storeVars, revokedAgents, auditVars, capVars, streamVars, barVars, faults>>

TakeItem(c) ==
    /\ pc[c] = "parked" /\ c \notin notified /\ c \notin dropped
    /\ items[c] < MaxItems
    /\ items' = [items EXCEPT ![c] = @ + 1]
    /\ Goto(c, "sending")
    /\ UNCHANGED <<storeVars, revokedAgents, auditVars, capVars, notified, dropped, barVars,
                   faults>>

\* tx.send waits for the client to make room.
SendItem(c) ==
    /\ pc[c] = "sending" /\ c \notin dropped
    /\ Goto(c, "spawned")
    /\ UNCHANGED <<storeVars, revokedAgents, auditVars, capVars, notified, dropped, items,
                   barVars, faults>>

\* The revocation branch: one UNAUTHENTICATED frame, then the end.
TearDown(c) ==
    /\ \/ pc[c] = "parked" /\ c \in notified /\ c \notin dropped /\ Goto(c, "tearing")
       \/ pc[c] = "tearing" /\ Goto(c, "closed")
    /\ UNCHANGED <<storeVars, revokedAgents, auditVars, capVars, streamVars, barVars, faults>>

DropStream(c) ==
    /\ pc[c] \in {"spawned", "parked", "sending", "tearing"} /\ c \notin dropped
    /\ dropped' = dropped \cup {c}
    /\ UNCHANGED <<pc, storeVars, revokedAgents, auditVars, capVars, notified, items,
                   barVars, faults>>

\* tx.closed() in the select!, or tx.send failing.
StreamClosed(c) ==
    /\ pc[c] \in {"parked", "sending"} /\ c \in dropped
    /\ Goto(c, "closed")
    /\ UNCHANGED <<storeVars, revokedAgents, auditVars, capVars, notified, dropped, items,
                   barVars, faults>>
-----------------------------------------------------------------------------
Authenticating(c) == Peek(c) \/ Resolve(c) \/ Recheck(c) \/ OperatorAuth(c)

Registering(c) == Attest(c) \/ Persist(c) \/ RegisterReceipt(c) \/ RegisterReceiptFails(c)

Revoking(c) ==
    \/ RevokePassport(c) \/ RevokeNotFound(c) \/ RevokeReceipt(c) \/ RevokeReceiptFails(c)
    \/ ListCaps(c) \/ CascadeDone(c) \/ MarkRevoked(c) \/ NotifyStreams(c)
    \/ \E k \in Caps : CascadeRevoke(c, k) \/ CascadeFails(c, k)

Streaming(c) ==
    OpenStream(c) \/ GetSignal(c) \/ Park(c) \/ SendItem(c) \/ TearDown(c) \/ StreamClosed(c)

Next ==
    \/ \E c \in Calls : \/ Authenticating(c) \/ Unary(c) \/ Registering(c) \/ Revoking(c)
                        \/ Streaming(c) \/ TakeItem(c) \/ DropStream(c)
    \/ \E k \in Caps : IssueCap(k)

Spec == Init /\ [][Next]_vars

\* Started handlers and spawned tasks keep being polled, and clients that keep
\* their stream open read it.
Fairness == \A c \in Calls : WF_vars(Streaming(c)) /\ WF_vars(Revoking(c))

FairSpec == Spec /\ Fairness
-----------------------------------------------------------------------------
Quiet == \A c \in Calls : pc[c] \notin RevokingSteps \cup {"registerReceipt"}

(***************************************************************************)
(* BarredStayOut: an RPC that begins after its agent's passport was        *)
(* revoked does not get past authentication, at any point of the           *)
(* eviction's remaining steps, one of which may fail, and whatever the     *)
(* receipts and the cascade do; unless the agent registers again           *)
(* (auth.rs require_active_bearer_auth, grpc/admission.rs).                *)
(***************************************************************************)
BarredStayOut == \A c \in barred : pc[c] \in {"resolve", "rejected"}

(***************************************************************************)
(* ReceiptsAccount: the revoked-set holds nobody whose eviction is not on  *)
(* record, so it can be rebuilt from the receipts (grpc/mod.rs:89 "State   *)
(* is rebuilt from receipts at startup").  And as long as no append fails, *)
(* whenever no call is between a change of the passport store and its      *)
(* receipt, the receipts tell who is in the swarm: one more agent.register *)
(* than revocations for a live agent, as many for any other                *)
(* (registry/memory.rs).                                                   *)
(***************************************************************************)
ReceiptsAccount ==
    /\ \A a \in revokedAgents : revokes[a] > 0
    /\ (faults = 0 /\ Quiet) =>
          \A a \in Agents : registers[a] = revokes[a] + (IF a \in live THEN 1 ELSE 0)

(***************************************************************************)
(* CascadeTakesHeld: an OperatorRevoke with cascade gets to marking its    *)
(* target only with every capability revoked that the target held when the *)
(* eviction began, whatever is issued or revoked meanwhile                 *)
(* (grpc/admission.rs operator_revoke).                                    *)
(***************************************************************************)
CascadeTakesHeld ==
    \A c \in Cascade : pc[c] \in {"mark", "notify", "done"} => owed[c] \subseteq capRevoked

(***************************************************************************)
(* DroppedStreamsEnd: the forwarder task of a stream the client dropped    *)
(* ends, wherever it was when that happened (grpc/envelope.rs:1090-1105).  *)
(***************************************************************************)
DroppedStreamsEnd ==
    \A c \in {d \in Calls : Kind[d] = "subscribe"} : c \in dropped ~> pc[c] = "closed"

(***************************************************************************)
(* RevokedStreamsEnd: RFC 0009 section 3.3, "Any in-flight                 *)
(* `EnvelopeService.Subscribe` stream from the revoked agent MUST be torn  *)
(* down promptly": once the agent is marked revoked every stream of it     *)
(* ends.                                                                   *)
(***************************************************************************)
RevokedStreamsEnd ==
    \A c \in {d \in Calls : Kind[d] = "subscribe"} :
        Target[c] \in revokedAgents ~> pc[c] \in {"idle", "rejected", "closed"}
=============================================================================
