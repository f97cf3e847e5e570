------------------------- MODULE ControlPlaneProofs -------------------------
(***************************************************************************)
(* Proofs about ControlPlane and the Attestor it extends, for any number   *)
(* of registrations, key sets, command lines, ticks and rotations.         *)
(*                                                                         *)
(* The properties speak of the end of a verification, of a registration    *)
(* or of the startup; IInv says what is known before: who holds the        *)
(* refresh mutex and how old its fetch can be (FetchInv), what a           *)
(* verification has checked so far (CallInv), and what main() has          *)
(* established at each stage (PlaneInv, ReplyInv).                         *)
(***************************************************************************)
EXTENDS ControlPlane, TLAPS

Locked == {"fetch", "reply", "stamp"}
Missing == {"missed", "wait", "retry"} \cup Locked
Locations == {"off", "begin", "fresh", "lookup", "decode", "spawned"} \cup Missing
Verdicts == {"pending", "accepted", "rejected", "malformed", "unknown_kid", "unavailable"}

Unregistered == {"flags", "store", "attestor", "signer", "passport"}
Audited == {"anchor", "serve", "serving"}
Stages == Unregistered \cup {"bootstrap", "failed"} \cup Audited
Replies == {"none", "attesting", "unavailable", "denied", "persisted", "registered",
            "not_appended", "refused"}

CallRecord == [before : Nat, checked : Nat, stored : Nat, missed : Nat]

AttestorTypeOK ==
    /\ deployed \in Kinds
    /\ now \in Nat /\ issuer \in Nat
    /\ cache \in [set : Nat, at : Nat, refreshes : Nat, stored : Nat]
    /\ healthy \in BOOLEAN
    /\ lock \in Tasks \cup {None}
    /\ task \in [Tasks -> [pc : Locations, got : Nat]]
    /\ call \in [Calls -> CallRecord]
    /\ verdict \in [Calls -> Verdicts]

PlaneTypeOK ==
    /\ deployment \in Deployments
    /\ stage \in Stages
    /\ kms \in Nat /\ public \in Nat /\ passport \in Nat
    /\ passports \subseteq Calls
    /\ receipts \subseteq ({"register", "deny"} \X Calls \X Nat)
    /\ reply \in [Calls -> Replies]

TypeOK == AttestorTypeOK /\ PlaneTypeOK

\* The cache is no newer than the issuer, nor stamped later than it is written.
CacheInv ==
    /\ cache.set <= issuer
    /\ cache.at <= cache.stored
    /\ cache.stored <= now

\* Between its fetch and its last write a task holds the mutex, so that what it has
\* fetched is at least as new as what is cached.
FetchInv(t) ==
    /\ task[t].pc \in Locked => lock = t /\ deployed = "oidc"
    /\ task[t].pc = "reply" => cache.set <= task[t].got /\ task[t].got <= issuer

\* What a verification has established on its way.
CallInv(c) ==
    /\ task[V(c)].pc \in {"begin", "fresh"} => task[B(c)].pc = "off"
    /\ task[V(c)].pc \in Missing \/ task[B(c)].pc = "spawned" => deployed = "oidc"
    /\ task[V(c)].pc # "off" => verdict[c] = "pending" /\ reply[c] = "attesting"
    /\ reply[c] = "none" =>
          verdict[c] = "pending" /\ task[V(c)].pc = "off" /\ task[B(c)].pc = "off"

\* The misses it has seen, against the refreshes that have completed.
MissInv(c) ==
    /\ task[V(c)].pc \in Missing => call[c].missed <= cache.refreshes
    /\ task[V(c)].pc = "wait" => /\ call[c].missed <= call[c].before
                                 /\ call[c].before <= cache.refreshes
    /\ task[V(c)].pc = "retry" => call[c].missed < cache.refreshes
    /\ deployed = "oidc" /\ verdict[c] = "unknown_kid" => call[c].missed < cache.refreshes

\* The age of the keys it uses.
AgeInv(c) ==
    deployed \in Limited \cap (Network \cup Static) =>
        /\ task[V(c)].pc \in {"lookup"} \cup Missing =>
              call[c].checked <= cache.stored + MaxStaleness
        /\ task[V(c)].pc = "decode" \/ verdict[c] = "accepted" =>
              call[c].checked <= call[c].stored + MaxStaleness

AttestorInv ==
    /\ CacheInv
    /\ \A t \in Tasks : FetchInv(t)
    /\ \A c \in Calls : CallInv(c) /\ MissInv(c) /\ AgeInv(c)

\* What main() has checked by the time it reaches a stage.
PlaneInv ==
    /\ stage \in Unregistered => \A c \in Calls : reply[c] = "none"
    /\ stage \in Audited \cup {"bootstrap"} => passport = public
    /\ deployment.binary =>
          /\ stage \notin {"flags", "failed"} =>
                Bad \notin {from_seed_hex(cli.given), parse_operator_public_key(cli.given),
                            resolve_anchor_config(cli.given),
                            workload_extension_by_name(cli.given)}
          /\ stage \notin {"flags", "store", "failed"} =>
                (cli.backend = "postgres" => "postgres_url" \in cli.given)
          /\ stage \notin {"flags", "store", "attestor", "failed"} => AttestorArg(cli) # Bad
          /\ stage \in {"passport", "bootstrap"} \cup Audited => SignerArg(cli) # Bad
          /\ stage \in Audited => reply[Boot] = "registered"
          /\ receipts # {} => ~RefusedEarly(cli)

\* What a registration leaves behind.
ReplyInv(c) ==
    /\ reply[c] # "none" => passport = public
    /\ reply[c] # "none" /\ deployment.binary => ~RefusedEarly(cli)
    /\ reply[c] \in {"persisted", "registered"} => c \in passports
    /\ reply[c] = "registered" => <<"register", c, passport>> \in receipts

RegistryInv == PlaneInv /\ \A c \in Calls : ReplyInv(c)

IInv == TypeOK /\ AttestorInv /\ RegistryInv
-----------------------------------------------------------------------------

\* Every registration has its two tasks, all of them different, and none is None.
LEMMA TaskFacts ==
    /\ \A c \in Calls : V(c) \in Tasks /\ B(c) \in Tasks
    /\ \A c, d \in Calls : V(c) # B(d) /\ (V(c) = V(d) => c = d) /\ (B(c) = B(d) => c = d)
    /\ \A t \in Tasks : \E c \in Calls : t = V(c) \/ t = B(c)
    /\ \A c \in Calls : /\ V(c)[1] = c /\ V(c)[2] = "verify"
                        /\ B(c)[1] = c /\ B(c)[2] = "background"
    /\ None \notin Tasks
  BY DEF V, B, Tasks, None

\* What Goto does to the task it moves and to the others.
LEMMA GotoFacts ==
    ASSUME AttestorTypeOK, NEW t \in Tasks, NEW step \in Locations, Goto(t, step)
    PROVE  /\ task' \in [Tasks -> [pc : Locations, got : Nat]]
           /\ task'[t].pc = step /\ task'[t].got = task[t].got
           /\ \A u \in Tasks : u # t => task'[u] = task[u]
  BY DEF AttestorTypeOK, Goto

\* What Return does to the verdict of its call and to the others.
LEMMA ReturnFacts ==
    ASSUME AttestorTypeOK, NEW c \in Calls, NEW v \in Verdicts, Return(c, v)
    PROVE  /\ verdict' \in [Calls -> Verdicts]
           /\ verdict'[c] = v
           /\ \A d \in Calls : d # c => verdict'[d] = verdict[d]
  BY DEF AttestorTypeOK, Return

\* A record whose one field is set keeps its others.
LEMMA CallRecordFacts ==
    ASSUME NEW r \in CallRecord, NEW n \in Nat
    PROVE  /\ [r EXCEPT !.before = n] \in CallRecord
           /\ [r EXCEPT !.checked = n] \in CallRecord
           /\ [r EXCEPT !.stored = n] \in CallRecord
           /\ [r EXCEPT !.missed = n] \in CallRecord
  BY DEF CallRecord

\* What a call remembers is set for that call alone.
LEMMA CallFacts ==
    ASSUME AttestorTypeOK, NEW c \in Calls, NEW r \in CallRecord, call' = [call EXCEPT ![c] = r]
    PROVE  /\ call' \in [Calls -> CallRecord]
           /\ call'[c] = r
           /\ \A d \in Calls : d # c => call'[d] = call[d]
  BY DEF AttestorTypeOK

\* An error class is a verdict, and only a credential without a flaw is accepted, or one
\* that lacks nothing but iat where that is no flaw.
LEMMA VerdictFacts ==
    ASSUME NEW flaw \in Flaws
    PROVE  /\ Verdict(flaw) \in {"accepted", "rejected", "malformed"}
           /\ Verdict(flaw) = "accepted" => flaw \in {"none", "iat"}
<1>1. /\ map_oidc_error(flaw) \in {"accepted", "rejected", "malformed"}
      /\ map_oidc_error(flaw) = "accepted" => flaw = "none"
  BY DEF map_oidc_error, Flaws
<1>2. map_spiffe_error(flaw) = "accepted" => flaw \in {"none", "iat"}
  BY <1>1 DEF map_spiffe_error
<1> QED
  BY <1>1, <1>2 DEF Verdict, map_spiffe_error
-----------------------------------------------------------------------------

\* Startup begins with an empty cache and without registrations.
LEMMA InitIInv == Init => IInv
<1> SUFFICES ASSUME Init PROVE IInv
  OBVIOUS
<1> USE TaskFacts
<1>1. AttestorTypeOK
  BY DEF Init, AttestorInit, AttestorTypeOK, CallRecord, Kinds, Locations, Verdicts
<1>2. PlaneTypeOK
  BY ControlPlaneAssumption DEF Init, PlaneTypeOK, Stages, Unregistered, Replies
<1>3. AttestorInv
  BY DEF Init, AttestorInit, AttestorInv, CacheInv, FetchInv, CallInv, MissInv, AgeInv,
         Locked, Missing
<1>4. RegistryInv
  BY DEF Init, AttestorInit, RegistryInv, PlaneInv, ReplyInv, Unregistered, Audited
<1> QED
  BY <1>1, <1>2, <1>3, <1>4 DEF IInv, TypeOK

\* The parts of the invariant about main() and the registry speak of nothing an
\* attestor changes.
LEMMA AttestorLeavesRegistry ==
    ASSUME PlaneTypeOK, RegistryInv, UNCHANGED <<planeVars, registryVars>>
    PROVE  PlaneTypeOK' /\ RegistryInv'
  BY DEF PlaneTypeOK, RegistryInv, PlaneInv, ReplyInv, planeVars, registryVars, cli, signer
-----------------------------------------------------------------------------

\* A verification that ends with a verdict it may return at this point.
LEMMA ReturnStep ==
    ASSUME AttestorTypeOK, AttestorInv, NEW c \in Calls, NEW v \in Verdicts \ {"pending"},
           task[V(c)].pc \notin {"off"} \cup Locked,
           deployed = "oidc" /\ v = "unknown_kid" => call[c].missed < cache.refreshes,
           deployed \in Limited \cap (Network \cup Static) /\ v = "accepted" =>
               call[c].checked <= call[c].stored + MaxStaleness,
           Return(c, v), Goto(V(c), "off"), UNCHANGED <<cacheVars, call, reply>>
    PROVE  AttestorTypeOK' /\ AttestorInv'
<1> USE TaskFacts
<1> UNCHANGED <<deployed, now, issuer, cache, healthy, lock>>
  BY DEF cacheVars
<1>1. /\ task' \in [Tasks -> [pc : Locations, got : Nat]]
      /\ task'[V(c)].pc = "off" /\ task'[V(c)].got = task[V(c)].got
      /\ \A u \in Tasks : u # V(c) => task'[u] = task[u]
  BY GotoFacts DEF Locations
<1>2. /\ verdict' \in [Calls -> Verdicts]
      /\ verdict'[c] = v
      /\ \A d \in Calls : d # c => verdict'[d] = verdict[d]
  BY ReturnFacts
<1>3. AttestorTypeOK'
  BY <1>1, <1>2 DEF AttestorTypeOK
<1>4. CacheInv'
  BY DEF AttestorInv, CacheInv
<1>5. ASSUME NEW t \in Tasks PROVE FetchInv(t)'
  BY <1>1 DEF AttestorInv, FetchInv, Locked
<1>6. ASSUME NEW d \in Calls PROVE CallInv(d)'
  BY <1>1, <1>2 DEF AttestorInv, CallInv, Missing, Locked
<1>7. ASSUME NEW d \in Calls PROVE MissInv(d)'
  BY <1>1, <1>2 DEF AttestorInv, MissInv, Missing, Locked
<1>8. ASSUME NEW d \in Calls PROVE AgeInv(d)'
  BY <1>1, <1>2 DEF AttestorInv, AgeInv, Missing, Locked
<1> QED
  BY <1>3, <1>4, <1>5, <1>6, <1>7, <1>8 DEF AttestorInv

\* The checks before the keys are looked up.
LEMMA CheckFirstStep ==
    ASSUME AttestorTypeOK, AttestorInv, NEW c \in Calls, UNCHANGED reply,
           NEW first \in SUBSET {"empty", "encoding", "header"}, CheckFirst(c, first)
    PROVE  AttestorTypeOK' /\ AttestorInv'
<1> USE TaskFacts
<1>1. CASE Flaw[c] \in first
  <2>1. Verdict(Flaw[c]) \in {"rejected", "malformed"}
    BY <1>1, VerdictFacts, AttestorAssumption DEF Flaws
  <2>2. Return(c, Verdict(Flaw[c])) /\ Goto(V(c), "off") /\ task[V(c)].pc = "begin"
    BY <1>1 DEF CheckFirst
  <2> QED
    BY <2>1, <2>2, ReturnStep DEF CheckFirst, Verdicts, Locked
<1>2. CASE Flaw[c] \notin first
  <2> UNCHANGED <<deployed, now, issuer, cache, healthy, lock, call, verdict>>
    BY <1>2 DEF CheckFirst, cacheVars
  <2>1. task[V(c)].pc = "begin" /\ Goto(V(c), "fresh")
    BY <1>2 DEF CheckFirst
  <2>2. /\ task' \in [Tasks -> [pc : Locations, got : Nat]]
        /\ task'[V(c)].pc = "fresh" /\ task'[V(c)].got = task[V(c)].got
        /\ \A u \in Tasks : u # V(c) => task'[u] = task[u]
    BY <2>1, GotoFacts DEF Locations
  <2>3. AttestorTypeOK'
    BY <2>2 DEF AttestorTypeOK
  <2>4. CacheInv' /\ \A t \in Tasks : FetchInv(t)'
    BY <2>1, <2>2 DEF AttestorInv, CacheInv, FetchInv, Locked
  <2>5. ASSUME NEW d \in Calls PROVE CallInv(d)' /\ MissInv(d)' /\ AgeInv(d)'
    BY <2>1, <2>2 DEF AttestorInv, CallInv, MissInv, AgeInv, Missing, Locked
  <2> QED
    BY <2>3, <2>4, <2>5 DEF AttestorInv
<1> QED
  BY <1>1, <1>2

\* assert_fresh lets a verification pass only while the stamp is recent, and the keys
\* are at least as recent as the stamp.
LEMMA AssertFreshStep ==
    ASSUME AttestorTypeOK, AttestorInv, NEW c \in Calls, UNCHANGED reply, assert_fresh(c)
    PROVE  AttestorTypeOK' /\ AttestorInv'
<1> USE TaskFacts
<1> DEFINE stale == IF deployed \in Spiffe THEN spiffe_stale ELSE oidc_stale
<1>1. task[V(c)].pc = "fresh" /\ UNCHANGED cacheVars
  BY DEF assert_fresh
<1>2. CASE stale
  <2>1. Return(c, "unavailable") /\ Goto(V(c), "off") /\ UNCHANGED call
    BY <1>2 DEF assert_fresh
  <2> QED
    BY <1>1, <2>1, ReturnStep DEF Verdicts, Locked
<1>3. CASE ~stale
  <2> UNCHANGED <<deployed, now, issuer, cache, healthy, lock, verdict>>
    BY <1>3 DEF assert_fresh, cacheVars
  <2>1. /\ task' = [task EXCEPT ![V(c)].pc = "lookup",
                                ![B(c)].pc = IF PastTtl THEN "spawned" ELSE @]
        /\ call' = [call EXCEPT ![c].checked = now]
    BY <1>3 DEF assert_fresh
  <2>2. /\ task' \in [Tasks -> [pc : Locations, got : Nat]]
        /\ task'[V(c)].pc = "lookup"
        /\ task'[B(c)].pc = IF PastTtl THEN "spawned" ELSE task[B(c)].pc
        /\ \A u \in Tasks : u \notin {V(c), B(c)} => task'[u] = task[u]
    <3> DEFINE looking == [task EXCEPT ![V(c)].pc = "lookup"]
    <3>1. /\ looking \in [Tasks -> [pc : Locations, got : Nat]]
          /\ looking[V(c)].pc = "lookup"
          /\ \A u \in Tasks : u # V(c) => looking[u] = task[u]
      BY DEF AttestorTypeOK, Locations
    <3> DEFINE step == IF PastTtl THEN "spawned" ELSE task[B(c)].pc
    <3>2. step \in Locations
      BY DEF AttestorTypeOK, Locations
    <3>3. task' = [looking EXCEPT ![B(c)] = [looking[B(c)] EXCEPT !.pc = step]]
      BY <2>1, <3>1
    <3>4. /\ [looking[B(c)] EXCEPT !.pc = step] \in [pc : Locations, got : Nat]
          /\ [looking[B(c)] EXCEPT !.pc = step].pc = step
      BY <3>1, <3>2
    <3> HIDE DEF looking, step
    <3>5. task'[B(c)].pc = step /\ task'[V(c)].pc = "lookup"
      BY <3>1, <3>3, <3>4
    <3> QED
      BY <3>1, <3>3, <3>4, <3>5 DEF step
  <2>3. /\ call' \in [Calls -> CallRecord]
        /\ call'[c].checked = now
        /\ \A d \in Calls : d # c => call'[d] = call[d]
    <3>1. call[c] \in CallRecord /\ call' = [call EXCEPT ![c] = [call[c] EXCEPT !.checked = now]]
      BY <2>1 DEF AttestorTypeOK
    <3>2. [call[c] EXCEPT !.checked = now].checked = now
      BY <3>1 DEF CallRecord
    <3>3. [call[c] EXCEPT !.checked = now] \in CallRecord
      BY <3>1, CallRecordFacts DEF AttestorTypeOK
    <3> QED
      BY <3>1, <3>2, <3>3, CallFacts
  <2>4. task[B(c)].pc = "off"
    BY <1>1 DEF AttestorInv, CallInv
  <2>5. deployed \in Limited \cap (Network \cup Static) => now <= cache.stored + MaxStaleness
    BY <1>3, AttestorAssumption
    DEF AttestorTypeOK, AttestorInv, CacheInv, Network, Static, Spiffe, spiffe_stale, oidc_stale, TooOld
  <2>6. AttestorTypeOK'
    BY <2>2, <2>3 DEF AttestorTypeOK
  <2>7. CacheInv' /\ \A t \in Tasks : FetchInv(t)'
    BY <1>1, <2>2, <2>4 DEF AttestorInv, CacheInv, FetchInv, Locked
  <2>8. ASSUME NEW d \in Calls PROVE CallInv(d)'
    BY <1>1, <2>2, <2>4 DEF AttestorInv, CallInv, Missing, Locked, PastTtl, Network
  <2>9. ASSUME NEW d \in Calls PROVE MissInv(d)' /\ AgeInv(d)'
    <3>1. CASE d # c
      <4>1. task'[V(d)] = task[V(d)] /\ call'[d] = call[d]
        BY <2>2, <2>3, <3>1
      <4> QED
        BY <4>1 DEF AttestorInv, MissInv, AgeInv
    <3>2. CASE d = c
      BY <1>1, <2>2, <2>3, <2>5, <3>2 DEF AttestorInv, MissInv, AgeInv, CallInv, Missing, Locked
    <3> QED
      BY <3>1, <3>2
  <2> QED
    BY <2>6, <2>7, <2>8, <2>9 DEF AttestorInv
<1> QED
  BY <1>2, <1>3

\* A key that is found is used, and its age remembered.
LEMMA UseKeyStep ==
    ASSUME AttestorTypeOK, AttestorInv, NEW c \in Calls, UNCHANGED reply,
           task[V(c)].pc \in {"lookup", "retry"}, UseKey(c)
    PROVE  AttestorTypeOK' /\ AttestorInv'
<1> USE TaskFacts
<1> UNCHANGED <<deployed, now, issuer, cache, healthy, lock, verdict>>
  BY DEF UseKey, cacheVars
<1>1. /\ task' \in [Tasks -> [pc : Locations, got : Nat]]
      /\ task'[V(c)].pc = "decode" /\ task'[V(c)].got = task[V(c)].got
      /\ \A u \in Tasks : u # V(c) => task'[u] = task[u]
  BY GotoFacts DEF Locations, UseKey
<1>2. /\ call' \in [Calls -> CallRecord]
      /\ call'[c].stored = cache.stored /\ call'[c].checked = call[c].checked
      /\ \A d \in Calls : d # c => call'[d] = call[d]
  <2>1. cache.stored \in Nat
    BY DEF AttestorTypeOK
  <2>2. call[c] \in CallRecord
        /\ call' = [call EXCEPT ![c] = [call[c] EXCEPT !.stored = cache.stored]]
    BY DEF AttestorTypeOK, UseKey
  <2>3. /\ [call[c] EXCEPT !.stored = cache.stored].stored = cache.stored
        /\ [call[c] EXCEPT !.stored = cache.stored].checked = call[c].checked
    BY <2>1, <2>2 DEF CallRecord
  <2>4. [call[c] EXCEPT !.stored = cache.stored] \in CallRecord
    BY <2>1, <2>2, CallRecordFacts
  <2> QED
    BY <2>2, <2>3, <2>4, CallFacts
<1>3. AttestorTypeOK'
  BY <1>1, <1>2 DEF AttestorTypeOK
<1>4. CacheInv' /\ \A t \in Tasks : FetchInv(t)'
  BY <1>1 DEF AttestorInv, CacheInv, FetchInv, Locked
<1>5. ASSUME NEW d \in Calls PROVE CallInv(d)'
  BY <1>1 DEF AttestorInv, CallInv, Missing, Locked
<1>6. ASSUME NEW d \in Calls PROVE MissInv(d)' /\ AgeInv(d)'
  <2>1. CASE d # c
    BY <1>1, <1>2, <2>1 DEF AttestorInv, MissInv, AgeInv
  <2>2. CASE d = c
    BY <1>1, <1>2, <2>2 DEF AttestorInv, CallInv, MissInv, AgeInv, Missing, Locked
  <2> QED
    BY <2>1, <2>2
<1> QED
  BY <1>3, <1>4, <1>5, <1>6 DEF AttestorInv
-----------------------------------------------------------------------------

\* A missing key: final for a file, otherwise the number of refreshes is remembered.
LEMMA OidcLookupStep ==
    ASSUME AttestorTypeOK, AttestorInv, NEW c \in Calls, UNCHANGED reply, OidcLookup(c)
    PROVE  AttestorTypeOK' /\ AttestorInv'
<1> USE TaskFacts
<1>1. task[V(c)].pc = "lookup"
  BY DEF OidcLookup
<1>2. CASE UseKey(c)
  BY <1>1, <1>2, UseKeyStep
<1>3. CASE /\ deployed = "oidc_file"
           /\ Return(c, "unknown_kid") /\ Goto(V(c), "off") /\ UNCHANGED <<cacheVars, call>>
  BY <1>1, <1>3, ReturnStep DEF Verdicts, Locked
<1>4. CASE /\ deployed \in Network
           /\ call' = [call EXCEPT ![c].missed = cache.refreshes]
           /\ Goto(V(c), "missed")
           /\ UNCHANGED <<cacheVars, verdict>>
  <2> UNCHANGED <<deployed, now, issuer, cache, healthy, lock, verdict>>
    BY <1>4 DEF cacheVars
  <2>1. /\ task' \in [Tasks -> [pc : Locations, got : Nat]]
        /\ task'[V(c)].pc = "missed" /\ task'[V(c)].got = task[V(c)].got
        /\ \A u \in Tasks : u # V(c) => task'[u] = task[u]
    BY <1>4, GotoFacts DEF Locations, Missing
  <2>2. /\ call' \in [Calls -> CallRecord]
        /\ call'[c].missed = cache.refreshes /\ call'[c].checked = call[c].checked
        /\ \A d \in Calls : d # c => call'[d] = call[d]
    <3>1. cache.refreshes \in Nat /\ call[c] \in CallRecord
      BY DEF AttestorTypeOK
    <3>2. call' = [call EXCEPT ![c] = [call[c] EXCEPT !.missed = cache.refreshes]]
      BY <1>4 DEF AttestorTypeOK
    <3>3. /\ [call[c] EXCEPT !.missed = cache.refreshes].missed = cache.refreshes
          /\ [call[c] EXCEPT !.missed = cache.refreshes].checked = call[c].checked
      BY <3>1 DEF CallRecord
    <3>4. [call[c] EXCEPT !.missed = cache.refreshes] \in CallRecord
      BY <3>1, CallRecordFacts
    <3> QED
      BY <3>2, <3>3, <3>4, CallFacts
  <2>3. AttestorTypeOK'
    BY <2>1, <2>2 DEF AttestorTypeOK
  <2>4. CacheInv' /\ \A t \in Tasks : FetchInv(t)'
    BY <2>1 DEF AttestorInv, CacheInv, FetchInv, Locked
  <2>5. ASSUME NEW d \in Calls PROVE CallInv(d)'
    BY <1>1, <1>4, <2>1 DEF AttestorInv, CallInv, Missing, Locked, Network
  <2>6. ASSUME NEW d \in Calls PROVE MissInv(d)' /\ AgeInv(d)'
    <3>1. CASE d # c
      BY <2>1, <2>2, <3>1 DEF AttestorInv, MissInv, AgeInv
    <3>2. CASE d = c
      BY <1>1, <2>1, <2>2, <3>2
      DEF AttestorTypeOK, AttestorInv, CallInv, MissInv, AgeInv, Missing, Locked
    <3> QED
      BY <3>1, <3>2
  <2> QED
    BY <2>3, <2>4, <2>5, <2>6 DEF AttestorInv
<1> QED
  BY <1>2, <1>3, <1>4 DEF OidcLookup

\* The snapshot refresh_now takes before it waits for the mutex.
LEMMA RefreshSnapshotStep ==
    ASSUME AttestorTypeOK, AttestorInv, NEW c \in Calls, UNCHANGED reply, RefreshSnapshot(c)
    PROVE  AttestorTypeOK' /\ AttestorInv'
<1> USE TaskFacts
<1> UNCHANGED <<deployed, now, issuer, cache, healthy, lock, verdict>>
  BY DEF RefreshSnapshot, cacheVars
<1>1. task[V(c)].pc = "missed"
  BY DEF RefreshSnapshot
<1>2. /\ task' \in [Tasks -> [pc : Locations, got : Nat]]
      /\ task'[V(c)].pc = "wait" /\ task'[V(c)].got = task[V(c)].got
      /\ \A u \in Tasks : u # V(c) => task'[u] = task[u]
  BY GotoFacts DEF RefreshSnapshot, Locations, Missing
<1>3. /\ call' \in [Calls -> CallRecord]
      /\ call'[c].before = cache.refreshes
      /\ call'[c].missed = call[c].missed /\ call'[c].checked = call[c].checked
      /\ \A d \in Calls : d # c => call'[d] = call[d]
  <2>1. cache.refreshes \in Nat /\ call[c] \in CallRecord
    BY DEF AttestorTypeOK
  <2>2. call' = [call EXCEPT ![c] = [call[c] EXCEPT !.before = cache.refreshes]]
    BY DEF AttestorTypeOK, RefreshSnapshot
  <2>3. /\ [call[c] EXCEPT !.before = cache.refreshes].before = cache.refreshes
        /\ [call[c] EXCEPT !.before = cache.refreshes].missed = call[c].missed
        /\ [call[c] EXCEPT !.before = cache.refreshes].checked = call[c].checked
    BY <2>1 DEF CallRecord
  <2>4. [call[c] EXCEPT !.before = cache.refreshes] \in CallRecord
    BY <2>1, CallRecordFacts
  <2> QED
    BY <2>2, <2>3, <2>4, CallFacts
<1>4. AttestorTypeOK'
  BY <1>2, <1>3 DEF AttestorTypeOK
<1>5. CacheInv' /\ \A t \in Tasks : FetchInv(t)'
  BY <1>2 DEF AttestorInv, CacheInv, FetchInv, Locked
<1>6. ASSUME NEW d \in Calls PROVE CallInv(d)'
  BY <1>1, <1>2 DEF AttestorInv, CallInv, Missing, Locked
<1>7. ASSUME NEW d \in Calls PROVE MissInv(d)' /\ AgeInv(d)'
  <2>1. CASE d # c
    BY <1>2, <1>3, <2>1 DEF AttestorInv, MissInv, AgeInv
  <2>2. CASE d = c
    BY <1>1, <1>2, <1>3, <2>2
    DEF AttestorTypeOK, AttestorInv, CallInv, MissInv, AgeInv, Missing, Locked
  <2> QED
    BY <2>1, <2>2
<1> QED
  BY <1>4, <1>5, <1>6, <1>7 DEF AttestorInv

\* A task takes the mutex for a fetch, while nobody has it.
LEMMA LockStep ==
    ASSUME AttestorTypeOK, AttestorInv, NEW t \in Tasks, UNCHANGED reply,
           task[t].pc \in {"wait", "spawned"}, \A c \in Calls : t = V(c) => task[t].pc = "wait",
           lock = None, deployed = "oidc",
           Goto(t, "fetch"), lock' = t,
           UNCHANGED <<deployed, now, issuer, cache, healthy, call, verdict>>
    PROVE  AttestorTypeOK' /\ AttestorInv'
<1> USE TaskFacts
<1>1. /\ task' \in [Tasks -> [pc : Locations, got : Nat]]
      /\ task'[t].pc = "fetch" /\ task'[t].got = task[t].got
      /\ \A u \in Tasks : u # t => task'[u] = task[u]
  BY GotoFacts DEF Locations, Missing, Locked
<1>2. \A u \in Tasks : task[u].pc \notin Locked
  BY DEF AttestorInv, FetchInv
<1>3. AttestorTypeOK'
  BY <1>1 DEF AttestorTypeOK
<1>4. CacheInv' /\ \A u \in Tasks : FetchInv(u)'
  BY <1>1, <1>2 DEF AttestorInv, CacheInv, FetchInv, Locked
<1>5. ASSUME NEW d \in Calls PROVE CallInv(d)'
  BY <1>1 DEF AttestorInv, CallInv, Missing, Locked
<1>6. ASSUME NEW d \in Calls PROVE MissInv(d)' /\ AgeInv(d)'
  BY <1>1 DEF AttestorInv, CallInv, MissInv, AgeInv, Missing, Locked
<1> QED
  BY <1>3, <1>4, <1>5, <1>6 DEF AttestorInv

\* refresh_now with the mutex: a refresh since the snapshot is a refresh since the miss.
LEMMA RefreshLockStep ==
    ASSUME AttestorTypeOK, AttestorInv, NEW c \in Calls, UNCHANGED reply, RefreshLock(c)
    PROVE  AttestorTypeOK' /\ AttestorInv'
<1> USE TaskFacts
<1>1. task[V(c)].pc = "wait" /\ lock = None
  BY DEF RefreshLock
<1>2. deployed = "oidc"
  BY <1>1 DEF AttestorInv, CallInv, Missing
<1>3. CASE cache.refreshes = call[c].before
  BY <1>1, <1>2, <1>3, LockStep DEF RefreshLock
<1>4. CASE cache.refreshes # call[c].before
  <2> UNCHANGED <<deployed, now, issuer, cache, healthy, lock, call, verdict>>
    BY <1>4 DEF RefreshLock
  <2>1. /\ task' \in [Tasks -> [pc : Locations, got : Nat]]
        /\ task'[V(c)].pc = "retry" /\ task'[V(c)].got = task[V(c)].got
        /\ \A u \in Tasks : u # V(c) => task'[u] = task[u]
    BY <1>4, GotoFacts DEF RefreshLock, Locations, Missing
  <2>2. call[c].missed < cache.refreshes
    <3>1. MissInv(c)
      BY DEF AttestorInv
    <3>2. cache.refreshes \in Nat /\ call[c].before \in Nat /\ call[c].missed \in Nat
      BY DEF AttestorTypeOK, CallRecord
    <3> QED
      BY <1>1, <1>4, <3>1, <3>2 DEF MissInv
  <2>3. AttestorTypeOK'
    BY <2>1 DEF AttestorTypeOK
  <2>4. CacheInv' /\ \A u \in Tasks : FetchInv(u)'
    BY <2>1 DEF AttestorInv, CacheInv, FetchInv, Locked
  <2>5. ASSUME NEW d \in Calls PROVE CallInv(d)'
    BY <1>1, <1>2, <2>1 DEF AttestorInv, CallInv, Missing, Locked
  <2>6. ASSUME NEW d \in Calls PROVE MissInv(d)' /\ AgeInv(d)'
    BY <1>1, <2>1, <2>2 DEF AttestorInv, CallInv, MissInv, AgeInv, Missing, Locked
  <2> QED
    BY <2>3, <2>4, <2>5, <2>6 DEF AttestorInv
<1> QED
  BY <1>3, <1>4

\* The spawned refresh: the mutex at once, or not at all.
LEMMA SpawnStep ==
    ASSUME AttestorTypeOK, AttestorInv, NEW c \in Calls, UNCHANGED reply,
           spawn_background_refresh(c)
    PROVE  AttestorTypeOK' /\ AttestorInv'
<1> USE TaskFacts
<1>1. task[B(c)].pc = "spawned"
  BY DEF spawn_background_refresh
<1>2. deployed = "oidc"
  BY <1>1 DEF AttestorInv, CallInv
<1>3. CASE lock = None
  BY <1>1, <1>2, <1>3, LockStep DEF spawn_background_refresh
<1>4. CASE lock # None
  <2> UNCHANGED <<deployed, now, issuer, cache, healthy, lock, call, verdict>>
    BY <1>4 DEF spawn_background_refresh
  <2>1. /\ task' \in [Tasks -> [pc : Locations, got : Nat]]
        /\ task'[B(c)].pc = "off" /\ task'[B(c)].got = task[B(c)].got
        /\ \A u \in Tasks : u # B(c) => task'[u] = task[u]
    BY <1>4, GotoFacts DEF spawn_background_refresh, Locations
  <2>2. AttestorTypeOK'
    BY <2>1 DEF AttestorTypeOK
  <2>3. CacheInv' /\ \A u \in Tasks : FetchInv(u)'
    BY <2>1 DEF AttestorInv, CacheInv, FetchInv, Locked
  <2>4. ASSUME NEW d \in Calls PROVE CallInv(d)' /\ MissInv(d)' /\ AgeInv(d)'
    BY <2>1 DEF AttestorInv, CallInv, MissInv, AgeInv
  <2> QED
    BY <2>2, <2>3, <2>4 DEF AttestorInv
<1> QED
  BY <1>3, <1>4
-----------------------------------------------------------------------------

\* The answer to a fetch is the issuer's newest set, no older than the cached one.
LEMMA FetchStep ==
    ASSUME AttestorTypeOK, AttestorInv, NEW t \in Tasks, UNCHANGED reply, fetch_jwks(t)
    PROVE  AttestorTypeOK' /\ AttestorInv'
<1> USE TaskFacts
<1> UNCHANGED <<deployed, now, issuer, cache, healthy, lock, call, verdict>>
  BY DEF fetch_jwks, cacheVars
<1>1. task[t].pc = "fetch"
  BY DEF fetch_jwks
<1>2. /\ task' \in [Tasks -> [pc : Locations, got : Nat]]
      /\ task'[t].pc = "reply" /\ task'[t].got = issuer
      /\ \A u \in Tasks : u # t => task'[u] = task[u]
  BY DEF fetch_jwks, AttestorTypeOK, Locations, Missing, Locked
<1>3. AttestorTypeOK'
  BY <1>2 DEF AttestorTypeOK
<1>4. CacheInv' /\ \A u \in Tasks : FetchInv(u)'
  BY <1>1, <1>2 DEF AttestorTypeOK, AttestorInv, CacheInv, FetchInv, Locked
<1>5. ASSUME NEW d \in Calls PROVE CallInv(d)'
  BY <1>1, <1>2 DEF AttestorInv, CallInv, Missing, Locked
<1>6. ASSUME NEW d \in Calls PROVE MissInv(d)' /\ AgeInv(d)'
  BY <1>1, <1>2 DEF AttestorInv, CallInv, MissInv, AgeInv, Missing, Locked
<1> QED
  BY <1>3, <1>4, <1>5, <1>6 DEF AttestorInv

\* A fetch that fails releases the mutex, and a verification reports it.
LEMMA FetchFailsStep ==
    ASSUME AttestorTypeOK, AttestorInv, NEW t \in Tasks, UNCHANGED reply, FetchFails(t)
    PROVE  AttestorTypeOK' /\ AttestorInv'
<1> USE TaskFacts
<1> UNCHANGED <<deployed, now, issuer, cache, healthy, call>>
  BY DEF FetchFails
<1>1. task[t].pc \in {"fetch", "reply"} /\ lock' = None
  BY DEF FetchFails
<1>2. /\ task' \in [Tasks -> [pc : Locations, got : Nat]]
      /\ task'[t].pc = "off" /\ task'[t].got = task[t].got
      /\ \A u \in Tasks : u # t => task'[u] = task[u]
  BY GotoFacts DEF FetchFails, Locations
<1>3. \A u \in Tasks : u # t => task[u].pc \notin Locked
  BY <1>1 DEF AttestorInv, FetchInv, Locked
<1>4. CacheInv' /\ \A u \in Tasks : FetchInv(u)'
  BY <1>2, <1>3 DEF AttestorInv, CacheInv, FetchInv, Locked
<1>5. PICK c \in Calls : t = V(c) \/ t = B(c)
  OBVIOUS
<1>6. CASE t = V(c)
  <2>1. /\ verdict' \in [Calls -> Verdicts]
        /\ verdict'[c] = "unavailable"
        /\ \A d \in Calls : d # c => verdict'[d] = verdict[d]
    BY <1>6, ReturnFacts DEF FetchFails, Verdicts
  <2>2. AttestorTypeOK'
    BY <1>1, <1>2, <2>1 DEF AttestorTypeOK
  <2>3. ASSUME NEW d \in Calls PROVE CallInv(d)'
    BY <1>1, <1>2, <1>6, <2>1 DEF AttestorInv, CallInv, Missing, Locked
  <2>4. ASSUME NEW d \in Calls PROVE MissInv(d)' /\ AgeInv(d)'
    BY <1>1, <1>2, <1>6, <2>1 DEF AttestorInv, CallInv, MissInv, AgeInv, Missing, Locked
  <2> QED
    BY <1>4, <2>2, <2>3, <2>4 DEF AttestorInv
<1>7. CASE t = B(c)
  <2>1. verdict' = verdict
    BY <1>7 DEF FetchFails
  <2>2. AttestorTypeOK'
    BY <1>1, <1>2, <2>1 DEF AttestorTypeOK
  <2>3. ASSUME NEW d \in Calls PROVE CallInv(d)' /\ MissInv(d)' /\ AgeInv(d)'
    BY <1>1, <1>2, <1>7, <2>1 DEF AttestorInv, CallInv, MissInv, AgeInv
  <2> QED
    BY <1>4, <2>2, <2>3 DEF AttestorInv
<1> QED
  BY <1>5, <1>6, <1>7

\* The keys are written while the mutex is held, and only ever by newer ones.
LEMMA StoreKeysStep ==
    ASSUME AttestorTypeOK, AttestorInv, NEW t \in Tasks, UNCHANGED reply, StoreKeys(t)
    PROVE  AttestorTypeOK' /\ AttestorInv' /\ cache'.set >= cache.set
<1> USE TaskFacts
<1> UNCHANGED <<deployed, now, issuer, healthy, lock, call, verdict>>
  BY DEF StoreKeys
<1>1. task[t].pc = "reply" /\ cache' = [cache EXCEPT !.set = task[t].got, !.stored = now]
  BY DEF StoreKeys
<1>2. /\ task' \in [Tasks -> [pc : Locations, got : Nat]]
      /\ task'[t].pc = "stamp" /\ task'[t].got = task[t].got
      /\ \A u \in Tasks : u # t => task'[u] = task[u]
  BY GotoFacts DEF StoreKeys, Locations, Missing, Locked
<1>3. \A u \in Tasks : u # t => task[u].pc \notin Locked
  BY <1>1 DEF AttestorInv, FetchInv, Locked
<1>4. /\ cache'.set = task[t].got /\ cache'.stored = now
      /\ cache'.at = cache.at /\ cache'.refreshes = cache.refreshes
      /\ cache' \in [set : Nat, at : Nat, refreshes : Nat, stored : Nat]
  BY <1>1 DEF AttestorTypeOK
<1>5. cache.set <= task[t].got /\ task[t].got <= issuer
  BY <1>1 DEF AttestorInv, FetchInv
<1>6. AttestorTypeOK'
  BY <1>2, <1>4 DEF AttestorTypeOK
<1>7. CacheInv'
  BY <1>4, <1>5 DEF AttestorTypeOK, AttestorInv, CacheInv
<1>8. \A u \in Tasks : FetchInv(u)'
  BY <1>1, <1>2, <1>3 DEF AttestorInv, FetchInv, Locked
<1>9. ASSUME NEW d \in Calls PROVE CallInv(d)'
  BY <1>1, <1>2 DEF AttestorInv, CallInv, Missing, Locked
<1>10. ASSUME NEW d \in Calls PROVE MissInv(d)'
  BY <1>1, <1>2, <1>4 DEF AttestorInv, MissInv, Missing, Locked
<1>11. ASSUME NEW d \in Calls PROVE AgeInv(d)'
  <2>1. AgeInv(d)
    BY DEF AttestorInv
  <2>2. cache.stored \in Nat /\ now \in Nat /\ call[d].checked \in Nat /\ cache.stored <= now
    BY DEF AttestorTypeOK, CallRecord, AttestorInv, CacheInv
  <2>3. \/ V(d) # t /\ task'[V(d)].pc = task[V(d)].pc
        \/ V(d) = t /\ task[V(d)].pc = "reply" /\ task'[V(d)].pc = "stamp"
    BY <1>1, <1>2
  <2> QED
    BY <1>4, <2>1, <2>2, <2>3, AttestorAssumption DEF AgeInv, Missing, Locked
<1> QED
  BY <1>4, <1>5, <1>6, <1>7, <1>8, <1>9, <1>10, <1>11 DEF AttestorInv, AttestorTypeOK

\* The stamp completes the refresh and releases the mutex.
LEMMA StampStep ==
    ASSUME AttestorTypeOK, AttestorInv, NEW t \in Tasks, UNCHANGED reply, StampRefresh(t)
    PROVE  AttestorTypeOK' /\ AttestorInv' /\ cache'.set = cache.set
<1> USE TaskFacts
<1> UNCHANGED <<deployed, now, issuer, healthy, call, verdict>>
  BY DEF StampRefresh
<1> DEFINE step == IF t[2] = "verify" THEN "retry" ELSE "off"
<1>1. /\ task[t].pc = "stamp" /\ lock' = None
      /\ cache' = [cache EXCEPT !.at = now, !.refreshes = @ + 1, !.stored = now]
  BY DEF StampRefresh
<1>2. /\ task' \in [Tasks -> [pc : Locations, got : Nat]]
      /\ task'[t].pc = step /\ task'[t].got = task[t].got
      /\ \A u \in Tasks : u # t => task'[u] = task[u]
  BY GotoFacts DEF StampRefresh, Locations, Missing
<1>3. deployed = "oidc" /\ \A u \in Tasks : u # t => task[u].pc \notin Locked
  BY <1>1 DEF AttestorInv, FetchInv, Locked
<1>4. /\ cache'.set = cache.set /\ cache'.at = now
      /\ cache'.refreshes = cache.refreshes + 1 /\ cache'.stored = now
      /\ cache' \in [set : Nat, at : Nat, refreshes : Nat, stored : Nat]
  <2>1. cache' = [set |-> cache.set, at |-> now,
                  refreshes |-> cache.refreshes + 1, stored |-> now]
    BY <1>1 DEF AttestorTypeOK
  <2>2. cache.set \in Nat /\ now \in Nat /\ cache.refreshes + 1 \in Nat
    BY DEF AttestorTypeOK
  <2> QED
    BY <2>1, <2>2
<1>5. AttestorTypeOK'
  BY <1>1, <1>2, <1>4 DEF AttestorTypeOK
<1>6. CacheInv'
  BY <1>4 DEF AttestorTypeOK, AttestorInv, CacheInv
<1>7. \A u \in Tasks : FetchInv(u)'
  BY <1>1, <1>2, <1>3 DEF AttestorInv, FetchInv, Locked
<1>8. ASSUME NEW d \in Calls
      PROVE  \/ V(d) # t /\ task'[V(d)].pc = task[V(d)].pc
             \/ V(d) = t /\ task[V(d)].pc = "stamp" /\ task'[V(d)].pc = "retry"
  BY <1>1, <1>2
<1>9. ASSUME NEW d \in Calls PROVE CallInv(d)'
  BY <1>1, <1>2, <1>3, <1>8 DEF AttestorInv, CallInv, Missing, Locked
<1>10. ASSUME NEW d \in Calls PROVE MissInv(d)' /\ AgeInv(d)'
  <2>1. MissInv(d) /\ AgeInv(d)
    BY DEF AttestorInv
  <2>2. /\ cache.stored \in Nat /\ now \in Nat /\ cache.stored <= now
        /\ cache.refreshes \in Nat /\ call[d].checked \in Nat /\ call[d].missed \in Nat
        /\ call[d].before \in Nat
    BY DEF AttestorTypeOK, CallRecord, AttestorInv, CacheInv
  <2>3. MissInv(d)'
    BY <1>4, <1>8, <2>1, <2>2 DEF MissInv, Missing, Locked
  <2>4. AgeInv(d)'
    BY <1>4, <1>8, <2>1, <2>2, AttestorAssumption DEF AgeInv, Missing, Locked
  <2> QED
    BY <2>3, <2>4
<1> QED
  BY <1>4, <1>5, <1>6, <1>7, <1>9, <1>10 DEF AttestorInv
-----------------------------------------------------------------------------

\* The second and last lookup, the lookup in a bundle, and the rest of a verification.
LEMMA VerifyStep ==
    ASSUME AttestorTypeOK, AttestorInv, NEW c \in Calls, UNCHANGED reply, Verify(c)
    PROVE  AttestorTypeOK' /\ AttestorInv' /\ cache'.set >= cache.set
<1> USE TaskFacts
<1> cache.set >= cache.set
  BY DEF AttestorTypeOK
<1>1. CASE NativeVerify(c)
  <2>1. /\ task[V(c)].pc = "begin" /\ deployed = "native" /\ Goto(V(c), "off")
        /\ UNCHANGED <<cacheVars, call>>
        /\ Return(c, IF Flaw[c] = "empty" THEN "accepted" ELSE "rejected")
    BY <1>1 DEF NativeVerify
  <2>2. deployed \notin Network \cup Static
    BY <2>1 DEF Network, Static
  <2> QED
    BY <2>1, <2>2, ReturnStep DEF Verdicts, Locked, cacheVars
<1>2. CASE OidcVerify(c)
  BY <1>2, CheckFirstStep DEF OidcVerify, CheckFirst, cacheVars
<1>3. CASE SpiffeVerify(c)
  BY <1>3, CheckFirstStep DEF SpiffeVerify, CheckFirst, cacheVars
<1>4. CASE assert_fresh(c)
  BY <1>4, AssertFreshStep DEF assert_fresh, cacheVars
<1>5. CASE OidcLookup(c)
  <2>1. cache' = cache
    BY <1>5 DEF OidcLookup, UseKey, cacheVars
  <2> QED
    BY <1>5, <2>1, OidcLookupStep
<1>6. CASE bundle_for_trust_domain(c)
  <2>1. task[V(c)].pc = "lookup" /\ deployed # "oidc"
    BY <1>6 DEF bundle_for_trust_domain, Spiffe
  <2>2. CASE UseKey(c)
    BY <2>1, <2>2, UseKeyStep DEF UseKey, cacheVars
  <2>3. CASE /\ Return(c, IF Found(c) THEN "unavailable" ELSE "unknown_kid")
             /\ Goto(V(c), "off")
             /\ UNCHANGED <<cacheVars, call>>
    BY <2>1, <2>3, ReturnStep DEF Verdicts, Locked, cacheVars
  <2> QED
    BY <1>6, <2>2, <2>3 DEF bundle_for_trust_domain
<1>7. CASE Decode(c)
  <2>1. /\ task[V(c)].pc = "decode" /\ Return(c, Verdict(Flaw[c])) /\ Goto(V(c), "off")
        /\ UNCHANGED <<cacheVars, call>>
    BY <1>7 DEF Decode
  <2>2. Verdict(Flaw[c]) \in {"accepted", "rejected", "malformed"}
    BY VerdictFacts, AttestorAssumption
  <2>3. deployed \in Limited \cap (Network \cup Static) => call[c].checked <= call[c].stored + MaxStaleness
    BY <2>1 DEF AttestorInv, AgeInv
  <2> QED
    BY <2>1, <2>2, <2>3, ReturnStep DEF Verdicts, Locked, cacheVars
<1>8. CASE RefreshSnapshot(c)
  BY <1>8, RefreshSnapshotStep DEF RefreshSnapshot, cacheVars
<1>9. CASE RefreshLock(c)
  BY <1>9, RefreshLockStep DEF RefreshLock
<1>10. CASE LookupRetry(c)
  <2>1. task[V(c)].pc = "retry"
    BY <1>10 DEF LookupRetry
  <2>2. CASE UseKey(c)
    BY <2>1, <2>2, UseKeyStep DEF UseKey, cacheVars
  <2>3. CASE /\ Return(c, "unknown_kid") /\ Goto(V(c), "off") /\ UNCHANGED <<cacheVars, call>>
    <3>1. call[c].missed < cache.refreshes
      BY <2>1 DEF AttestorInv, MissInv
    <3> QED
      BY <2>1, <2>3, <3>1, ReturnStep DEF Verdicts, Locked, cacheVars
  <2> QED
    BY <1>10, <2>2, <2>3 DEF LookupRetry
<1>11. CASE spawn_background_refresh(c)
  BY <1>11, SpawnStep DEF spawn_background_refresh
<1>12. ASSUME NEW who \in {"verify", "background"},
              LET t == <<c, who>>
              IN  fetch_jwks(t) \/ FetchFails(t) \/ StoreKeys(t) \/ StampRefresh(t)
       PROVE  AttestorTypeOK' /\ AttestorInv' /\ cache'.set >= cache.set
  <2>1. <<c, who>> \in Tasks
    BY DEF Tasks
  <2>2. CASE fetch_jwks(<<c, who>>)
    BY <2>1, <2>2, FetchStep DEF fetch_jwks, cacheVars
  <2>3. CASE FetchFails(<<c, who>>)
    BY <2>1, <2>3, FetchFailsStep DEF FetchFails
  <2>4. CASE StoreKeys(<<c, who>>)
    BY <2>1, <2>4, StoreKeysStep
  <2>5. CASE StampRefresh(<<c, who>>)
    BY <2>1, <2>5, StampStep
  <2> QED
    BY <1>12, <2>2, <2>3, <2>4, <2>5
<1> QED
  BY <1>1, <1>2, <1>3, <1>4, <1>5, <1>6, <1>7, <1>8, <1>9, <1>10, <1>11, <1>12 DEF Verify

\* The clock, the issuer and the Workload API client.
LEMMA OutsideStep ==
    ASSUME AttestorTypeOK, AttestorInv, UNCHANGED reply, Tick \/ Publish \/ WorkloadApi
    PROVE  AttestorTypeOK' /\ AttestorInv' /\ cache'.set >= cache.set
<1> USE TaskFacts
<1> UNCHANGED <<deployed, lock, task, call, verdict>>
  BY DEF Tick, Publish, WorkloadApi
<1>1. CASE Tick
  <2>1. now' = now + 1 /\ UNCHANGED <<issuer, cache, healthy>>
    BY <1>1 DEF Tick
  <2>2. AttestorTypeOK' /\ cache'.set >= cache.set
    BY <2>1 DEF AttestorTypeOK
  <2>3. CacheInv'
    BY <2>1 DEF AttestorTypeOK, AttestorInv, CacheInv
  <2> QED
    BY <2>1, <2>2, <2>3 DEF AttestorInv, FetchInv, CallInv, MissInv, AgeInv
<1>2. CASE Publish
  <2>1. issuer' = issuer + 1 /\ UNCHANGED <<now, cache, healthy>>
    BY <1>2 DEF Publish
  <2>2. AttestorTypeOK' /\ cache'.set >= cache.set
    BY <2>1 DEF AttestorTypeOK
  <2>3. CacheInv' /\ \A t \in Tasks : FetchInv(t)'
    BY <2>1 DEF AttestorTypeOK, AttestorInv, CacheInv, FetchInv
  <2> QED
    BY <2>1, <2>2, <2>3 DEF AttestorInv, CallInv, MissInv, AgeInv
<1>3. CASE WorkloadApi
  <2>1. deployed = "spiffe_workload" /\ UNCHANGED <<now, issuer>>
    BY <1>3 DEF WorkloadApi
  <2>2. /\ cache' \in [set : Nat, at : Nat, refreshes : Nat, stored : Nat]
        /\ cache'.set \in {cache.set, issuer} /\ cache'.at = cache.at
        /\ cache'.refreshes = cache.refreshes /\ cache'.stored \in {cache.stored, now}
        /\ healthy' \in BOOLEAN
    <3>1. CASE healthy' = ~healthy /\ UNCHANGED cache
      BY <3>1 DEF AttestorTypeOK
    <3>2. CASE /\ cache' = [cache EXCEPT !.set = issuer, !.stored = now]
               /\ UNCHANGED healthy
      <4>1. cache' = [set |-> issuer, at |-> cache.at,
                      refreshes |-> cache.refreshes, stored |-> now]
        BY <3>2 DEF AttestorTypeOK
      <4> QED
        BY <3>2, <4>1 DEF AttestorTypeOK
    <3> QED
      BY <1>3, <3>1, <3>2 DEF WorkloadApi
  <2>3. AttestorTypeOK' /\ cache'.set >= cache.set
    BY <2>1, <2>2 DEF AttestorTypeOK, AttestorInv, CacheInv
  <2>4. CacheInv'
    BY <2>1, <2>2 DEF AttestorTypeOK, AttestorInv, CacheInv
  <2>5. \A t \in Tasks : FetchInv(t)'
    BY <2>1 DEF AttestorInv, FetchInv, Locked
  <2>6. \A d \in Calls : CallInv(d)' /\ MissInv(d)'
    BY <2>1, <2>2 DEF AttestorInv, CallInv, MissInv
  <2>7. \A d \in Calls : AgeInv(d)'
    BY <2>1 DEF AgeInv, Network, Static
  <2> QED
    BY <2>3, <2>4, <2>5, <2>6, <2>7 DEF AttestorInv
<1> QED
  BY <1>1, <1>2, <1>3
-----------------------------------------------------------------------------

\* The attestor the command line selects is one of the kinds, or the line is no good.
LEMMA AttestorArgKind ==
    ASSUME NEW line \in CommandLines PROVE AttestorArg(line) \in Kinds \cup {Bad}
<1>1. build_spiffe_attestor(line.given) \in Kinds \cup {Bad}
  BY DEF build_spiffe_attestor, Kinds, Spiffe
<1>2. build_oidc_attestor(line.given) \in Kinds \cup {Bad}
  BY DEF build_oidc_attestor, Kinds, Network, Static
<1>3. line.attestor \in {"native", "spiffe", "oidc"}
  BY DEF CommandLines
<1> QED
  BY <1>1, <1>2, <1>3 DEF AttestorArg, Kinds

\* The attestor is connected before anybody registers: no task is under way.
LEMMA ConnectStep ==
    ASSUME TypeOK, AttestorInv, PlaneInv, stage \in Unregistered, UNCHANGED reply,
           NEW k \in Kinds, connect(k)
    PROVE  AttestorTypeOK' /\ AttestorInv' /\ cache'.set >= cache.set
<1> USE TaskFacts DEF TypeOK
<1>1. deployed' = k /\ UNCHANGED <<now, issuer, healthy, lock, task, call, verdict>>
  BY DEF connect
<1>2. \A c \in Calls :
          verdict[c] = "pending" /\ task[V(c)].pc = "off" /\ task[B(c)].pc = "off"
  BY DEF PlaneInv, AttestorInv, CallInv
<1>3. \A t \in Tasks : task[t].pc = "off"
  BY <1>2
<1>4. \/ UNCHANGED cache
      \/ cache' = [cache EXCEPT !.set = issuer, !.at = now, !.stored = now]
  BY DEF connect, warm, bundle_connect, Trust
<1>5. /\ cache' \in [set : Nat, at : Nat, refreshes : Nat, stored : Nat]
      /\ cache'.set \in {cache.set, issuer}
      /\ cache'.at <= cache'.stored /\ cache'.stored <= now
  <2>1. CASE UNCHANGED cache
    BY <2>1 DEF AttestorTypeOK, AttestorInv, CacheInv
  <2>2. CASE cache' = [cache EXCEPT !.set = issuer, !.at = now, !.stored = now]
    <3>1. cache' = [set |-> issuer, at |-> now, refreshes |-> cache.refreshes, stored |-> now]
      BY <2>2 DEF AttestorTypeOK
    <3> QED
      BY <3>1 DEF AttestorTypeOK
  <2> QED
    BY <1>4, <2>1, <2>2
<1>6. AttestorTypeOK'
  BY <1>1, <1>5 DEF AttestorTypeOK
<1>7. CacheInv' /\ cache'.set >= cache.set
  BY <1>1, <1>5 DEF AttestorTypeOK, AttestorInv, CacheInv
<1>8. \A t \in Tasks : FetchInv(t)'
  BY <1>1, <1>3 DEF FetchInv, Locked
<1>9. ASSUME NEW c \in Calls PROVE CallInv(c)' /\ MissInv(c)' /\ AgeInv(c)'
  BY <1>1, <1>2 DEF CallInv, MissInv, AgeInv, Missing, Locked
<1> QED
  BY <1>6, <1>7, <1>8, <1>9 DEF AttestorInv

\* A step that leaves the attestor alone and moves no registration away from "attesting"
\* before its verdict is in.
LEMMA ElsewhereStep ==
    ASSUME AttestorTypeOK, AttestorInv, UNCHANGED attestorVars,
           \A c \in Calls : \/ reply'[c] = reply[c]
                            \/ /\ reply'[c] # "none"
                               /\ verdict[c] # "pending" \/ reply[c] # "attesting"
    PROVE  AttestorTypeOK' /\ AttestorInv' /\ cache'.set >= cache.set
<1> UNCHANGED <<deployed, now, issuer, cache, healthy, lock, task, call, verdict>>
  BY DEF attestorVars, cacheVars
<1>1. AttestorTypeOK' /\ cache'.set >= cache.set
  BY DEF AttestorTypeOK
<1>2. CacheInv' /\ \A t \in Tasks : FetchInv(t)'
  BY DEF AttestorInv, CacheInv, FetchInv
<1>3. ASSUME NEW c \in Calls PROVE CallInv(c)' /\ MissInv(c)' /\ AgeInv(c)'
  BY DEF AttestorInv, CallInv, MissInv, AgeInv
<1> QED
  BY <1>1, <1>2, <1>3 DEF AttestorInv

\* A command line that has passed every check of main() is not refused early.
LEMMA NotRefused ==
    ASSUME PlaneInv, deployment.binary, stage \in {"passport", "bootstrap"} \cup Audited
    PROVE  ~RefusedEarly(cli)
  BY DEF PlaneInv, RefusedEarly, Audited
-----------------------------------------------------------------------------

\* main(), stage by stage.
LEMMA StartupRegistry ==
    ASSUME TypeOK, RegistryInv, Startup
    PROVE  PlaneTypeOK' /\ RegistryInv' /\ UNCHANGED registryVars
<1> USE DEF TypeOK, Reach, Stages, Unregistered, Audited, Connect
<1>1. UNCHANGED <<deployment, kms, passports, receipts, reply>>
  BY DEF Startup, ParseFlags, OpenReceiptStore, BuildAttestor, InProcessSigner, VaultConnect,
         GcpKmsConnect, AzureKvConnect, RegisterControlPlane, Bootstrapped,
         spawn_anchor_driver, serve_grpc, registryVars
<1>2. UNCHANGED <<cli, signer>>
  BY <1>1 DEF cli, signer
<1>3. deployment.binary \in BOOLEAN /\ Boot \in Calls
  BY ControlPlaneAssumption DEF PlaneTypeOK
<1>4. CASE ParseFlags
  <2>1. stage = "flags" /\ UNCHANGED <<public, passport>>
    BY <1>4 DEF ParseFlags
  <2>2. \/ stage' = "failed"
        \/ /\ stage' = "store"
           /\ Bad \notin {from_seed_hex(cli.given), parse_operator_public_key(cli.given),
                          resolve_anchor_config(cli.given),
                          workload_extension_by_name(cli.given)}
    BY <1>4 DEF ParseFlags
  <2> QED
    BY <1>1, <1>2, <2>1, <2>2 DEF PlaneTypeOK, RegistryInv, PlaneInv, ReplyInv, registryVars
<1>5. CASE OpenReceiptStore
  <2>1. stage = "store" /\ UNCHANGED <<public, passport>>
    BY <1>5 DEF OpenReceiptStore
  <2>2. \/ stage' = "failed"
        \/ stage' = "attestor" /\ (cli.backend = "postgres" => "postgres_url" \in cli.given)
    BY <1>5 DEF OpenReceiptStore
  <2> QED
    BY <1>1, <1>2, <2>1, <2>2 DEF PlaneTypeOK, RegistryInv, PlaneInv, ReplyInv, registryVars
<1>6. CASE BuildAttestor
  <2>1. stage = "attestor" /\ UNCHANGED <<public, passport>>
    BY <1>6 DEF BuildAttestor
  <2>2. \/ stage' = "failed"
        \/ stage' = "signer" /\ AttestorArg(cli) # Bad
    BY <1>6 DEF BuildAttestor
  <2> QED
    BY <1>1, <1>2, <2>1, <2>2 DEF PlaneTypeOK, RegistryInv, PlaneInv, ReplyInv, registryVars
<1>7. CASE InProcessSigner \/ VaultConnect \/ GcpKmsConnect \/ AzureKvConnect
  <2>1. stage = "signer" /\ UNCHANGED passport /\ public' \in {public, kms}
    BY <1>7 DEF InProcessSigner, VaultConnect, GcpKmsConnect, AzureKvConnect
  <2>2. stage' = "failed" \/ (stage' = "passport" /\ SignerArg(cli) # Bad)
    BY <1>7 DEF InProcessSigner, VaultConnect, GcpKmsConnect, AzureKvConnect, signer, Bad
  <2> QED
    BY <1>1, <1>2, <2>1, <2>2 DEF PlaneTypeOK, RegistryInv, PlaneInv, ReplyInv, registryVars
<1>8. CASE RegisterControlPlane
  <2>1. stage = "passport" /\ UNCHANGED public
    BY <1>8 DEF RegisterControlPlane
  <2>2. \/ stage' = "failed" /\ UNCHANGED passport
        \/ /\ passport' = public
           /\ stage' = IF deployment.binary THEN "bootstrap" ELSE "serving"
    BY <1>8 DEF RegisterControlPlane
  <2> QED
    BY <1>1, <1>2, <1>3, <2>1, <2>2 DEF PlaneTypeOK, RegistryInv, PlaneInv, ReplyInv, registryVars
<1>9. CASE Bootstrapped
  <2>1. /\ stage = "bootstrap" /\ stage' = "anchor" /\ reply[Boot] = "registered"
        /\ UNCHANGED <<public, passport>>
    BY <1>9 DEF Bootstrapped
  <2> QED
    BY <1>1, <1>2, <2>1 DEF PlaneTypeOK, RegistryInv, PlaneInv, ReplyInv, registryVars
<1>10. CASE spawn_anchor_driver \/ serve_grpc
  <2>1. /\ stage \in {"anchor", "serve"} /\ stage' \in {"serve", "serving", "failed"}
        /\ UNCHANGED <<public, passport>>
    BY <1>10 DEF spawn_anchor_driver, serve_grpc
  <2> QED
    BY <1>1, <1>2, <2>1 DEF PlaneTypeOK, RegistryInv, PlaneInv, ReplyInv, registryVars
<1> QED
  BY <1>4, <1>5, <1>6, <1>7, <1>8, <1>9, <1>10 DEF Startup

\* The whole of main() and the rotations.
LEMMA StartupStep ==
    ASSUME IInv, Startup \/ RotateKey
    PROVE  IInv' /\ cache'.set >= cache.set
<1> USE DEF IInv, TypeOK
<1>1. CASE RotateKey
  <2>1. UNCHANGED <<attestorVars, deployment, stage, public, passport, registryVars>>
        /\ kms' = kms + 1
    BY <1>1 DEF RotateKey
  <2>2. AttestorTypeOK' /\ AttestorInv' /\ cache'.set >= cache.set
    BY <2>1, ElsewhereStep DEF registryVars
  <2>3. PlaneTypeOK' /\ RegistryInv'
    BY <2>1 DEF PlaneTypeOK, RegistryInv, PlaneInv, ReplyInv, registryVars, cli, signer
  <2> QED
    BY <2>2, <2>3
<1>2. CASE Startup
  <2>1. PlaneTypeOK' /\ RegistryInv' /\ UNCHANGED reply
    BY <1>2, StartupRegistry DEF registryVars
  <2>2. CASE UNCHANGED attestorVars
    BY <2>1, <2>2, ElsewhereStep
  <2>3. CASE stage = "attestor" /\ AttestorArg(cli) # Bad /\ connect(AttestorArg(cli))
    <3>1. cli \in CommandLines
      BY ControlPlaneAssumption DEF PlaneTypeOK, cli
    <3>2. AttestorArg(cli) \in Kinds
      BY <2>3, <3>1, AttestorArgKind
    <3> QED
      BY <2>1, <2>3, <3>2, ConnectStep DEF RegistryInv, Unregistered
  <2>4. UNCHANGED attestorVars
        \/ (stage = "attestor" /\ AttestorArg(cli) # Bad /\ connect(AttestorArg(cli)))
    BY <1>2 DEF Startup, ParseFlags, OpenReceiptStore, BuildAttestor, InProcessSigner,
         VaultConnect, GcpKmsConnect, AzureKvConnect, Connect, RegisterControlPlane,
         Bootstrapped, spawn_anchor_driver, serve_grpc
  <2> QED
    BY <2>2, <2>3, <2>4
<1> QED
  BY <1>1, <1>2
-----------------------------------------------------------------------------

\* A registration begins: its verification has not been under way before.
LEMMA RegisterBeginStep ==
    ASSUME IInv, NEW c \in Calls, RegisterBegin(c)
    PROVE  IInv' /\ cache'.set >= cache.set
<1> USE TaskFacts DEF IInv, TypeOK
<1> UNCHANGED <<deployed, now, issuer, cache, healthy, lock, call, verdict,
                deployment, stage, kms, public, passport, passports, receipts>>
  BY DEF RegisterBegin, cacheVars, planeVars
<1>1. /\ reply[c] = "none" /\ stage \in {"bootstrap", "serving"}
      /\ reply' = [reply EXCEPT ![c] = "attesting"]
  BY DEF RegisterBegin
<1>2. /\ task' \in [Tasks -> [pc : Locations, got : Nat]]
      /\ task'[V(c)].pc = "begin" /\ task'[V(c)].got = task[V(c)].got
      /\ \A u \in Tasks : u # V(c) => task'[u] = task[u]
  BY GotoFacts DEF RegisterBegin, Locations
<1>3. /\ reply' \in [Calls -> Replies] /\ reply'[c] = "attesting"
      /\ \A d \in Calls : d # c => reply'[d] = reply[d]
  BY <1>1 DEF PlaneTypeOK, Replies
<1>4. AttestorTypeOK' /\ PlaneTypeOK' /\ cache'.set >= cache.set
  BY <1>2, <1>3 DEF AttestorTypeOK, PlaneTypeOK
<1>5. CacheInv' /\ \A t \in Tasks : FetchInv(t)'
  BY <1>2 DEF AttestorInv, CacheInv, FetchInv, Locked
<1>6. ASSUME NEW d \in Calls PROVE CallInv(d)' /\ MissInv(d)' /\ AgeInv(d)'
  BY <1>1, <1>2, <1>3 DEF AttestorInv, CallInv, MissInv, AgeInv, Missing, Locked
<1>7. passport = public /\ (deployment.binary => ~RefusedEarly(cli))
  BY <1>1, NotRefused DEF RegistryInv, PlaneInv, Audited
<1>8. PlaneInv'
  BY <1>1, <1>3 DEF RegistryInv, PlaneInv, Unregistered, Audited, cli
<1>9. ASSUME NEW d \in Calls PROVE ReplyInv(d)'
  BY <1>3, <1>7 DEF RegistryInv, ReplyInv, cli, signer
<1> QED
  BY <1>4, <1>5, <1>6, <1>8, <1>9 DEF AttestorInv, RegistryInv

\* A registration ends, or goes on once the verdict is in.
LEMMA RegisterStep ==
    ASSUME IInv, NEW c \in Calls, Register(c)
    PROVE  IInv' /\ cache'.set >= cache.set
<1> USE DEF IInv, TypeOK
<1>1. CASE RegisterBegin(c)
  BY <1>1, RegisterBeginStep
<1>2. CASE ~RegisterBegin(c)
  <2>1. UNCHANGED <<attestorVars, deployment, kms, public, passport>>
    BY <1>2 DEF Register, RegisterUnavailable, RegisterDeny, RegisterPersist, RegisterOk,
                RegisterReceiptFails, planeVars
  <2>2. UNCHANGED <<cli, signer, sign>>
    BY <2>1 DEF cli, signer, sign, inprocess_sign, vault_sign, gcp_sign, azure_sign
  <2> DEFINE answer == reply'[c]
  <2>3. /\ reply[c] \in {"attesting", "persisted"}
        /\ reply' = [reply EXCEPT ![c] = answer]
        /\ answer \in Replies \ {"none", "attesting"}
        /\ reply[c] = "attesting" => verdict[c] # "pending"
    <3>1. CASE RegisterUnavailable(c)
      BY <3>1 DEF RegisterUnavailable, PlaneTypeOK, Replies
    <3>2. CASE RegisterDeny(c)
      BY <3>2 DEF RegisterDeny, PlaneTypeOK, Replies
    <3>3. CASE RegisterPersist(c)
      BY <3>3 DEF RegisterPersist, PlaneTypeOK, Replies
    <3>4. CASE RegisterOk(c)
      BY <3>4 DEF RegisterOk, PlaneTypeOK, Replies
    <3>5. CASE RegisterReceiptFails(c)
      BY <3>5 DEF RegisterReceiptFails, PlaneTypeOK, Replies
    <3> QED
      BY <1>2, <3>1, <3>2, <3>3, <3>4, <3>5 DEF Register
  <2>4. /\ reply' \in [Calls -> Replies]
        /\ \A d \in Calls : d # c => reply'[d] = reply[d]
    BY <2>3 DEF PlaneTypeOK
  <2>5. AttestorTypeOK' /\ AttestorInv' /\ cache'.set >= cache.set
    BY <2>1, <2>3, <2>4, ElsewhereStep
  <2>6. passport = public /\ (deployment.binary => ~RefusedEarly(cli))
    BY <2>3 DEF RegistryInv, ReplyInv
  <2>7. /\ passports \subseteq passports' /\ passports' \subseteq passports \cup {c}
        /\ receipts \subseteq receipts'
        /\ receipts' \subseteq receipts \cup {<<"deny", c, sign>>, <<"register", c, sign>>}
        /\ stage' \in {stage, "failed"} /\ (c # Boot => stage' = stage)
    BY <1>2 DEF Register, RegisterUnavailable, RegisterDeny, RegisterPersist, RegisterOk,
                RegisterReceiptFails, Fail, planeVars
  <2>8. /\ answer \in {"persisted", "registered"} => c \in passports'
        /\ answer = "registered" => <<"register", c, passport>> \in receipts'
        /\ reply[c] = "registered" => answer = "registered"
    <3>1. reply[c] = "persisted" => c \in passports
      BY DEF RegistryInv, ReplyInv
    <3>2. CASE RegisterUnavailable(c)
      BY <3>2, <2>3 DEF RegisterUnavailable, PlaneTypeOK
    <3>3. CASE RegisterDeny(c)
      BY <3>3, <2>3 DEF RegisterDeny, PlaneTypeOK
    <3>4. CASE RegisterPersist(c)
      BY <3>4, <2>3 DEF RegisterPersist, PlaneTypeOK
    <3>5. CASE RegisterOk(c)
      BY <3>1, <3>5, <2>3 DEF RegisterOk, PlaneTypeOK
    <3>6. CASE RegisterReceiptFails(c)
      BY <3>6, <2>3 DEF RegisterReceiptFails, PlaneTypeOK
    <3> QED
      BY <1>2, <3>2, <3>3, <3>4, <3>5, <3>6 DEF Register
  <2>9. PlaneTypeOK'
    <3>1. sign \in Nat
      BY DEF PlaneTypeOK, sign, inprocess_sign, vault_sign, gcp_sign, azure_sign
    <3> QED
      BY <2>1, <2>4, <2>7, <3>1 DEF PlaneTypeOK, Stages
  <2>10. PlaneInv'
    <3>1. stage \notin Unregistered /\ stage' \notin Unregistered
      BY <2>3, <2>7 DEF RegistryInv, PlaneInv, Unregistered
    <3>2. reply[Boot] = "registered" => reply'[Boot] = "registered"
      BY <2>3, <2>4, ControlPlaneAssumption
    <3> QED
      BY <2>1, <2>2, <2>6, <2>7, <3>1, <3>2 DEF RegistryInv, PlaneInv, Unregistered, Audited
  <2>11. ASSUME NEW d \in Calls PROVE ReplyInv(d)'
    <3>1. CASE d = c
      BY <2>1, <2>2, <2>6, <2>8, <3>1 DEF ReplyInv
    <3>2. CASE d # c
      BY <2>1, <2>2, <2>4, <2>7, <3>2 DEF RegistryInv, ReplyInv
    <3> QED
      BY <3>1, <3>2
  <2> QED
    BY <2>5, <2>9, <2>10, <2>11 DEF RegistryInv
<1> QED
  BY <1>1, <1>2

\* Every step keeps the invariant, and the cached key set never becomes an older one.
LEMMA NextIInv == IInv /\ [Next]_vars => IInv' /\ [cache'.set >= cache.set]_attestorVars
<1> SUFFICES ASSUME IInv, [Next]_vars
             PROVE  IInv' /\ (cache'.set >= cache.set \/ UNCHANGED attestorVars)
  OBVIOUS
<1>1. CASE Startup
  BY <1>1, StartupStep
<1>2. CASE RotateKey
  BY <1>2, StartupStep
<1>3. CASE \E c \in Calls : Register(c)
  BY <1>3, RegisterStep
<1>4. CASE AttestorNext /\ UNCHANGED <<planeVars, registryVars>>
  <2>1. PlaneTypeOK' /\ RegistryInv'
    BY <1>4, AttestorLeavesRegistry DEF IInv, TypeOK
  <2>2. UNCHANGED reply
    BY <1>4 DEF registryVars
  <2>3. AttestorTypeOK' /\ AttestorInv' /\ cache'.set >= cache.set
    BY <1>4, <2>2, VerifyStep, OutsideStep DEF AttestorNext, IInv, TypeOK
  <2> QED
    BY <2>1, <2>3 DEF IInv, TypeOK
<1>5. CASE UNCHANGED vars
  <2>1. UNCHANGED <<attestorVars, planeVars, registryVars>>
    BY <1>5 DEF vars
  <2>2. PlaneTypeOK' /\ RegistryInv'
    BY <2>1, AttestorLeavesRegistry DEF IInv, TypeOK
  <2>3. AttestorTypeOK' /\ AttestorInv'
    BY <2>1, ElsewhereStep DEF IInv, TypeOK, registryVars
  <2> QED
    BY <2>1, <2>2, <2>3 DEF IInv, TypeOK
<1> QED
  BY <1>1, <1>2, <1>3, <1>4, <1>5 DEF Next

\* The properties follow from the invariant.
LEMMA IInvImplies ==
    ASSUME IInv
    PROVE  /\ MissesAreRefetched /\ StaleKeysExpire
           /\ StartupAudited
<1>1. MissesAreRefetched
  BY DEF IInv, TypeOK, AttestorTypeOK, CallRecord, AttestorInv, MissInv, MissesAreRefetched, Network
<1>2. StaleKeysExpire
  BY DEF IInv, AttestorInv, AgeInv, StaleKeysExpire
<1>3. StartupAudited
  <2>1. Boot \in Calls
    BY ControlPlaneAssumption
  <2>2. stage = "serving" /\ deployment.binary => ~RefusedEarly(cli)
    BY NotRefused DEF IInv, RegistryInv, Audited
  <2> QED
    BY <2>1, <2>2 DEF IInv, RegistryInv, PlaneInv, ReplyInv, StartupAudited, Audited
<1> QED
  BY <1>1, <1>2, <1>3
-----------------------------------------------------------------------------

\* Types: the attestor, main() and the registry stay within theirs whatever fails,
\* rotates or is interleaved.
THEOREM ControlPlaneTypeCorrect == Spec => []TypeOK
  BY InitIInv, NextIInv, PTL DEF Spec, IInv

\* With any number of verifications and background refreshes, and whatever the order in
\* which their answers come back, the cached key set is never replaced by an older one.
THEOREM RefreshesOnlyMoveForward == Spec => KeySetNeverGoesBack
  BY InitIInv, NextIInv, PTL DEF Spec, KeySetNeverGoesBack

\* A network OIDC attestor never denies a credential for an unknown key without a
\* refresh that completed after the miss.
THEOREM DenialsFollowARefresh == Spec => []MissesAreRefetched
  BY InitIInv, NextIInv, IInvImplies, PTL DEF Spec

\* No credential is accepted under keys older than the staleness limit allows.
THEOREM AcceptanceNeedsRecentKeys == Spec => []StaleKeysExpire
  BY InitIInv, NextIInv, IInvImplies, PTL DEF Spec

\* A control plane serves only with its bootstrap registration audited, and a bad command
\* line leaves no receipt.
THEOREM ServesOnlyAudited == Spec => []StartupAudited
  BY InitIInv, NextIInv, IInvImplies, PTL DEF Spec
=============================================================================
