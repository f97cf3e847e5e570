------------------------------ MODULE Attestor ------------------------------
(***************************************************************************)
(* External identity: the native, SPIFFE and OIDC attestors (crates/       *)
(* yutha-attestor, -spiffe, -oidc) that a registration consults, and the   *)
(* key set each of them trusts.                                            *)
(*                                                                         *)
(* An OIDC attestor over the network keeps its issuer's keys in JwksCache: *)
(* `keys' and `last_refresh_at' are written one after the other under a    *)
(* refresh mutex, by a verification whose key id was not found (refresh_   *)
(* now, which waits for the mutex) and by tasks spawned when the set is    *)
(* past its TTL (which give up when the mutex is taken).  A static file is *)
(* read once.  The SPIFFE Workload API client (external) replaces its own  *)
(* bundles and reports whether it is healthy.                              *)
(*                                                                         *)
(* A credential is its key id and the first thing wrong with it.  Issuer   *)
(* key sets are numbered in the order in which they are published.         *)
(***************************************************************************)
EXTENDS Naturals, Sequences, FiniteSets

CONSTANTS Calls,         \* registrations, each with one credential
          Kid, Flaw,     \* the credential of each
          Published,     \* the issuer's key sets, in the order it publishes them
          CacheTtl,      \* cache_ttl_secs
          Limited,       \* the kinds of attestor deployed with a max_staleness_secs ...
          MaxStaleness,  \* ... and what it is
          MaxTime        \* bound: clock ticks

Network == {"oidc"}
Static  == {"oidc_file", "spiffe_file"}
Spiffe  == {"spiffe_file", "spiffe_workload"}
Kinds   == {"native"} \cup Network \cup Static \cup Spiffe

Flaws == {"none", "empty", "encoding", "header", "signature", "value", "shape", "iat"}

ASSUME AttestorAssumption ==
    /\ Flaw \in [Calls -> Flaws]
    /\ DOMAIN Kid = Calls
    /\ Published # <<>> /\ \A i \in DOMAIN Published : IsFiniteSet(Published[i])
    /\ Limited \subseteq Kinds
    /\ {CacheTtl, MaxStaleness, MaxTime} \subseteq Nat

Tasks == Calls \X {"verify", "background"}
None == <<"none", "none">>

VARIABLES deployed, \* the attestor built at startup
          now,
          issuer,   \* the number of the key set the issuer publishes
          cache,    \* JwksCache or BundleCache: key set, last_refresh_at, and as history
                    \* the refreshes so far and when the set was last written or confirmed
          healthy,  \* JwtSource::is_healthy
          lock,     \* refresh_dedup: the task holding it
          task,     \* where each task is, and the key set its fetch brought back
          call,     \* what each verification remembers
          verdict   \* what verify returned

cacheVars == <<deployed, now, issuer, cache, healthy, lock>>
attestorVars == <<cacheVars, task, call, verdict>>

V(c) == <<c, "verify">>
B(c) == <<c, "background">>

Goto(t, step) == task' = [task EXCEPT ![t].pc = step]
Return(c, v) == verdict' = [verdict EXCEPT ![c] = v]

AttestorInit ==
    /\ now = 0 /\ issuer = 1
    /\ cache = [set |-> 0, at |-> 0, refreshes |-> 0, stored |-> 0]
    /\ healthy = TRUE
    /\ lock = None
    /\ task = [t \in Tasks |-> [pc |-> "off", got |-> 0]]
    /\ call = [c \in Calls |-> [before |-> 0, checked |-> 0, stored |-> 0, missed |-> 0]]
    /\ verdict = [c \in Calls |-> "pending"]

Trust ==
    /\ Published[issuer] # {}
    /\ cache' = [cache EXCEPT !.set = issuer, !.at = now, !.stored = now]

\* JwksCache::warm: one fetch, from the network or from the file; no keys, no attestor.
warm == deployed' \in {"oidc", "oidc_file"} /\ Trust

\* BundleCache::connect: load_static_bundle, or the Workload API's initial sync.
bundle_connect == deployed' \in Spiffe /\ Trust

\* AttestorArg::build, given the deployed the command line selects.
connect(k) ==
    /\ deployed' = k
    /\ \/ k = "native" /\ UNCHANGED cache
       \/ warm
       \/ bundle_connect
    /\ UNCHANGED <<now, issuer, healthy, lock, task, call, verdict>>
-----------------------------------------------------------------------------
(* Verification. *)

\* The class of the error when `flaw' is found, or the identity when there is nothing to
\* find: map_oidc_error and the checks OidcAttestor::verify makes itself ...
map_oidc_error(flaw) ==
    CASE flaw = "none"                                   -> "accepted"
      [] flaw \in {"empty", "signature", "value"}        -> "rejected"
      [] flaw \in {"encoding", "header", "shape", "iat"} -> "malformed"

\* ... and map_spiffe_error, for which a missing iat is no flaw.
map_spiffe_error(flaw) == IF flaw = "iat" THEN "accepted" ELSE map_oidc_error(flaw)

Verdict(flaw) ==
    IF deployed \in Spiffe THEN map_spiffe_error(flaw) ELSE map_oidc_error(flaw)

\* NativeAttestor::verify takes no credential.
NativeVerify(c) ==
    /\ task[V(c)].pc = "begin" /\ deployed = "native"
    /\ Return(c, IF Flaw[c] = "empty" THEN "accepted" ELSE "rejected")
    /\ Goto(V(c), "off")
    /\ UNCHANGED <<cacheVars, call>>

\* What an attestor checks before it turns to its keys.
CheckFirst(c, first) ==
    /\ task[V(c)].pc = "begin"
    /\ IF Flaw[c] \in first
       THEN Return(c, Verdict(Flaw[c])) /\ Goto(V(c), "off")
       ELSE Goto(V(c), "fresh") /\ UNCHANGED verdict
    /\ UNCHANGED <<cacheVars, call>>

\* OidcAttestor::verify parses the header, with its kid, typ and alg, ...
OidcVerify(c) == deployed \in {"oidc", "oidc_file"} /\ CheckFirst(c, {"empty", "encoding", "header"})

\* ... SpiffeAttestor::verify leaves it to the library.
SpiffeVerify(c) == deployed \in Spiffe /\ CheckFirst(c, {"empty", "encoding"})

\* Without a limit keys never get too old.
TooOld == deployed \in Limited /\ now - cache.at > MaxStaleness

\* BundleCache::assert_fresh asks the Workload API client; the age of a file counts.
spiffe_stale == IF deployed = "spiffe_workload" THEN ~healthy ELSE TooOld

\* JwksCache::assert_fresh refuses past the limit; past the TTL it spawns a refresh and
\* goes on with the keys it has.
oidc_stale == TooOld
PastTtl == deployed \in Network /\ now - cache.at > CacheTtl

assert_fresh(c) ==
    /\ task[V(c)].pc = "fresh"
    /\ IF (IF deployed \in Spiffe THEN spiffe_stale ELSE oidc_stale)
       THEN /\ Return(c, "unavailable")
            /\ Goto(V(c), "off")
            /\ UNCHANGED call
       ELSE /\ task' = [task EXCEPT ![V(c)].pc = "lookup",
                                    ![B(c)].pc = IF PastTtl THEN "spawned" ELSE @]
            /\ call' = [call EXCEPT ![c].checked = now]
            /\ UNCHANGED verdict
    /\ UNCHANGED cacheVars

Found(c) == Kid[c] \in Published[cache.set]
UseKey(c) ==
    /\ Found(c)
    /\ call' = [call EXCEPT ![c].stored = cache.stored]
    /\ Goto(V(c), "decode")
    /\ UNCHANGED <<cacheVars, verdict>>

\* JwksCache::lookup: a missing key is final for a file and starts a refresh otherwise.
OidcLookup(c) ==
    /\ task[V(c)].pc = "lookup" /\ deployed \notin Spiffe
    /\ \/ UseKey(c)
       \/ /\ ~Found(c) /\ deployed = "oidc_file"
          /\ Return(c, "unknown_kid")
          /\ Goto(V(c), "off")
          /\ UNCHANGED <<cacheVars, call>>
       \/ /\ ~Found(c) /\ deployed \in Network
          /\ call' = [call EXCEPT ![c].missed = cache.refreshes]
          /\ Goto(V(c), "missed")
          /\ UNCHANGED <<cacheVars, verdict>>

\* bundle_for_trust_domain: the bundle has the key or not, or the Workload API client
\* has failed since it was found healthy.
bundle_for_trust_domain(c) ==
    /\ task[V(c)].pc = "lookup" /\ deployed \in Spiffe
    /\ \/ UseKey(c)
       \/ /\ ~Found(c) \/ (deployed = "spiffe_workload" /\ ~healthy)
          /\ Return(c, IF Found(c) THEN "unavailable" ELSE "unknown_kid")
          /\ Goto(V(c), "off")
          /\ UNCHANGED <<cacheVars, call>>

\* decode, the iat and sub checks, and the projection to AttestedIdentity.
Decode(c) ==
    /\ task[V(c)].pc = "decode"
    /\ Return(c, Verdict(Flaw[c]))
    /\ Goto(V(c), "off")
    /\ UNCHANGED <<cacheVars, call>>
-----------------------------------------------------------------------------
(* Refreshing the key set. *)

\* Mutants.
RefreshLock_SkipsRecent(c) ==
    /\ task[V(c)].pc = "wait" /\ lock = None
    /\ IF now - cache.at < 1
       THEN Goto(V(c), "retry") /\ UNCHANGED lock
       ELSE Goto(V(c), "fetch") /\ lock' = V(c)
    /\ UNCHANGED <<deployed, now, issuer, cache, healthy, call, verdict>>
spawn_background_refresh_Unlocked(c) ==
    /\ task[B(c)].pc = "spawned"
    /\ Goto(B(c), "fetch")
    /\ UNCHANGED <<cacheVars, call, verdict>>
FetchFails_Stamps(t) ==
    /\ \/ task[t].pc = "fetch"
       \/ task[t].pc = "reply" /\ Published[task[t].got] = {}
    /\ lock' = None
    /\ cache' = [cache EXCEPT !.at = now]
    /\ Goto(t, "off")
    /\ IF t[2] = "verify" THEN Return(t[1], "unavailable") ELSE UNCHANGED verdict
    /\ UNCHANGED <<deployed, now, issuer, healthy, call>>

\* refresh_now reads last_refresh_at before it asks for the mutex ...
RefreshSnapshot(c) ==
    /\ task[V(c)].pc = "missed"
    /\ call' = [call EXCEPT ![c].before = cache.refreshes]
    /\ Goto(V(c), "wait")
    /\ UNCHANGED <<cacheVars, verdict>>

\* ... and again once it has it: if it changed, somebody else has refreshed.
RefreshLock(c) ==
    /\ task[V(c)].pc = "wait" /\ lock = None
    /\ IF cache.refreshes # call[c].before
       THEN Goto(V(c), "retry") /\ UNCHANGED lock
       ELSE Goto(V(c), "fetch") /\ lock' = V(c)
    /\ UNCHANGED <<deployed, now, issuer, cache, healthy, call, verdict>>

\* The spawned task: try_lock, or give up.
spawn_background_refresh(c) ==
    /\ task[B(c)].pc = "spawned"
    /\ IF lock = None
       THEN Goto(B(c), "fetch") /\ lock' = B(c)
       ELSE Goto(B(c), "off") /\ UNCHANGED lock
    /\ UNCHANGED <<deployed, now, issuer, cache, healthy, call, verdict>>

\* fetch_jwks: the issuer answers with the set it publishes at that moment.  Only the
\* connection has a timeout; the answer may take any time.
fetch_jwks(t) ==
    /\ task[t].pc = "fetch"
    /\ task' = [task EXCEPT ![t] = [pc |-> "reply", got |-> issuer]]
    /\ UNCHANGED <<cacheVars, call, verdict>>

\* The fetch failed or brought no key: a verification reports it, a background task
\* keeps the old set.
FetchFails(t) ==
    /\ \/ task[t].pc = "fetch"
       \/ task[t].pc = "reply" /\ Published[task[t].got] = {}
    /\ lock' = None
    /\ Goto(t, "off")
    /\ IF t[2] = "verify" THEN Return(t[1], "unavailable") ELSE UNCHANGED verdict
    /\ UNCHANGED <<deployed, now, issuer, cache, healthy, call>>

\* *keys.write() = fresh, and then *last_refresh_at.write() = now.
StoreKeys(t) ==
    /\ task[t].pc = "reply" /\ Published[task[t].got] # {}
    /\ cache' = [cache EXCEPT !.set = task[t].got, !.stored = now]
    /\ Goto(t, "stamp")
    /\ UNCHANGED <<deployed, now, issuer, healthy, lock, call, verdict>>

StampRefresh(t) ==
    /\ task[t].pc = "stamp"
    /\ cache' = [cache EXCEPT !.at = now, !.refreshes = @ + 1, !.stored = now]
    /\ lock' = None
    /\ Goto(t, IF t[2] = "verify" THEN "retry" ELSE "off")
    /\ UNCHANGED <<deployed, now, issuer, healthy, call, verdict>>

\* lookup's second and last try.
LookupRetry(c) ==
    /\ task[V(c)].pc = "retry"
    /\ \/ UseKey(c)
       \/ /\ ~Found(c)
          /\ Return(c, "unknown_kid")
          /\ Goto(V(c), "off")
          /\ UNCHANGED <<cacheVars, call>>
-----------------------------------------------------------------------------
(* The outside: the clock, the issuer, the Workload API client. *)

Tick ==
    /\ now < MaxTime
    /\ now' = now + 1
    /\ UNCHANGED <<deployed, issuer, cache, healthy, lock, task, call, verdict>>

Publish ==
    /\ issuer < Len(Published)
    /\ issuer' = issuer + 1
    /\ UNCHANGED <<deployed, now, cache, healthy, lock, task, call, verdict>>

WorkloadApi ==
    /\ deployed = "spiffe_workload"
    /\ \/ /\ healthy' = ~healthy
          /\ UNCHANGED cache
       \/ /\ healthy /\ cache.set # issuer
          /\ cache' = [cache EXCEPT !.set = issuer, !.stored = now]
          /\ UNCHANGED healthy
    /\ UNCHANGED <<deployed, now, issuer, lock, task, call, verdict>>

Verify(c) ==
    \/ NativeVerify(c) \/ OidcVerify(c) \/ SpiffeVerify(c)
    \/ assert_fresh(c) \/ OidcLookup(c) \/ bundle_for_trust_domain(c) \/ Decode(c)
    \/ RefreshSnapshot(c) \/ RefreshLock(c) \/ LookupRetry(c)
    \/ spawn_background_refresh(c)
    \/ \E who \in {"verify", "background"} : LET t == <<c, who>> IN
           fetch_jwks(t) \/ FetchFails(t) \/ StoreKeys(t) \/ StampRefresh(t)

AttestorNext == (\E c \in Calls : Verify(c)) \/ Tick \/ Publish \/ WorkloadApi
-----------------------------------------------------------------------------
(* Properties. *)

\* A refresh never replaces a key set by an older one, whatever verifications and
\* background tasks fetch at the same time: a key the issuer has withdrawn does not
\* come back (jwks_cache.rs, refresh_dedup held from the fetch to the write).
KeySetNeverGoesBack == [][cache'.set >= cache.set]_attestorVars

\* A network OIDC attestor turns a credential away for an unknown key id only if a
\* refresh completed after it first missed the key (refresh_now, and the regression
\* its comment describes).
MissesAreRefetched ==
    \A c \in Calls : deployed \in Network /\ verdict[c] = "unknown_kid" =>
        cache.refreshes > call[c].missed

\* Where a limit is set, a credential is accepted only under keys whose refresh completed
\* at most MaxStaleness before its freshness check, even while refreshes fail, are skipped
\* or race it (assert_fresh).  The Workload API client answers for its own bundles.
StaleKeysExpire ==
    \A c \in Calls : deployed \in Limited \cap (Network \cup Static) /\ verdict[c] = "accepted" =>
        call[c].checked <= call[c].stored + MaxStaleness

=============================================================================
