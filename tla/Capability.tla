----------------------------- MODULE Capability -----------------------------
(***************************************************************************)
(* Capabilities: MemoryCapabilityStore (crates/yutha-capability/src/       *)
(* memory.rs) and Scope (scope.rs) under the CapabilityService handlers    *)
(* (control-plane grpc/capability.rs), with the quarantine source they     *)
(* consult.                                                                *)
(*                                                                         *)
(* A call is one RPC past authentication; a step of it ends where the code *)
(* awaits the store's lock, the quarantine source or the receipt store.  A *)
(* capability is named by the call that mints it.  Of a scope's four list  *)
(* dimensions one is kept, and one numeric bound: the code treats the      *)
(* lists alike.  An unset parent or bound is the empty sequence.           *)
(***************************************************************************)
EXTENDS Naturals, Sequences, FiniteSets

CONSTANTS Agents, Actions, Caveats,
          Issues,      \* Issue calls
          Attenuates,  \* Attenuate calls
          Revokes,     \* Revoke calls
          Checks,      \* Check calls
          Request,     \* for each minting call, what it asks for
          Revoked,     \* the capability each Revoke names
          Presented,   \* the capability and the action of each Check
          MaxDepth,    \* DEFAULT_MAX_CHAIN_DEPTH
          MaxAmount,   \* bound: amounts and numeric bounds
          MaxClock,    \* bound: wall-clock time
          MaxFlips,    \* bound: changes of the quarantine state
          MaxFaults    \* bound: receipt appends that fail

Mints == Issues \cup Attenuates
Calls == Mints \cup Revokes \cup Checks

Option(S) == {<< >>} \cup {<<x>> : x \in S}
Scopes    == [actions : SUBSET Actions, bound : Option(0..MaxAmount)]
Times     == [wall : Nat, mono : Nat]
Minted    == [subject : Agents, scope : Scopes, caveats : SUBSET Caveats,
              parent : Option(Mints), until : Times]
Descriptors == [cap : Mints, action : Actions, amount : 0..MaxAmount, meets : SUBSET Caveats]

ASSUME CapabilityAssumption ==
    /\ IsFiniteSet(Mints)
    /\ Issues \cap Attenuates = {} /\ Mints \cap Revokes = {}
    /\ Mints \cap Checks = {} /\ Revokes \cap Checks = {}
    /\ Request \in [Mints -> Minted]
    /\ \A c \in Attenuates : Request[c].parent # << >>
    /\ Revoked \in [Revokes -> Mints]
    /\ Presented \in [Checks -> Descriptors]
    /\ MaxDepth \in Nat \ {0} /\ MaxAmount \in Nat
    /\ MaxClock \in Nat /\ MaxFlips \in Nat /\ MaxFaults \in Nat

VARIABLES pc,
          caps,        \* Inner.by_id
          revoked,     \* Inner.revoked
          built,       \* the capability each minting call is about to store
          verdict,     \* what each Check has found
          quarantined, \* the quarantine source
          receipts,    \* capability.* receipts, by the call that led to them
          clock,
          condemned,   \* history: checks begun with a revoked capability in the chain
          confined,    \* history: checks of a stored capability whose subject has been
                       \*          quarantined throughout
          flips, faults

histVars == <<condemned, confined>>
vars == <<pc, caps, revoked, built, verdict, quarantined, receipts, clock, histVars,
          flips, faults>>

Steps == {"idle", "gate", "parent", "insert", "mark", "walk", "record",
          "done", "refused", "notfound", "failed"}

TypeOK ==
    /\ pc \in [Calls -> Steps]
    /\ DOMAIN caps \subseteq Mints /\ \A k \in DOMAIN caps : caps[k] \in Minted
    /\ revoked \subseteq DOMAIN caps
    /\ built \in [Mints -> Minted]
    /\ verdict \in [Checks -> {"none", "permit", "deny"}]
    /\ quarantined \subseteq Agents
    /\ receipts \subseteq Calls
    /\ clock \in 0..MaxClock
    /\ condemned \subseteq Checks /\ confined \subseteq Checks
    /\ flips \in 0..MaxFlips /\ faults \in 0..MaxFaults

Init ==
    /\ pc = [c \in Calls |-> "idle"]
    /\ caps = << >>
    /\ revoked = {}
    /\ built = Request
    /\ verdict = [c \in Checks |-> "none"]
    /\ quarantined = {}
    /\ receipts = {}
    /\ clock = 0
    /\ condemned = {} /\ confined = {}
    /\ flips = 0 /\ faults = 0

Goto(c, step) == pc' = [pc EXCEPT ![c] = step]
-----------------------------------------------------------------------------
(* Mutants. *)
AttenuateGuard_Absent(parentScope, childScope) == TRUE
WithinWindow_LeafOnly(k, leaf) == k = leaf => clock <= caps[k].until.wall
StopsAtRevoked_LeafOnly(k, leaf) == k = leaf /\ k \in revoked
-----------------------------------------------------------------------------
(* Scope.                                                                  *)

\* intersect_or_take_one: an empty list means "all".
IntersectOrTakeOne(S, T) == IF S = {} THEN T ELSE IF T = {} THEN S ELSE S \cap T

IntersectBounds(b, c) ==
    IF b = << >> THEN c ELSE IF c = << >> THEN b ELSE IF c[1] <= b[1] THEN c ELSE b

Intersect(s, t) == [actions |-> IntersectOrTakeOne(s.actions, t.actions),
                    bound   |-> IntersectBounds(s.bound, t.bound)]

Permits(s, d) ==
    /\ s.actions = {} \/ d.action \in s.actions
    /\ s.bound = << >> \/ d.amount <= s.bound[1]

\* MemoryCapabilityStore::attenuate's test for a child that broadens.
AttenuateGuard(parentScope, childScope) == Intersect(parentScope, childScope) = childScope
-----------------------------------------------------------------------------
(* Issue and Attenuate.                                                    *)

IssueCall(c) ==
    /\ c \in Issues /\ pc[c] = "idle"
    /\ Goto(c, "gate")
    /\ UNCHANGED <<caps, revoked, built, verdict, quarantined, receipts, clock, histVars,
                   flips, faults>>

\* The handler looks the parent up, compares the expiry times by monotonic_ns
\* and builds the child: the parent's scope narrowed, its caveats and more,
\* its subject.
AttenuateCall(c) ==
    /\ c \in Attenuates /\ pc[c] = "idle"
    /\ LET p == Request[c].parent[1] IN
       IF p \notin DOMAIN caps \ revoked
       THEN Goto(c, "notfound") /\ UNCHANGED built
       ELSE IF Request[c].until.mono > caps[p].until.mono
       THEN Goto(c, "refused") /\ UNCHANGED built
       ELSE /\ built' = [built EXCEPT ![c].scope = Intersect(caps[p].scope, @),
                                      ![c].caveats = caps[p].caveats \cup @,
                                      ![c].subject = caps[p].subject]
            /\ Goto(c, "gate")
    /\ UNCHANGED <<caps, revoked, verdict, quarantined, receipts, clock, histVars, flips, faults>>

\* Nothing is minted for a quarantined subject.
MintGate(c) ==
    /\ c \in Mints /\ pc[c] = "gate"
    /\ Goto(c, IF built[c].subject \in quarantined THEN "refused"
               ELSE IF c \in Attenuates THEN "parent" ELSE "insert")
    /\ UNCHANGED <<caps, revoked, built, verdict, quarantined, receipts, clock, histVars,
                   flips, faults>>

\* The store reads the parent again, revoked or not.
CheckParent(c) ==
    /\ pc[c] = "parent"
    /\ Goto(c, IF AttenuateGuard(caps[built[c].parent[1]].scope, built[c].scope)
               THEN "insert" ELSE "refused")
    /\ UNCHANGED <<caps, revoked, built, verdict, quarantined, receipts, clock, histVars,
                   flips, faults>>

Insert(c) ==
    /\ pc[c] = "insert"
    /\ caps' = [k \in DOMAIN caps \cup {c} |-> IF k = c THEN built[c] ELSE caps[k]]
    /\ Goto(c, "record")
    /\ UNCHANGED <<revoked, built, verdict, quarantined, receipts, clock, histVars, flips, faults>>
-----------------------------------------------------------------------------
(* Revoke.                                                                 *)

RevokeCall(c) ==
    /\ c \in Revokes /\ pc[c] = "idle"
    /\ Goto(c, IF Revoked[c] \in DOMAIN caps THEN "mark" ELSE "notfound")
    /\ UNCHANGED <<caps, revoked, built, verdict, quarantined, receipts, clock, histVars,
                   flips, faults>>

Mark(c) ==
    /\ pc[c] = "mark"
    /\ revoked' = revoked \cup {Revoked[c]}
    /\ Goto(c, "record")
    /\ UNCHANGED <<caps, built, verdict, quarantined, receipts, clock, histVars, flips, faults>>
-----------------------------------------------------------------------------
(* Check.                                                                  *)

\* The capability above an optional one: nothing above what is not stored.
Above(link) ==
    IF link = << >> THEN << >>
    ELSE IF link[1] \notin DOMAIN caps THEN << >> ELSE caps[link[1]].parent

\* The chain of k from itself up, further than any walk goes.
Lineage(k) ==
    LET up[n \in 0..(MaxDepth + Cardinality(Mints))] ==
          IF n = 0 THEN <<k>> ELSE Above(up[n - 1])
    IN  up

\* The links of k's chain that are named, stored or not.
Chain(k) == {x \in Mints : \E n \in DOMAIN Lineage(k) : Lineage(k)[n] = <<x>>}

\* Asked of every link k above the leaf, and of the leaf itself.
StopsAtRevoked(k, leaf) == k \in revoked
WithinWindow(k, leaf) == clock <= caps[k].until.wall

\* What the walk from the leaf makes of the n-th link: it stops at the first
\* that is too deep, revoked, missing or out of its window.
Visit(leaf, n) ==
    LET link == Lineage(leaf)[n] IN
    IF link = << >> THEN "root"
    ELSE IF n = MaxDepth THEN "error"
    ELSE IF StopsAtRevoked(link[1], leaf) THEN "deny"
    ELSE IF link[1] \notin DOMAIN caps THEN "error"
    ELSE IF ~WithinWindow(link[1], leaf) THEN "deny"
    ELSE "on"

Walk(leaf) ==
    Visit(leaf, CHOOSE n \in 0..MaxDepth : /\ Visit(leaf, n) # "on"
                                           /\ \A m \in 0..(n - 1) : Visit(leaf, m) = "on")

\* The scopes of the chain, intersected from the root down.
EffectiveScope(leaf) ==
    LET length == Cardinality(Chain(leaf))
        from[n \in 0..(length - 1)] ==
          LET scope == caps[Lineage(leaf)[n][1]].scope
          IN  IF n = length - 1 THEN scope ELSE Intersect(from[n + 1], scope)
    IN  from[0]

Evaluate(d) ==
    IF Walk(d.cap) # "root" THEN Walk(d.cap)
    ELSE IF /\ Permits(EffectiveScope(d.cap), d)
            /\ \A k \in Chain(d.cap) : caps[k].caveats \subseteq d.meets
         THEN "permit" ELSE "deny"

\* The leaf is read first, for its subject.
CheckCall(c) ==
    LET k == Presented[c].cap IN
    /\ c \in Checks /\ pc[c] = "idle"
    /\ Goto(c, IF k \in DOMAIN caps \ revoked THEN "gate" ELSE "walk")
    /\ condemned' = IF Chain(k) \cap revoked # {} THEN condemned \cup {c} ELSE condemned
    /\ confined' = IF k \in DOMAIN caps /\ caps[k].subject \in quarantined
                   THEN confined \cup {c} ELSE confined
    /\ UNCHANGED <<caps, revoked, built, verdict, quarantined, receipts, clock, flips, faults>>

CheckGate(c) ==
    /\ c \in Checks /\ pc[c] = "gate"
    /\ IF caps[Presented[c].cap].subject \in quarantined
       THEN verdict' = [verdict EXCEPT ![c] = "deny"] /\ Goto(c, "record")
       ELSE Goto(c, "walk") /\ UNCHANGED verdict
    /\ UNCHANGED <<caps, revoked, built, quarantined, receipts, clock, histVars, flips, faults>>

CheckWalk(c) ==
    /\ pc[c] = "walk"
    /\ LET v == Evaluate(Presented[c]) IN
       IF v = "error"
       THEN Goto(c, "failed") /\ UNCHANGED verdict
       ELSE verdict' = [verdict EXCEPT ![c] = v] /\ Goto(c, "record")
    /\ UNCHANGED <<caps, revoked, built, quarantined, receipts, clock, histVars, flips, faults>>
-----------------------------------------------------------------------------
\* record_event, the last step of every call.
Record(c) ==
    /\ pc[c] = "record"
    /\ receipts' = receipts \cup {c}
    /\ Goto(c, "done")
    /\ UNCHANGED <<caps, revoked, built, verdict, quarantined, clock, histVars, flips, faults>>

RecordFails(c) ==
    /\ pc[c] = "record" /\ faults < MaxFaults
    /\ faults' = faults + 1
    /\ Goto(c, "failed")
    /\ UNCHANGED <<caps, revoked, built, verdict, quarantined, receipts, clock, histVars, flips>>

\* The enforcement engine quarantines an agent or lets it go.
FlipQuarantine(a) ==
    /\ flips < MaxFlips
    /\ flips' = flips + 1
    /\ quarantined' = IF a \in quarantined THEN quarantined \ {a} ELSE quarantined \cup {a}
    /\ confined' = {c \in confined : caps[Presented[c].cap].subject # a
                                     \/ pc[c] \in {"record", "done", "failed"}}
    /\ UNCHANGED <<pc, caps, revoked, built, verdict, receipts, clock, condemned, faults>>

Tick ==
    /\ clock < MaxClock
    /\ clock' = clock + 1
    /\ UNCHANGED <<pc, caps, revoked, built, verdict, quarantined, receipts, histVars, flips,
                   faults>>

Next ==
    \/ \E c \in Calls : \/ IssueCall(c) \/ AttenuateCall(c) \/ MintGate(c) \/ CheckParent(c)
                        \/ Insert(c) \/ RevokeCall(c) \/ Mark(c)
                        \/ CheckCall(c) \/ CheckGate(c) \/ CheckWalk(c)
                        \/ Record(c) \/ RecordFails(c)
    \/ \E a \in Agents : FlipQuarantine(a)
    \/ Tick

Spec == Init /\ [][Next]_vars
-----------------------------------------------------------------------------
(***************************************************************************)
(* CondemnedDenied: a check that begins once some capability of its chain  *)
(* is revoked is never permitted, though an attenuation of that very       *)
(* capability may still be under way; nor is a check of a stored           *)
(* capability whose subject is quarantined from its beginning to its       *)
(* verdict (check_inner consults the quarantine source once, before the    *)
(* walk).                                                                  *)
(***************************************************************************)
CondemnedDenied ==
    \A c \in condemned \cup confined : verdict[c] # "permit"

(***************************************************************************)
(* ConstraintsHold: a permitted action satisfies what every minting call   *)
(* along the chain asked for: its scope, its caveats (spec/capability/     *)
(* rationale.md:16 "the child cannot exceed the parent").                  *)
(***************************************************************************)
ConstraintsHold ==
    \A c \in Checks : verdict[c] = "permit" =>
        \A k \in Chain(Presented[c].cap) :
            /\ Permits(Request[k].scope, Presented[c])
            /\ Request[k].caveats \subseteq Presented[c].meets

(***************************************************************************)
(* ExpiredChainDenied: no check is permitted at a time past the expiry of  *)
(* any link, although the expiry of a child is compared with its parent's  *)
(* on another clock (is_within_window, grpc/capability.rs:176).            *)
(***************************************************************************)
ExpiredChainDenied ==
    [][\A c \in Checks : (verdict[c] # "permit" /\ verdict'[c] = "permit") =>
         \A k \in Chain(Presented[c].cap) : clock <= Request[k].until.wall]_vars
=============================================================================
