------------------------------ MODULE SendPath ------------------------------
(***************************************************************************)
(* The send path of the control plane and the two constitution slots it    *)
(* reads: EnvelopeHandler::send (grpc/envelope.rs), the slots of           *)
(* CedarPlusEvaluator (evaluator.rs) and the operator calls that write     *)
(* them, Activate, ActivateShadow, ClearShadow and PromoteShadow           *)
(* (grpc/constitution.rs).                                                 *)
(*                                                                         *)
(* A step of a call ends at each await after which another call may have   *)
(* run.  The slots are two RwLocks.  Only promote_shadow awaits with a     *)
(* guard in hand (the shadow's write guard, while it waits for the active  *)
(* one), so only that guard is state.  The bearer checks, the capability   *)
(* check and the loader, which are modelled elsewhere or read nothing      *)
(* here, are the choice between going on and Refuse.                       *)
(***************************************************************************)
EXTENDS Naturals, FiniteSets

CONSTANTS
    Sends,          \* calls of EnvelopeService.Send
    Activates,      \* calls of ConstitutionService.Activate
    Shadows,        \* calls of ActivateShadow
    Clears,         \* calls of ClearShadow
    Promotes,       \* calls of PromoteShadow
    Constitutions,
    None,           \* an empty slot, an absent hash
    Nobody,         \* no holder of the shadow slot's write guard
    Genesis,        \* what the active slot holds at first, perhaps None
    Loads,          \* the constitution a call of Activates or Shadows brings
    Permitted,      \* for a constitution, the sends it permits
    MaxFaults       \* bound on failing evaluations and appends

Operators == Activates \cup Shadows \cup Clears \cup Promotes
Calls == Sends \cup Operators
Slot == Constitutions \cup {None}

ASSUME CallsDisjoint ==
    /\ Sends \cap Operators = {}
    /\ Activates \cap (Shadows \cup Clears \cup Promotes) = {}
    /\ Shadows \cap (Clears \cup Promotes) = {}
    /\ Clears \cap Promotes = {}
    /\ Nobody \notin Calls
ASSUME NoneNoConstitution == None \notin Constitutions
ASSUME GenesisSlot == Genesis \in Slot
ASSUME LoadsConstitutions == Loads \in [Activates \cup Shadows -> Constitutions]
ASSUME PermittedSends == Permitted \in [Constitutions -> SUBSET Sends]
ASSUME MaxFaultsNat == MaxFaults \in Nat

VARIABLES
    active, shadow,     \* the slots of CedarPlusEvaluator
    guard,              \* the promotion that holds the shadow's write guard
    engine,             \* the constitution the enforcement engine is bound to
    pc,                 \* where each call is
    pin,                \* the slots as a call first read them
    got,                \* the slots as it read or replaced them later
    log,                \* the receipts appended
    seen,               \* history: what was active during each send
    faults

vars == <<active, shadow, guard, engine, pc, pin, got, log, seen, faults>>

Locations == {"start", "refused", "pin", "pinned", "read", "resolved",
              "emitted", "decide", "deliver", "sent", "panicked", "begun",
              "taken", "written", "fetched", "bound", "recorded", "unrecorded"}
Kinds == {"evaluate", "evaluate.shadow", "activate", "shadow_activate",
          "shadow_clear", "shadow_promote"}
Receipt == [call : Calls, kind : Kinds, hash : Slot, version : Slot,
            other : Slot, outcome : {"pass", "deny", "done"}]
Reading == [active : Slot, shadow : Slot]

Init ==
    /\ active = Genesis /\ shadow = None
    /\ guard = Nobody
    /\ engine = Genesis
    /\ pc = [c \in Calls |-> "start"]
    /\ pin = [c \in Calls |-> [active |-> None, shadow |-> None]]
    /\ got = [c \in Calls |-> [active |-> None, shadow |-> None]]
    /\ log = {}
    /\ seen = [s \in Sends |-> {}]
    /\ faults = 0

Go(c, from, to) == pc[c] = from /\ pc' = [pc EXCEPT ![c] = to]

\* The shadow slot can be locked: no promotion is between its two locks.
ShadowFree == guard = Nobody

AppendReceipt(c, kind, hash, version, other, outcome) ==
    log' = log \cup {[call |-> c, kind |-> kind, hash |-> hash,
                      version |-> version, other |-> other,
                      outcome |-> outcome]}

\* A call that ends on a bearer, capability or loader error.
Refuse(c) ==
    /\ Go(c, "start", "refused")
    /\ UNCHANGED <<active, shadow, guard, engine, pin, got, log, seen, faults>>

\* The calls that an evaluation, an append or the transport can fail under.
\* A slot that an operator call has written stays written.
CanFail(c) ==
    \/ pc[c] \in {"resolved", "deliver", "bound"}
    \/ pc[c] = "fetched" /\ c \notin Activates
    \/ pc[c] = "emitted" /\ pin[c].shadow # None /\ got[c].shadow # None

Fail(c) ==
    /\ faults < MaxFaults /\ CanFail(c)
    /\ faults' = faults + 1
    /\ pc' = [pc EXCEPT ![c] = IF c \in Sends THEN "refused" ELSE "unrecorded"]
    /\ UNCHANGED <<active, shadow, guard, engine, pin, got, log, seen>>

-----------------------------------------------------------------------------
(* EnvelopeHandler::send.                                                  *)

\* current_pair in the handler: two reads, one after the other.
PinActive(s) ==
    /\ Go(s, "start", "pin")
    /\ pin' = [pin EXCEPT ![s].active = active]
    /\ seen' = [seen EXCEPT ![s] = {active}]
    /\ UNCHANGED <<active, shadow, guard, engine, got, log, faults>>

PinShadow(s) ==
    /\ ShadowFree
    /\ Go(s, "pin", IF pin[s].active = None THEN "refused" ELSE "pinned")
    /\ pin' = [pin EXCEPT ![s].shadow = shadow]
    /\ UNCHANGED <<active, shadow, guard, engine, got, log, seen, faults>>

\* current_pair again, in evaluate_pair, after the request is built.
ReadActive(s) ==
    /\ Go(s, "pinned", "read")
    /\ got' = [got EXCEPT ![s].active = active]
    /\ UNCHANGED <<active, shadow, guard, engine, pin, log, seen, faults>>

\* The request is pinned to the constitution that evaluates it.
StillPinned_Unchecked(s) == got[s].active # None
StillPinned(s) == got[s].active # None /\ got[s].active = pin[s].active

ReadShadow(s) ==
    /\ ShadowFree
    /\ Go(s, "read", IF StillPinned(s) THEN "resolved" ELSE "refused")
    /\ got' = [got EXCEPT ![s].shadow = shadow]
    /\ UNCHANGED <<active, shadow, guard, engine, pin, log, seen, faults>>

\* What evaluate_against decides about a send under a constitution.
Verdict(c, s) == IF s \in Permitted[c] THEN "pass" ELSE "deny"

\* The active receipt carries the pinned hash and the pinned shadow's hash,
\* and the decision of the constitution that evaluated.
EmitActive(s) ==
    /\ Go(s, "resolved", "emitted")
    /\ AppendReceipt(s, "evaluate", pin[s].active, pin[s].active, pin[s].shadow,
              Verdict(got[s].active, s))
    /\ UNCHANGED <<active, shadow, guard, engine, pin, got, seen, faults>>

EmitShadow(s) ==
    /\ got[s].shadow # None /\ pin[s].shadow # None
    /\ Go(s, "emitted", "decide")
    /\ AppendReceipt(s, "evaluate.shadow", pin[s].shadow, pin[s].shadow, None,
              Verdict(got[s].shadow, s))
    /\ UNCHANGED <<active, shadow, guard, engine, pin, got, seen, faults>>

\* expect("shadow_outcome_opt is Some implies shadow_meta is Some").
Panic(s) ==
    /\ got[s].shadow # None /\ pin[s].shadow = None
    /\ Go(s, "emitted", "panicked")
    /\ UNCHANGED <<active, shadow, guard, engine, pin, got, log, seen, faults>>

NoShadow(s) ==
    /\ got[s].shadow = None
    /\ Go(s, "emitted", "decide")
    /\ UNCHANGED <<active, shadow, guard, engine, pin, got, log, seen, faults>>

Decide_ShadowGates(s) ==
    /\ Go(s, "decide", IF got[s].shadow = None \/ Verdict(got[s].shadow, s) = "pass"
                       THEN "deliver" ELSE "refused")
    /\ UNCHANGED <<active, shadow, guard, engine, pin, got, log, seen, faults>>

Decide(s) ==
    /\ Go(s, "decide",
          IF Verdict(got[s].active, s) = "pass" THEN "deliver" ELSE "refused")
    /\ UNCHANGED <<active, shadow, guard, engine, pin, got, log, seen, faults>>

\* transport.send, which the Transport module details.
Deliver(s) ==
    /\ Go(s, "deliver", "sent")
    /\ UNCHANGED <<active, shadow, guard, engine, pin, got, log, seen, faults>>

Send(s) ==
    \/ PinActive(s) \/ PinShadow(s) \/ ReadActive(s) \/ ReadShadow(s)
    \/ EmitActive(s) \/ EmitShadow(s) \/ Panic(s) \/ NoShadow(s)
    \/ Decide(s) \/ Deliver(s)

-----------------------------------------------------------------------------
(* The operator calls of grpc/constitution.rs.                             *)

\* A write of the active slot; the history of the sends under way sees it.
SetActive(c) ==
    /\ active' = c
    /\ seen' = [s \in Sends |->
                   IF pc[s] = "start" THEN seen[s] ELSE seen[s] \cup {c}]

Activate(a) ==
    /\ Go(a, "start", "written")
    /\ SetActive(Loads[a])
    /\ UNCHANGED <<shadow, guard, engine, pin, got, log, faults>>

\* current() again, for the engine and for the receipt's version.
RefetchActive(a) ==
    /\ Go(a, "written", "fetched")
    /\ got' = [got EXCEPT ![a].active = active]
    /\ UNCHANGED <<active, shadow, guard, engine, pin, log, seen, faults>>

BindActive(a) ==
    /\ Go(a, "fetched", "bound")
    /\ engine' = got[a].active
    /\ UNCHANGED <<active, shadow, guard, pin, got, log, seen, faults>>

RecordActivate(a) ==
    /\ Go(a, "bound", "recorded")
    /\ AppendReceipt(a, "activate", Loads[a], got[a].active, None, "done")
    /\ UNCHANGED <<active, shadow, guard, engine, pin, got, seen, faults>>

\* The active hash is read for the receipt before the shadow is loaded.
ReadParent(h) ==
    /\ Go(h, "start", "begun")
    /\ pin' = [pin EXCEPT ![h].active = active]
    /\ UNCHANGED <<active, shadow, guard, engine, got, log, seen, faults>>

LoadShadow(h) ==
    /\ ShadowFree
    /\ Go(h, "begun", "written")
    /\ shadow' = Loads[h]
    /\ UNCHANGED <<active, guard, engine, pin, got, log, seen, faults>>

\* current_shadow() again, for the version; the caller's own if it is empty.
RefetchShadow(h) ==
    /\ ShadowFree
    /\ Go(h, "written", "fetched")
    /\ got' = [got EXCEPT ![h].shadow = IF shadow = None THEN Loads[h] ELSE shadow]
    /\ UNCHANGED <<active, shadow, guard, engine, pin, log, seen, faults>>

RecordShadow(h) ==
    /\ Go(h, "fetched", "recorded")
    /\ AppendReceipt(h, "shadow_activate", Loads[h], got[h].shadow, pin[h].active, "done")
    /\ UNCHANGED <<active, shadow, guard, engine, pin, got, seen, faults>>

ReadEvicted(k) ==
    /\ ShadowFree
    /\ Go(k, "start", "begun")
    /\ pin' = [pin EXCEPT ![k].shadow = shadow]
    /\ UNCHANGED <<active, shadow, guard, engine, got, log, seen, faults>>

ClearShadow(k) ==
    /\ ShadowFree
    /\ Go(k, "begun", "fetched")
    /\ got' = [got EXCEPT ![k].shadow = shadow]
    /\ shadow' = None
    /\ UNCHANGED <<active, guard, engine, pin, log, seen, faults>>

RecordClear(k) ==
    /\ Go(k, "fetched", "recorded")
    /\ AppendReceipt(k, "shadow_clear", got[k].shadow, pin[k].shadow, None, "done")
    /\ UNCHANGED <<active, shadow, guard, engine, pin, got, seen, faults>>

PromoteTake_Clones(p) ==
    /\ ShadowFree
    /\ IF shadow = None
       THEN Go(p, "start", "refused") /\ UNCHANGED <<guard, got>>
       ELSE /\ Go(p, "start", "taken")
            /\ guard' = p
            /\ got' = [got EXCEPT ![p].shadow = shadow]
    /\ UNCHANGED <<active, shadow, engine, pin, log, seen, faults>>

\* promote_shadow takes the shadow under its write guard and keeps the guard.
PromoteTake(p) ==
    /\ ShadowFree
    /\ IF shadow = None
       THEN Go(p, "start", "refused") /\ UNCHANGED <<shadow, guard, got>>
       ELSE /\ Go(p, "start", "taken")
            /\ guard' = p
            /\ got' = [got EXCEPT ![p].shadow = shadow]
            /\ shadow' = None
    /\ UNCHANGED <<active, engine, pin, log, seen, faults>>

PromoteReplace_RereadsShadow(p) ==
    /\ ShadowFree
    /\ Go(p, "taken", "written")
    /\ got' = [got EXCEPT ![p].active = active]
    /\ SetActive(got[p].shadow)
    /\ guard' = Nobody
    /\ UNCHANGED <<shadow, engine, pin, log, faults>>

\* It locks the active slot, replaces what is there and drops both guards.
PromoteReplace(p) ==
    /\ Go(p, "taken", "written")
    /\ got' = [got EXCEPT ![p].active = active]
    /\ SetActive(got[p].shadow)
    /\ guard' = Nobody
    /\ UNCHANGED <<shadow, engine, pin, log, faults>>

BindPromoted(p) ==
    /\ Go(p, "written", "bound")
    /\ engine' = got[p].shadow
    /\ UNCHANGED <<active, shadow, guard, pin, got, log, seen, faults>>

RecordPromote(p) ==
    /\ Go(p, "bound", "recorded")
    /\ AppendReceipt(p, "shadow_promote", got[p].shadow, got[p].shadow, got[p].active, "done")
    /\ UNCHANGED <<active, shadow, guard, engine, pin, got, seen, faults>>

Activating(a) ==
    Activate(a) \/ RefetchActive(a) \/ BindActive(a) \/ RecordActivate(a)
Shadowing(h) ==
    ReadParent(h) \/ LoadShadow(h) \/ RefetchShadow(h) \/ RecordShadow(h)
Clearing(k) == ReadEvicted(k) \/ ClearShadow(k) \/ RecordClear(k)
Promoting(p) ==
    PromoteTake(p) \/ PromoteReplace(p) \/ BindPromoted(p) \/ RecordPromote(p)

Next ==
    \/ \E c \in Calls : Refuse(c) \/ Fail(c)
    \/ \E s \in Sends : Send(s)
    \/ \E a \in Activates : Activating(a)
    \/ \E h \in Shadows : Shadowing(h)
    \/ \E k \in Clears : Clearing(k)
    \/ \E p \in Promotes : Promoting(p)

Spec == Init /\ [][Next]_vars

\* tokio polls every task that can go on; a call waits for the shadow slot
\* only while a promotion holds it, and there are finitely many of those.
FairSpec ==
    /\ Spec
    /\ \A s \in Sends : WF_vars(Send(s))
    /\ \A a \in Activates : WF_vars(Activating(a))
    /\ \A h \in Shadows : WF_vars(Shadowing(h))
    /\ \A k \in Clears : WF_vars(Clearing(k))
    /\ \A p \in Promotes : WF_vars(Promoting(p))

-----------------------------------------------------------------------------
(* Properties.                                                             *)

\* Types; and the guard is held exactly by the promotion between its two
\* locks (the guard of promote_shadow lives from take to return).
TypeOK ==
    /\ active \in Slot /\ shadow \in Slot /\ engine \in Slot
    /\ guard \in Promotes \cup {Nobody}
    /\ pc \in [Calls -> Locations]
    /\ pin \in [Calls -> Reading] /\ got \in [Calls -> Reading]
    /\ log \subseteq Receipt
    /\ seen \in [Sends -> SUBSET Slot]
    /\ faults \in 0..MaxFaults
    /\ \A p \in Promotes : pc[p] = "taken" <=> guard = p

\* A constitution.evaluate receipt names the constitution that decided,
\* although the handler read the slot before evaluate_pair read it again.
ReceiptNamesJudge ==
    \A r \in log : r.kind = "evaluate" =>
        r.hash = got[r.call].active /\ r.outcome = Verdict(r.hash, r.call)

\* An envelope that went out was permitted by a constitution that was active
\* at some moment of its own call, and the log holds that very decision:
\* no amendment, promotion or shadow lets one through on another's word.
SentUnderActive ==
    \A s \in Sends : pc[s] = "sent" =>
        \E r \in log : /\ r.call = s /\ r.kind = "evaluate" /\ r.outcome = "pass"
                       /\ r.hash \in seen[s] /\ s \in Permitted[r.hash]

Ended == {"refused", "sent", "panicked", "recorded", "unrecorded"}
Wrote(h) == pc[h] \in {"written", "fetched", "recorded", "unrecorded"}

\* A constitution leaves the shadow slot once per time it was loaded there:
\* clears and promotions that report it, with the one still in the slot,
\* never outnumber the loads, so none is promoted after it was cleared.
ShadowLeavesOnce ==
    \A c \in Constitutions :
        Cardinality({k \in Clears \cup Promotes : got[k].shadow = c})
            + (IF shadow = c THEN 1 ELSE 0)
        <= Cardinality({h \in Shadows : Loads[h] = c /\ Wrote(h)})

\* Every call that has begun ends (no call runs twice, so eventually all of
\* them have): the guard that promote_shadow holds while it waits for the
\* active slot blocks nobody for ever.
CallsEnd == <>[](\A c \in Calls : pc[c] \in {"start"} \cup Ended)

\* envelope.rs: a shadow outcome implies the pinned shadow's hash and version.
NoPanic == \A s \in Sends : pc[s] # "panicked"
=============================================================================
