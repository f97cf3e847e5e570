-------------------------- MODULE ConstitutionEval --------------------------
(***************************************************************************)
(* CedarPlusEvaluator at work: artifacts are loaded into the active and    *)
(* the shadow slot, sends collect the attributes of their sender and       *)
(* recipient one lookup at a time, and each is judged by Cedar (Layer A)   *)
(* and by scoring and procedures (Layer B), with an evidence digest over   *)
(* what was judged.  The order in which a HashMap or HashSet yields its    *)
(* members is a free choice of every step that iterates one.               *)
(*                                                                         *)
(* A digest is the value hashed (SHA-256 is taken to be injective).        *)
(* Names that are sorted are numbers.  What the handler does around the    *)
(* evaluation (receipts, promotion, labels) is SendPath's subject.         *)
(***************************************************************************)
EXTENDS ConstitutionDiff

CONSTANTS Agents,        \* agent ids, numbers
          Sends,         \* the Send calls
          Deployed,      \* artifacts operators activate
          Candidates,    \* artifacts that are only vetted or diffed
          MaxEntityCount,
          Clocks,        \* wall-clock readings
          MaxChanges     \* bound on attribute changes and on activations

Reps == {"high", "low"}
Tiers == {"minimal", "standard"}
Unregistered == "unregistered"
Orders == {"up", "down"}          \* two iteration orders of every hash container

VARIABLES current, current_shadow, \* content address of the loaded artifact, or None
          procedure_index,         \* instance id -> instance
          reputation, passport,    \* enforcement engine and passport store
          calls,                   \* the Send calls in progress
          outcomes,                \* every outcome returned so far
          vetted,                  \* the last answer of the operator's tools
          changes
vars == <<current, current_shadow, procedure_index, reputation, passport, calls,
          outcomes, vetted, changes>>

Empty == [x \in {} |-> 0]
NoRequest == [constitution_hash |-> None]

\* What loading the artifact of an address gives.
Loaded == [h \in {c.hash : c \in Deployed} |->
             ActivatedConstitution(CHOOSE c \in Deployed : c.hash = h)]
Idle == [pc |-> "idle", req |-> NoRequest, from |-> 0, to |-> 0, pair |-> <<>>]

Init ==
  /\ current = None /\ current_shadow = None
  /\ procedure_index = Empty
  /\ reputation = [a \in Agents |-> "high"]
  /\ passport \in [Agents -> {Unregistered, "standard"}]
  /\ calls = [k \in Sends |-> Idle]
  /\ outcomes = {}
  /\ vetted = [op |-> "none"]
  /\ changes = 0

(***************************************************************************)
(* The request of a send                                                   *)
(***************************************************************************)
\* Entity uids and attribute names, as numbers in their lexicographic order.
AgentUid(a) == <<1, a>>
RoleUid == <<2, 0>>
SwarmUid == <<3, 0>>
PassportTier == 1
Reputation == 2
Performative == 1
WallClock == 2
Performatives == {"inform", "request"}

\* A HashMap's pairs as the order of the moment yields them.
Iterate(m, order) ==
  LET keys == SetToSortSeq(DOMAIN m, <)
      seq == IF order = "up" THEN keys ELSE Reverse(keys)
  IN  [i \in DOMAIN seq |-> <<seq[i], m[seq[i]]>>]

\* The passport half falls back to a placeholder, the reputation never does.
resolve_agent_attrs(a) ==
  [x \in {PassportTier, Reputation} |->
     IF x = Reputation THEN reputation[a]
     ELSE IF passport[a] = Unregistered THEN "minimal" ELSE passport[a]]

agent_entity(a, attrs) == [uid |-> AgentUid(a), attrs |-> attrs, parents |-> <<SwarmUid>>]
swarm_entity == [uid |-> SwarmUid, attrs |-> Empty, parents |-> <<>>]
resource_entity == [uid |-> RoleUid, attrs |-> Empty, parents |-> <<>>]

Role == 0                          \* a role is the other kind of recipient
ResourceUid(to) == IF to = Role THEN RoleUid ELSE AgentUid(to)

\* Send handler: read both slots, pin the active hash.
StartSend(k, from, to, performative, now) ==
  /\ calls[k].pc = "idle" /\ current # None
  /\ passport[from] # Unregistered     \* bearer authentication
  /\ calls' = [calls EXCEPT ![k] =
       [pc |-> "sender", from |-> from, to |-> to, pair |-> <<>>,
        req |-> [constitution_hash |-> current, principal |-> from,
                 action |-> "SendEnvelope", resource |-> ResourceUid(to),
                 context |-> [x \in {Performative, WallClock} |->
                                IF x = Performative THEN performative ELSE now],
                 entities |-> <<>>, wall_clock |-> now]]]
  /\ UNCHANGED <<current, current_shadow, procedure_index, reputation, passport,
                 outcomes, vetted, changes>>

Entities(k, es) == calls' = [calls EXCEPT ![k].req.entities = @ \o es, ![k].pc =
                               IF calls[k].pc = "sender" THEN "recipient" ELSE "pair"]

ResolveSender(k) ==
  /\ calls[k].pc = "sender"
  /\ Entities(k, <<agent_entity(calls[k].from, resolve_agent_attrs(calls[k].from)),
                   swarm_entity>>)
  /\ UNCHANGED <<current, current_shadow, procedure_index, reputation, passport,
                 outcomes, vetted, changes>>

\* Mutant: the self-send test is dropped.
RecipientEntities_Always(from, to) ==
  IF to = Role THEN <<resource_entity>> ELSE <<agent_entity(to, resolve_agent_attrs(to))>>

\* The recipient's entities: none when it is the sender.
RecipientEntities(from, to) ==
  CASE to = Role -> <<resource_entity>>
    [] to = from -> <<>>
    [] OTHER     -> <<agent_entity(to, resolve_agent_attrs(to))>>

ResolveRecipient(k) ==
  /\ calls[k].pc = "recipient"
  /\ Entities(k, RecipientEntities(calls[k].from, calls[k].to))
  /\ UNCHANGED <<current, current_shadow, procedure_index, reputation, passport,
                 outcomes, vetted, changes>>

(***************************************************************************)
(* Evidence                                                                *)
(***************************************************************************)
\* A BTreeMap built from a HashMap: the pairs sorted by key.
Sorted(m, order) == SortSeq(Iterate(m, order), LAMBDA p, q : p[1] < q[1])

\* Mutant: the number of entities stands for them.
canonicalize_entity_snapshot_Count(es, order) == Len(es)

canonicalize_entity_snapshot(es, order) ==
  LET Less(a, b) == a.uid[1] < b.uid[1] \/ (a.uid[1] = b.uid[1] /\ a.uid[2] < b.uid[2])
      sorted == SortSeq(es, Less)
  IN  [i \in DOMAIN sorted |->
         <<sorted[i].uid, Sorted(sorted[i].attrs, order), sorted[i].parents>>]

hash_input_attributes(req, order) ==
  <<req.action, req.principal, req.resource, Sorted(req.context, order),
    canonicalize_entity_snapshot(req.entities, order), req.wall_clock>>

compute_evidence_digest(matched, contributions, effects, input) ==
  <<matched, contributions, effects, input>>

(***************************************************************************)
(* Layer A: the authorizer, which is the cedar-policy crate                *)
(***************************************************************************)
AttrOf(req, uid, x) ==
  LET es == {req.entities[i] : i \in DOMAIN req.entities}
      hit == {e \in es : e.uid = uid /\ x \in DOMAIN e.attrs}
  IN  IF hit = {} THEN None ELSE (CHOOSE e \in hit : TRUE).attrs[x]

\* The atomic tests policies are written with.
Holds(atom, req) ==
  CASE atom = "true"     -> TRUE
    [] atom = "low"      -> AttrOf(req, AgentUid(req.principal), Reputation) = "low"
    [] atom = "standard" -> AttrOf(req, AgentUid(req.principal), PassportTier) = "standard"
    [] atom = "request"  -> req.context[Performative] = "request"
    [] atom = "peer_low" -> AttrOf(req, req.resource, Reputation) = "low"

Satisfied(expr, req) == \A i \in DOMAIN expr : Holds(expr[i].t, req)

build_cedar_entities(es) ==   \* cedar refuses two entities of one uid
  \A i, j \in DOMAIN es : es[i].uid = es[j].uid => i = j

\* Allow needs a permit and no forbid; the reason is a HashSet of policy ids.
is_authorized(req, set) ==
  LET hit(e) == {i \in DOMAIN set : set[i].text.effect = e /\ Satisfied(set[i].text.when, req)}
  IN  [allow |-> hit("permit") # {} /\ hit("forbid") = {},
       reason |-> {set[i].id : i \in IF hit("forbid") # {} THEN hit("forbid") ELSE hit("permit")}]

\* Layer B's sets hold only permits with an action in the head.
MatchedB(req, set) ==
  {set[i].id : i \in {j \in DOMAIN set : /\ set[j].text.action \in {None, req.action}
                                         /\ Satisfied(set[j].text.when, req)}}

ById(a, b) == a[2] < b[2]
Listed(ids, order) == LET s == SetToSortSeq(ids, ById)
                      IN  IF order = "up" THEN s ELSE Reverse(s)

(***************************************************************************)
(* Layer B: what the matched policy ids are looked up as                   *)
(***************************************************************************)
I64Max == 2147483647               \* stands for i64::MAX
Saturate(n) == IF n > I64Max THEN I64Max ELSE IF n < -I64Max THEN -I64Max ELSE n

evaluate_scoring(req, ac) ==
  LET b == ac.layer_b.scoring
      ids == SelectSeq(Listed(MatchedB(req, b.set), "up"), LAMBDA id : id \in DOMAIN b.by_id)
  IN  [contributions |-> [i \in DOMAIN ids |-> [rule |-> b.by_id[ids[i]].rule,
                                                score |-> b.by_id[ids[i]].score]],
       total |-> IF ids = <<>> THEN None
                 ELSE render_score_scaled(FoldLeft(
                        LAMBDA t, id : Saturate(t + b.by_id[id].scaled), 0, ids))]

ProcedureOf(ac, n) ==
  LET ps == ac.resolved.procedures IN ps[CHOOSE i \in DOMAIN ps : ps[i].name = n]

has_open_instance(index, id) == id \in DOMAIN index /\ ~index[id].closed
open_instances_for(index, n, state) ==
  {id \in DOMAIN index : ~index[id].closed /\ index[id].proc = n /\ index[id].state = state}

record_enter(index, id, inst) == [x \in DOMAIN index \cup {id} |-> IF x = id THEN inst ELSE index[x]]
record_transition(index, id, state, terminal) ==
  [index EXCEPT ![id].state = state, ![id].closed = terminal]

\* One procedure instance per trigger and request digest, unless one is open.
triggers(req, ac, index, digest) ==
  LET b == ac.layer_b.triggers
      ids == SelectSeq(Listed(MatchedB(req, b.set), "up"), LAMBDA id : id \in DOMAIN b.by_id)
      Enter(acc, id) ==
        LET n == b.by_id[id]
            inst == <<n, digest, req.wall_clock>>
        IN  IF has_open_instance(acc.index, inst) THEN acc
            ELSE [index |-> record_enter(acc.index, inst,
                              [proc |-> n, state |-> ProcedureOf(ac, n).initial_state,
                               closed |-> FALSE]),
                  effects |-> Append(acc.effects, <<"procedure.enter", inst>>)]
  IN  FoldLeft(Enter, [index |-> index, effects |-> <<>>], ids)

\* Every open instance in the handle's source state moves.
fire_transition(ac, acc, h, order) ==
  LET open == open_instances_for(acc.index, h.proc, h.from)
      seq == SetToSeq(open)
      terminal == h.to \in ProcedureOf(ac, h.proc).terminal_states
      Move(a, id) == [index |-> record_transition(a.index, id, h.to, terminal),
                      effects |-> Append(a.effects, <<"procedure.transition", id>>)]
  IN  FoldLeft(Move, acc, IF order = "up" THEN seq ELSE Reverse(seq))

transitions(req, ac, acc, order) ==
  LET b == ac.layer_b.transitions
      ids == SelectSeq(Listed(MatchedB(req, b.set), "up"),
                       LAMBDA id : id \in DOMAIN b.by_id /\ b.by_id[id].action = req.action)
  IN  FoldLeft(LAMBDA a, id : fire_transition(ac, a, b.by_id[id], order), acc, ids)

evaluate_procedures(req, ac, index, digest, order) ==
  transitions(req, ac, triggers(req, ac, index, digest), order)

(***************************************************************************)
(* The evaluation                                                          *)
(***************************************************************************)
\* matched_sorted: the ids the digest is taken over.
DigestIds(ids, order) == Listed(ids, "up")

map_cedar_response(resp, req, scoring, effects, order) ==
  [decision |-> IF resp.allow THEN "permit" ELSE "deny",
   deny_reason |-> IF resp.allow THEN None
                   ELSE IF resp.reason = {} THEN "no_permit_rule" ELSE "forbid_rule_matched",
   matched_rule_ids |-> Listed(resp.reason, order),
   total |-> scoring.total,
   effects |-> effects,
   digest |-> compute_evidence_digest(DigestIds(resp.reason, order), scoring.contributions,
                                      effects, hash_input_attributes(req, order))]

Judgeable(req) ==
  IF Len(req.entities) > MaxEntityCount THEN "entity_store_size_exceeded"
  ELSE IF ~build_cedar_entities(req.entities) THEN "entity_unresolved" ELSE "ok"

\* evaluate_against for a request Cedar accepts: the new index and the outcome.
\* Layer B runs on a permit only, procedures only in active mode.
evaluate_against(req, ac, mode, order) ==
  LET resp == is_authorized(req, ac.policy_set)
      none == [contributions |-> <<>>, total |-> None]
      scoring == IF resp.allow THEN evaluate_scoring(req, ac) ELSE none
      procs == IF resp.allow /\ mode = "active"
                 THEN evaluate_procedures(req, ac, procedure_index,
                                          hash_input_attributes(req, order), order)
                 ELSE [index |-> procedure_index, effects |-> <<>>]
  IN  [index |-> procs.index,
       outcome |-> map_cedar_response(resp, req, scoring, procs.effects, order)]

\* evaluate_pair reads both slots anew.
ReadPair(k) ==
  /\ calls[k].pc = "pair"
  /\ calls' = [calls EXCEPT ![k].pc = "active", ![k].pair = <<current, current_shadow>>]
  /\ UNCHANGED <<current, current_shadow, procedure_index, reputation, passport,
                 outcomes, vetted, changes>>

Outcome(mode, hash, req, out) ==
  [mode |-> mode, by |-> hash,
   req |-> [req EXCEPT !.constitution_hash = None]] @@ out

\* A send that the evaluator refuses to judge ends with an error.
EvaluateFails(k, error) ==
  /\ calls' = [calls EXCEPT ![k].pc = error, ![k].pair = <<>>]
  /\ UNCHANGED <<procedure_index, outcomes>>

EvaluateActive(k, order) ==
  LET hash == calls[k].pair[1]  req == calls[k].req
      res == evaluate_against(req, Loaded[hash], "active", order)
  IN
  /\ calls[k].pc = "active"
  /\ IF req.constitution_hash # hash
       THEN EvaluateFails(k, "constitution_unresolved")
     ELSE IF Judgeable(req) # "ok" THEN EvaluateFails(k, Judgeable(req))
     ELSE /\ procedure_index' = res.index
          /\ outcomes' = outcomes \cup {Outcome("active", hash, req, res.outcome)}
          /\ calls' = [calls EXCEPT ![k].pc = "shadow"]
  /\ UNCHANGED <<current, current_shadow, reputation, passport, vetted, changes>>

\* The shadow judges the same request under its own hash; without one the pair
\* is complete.
EvaluateShadow(k, order) ==
  LET hash == calls[k].pair[2]
      res == evaluate_against(calls[k].req, Loaded[hash], "shadow", order)
  IN
  /\ calls[k].pc = "shadow"
  /\ calls' = [calls EXCEPT ![k] = [Idle EXCEPT !.pc = "judged"]]
  /\ outcomes' = IF hash = None THEN outcomes
                 ELSE outcomes \cup {Outcome("shadow", hash, calls[k].req, res.outcome)}
  /\ UNCHANGED <<current, current_shadow, procedure_index, reputation, passport,
                 vetted, changes>>

(***************************************************************************)
(* Operators and the environment                                           *)
(***************************************************************************)
\* Two orders in which the loader's hash sets may yield the procedure names.
NameOrder(c, order) ==
  LET s == SetToSeq(Names(c.procedures)) IN IF order = "up" THEN s ELSE Reverse(s)

\* A change; what the tools answered before is forgotten.
MayChange ==
  /\ changes < MaxChanges /\ changes' = changes + 1
  /\ vetted' = [op |-> "none"]

activate(c, order) ==
  /\ MayChange
  /\ current' = IF load(c, NameOrder(c, order)) = "ok" THEN c.hash ELSE current
  /\ UNCHANGED <<current_shadow, procedure_index, reputation, passport, calls, outcomes>>

activate_shadow(c, order) ==
  /\ MayChange
  /\ current_shadow' = IF load(c, NameOrder(c, order)) = "ok" THEN c.hash ELSE current_shadow
  /\ UNCHANGED <<current, procedure_index, reputation, passport, calls, outcomes>>

\* The enforcement engine and the passport store move on between a send's reads.
AttributesChange ==
  /\ MayChange
  /\ \E a \in Agents :
        \/ \E r \in Reps : /\ reputation' = [reputation EXCEPT ![a] = r]
                           /\ UNCHANGED passport
        \/ \E t \in Tiers : /\ passport' = [passport EXCEPT ![a] = t]
                            /\ UNCHANGED reputation
  /\ UNCHANGED <<current, current_shadow, procedure_index, calls, outcomes>>

\* The loader and the diff on their own, as the operator's tools run them; asked
\* before the swarm starts (nothing the tools answer depends on it).
Quiet == changes = 0 /\ vetted.op = "none"
Vet(c, order) ==
  /\ Quiet
  /\ vetted' = [op |-> "load", c |-> c, verdict |-> load(c, NameOrder(c, order))]
  /\ UNCHANGED <<current, current_shadow, procedure_index, reputation, passport, calls,
                 outcomes, changes>>
Diff(l, r) ==
  /\ Quiet
  /\ l.parses /\ r.parses
  /\ vetted' = [op |-> "diff", l |-> l, r |-> r, d |-> diff_constitutions(l, r)]
  /\ UNCHANGED <<current, current_shadow, procedure_index, reputation, passport, calls,
                 outcomes, changes>>

Next ==
  \/ \E k \in Sends :
        \/ \E from \in Agents, to \in Agents \cup {Role}, p \in Performatives, now \in Clocks :
              StartSend(k, from, to, p, now)
        \/ ResolveSender(k) \/ ResolveRecipient(k) \/ ReadPair(k)
        \/ \E order \in Orders : EvaluateActive(k, order) \/ EvaluateShadow(k, order)
  \/ \E c \in Deployed, order \in Orders : activate(c, order) \/ activate_shadow(c, order)
  \/ AttributesChange
  \/ \E c \in Candidates, order \in Orders : Vet(c, order)
  \/ \E l \in Deployed, r \in Deployed \cup Candidates : Diff(l, r)

Spec == Init /\ [][Next]_vars

(***************************************************************************)
(* Properties                                                              *)
(***************************************************************************)
\* What an artifact must be for the engine to run it, said without the loader's
\* algorithms: names are unambiguous, no chain of escalations returns to its
\* start, a procedure state is terminal or has an exit and never two for one
\* event, expressions mean something once predicates are written out, texts can
\* be quoted in a policy, a score is a decimal of at most four fractional digits
\* and not zero, a window is a positive duration, and the sandbox bounds hold.
Sound(c) ==
  LET ps == ToSet(c.procedures)
      names == Names(c.procedures)
      leads == [e \in names \X names |-> \E p \in ps : p.name = e[1] /\ e[2] \in p.escalate]
      Means(e) == \A i \in DOMAIN e :
        IF e[i].ref
          THEN \E j \in DOMAIN c.predicates :
                 /\ c.predicates[j].name = e[i].t
                 /\ \A x \in DOMAIN c.predicates[j].expr :
                       c.predicates[j].expr[x] \notin {Lit(Garbled)} \cup
                         {Ref(n) : n \in {c.predicates[j].expr[x].t}}
          ELSE e[i].t # Garbled
  IN
  /\ \A items \in {c.scoring, c.procedures, c.enforcement, c.predicates} :
        Cardinality(Names(items)) = Len(items)
  /\ \A p \in ps : p.escalate \subseteq names
  /\ \A n \in names : ~TransitiveClosure(leads, names)[n, n]
  /\ \A p \in ps :
        /\ {p.initial_state} \cup p.terminal_states \subseteq ToSet(p.states)
        /\ {t.from : t \in ToSet(p.transitions)} = ToSet(p.states) \ p.terminal_states
        /\ {t.to : t \in ToSet(p.transitions)} \subseteq ToSet(p.states)
        /\ \A t \in ToSet(p.transitions) : Cardinality({t.action, t.on_timeout} \ {None}) = 1
        /\ Cardinality({<<t.from, t.action, t.on_timeout>> : t \in ToSet(p.transitions)})
             = Len(p.transitions)
        /\ \A e \in ProcedureExprs(p) : Means(e)
        /\ Garbled \notin {p.name, p.trigger.action}
        /\ \A t \in ToSet(p.transitions) : Garbled \in {t.from, t.to, t.action} => t.action = None
  /\ \A r \in ToSet(c.scoring) :
        /\ r.score.shape = "number" /\ r.score.int >= 0
        /\ Len(r.score.frac) <= 4 /\ ToSet(r.score.frac) \subseteq 0..9
        /\ r.score.int > 0 \/ ToSet(r.score.frac) \cap 1..9 # {}
        /\ Means(r.when)
        /\ Garbled \notin {r.name, r.action}
  /\ \A e \in ToSet(c.enforcement) :
        /\ e.kind \in known_receipt_kinds /\ e.threshold > 0
        /\ e.window.n > 0 /\ e.window.unit # "absent"
        /\ \A d \in {e.window, e.coach, e.quarantine, e.expires, e.evict} :
              d.unit \in {"ms", "s", "m", "h", "d", "absent"}
  /\ c.parses /\ c.validates
  /\ Len(c.scoring) <= MaxScoringRules /\ Len(c.procedures) <= MaxProcedures
  /\ Len(c.policies) <= MaxPolicies /\ estimate_cedar_depth(c.lines) <= MaxDepth

\* An artifact with the numbers put right that the loader is known to let through:
\* a zero spelled with more than two fractional digits, digits beyond the fourth,
\* a second sign, and a window of zero (AcceptsOnlySound).
Mended(c) ==
  LET Score(s) ==
        LET cut == Number(s.neg, IF s.int < 0 THEN -s.int ELSE s.int,
                          SubSeq(s.frac, 1, IF Len(s.frac) > 4 THEN 4 ELSE Len(s.frac)))
        IN  IF s.shape # "number" THEN s
            ELSE IF cut.int = 0 /\ ToSet(cut.frac) = {0} /\ Len(cut.frac) > 2
              THEN [cut EXCEPT !.int = 1]
            ELSE cut
  IN  [c EXCEPT
         !.scoring = [i \in DOMAIN @ |-> [@[i] EXCEPT !.score = Score(@)]],
         !.enforcement = [i \in DOMAIN @ |->
            [@[i] EXCEPT !.window.n = IF @ = 0 THEN 1 ELSE @]]]

\* Invariant: but for those numbers, the loader accepts an artifact exactly when
\* it is sound, in whichever order its hash sets are walked, and whichever of its
\* seven stages is the one to find the fault (ConstitutionLoader::load, the
\* three-colour search of check_escalation_acyclic).
VettedExactly == vetted.op = "load" => ((vetted.verdict = "ok") <=> Sound(Mended(vetted.c)))

\* Invariant, which does not hold: what the loader accepts is sound ("every
\* all-zeros textual form", "windows positive": validate.rs:99, :316).
AcceptsOnlySound == vetted.op = "load" /\ vetted.verdict = "ok" => Sound(vetted.c)

\* Invariant: two judgements of one request by one constitution, in one mode,
\* agree in their decision and in their evidence digest, whatever the iteration
\* order of the hash containers and whatever was activated or evaluated between
\* them (map_cedar_response, hash_input_attributes).  And a digest stands for one
\* request: two judgements with the same digest saw the same action, parties,
\* context and entity attributes, so a reputation that changed between two sends
\* cannot hide behind one digest (canonicalize_entity_snapshot).
EvidenceExact ==
  \A o, p \in outcomes :
    /\ o.by = p.by /\ o.mode = p.mode /\ o.req = p.req =>
         o.digest = p.digest /\ o.decision = p.decision /\ o.deny_reason = p.deny_reason
    /\ o.digest = p.digest => o.req = p.req

\* Invariant: the entities a send collects are ones Cedar accepts, so that a send
\* ends without a judgement only when the active constitution was replaced after
\* the send was pinned to it (build_eval_request_for_send, evaluate_pair).
SendsAreJudged ==
  \A k \in Sends :
    calls[k].pc \notin {"idle", "sender", "recipient", "pair", "active", "shadow", "judged"} =>
      /\ calls[k].pc = "constitution_unresolved"
      /\ changes >= 2

\* What the right side is when the buckets of a diff are applied to the left.
Patched(items, d) ==
  ((ToSet(items) \ d.removed) \ {m.left : m \in d.modified})
    \cup d.added \cup {m.right : m \in d.modified}

\* Invariant: the diff of two constitutions whose items have distinct names (the
\* loader sees to that, except for the @id of policies) leads from the one to the
\* other, and is empty exactly if no item differs (diff_constitutions,
\* is_empty_structurally).
DiffExact ==
  vetted.op = "diff" =>
    LET l == vetted.l  r == vetted.r  d == vetted.d
        Section(c, s) == IF s = "cedar_policies" THEN lift_policies(c) ELSE c[s]
    IN  (\A s \in Sections : Unique(Section(l, s)) /\ Unique(Section(r, s))) =>
          /\ \A s \in Sections : Patched(Section(l, s), d[s]) = ToSet(Section(r, s))
          /\ is_empty_structurally(d) <=>
               /\ l.schema_version = r.schema_version
               /\ \A s \in Sections : ToSet(Section(l, s)) = ToSet(Section(r, s))

\* Invariant, which does not hold: a permitted request that matches the trigger
\* of a procedure of the constitution that judged it enters the procedure
\* (procedure.rs triggers; spec/constitution/extensions.md).
TriggersEnter ==
  \A o \in outcomes : o.mode = "active" /\ o.decision = "permit" =>
    \A c \in Deployed : c.hash = o.by =>
      \A i \in DOMAIN c.procedures :
        LET tr == Resolve(c).procedures[i].trigger IN
        tr.action = o.req.action /\ Satisfied(tr.when, o.req) =>
          \E id \in DOMAIN procedure_index : procedure_index[id].proc = c.procedures[i].name
=============================================================================
