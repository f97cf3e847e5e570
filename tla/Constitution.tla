---------------------------- MODULE Constitution ----------------------------
(***************************************************************************)
(* The constitution artifact of yutha-cedar-plus, the loader that accepts  *)
(* or refuses it, the Layer B policy sets it synthesises, and the          *)
(* structural diff of two artifacts (yutha-diff).                          *)
(*                                                                         *)
(* An expression is a sequence of tokens: a literal names an atomic test   *)
(* of the request, a reference names a predicate ("@name").  Texts that    *)
(* only the cedar-policy crate reads (schema, policy bodies) are reduced   *)
(* to whether it accepts them.  A Rust Result is "ok" or the error's code. *)
(***************************************************************************)
EXTENDS Integers, Sequences, FiniteSets, SequencesExt, Relation

CONSTANTS MaxScoringRules, MaxProcedures, MaxPolicies, MaxDepth  \* SandboxConfig

None == "none"
Lit(t) == [ref |-> FALSE, t |-> t]
Ref(n) == [ref |-> TRUE, t |-> n]
Garbled == "garbled"              \* a token cedar-policy cannot parse, or a name that
                                  \* breaks the string literal it is pasted into

\* The codes of CedarPlusError, with the bounds' reasons spelled out.
LoadErrors == {"parse", "invalid_scoring_rule", "invalid_procedure",
               "invalid_enforcement_rule", "scoring_rule_count_exceeded",
               "procedure_count_exceeded", "policy_count_exceeded",
               "policy_depth_exceeded"}
EvalErrors == {"entity_store_size_exceeded", "entity_unresolved",
               "constitution_unresolved"}

Names(items) == {items[i].name : i \in DOMAIN items}

\* The shape serde gives an engine config and the Cedar source beside it.
IsProcedure(p) ==
  /\ DOMAIN p = {"name", "states", "initial_state", "terminal_states",
                 "trigger", "transitions", "escalate"}
  /\ DOMAIN p.trigger = {"action", "when"}
  /\ \A i \in DOMAIN p.transitions :
        DOMAIN p.transitions[i] = {"from", "to", "action", "on_timeout", "when"}
IsEnforcementRule(e) ==
  DOMAIN e = {"name", "kind", "threshold", "window", "coach", "quarantine",
              "expires", "evict"}
IsConstitution(c) ==
  /\ DOMAIN c = {"hash", "schema_version", "policies", "parses", "validates",
                 "lines", "predicates", "scoring", "procedures", "enforcement"}
  /\ \A i \in DOMAIN c.procedures : IsProcedure(c.procedures[i])
  /\ \A i \in DOMAIN c.enforcement : IsEnforcementRule(c.enforcement[i])
  /\ \A i \in DOMAIN c.scoring :
        DOMAIN c.scoring[i] = {"name", "score", "action", "when"}
  /\ \A i \in DOMAIN c.policies :
        DOMAIN c.policies[i] = {"id", "effect", "when"}

(***************************************************************************)
(* Stage 1: structural validators.  Each stops at its first complaint; all *)
(* complaints of one validator carry the same code.                        *)
(***************************************************************************)
Unique(items) == \A i, j \in DOMAIN items : items[i].name = items[j].name => i = j

FirstError(results) ==
  LET bad == {i \in DOMAIN results : results[i] # "ok"}
  IN  IF bad = {} THEN "ok" ELSE results[CHOOSE i \in bad : \A j \in bad : i <= j]

Check(good, code) == IF good THEN "ok" ELSE code

check_unique_names(c) ==
  FirstError(<<Check(Unique(c.scoring), "invalid_scoring_rule"),
               Check(Unique(c.procedures), "invalid_procedure"),
               Check(Unique(c.enforcement), "invalid_enforcement_rule"),
               Check(Unique(c.predicates), "parse")>>)

\* A score's text: a sign, the number before the point (negative when a second
\* sign precedes it, which trim_start_matches also strips) and the characters
\* after it; or "no_digit" when it does not start with a digit, "junk" when what
\* precedes the point starts with one and is no integer.
NonDigit == 10
Number(neg, int, frac) == [shape |-> "number", neg |-> neg, int |-> int, frac |-> frac]
Unreadable(shape) == [shape |-> shape, neg |-> FALSE, int |-> 0, frac |-> <<NonDigit>>]

\* The zero test lists spellings of at most two fractional digits.
ZeroForm(s) == s.shape = "number" /\ s.int = 0 /\ s.frac \in {<<>>, <<0>>, <<0, 0>>}

check_scoring_rules(c) ==
  Check(\A i \in DOMAIN c.scoring :
           c.scoring[i].score.shape # "no_digit" /\ ~ZeroForm(c.scoring[i].score),
        "invalid_scoring_rule")

StatesDeclared(p) ==
  p.initial_state \in ToSet(p.states) /\ p.terminal_states \subseteq ToSet(p.states)

\* on_timeout and action share one key space, told apart by a prefix.
transition_action_key(t) ==
  IF t.action # None THEN <<"action", t.action>> ELSE <<"timeout", t.on_timeout>>

TransitionsSound(p) ==
  /\ \A i \in DOMAIN p.transitions :
        LET t == p.transitions[i] IN
        /\ t.from \in ToSet(p.states) \ p.terminal_states
        /\ t.to \in ToSet(p.states)
        /\ (t.action = None) # (t.on_timeout = None)
  /\ \A i, j \in DOMAIN p.transitions :
        LET t == p.transitions[i]  u == p.transitions[j] IN
        t.from = u.from /\ transition_action_key(t) = transition_action_key(u) => i = j
  /\ \A s \in ToSet(p.states) \ p.terminal_states :
        \E i \in DOMAIN p.transitions : p.transitions[i].from = s

\* The graph of check_escalation_acyclic: procedure -> where its timeouts lead.
\* collect() keeps the last procedure of a name.
EscalationGraph(c) ==
  [n \in Names(c.procedures) |->
     LET last == CHOOSE i \in DOMAIN c.procedures :
                    /\ c.procedures[i].name = n
                    /\ \A j \in DOMAIN c.procedures : c.procedures[j].name = n => j <= i
     IN  c.procedures[last].escalate]

\* Depth-first search in three colours; `order` lists the names in the order a
\* HashSet happens to yield them.
RECURSIVE dfs(_, _, _, _)
dfs(node, graph, acc, order) ==
  LET Step(a, next) ==
        IF a.cycle THEN a
        ELSE CASE a.color[next] = "gray"  -> [a EXCEPT !.cycle = TRUE]
               [] a.color[next] = "black" -> a
               [] a.color[next] = "white" -> dfs(next, graph, a, order)
      edges == SelectSeq(order, LAMBDA n : n \in graph[node])
      done == FoldLeft(Step, [acc EXCEPT !.color[node] = "gray"], edges)
  IN  IF done.cycle THEN done ELSE [done EXCEPT !.color[node] = "black"]

\* Mutant: the search starts from the first procedure only.
check_escalation_acyclic_OneRoot(c, order) ==
  LET graph == EscalationGraph(c)
      start == [cycle |-> FALSE, color |-> [n \in DOMAIN graph |-> "white"]]
  IN  /\ \A n \in DOMAIN graph : graph[n] \subseteq DOMAIN graph
      /\ c.procedures # <<>> => ~dfs(c.procedures[1].name, graph, start, order).cycle

check_escalation_acyclic(c, order) ==
  LET graph == EscalationGraph(c)
      Root(a, n) == IF ~a.cycle /\ a.color[n] = "white" THEN dfs(n, graph, a, order) ELSE a
      start == [cycle |-> FALSE, color |-> [n \in DOMAIN graph |-> "white"]]
      roots == [i \in DOMAIN c.procedures |-> c.procedures[i].name]
      declared == \A n \in DOMAIN graph : graph[n] \subseteq DOMAIN graph
  IN  declared /\ ~FoldLeft(Root, start, roots).cycle

check_procedures(c, order) ==
  Check(/\ \A i \in DOMAIN c.procedures :
              StatesDeclared(c.procedures[i]) /\ TransitionsSound(c.procedures[i])
        /\ check_escalation_acyclic(c, order),
        "invalid_procedure")

\* A duration's text is a number and a unit, or text that split_suffix cannot
\* take apart; zero is accepted.  An optional one may be absent.
Absent == [n |-> 0, unit |-> "absent"]
Unsplit == [n |-> 0, unit |-> ""]
Unparsed == -1
parse_duration(d) ==
  CASE d.unit = "ms" -> d.n
    [] d.unit = "s"  -> d.n * 1000
    [] d.unit = "m"  -> d.n * 60000
    [] d.unit = "h"  -> d.n * 3600000
    [] d.unit = "d"  -> d.n * 86400000
    [] OTHER         -> Unparsed

\* receipt_kind must be in a fixed list; kinds outside it are "unknown".
known_receipt_kinds == {"constitution.evaluate.deny", "capability.check.deny",
                        "envelope.send", "enforcement.detect"}

check_enforcement_rules(c) ==
  Check(\A i \in DOMAIN c.enforcement :
           LET e == c.enforcement[i] IN
           /\ e.kind \in known_receipt_kinds
           /\ e.threshold # 0
           /\ parse_duration(e.window) # Unparsed
           /\ \A d \in {e.coach, e.quarantine, e.expires, e.evict} \ {Absent} :
                 parse_duration(d) # Unparsed,
        "invalid_enforcement_rule")

(***************************************************************************)
(* Stage 2: one pass of substitution.  What a predicate's own text refers  *)
(* to is pasted in as it stands.                                           *)
(***************************************************************************)
Expansion(c, n) ==
  LET defs == {i \in DOMAIN c.predicates : c.predicates[i].name = n}
  IN  c.predicates[CHOOSE i \in defs : \A j \in defs : j <= i].expr

Resolvable(c, e) == \A i \in DOMAIN e : e[i].ref => e[i].t \in Names(c.predicates)
substitute(c, e) ==
  FlattenSeq([i \in DOMAIN e |-> IF e[i].ref THEN Expansion(c, e[i].t) ELSE <<e[i]>>])

\* The optional expressions of a procedure; absent means "true".
ProcedureExprs(p) ==
  {p.trigger.when} \cup {p.transitions[i].when : i \in DOMAIN p.transitions}

Resolve(c) ==
  [c EXCEPT
     !.scoring = [i \in DOMAIN @ |-> [@[i] EXCEPT !.when = substitute(c, @)]],
     !.procedures = [i \in DOMAIN @ |->
        [@[i] EXCEPT
           !.trigger.when = substitute(c, @),
           !.transitions = [j \in DOMAIN @ |-> [@[j] EXCEPT !.when = substitute(c, @)]]]]]

resolve_named_predicates(c) ==
  FirstError(<<Check(\A i \in DOMAIN c.scoring : Resolvable(c, c.scoring[i].when),
                     "invalid_scoring_rule"),
               Check(\A i \in DOMAIN c.procedures :
                        \A e \in ProcedureExprs(c.procedures[i]) : Resolvable(c, e),
                     "invalid_procedure")>>)

(***************************************************************************)
(* Stages 3 to 6: counts, Cedar, depth, expressions.                       *)
(***************************************************************************)
check_load_time_counts(c) ==
  FirstError(<<Check(Len(c.scoring) <= MaxScoringRules, "scoring_rule_count_exceeded"),
               Check(Len(c.procedures) <= MaxProcedures, "procedure_count_exceeded")>>)

\* The deepest bracket nesting of any one line: a line is a sequence of +1 and
\* -1, and the count starts again at every line.
LineDepth(line) ==
  FoldLeft(LAMBDA a, ch : LET now == IF a.now + ch < 0 THEN 0 ELSE a.now + ch
                          IN  [now |-> now, top |-> IF now > a.top THEN now ELSE a.top],
           [now |-> 0, top |-> 0], line).top
estimate_cedar_depth(lines) ==
  FoldLeft(LAMBDA m, l : IF LineDepth(l) > m THEN LineDepth(l) ELSE m, 0, lines)

parse_and_validate_cedar(c) ==
  FirstError(<<Check(c.parses, "parse"),
               Check(Len(c.policies) <= MaxPolicies, "policy_count_exceeded"),
               Check(c.validates, "parse"),
               Check(estimate_cedar_depth(c.lines) <= MaxDepth, "policy_depth_exceeded")>>)

\* cedar-policy parses an expression that holds no reference and no garbage.
parse_cedar_expression(e) == \A i \in DOMAIN e : ~e[i].ref /\ e[i].t # Garbled

ExpressionsParse(rc) ==
  FirstError(<<Check(\A i \in DOMAIN rc.scoring : parse_cedar_expression(rc.scoring[i].when),
                     "invalid_scoring_rule"),
               Check(\A i \in DOMAIN rc.procedures :
                        \A e \in ProcedureExprs(rc.procedures[i]) : parse_cedar_expression(e),
                     "invalid_procedure")>>)

(***************************************************************************)
(* Stage 7: Layer B.  Every rule becomes one stock Cedar policy that bears *)
(* an @id annotation, and a table from that id to the rule.  The crate     *)
(* names the policies of a parsed text itself, by position: an annotation  *)
(* is not an id (yutha-diff/src/cedar.rs:125-128 relies on that).          *)
(***************************************************************************)
PolicySet(texts) == [i \in DOMAIN texts |-> [id |-> <<"policy", i - 1>>, text |-> texts[i]]]

Scale == 10000
Digit(frac, k) == IF k <= Len(frac) THEN frac[k] ELSE 0

\* parse_score_scaled's errors: no integer, or no digit among the first four
\* after the point; the rest is cut.
ScoreParses(s) == s.shape = "number" /\ \A k \in 1..4 : Digit(s.frac, k) # NonDigit
parse_score_scaled(s) ==
  LET v == s.int * Scale + Digit(s.frac, 1) * 1000 + Digit(s.frac, 2) * 100
                         + Digit(s.frac, 3) * 10 + Digit(s.frac, 4)
  IN  IF s.neg THEN -v ELSE v

render_score_scaled(v) ==
  LET a == IF v < 0 THEN -v ELSE v
      f == <<(a \div 1000) % 10, (a \div 100) % 10, (a \div 10) % 10, a % 10>>
      keep == CHOOSE k \in 1..4 : /\ \A j \in (k + 1)..4 : f[j] = 0
                                  /\ k > 1 => f[k] # 0
  IN  Number(v < 0, a \div Scale, SubSeq(f, 1, keep))

Table(pairs) ==     \* BTreeMap::insert in order: the last pair of a key stays
  [k \in {pairs[i][1] : i \in DOMAIN pairs} |->
     LET last == CHOOSE i \in DOMAIN pairs :
                    /\ pairs[i][1] = k
                    /\ \A j \in DOMAIN pairs : pairs[j][1] = k => j <= i
     IN  pairs[last][2]]

synthesize_scoring(rc) ==
  [set |-> PolicySet([i \in DOMAIN rc.scoring |->
              [action |-> rc.scoring[i].action, when |-> rc.scoring[i].when]]),
   by_id |-> Table([i \in DOMAIN rc.scoring |->
              <<<<"scoring__", rc.scoring[i].name>>,
                [rule |-> rc.scoring[i].name, score |-> rc.scoring[i].score,
                 scaled |-> parse_score_scaled(rc.scoring[i].score)]>>])]

synthesize_triggers(rc) ==
  [set |-> PolicySet([i \in DOMAIN rc.procedures |-> rc.procedures[i].trigger]),
   by_id |-> Table([i \in DOMAIN rc.procedures |->
              <<<<"proc_trigger__", rc.procedures[i].name>>, rc.procedures[i].name>>])]

\* Only action-driven transitions; the id does not mention the action.
synthesize_transitions(rc) ==
  LET Of(p) == [j \in DOMAIN p.transitions |-> [proc |-> p.name, t |-> p.transitions[j]]]
      all == FlattenSeq([i \in DOMAIN rc.procedures |-> Of(rc.procedures[i])])
      acting == SelectSeq(all, LAMBDA x : x.t.action # None)
  IN  [set |-> PolicySet([i \in DOMAIN acting |->
                 [action |-> acting[i].t.action, when |-> acting[i].t.when]]),
       by_id |-> Table([i \in DOMAIN acting |->
                 <<<<"proc_trans__", acting[i].proc, acting[i].t.from, acting[i].t.to>>,
                   [proc |-> acting[i].proc, from |-> acting[i].t.from,
                    to |-> acting[i].t.to, action |-> acting[i].t.action]>>])]

\* The scores, and then the three policy texts: names, states and actions are
\* pasted into string literals as they are.
SynthesisFails(rc) ==
  LET Quotable(texts) == Garbled \notin texts
      Acting(p) == {t \in ToSet(p.transitions) : t.action # None}
  IN  FirstError(<<
        Check(\A r \in ToSet(rc.scoring) : ScoreParses(r.score), "invalid_scoring_rule"),
        Check(\A r \in ToSet(rc.scoring) : Quotable({r.name, r.action}), "parse"),
        Check(\A p \in ToSet(rc.procedures) : Quotable({p.name, p.trigger.action}), "parse"),
        Check(\A p \in ToSet(rc.procedures) : \A t \in Acting(p) :
                 Quotable({t.from, t.to, t.action}), "parse")>>)

synthesize(rc) ==
  [scoring |-> synthesize_scoring(rc), triggers |-> synthesize_triggers(rc),
   transitions |-> synthesize_transitions(rc)]

\* ConstitutionLoader::load: the stages in order, the first error wins.
load(c, order) ==
  LET early == FirstError(<<check_unique_names(c), check_scoring_rules(c),
                            check_procedures(c, order), check_enforcement_rules(c),
                            resolve_named_predicates(c), check_load_time_counts(c),
                            parse_and_validate_cedar(c)>>)
  IN  IF early # "ok" THEN early
      ELSE FirstError(<<ExpressionsParse(Resolve(c)), SynthesisFails(Resolve(c))>>)

\* What load returns for an accepted artifact: the original beside its resolved
\* form and the synthesised sets.
ActivatedConstitution(c) ==
  [constitution |-> c, policy_set |-> PolicySet(c.policies), resolved |-> Resolve(c),
   layer_b |-> synthesize(Resolve(c)), depth |-> estimate_cedar_depth(c.lines)]
=============================================================================
