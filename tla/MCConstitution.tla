--------------------------- MODULE MCConstitution ---------------------------
(***************************************************************************)
(* Small artifacts for the loader and the evaluator.                       *)
(***************************************************************************)
EXTENDS ConstitutionEval

Policy(id, effect, when) == [id |-> id, effect |-> effect, when |-> when]

\* A two-state procedure entered by a request and left by another send.
Proc(n, escalate) ==
  [name |-> n, states |-> <<"open", "done">>, initial_state |-> "open",
   terminal_states |-> {"done"},
   trigger |-> [action |-> "SendEnvelope", when |-> <<Ref("asks")>>],
   transitions |-> <<[from |-> "open", to |-> "done", action |-> "SendEnvelope",
                      on_timeout |-> None, when |-> <<>>]>>,
   escalate |-> escalate]

Rule(n, kind, threshold, coach) ==
  [name |-> n, kind |-> kind, threshold |-> threshold, window |-> [n |-> 10, unit |-> "m"],
   coach |-> coach, quarantine |-> Absent, expires |-> Absent, evict |-> Absent]

Score(int, frac) == Number(FALSE, int, frac)

Plain ==
  [hash |-> "plain", schema_version |-> "1.1.0",
   policies |-> <<Policy("all", "permit", <<>>), Policy(None, "permit", <<Lit("standard")>>),
                  Policy("low", "forbid", <<Lit("low")>>)>>,
   parses |-> TRUE, validates |-> TRUE, lines |-> << <<1, 1, -1, -1>>, <<1, -1>> >>,
   predicates |-> <<[name |-> "asks", expr |-> <<Lit("request")>>]>>,
   scoring |-> <<[name |-> "ask", score |-> Score(2, <<5>>), action |-> "SendEnvelope",
                  when |-> <<Ref("asks")>>]>>,
   procedures |-> <<>>,
   enforcement |-> <<Rule("r", "constitution.evaluate.deny", 3, Absent)>>]

\* The amendment: one policy reworded, one gone, a procedure added.
Amended ==
  [Plain EXCEPT
     !.hash = "amended",
     !.policies = <<Policy("all", "permit", <<Lit("true")>>),
                    Policy("low", "forbid", <<Lit("peer_low")>>)>>,
     !.procedures = <<Proc("approval", {})>>,
     !.enforcement = <<Rule("r", "constitution.evaluate.deny", 2, [n |-> 5, unit |-> "s"])>>]

MCDeployed == {Plain, Amended}

\* Every escalation graph over three procedures, undeclared targets included.
Procs == <<"p", "q", "r", "s">>
Escalating ==
  {[Plain EXCEPT !.hash = "graph", !.procedures = [i \in 1..3 |-> Proc(Procs[i], g[i])]] :
     g \in [1..3 -> SUBSET {"p", "q", "r"}]}
  \cup {[Plain EXCEPT !.hash = "graph", !.procedures = <<Proc("p", {"q"})>>]}

\* One fault at a time, and artifacts at the bounds.
WithProc(p) == [Plain EXCEPT !.hash = "broken", !.procedures = <<p>>]
Move(from, to, action, timeout) ==
  [from |-> from, to |-> to, action |-> action, on_timeout |-> timeout, when |-> <<>>]
P == Proc("p", {})
Faulty ==
  {WithProc(P), WithProc([P EXCEPT !.initial_state = "lost"]),
   WithProc([P EXCEPT !.terminal_states = {"lost"}]),
   WithProc([P EXCEPT !.terminal_states = {}]),
   WithProc([P EXCEPT !.states = <<"open", "done", "stuck">>]),
   WithProc([P EXCEPT !.trigger.when = <<Ref("unknown")>>]),
   WithProc([P EXCEPT !.transitions[1].when = <<Lit(Garbled)>>]),
   [Plain EXCEPT !.procedures = <<P, P>>],
   [Plain EXCEPT !.scoring = @ \o @],
   [Plain EXCEPT !.predicates = @ \o @],
   [Plain EXCEPT !.predicates = Append(@, [name |-> "twice", expr |-> <<Ref("asks")>>])],
   [Plain EXCEPT !.predicates = Append(@, [name |-> "twice", expr |-> <<Ref("asks")>>]),
                 !.scoring[1].when = <<Ref("twice")>>],
   [Plain EXCEPT !.predicates[1].expr = <<Lit(Garbled)>>],
   [Plain EXCEPT !.scoring[1].score = Score(0, <<0>>)],
   [Plain EXCEPT !.scoring[1].name = Garbled],
   [Plain EXCEPT !.scoring[1].action = Garbled],
   WithProc([P EXCEPT !.name = Garbled]),
   WithProc([P EXCEPT !.trigger.action = Garbled]),
   WithProc([P EXCEPT !.transitions[1].action = Garbled]),
   [Plain EXCEPT !.enforcement = <<Rule("r", "envelope.send", 1, [n |-> 2, unit |-> "d"])>>],
   [Plain EXCEPT !.enforcement[1].window.n = 0],
   [Plain EXCEPT !.scoring[1].when = <<>>],
   [Plain EXCEPT !.enforcement = <<Rule("r", "unknown.kind", 1, Absent)>>],
   [Plain EXCEPT !.enforcement = <<Rule("r", "envelope.send", 0, Absent)>>],
   [Plain EXCEPT !.enforcement = <<Rule("r", "envelope.send", 1, Unsplit)>>],
   [Plain EXCEPT !.enforcement = <<Rule("r", "envelope.send", 1, [n |-> 1, unit |-> "weeks"])>>],
   [Plain EXCEPT !.enforcement[1].window = Unsplit],
   [Plain EXCEPT !.parses = FALSE], [Plain EXCEPT !.validates = FALSE],
   [Plain EXCEPT !.policies = @ \o @],
   [Plain EXCEPT !.lines = << <<1, 1, 1, -1>> >>],
   [Plain EXCEPT !.lines = << <<1, 1>>, <<1, 1>> >>],
   [Plain EXCEPT !.lines = << <<-1, 1, 1>> >>],
   [Plain EXCEPT !.procedures = [i \in 1..4 |-> Proc(Procs[i], {})]]}
\* Two transitions out of one state: every combination of triggers.
Branching ==
  {WithProc([P EXCEPT !.transitions = <<Move("open", to1, a1, t1), Move(f2, "done", a2, t2)>>]) :
     to1 \in {"open", "done"}, f2 \in {"open", "done", "lost"},
     a1 \in {None, "x"}, t1 \in {None, "1h"}, a2 \in {None, "x", "y"}, t2 \in {None, "1h"}}

\* A state whose name cannot be quoted, left by an action or by a timeout.
Unquotable ==
  {WithProc([P EXCEPT !.states = <<"open", Garbled, "done">>,
                      !.transitions = <<Move("open", Garbled, a1, t1), Move(Garbled, "done", a2, t2)>>]) :
     a1 \in {None, "x"}, t1 \in {None, "1h"}, a2 \in {None, "x"}, t2 \in {None, "1h"}}

\* Scores, readable and not.
Scores ==
  {Number(neg, int, frac) : neg \in BOOLEAN, int \in {0, 5},
     frac \in {<<>>, <<0>>, <<0, 0>>, <<0, 0, 0>>, <<0, 0, 0, 1>>, <<0, 0, 0, 0, 1>>, <<NonDigit>>,
               <<2, 5, 0, 1, NonDigit>>}}
  \cup {Number(TRUE, -5, <<5>>), Unreadable("no_digit"), Unreadable("junk")}
Scored == {[Plain EXCEPT !.scoring[1].score = s] : s \in Scores}

MCCandidates == Escalating \cup Faulty \cup Branching \cup Unquotable \cup Scored

SendSymmetry == Permutations(Sends)

ASSUME \A c \in MCDeployed \cup MCCandidates : IsConstitution(c)
=============================================================================
