---------------------------- MODULE Enforcement ----------------------------
(***************************************************************************)
(* The enforcement loop: EnforcementEngine (crates/yutha-cedar-plus/src/   *)
(* enforcement.rs) and the control plane around it, that is the            *)
(* PublishingReceiptStore that feeds it, the forwarder and scheduler tasks *)
(* that turn its effects into receipts, and ConstitutionService.Activate.  *)
(*                                                                         *)
(* A step ends where the code awaits: the engine's lock, the receipt       *)
(* store, the channel.  Time is relative: a receipt has an age, a counter  *)
(* holds ages, a scheduled stage has the time left, and Tick moves them    *)
(* all; so nothing bounds how long the system runs.  Reputation has the    *)
(* code's fixed scale of 10000.                                            *)
(***************************************************************************)
EXTENDS Integers, Sequences, FiniteSets, SequencesExt

CONSTANTS Agents,
          Nobody,      \* the empty group key; also the subject of other receipts
          Observed,    \* evaluation receipts the RPC handlers emit
          Subject,     \* the agent each is about
          Shadow,      \* those of them that are shadow-mode receipts
          Rank,        \* like receipts are named in the order they are built
          Rules, RuleOrder,
          Versions,
          Config,      \* for each version, its enforcement_rules by name
          Activations, NewVersion,   \* Activate calls
          ChanCap,     \* PUBLISH_CHANNEL_CAPACITY (4096)
          MaxWindow,   \* bound: the longest window of any rule
          Workloads    \* what may happen to the process, see IsWorkload

Stages == {"detect", "coach", "quarantine", "evict", "reverse"}

\* An optional duration is a sequence of at most one number.
Option == {s \in Seq(Nat) : Len(s) <= 1}

IsRule(c) ==
    /\ c.perPrincipal \in BOOLEAN
    /\ c.threshold \in Nat \ {0} /\ c.window \in Nat
    /\ c.coach \in Option /\ c.quarantine \in Option
    /\ c.evict \in Option /\ c.expires \in Option
    /\ DOMAIN c.deltas \subseteq Stages /\ \A s \in DOMAIN c.deltas : c.deltas[s] \in Int

\* The constitution the process starts with, and what bounds its run: the
\* evaluation receipts and Activate calls that come, how many appends fail,
\* and the greatest age at which a receipt reaches the engine.
IsWorkload(w) ==
    /\ w.genesis \in Versions
    /\ w.observed \subseteq Observed /\ w.activations \subseteq Activations
    /\ w.maxFaults \in Nat /\ w.maxLag \in Nat \ {0}

ASSUME EnforcementAssumption ==
    /\ Nobody \notin Agents
    /\ Subject \in [Observed -> Agents] /\ Shadow \subseteq Observed
    /\ Rank \in [Observed -> Nat]
    /\ RuleOrder \in Seq(Rules)
    /\ \A i, j \in DOMAIN RuleOrder : RuleOrder[i] = RuleOrder[j] => i = j
    /\ DOMAIN Config = Versions
    /\ \A v \in Versions : DOMAIN Config[v] \subseteq Rules
                           /\ \A r \in DOMAIN Config[v] : /\ IsRule(Config[v][r])
                                                         /\ Config[v][r].window <= MaxWindow
    /\ NewVersion \in [Activations -> Versions]
    /\ ChanCap \in Nat \ {0} /\ MaxWindow \in Nat
    /\ \A w \in Workloads : IsWorkload(w)
    /\ {"forwarder", "scheduler"} \cap (Observed \cup Activations) = {}
    /\ Observed \cap Activations = {} /\ IsFiniteSet(Observed)

\* An amendment may add and remove rules, but a rule keeps its grouping,
\* threshold and window in all versions that have it.
SettledRules ==
    \A v, w \in Versions : \A r \in DOMAIN Config[v] \cap DOMAIN Config[w] :
        /\ Config[v][r].perPrincipal = Config[w][r].perPrincipal
        /\ Config[v][r].threshold = Config[w][r].threshold
        /\ Config[v][r].window = Config[w][r].window

\* No receipt reaches the engine later than the window of any rule.
PromptReceipts ==
    \A w \in Workloads, v \in Versions : \A r \in DOMAIN Config[v] : w.maxLag <= Config[v][r].window

VARIABLES active,      \* the engine's constitution
          reputation, stage, quarantined,  \* AgentState
          counters,    \* CounterBucket of each rule and group key
          scheduled,   \* stage transitions to come
          chan,        \* views on their way to the forwarder
          todo,        \* receipts each task has still to append
          landed,      \* the receipt each task has appended and not published
          log,         \* the enforcement receipts in the store
          observed,    \* evaluation receipts built so far
          evaluating,  \* the evaluator's constitution
          actPc, fetched,  \* Activate calls, and the constitution they read back
          faults,
          workload     \* the workload, chosen at the start

runVars   == <<faults, workload>>
agentVars == <<reputation, stage, quarantined>>
taskVars  == <<chan, todo, landed, log>>
actVars   == <<evaluating, actPc, fetched>>
vars == <<active, agentVars, counters, scheduled, taskVars, observed, actVars, runVars>>

Groups == Agents \cup {Nobody}
Tasks  == {"forwarder", "scheduler"} \cup Observed \cup Activations

Scale == 10000
DefaultDelta ==
    [detect |-> -500, coach |-> 0, quarantine |-> -2500, evict |-> -10000, reverse |-> 1500]

Receipt == [kind : Stages \cup {"deny", "shadow", "activate"}, agent : Groups,
            rule : Rules \cup {"none"}, delta : Int, span : Nat,
            version : Versions, age : Nat]

TypeOK ==
    /\ active \in Versions /\ evaluating \in Versions
    /\ reputation \in [Groups -> 0..Scale]
    /\ stage \in [Groups -> Stages \cup {"none"}]
    /\ quarantined \in [Groups -> BOOLEAN]
    /\ counters \in [Rules -> [Groups -> Seq(Nat)]]
    /\ \A r \in DOMAIN Config[active], g \in Groups :
           Len(counters[r][g]) < Config[active][r].threshold
    /\ scheduled \in Seq([left : Nat, agent : Groups, rule : Rules, stage : Stages])
    /\ chan \in Seq(Receipt) /\ Len(chan) <= ChanCap
    /\ todo \in [Tasks -> Seq(Receipt)]
    /\ landed \in [Tasks -> Seq(Receipt)] /\ \A t \in Tasks : Len(landed[t]) <= 1
    /\ log \in Seq(Receipt)
    /\ observed \subseteq Observed
    /\ actPc \in [Activations -> {"idle", "fetch", "bind", "done"}]
    /\ fetched \in [Activations -> Versions]
    /\ workload \in Workloads
    /\ faults \in 0..workload.maxFaults

Init ==
    /\ workload \in Workloads
    /\ active = workload.genesis /\ evaluating = workload.genesis
    /\ reputation = [g \in Groups |-> Scale]
    /\ stage = [g \in Groups |-> "none"]
    /\ quarantined = [g \in Groups |-> FALSE]
    /\ counters = [r \in Rules |-> [g \in Groups |-> << >>]]
    /\ scheduled = << >>
    /\ chan = << >>
    /\ todo = [t \in Tasks |-> << >>]
    /\ landed = [t \in Tasks |-> << >>]
    /\ log = << >>
    /\ observed = {}
    /\ actPc = [a \in Activations |-> "idle"]
    /\ fetched = [a \in Activations |-> workload.genesis]
    /\ faults = 0
-----------------------------------------------------------------------------
\* The elements of q at the positions I, in the order of q.
Pick(q, I) == [k \in 1..Cardinality(I) |-> q[CHOOSE i \in I : Cardinality(I \cap 1..i) = k]]
-----------------------------------------------------------------------------
(* Mutants. *)
Counted_NoReset(r, v, key) ==
    LET q == counters[r][key] IN
    [counters[r] EXCEPT ![key] =
        Append(Pick(q, {i \in DOMAIN q : q[i] <= v.age + Config[active][r].window}), v.age)]
Flip_IgnoresEvict(kind, q) ==
    CASE kind = "quarantine" -> TRUE [] kind = "reverse" -> FALSE [] OTHER -> q
NextStages_EvictOffCoach(s, rules) ==
    LET Schedule(after, next) ==
            [i \in DOMAIN after |-> [left |-> after[i], agent |-> s.agent,
                                     rule |-> s.rule, stage |-> next]]
        c == rules[s.rule]
    IN  IF s.rule \notin DOMAIN rules THEN << >>
        ELSE CASE s.stage = "coach" -> Schedule(c.evict, "evict")
                                       \o Schedule(c.quarantine, "quarantine")
               [] s.stage = "quarantine" -> Schedule(c.expires, "reverse")
               [] OTHER -> << >>
NextStages_EndsAtQuarantine(s, rules) ==
    IF s.rule \in DOMAIN rules /\ s.stage = "coach"
    THEN [i \in DOMAIN rules[s.rule].quarantine |->
            [left |-> rules[s.rule].quarantine[i], agent |-> s.agent,
             rule |-> s.rule, stage |-> "quarantine"]]
    ELSE << >>
-----------------------------------------------------------------------------
(* The engine.                                                             *)

Key(c, v) == IF c.perPrincipal THEN v.agent ELSE Nobody

\* CounterBucket::prune, then push.
Kept(r, v, key) ==
    LET q == counters[r][key]
    IN  Append(Pick(q, {i \in DOMAIN q : q[i] <= v.age + Config[active][r].window}), v.age)

Fires(r, v) ==
    /\ r \in DOMAIN Config[active]
    /\ Len(Kept(r, v, Key(Config[active][r], v))) >= Config[active][r].threshold

\* check_detect leaves the bucket empty when it fires.
Counted(r, v, key) == [counters[r] EXCEPT ![key] = IF Fires(r, v) THEN << >> ELSE Kept(r, v, key)]

SpanOf(ages) == LET S == {ages[i] : i \in DOMAIN ages} IN Max(S) - Min(S)

DetectEffect(r, v) ==
    LET c == Config[active][r] IN
    [kind |-> "detect", agent |-> Key(c, v), rule |-> r,
     delta |-> IF "detect" \in DOMAIN c.deltas THEN c.deltas["detect"]
               ELSE DefaultDelta["detect"],
     span |-> SpanOf(Kept(r, v, Key(c, v))), version |-> evaluating, age |-> 0]

\* compute_fire_at counts from the receipt's own timestamp.
CoachFor(r, v) ==
    LET c == Config[active][r] IN
    [i \in DOMAIN c.coach |->
        [left  |-> IF v.age > c.coach[i] THEN 0 ELSE c.coach[i] - v.age,
         agent |-> Key(c, v), rule |-> r, stage |-> "coach"]]

\* build_stage_effect: always the default delta.
StageEffect(s) ==
    [kind |-> s.stage, agent |-> s.agent, rule |-> s.rule, delta |-> DefaultDelta[s.stage],
     span |-> 0, version |-> evaluating, age |-> 0]

\* next_stage_schedule, for the rule as the active constitution has it.
NextStages(s, rules) ==
    LET Schedule(after, next) ==
            [i \in DOMAIN after |-> [left |-> after[i], agent |-> s.agent,
                                     rule |-> s.rule, stage |-> next]]
        c == rules[s.rule]
    IN  IF s.rule \notin DOMAIN rules THEN << >>
        ELSE CASE s.stage = "coach" -> Schedule(c.quarantine, "quarantine")
               [] s.stage = "quarantine" -> Schedule(c.evict, "evict")
                                            \o Schedule(c.expires, "reverse")
               [] OTHER -> << >>

Clamp(x) == IF x < 0 THEN 0 ELSE IF x > Scale THEN Scale ELSE x

\* What an enforcement receipt makes of the quarantine flag.
Flip(kind, q) ==
    CASE kind = "quarantine" -> TRUE [] kind \in {"reverse", "evict"} -> FALSE [] OTHER -> q
-----------------------------------------------------------------------------
(* Receipts on their way: an RPC handler, the forwarder and the scheduler  *)
(* each append theirs one by one, and publish each before the next.        *)

Idle(t) == todo[t] = << >> /\ landed[t] = << >>

Alike(d, e) == Subject[d] = Subject[e] /\ (d \in Shadow <=> e \in Shadow)

\* A handler builds and stamps an evaluation receipt.
Observe(d) ==
    /\ d \in workload.observed \ observed
    /\ \A e \in workload.observed :
           (Alike(d, e) /\ Rank[e] < Rank[d]) => e \in observed
    /\ observed' = observed \cup {d}
    /\ todo' = [todo EXCEPT ![d] =
                  <<[kind |-> IF d \in Shadow THEN "shadow" ELSE "deny", agent |-> Subject[d],
                     rule |-> "none", delta |-> 0, span |-> 0, version |-> evaluating,
                     age |-> 0]>>]
    /\ UNCHANGED <<active, agentVars, counters, scheduled, chan, landed, log, actVars, runVars>>

AppendReceipt(t) ==
    /\ todo[t] # << >> /\ landed[t] = << >>
    /\ landed' = [landed EXCEPT ![t] = <<Head(todo[t])>>]
    /\ todo' = [todo EXCEPT ![t] = Tail(@)]
    /\ log' = IF Head(todo[t]).kind \in Stages THEN Append(log, Head(todo[t])) ELSE log
    /\ UNCHANGED <<active, agentVars, counters, scheduled, chan, observed, actVars, runVars>>

\* emit_effects logs the failure and goes on with the next effect.
AppendFails(t) ==
    /\ todo[t] # << >> /\ landed[t] = << >> /\ faults < workload.maxFaults
    /\ faults' = faults + 1
    /\ todo' = [todo EXCEPT ![t] = Tail(@)]
    /\ UNCHANGED <<active, agentVars, counters, scheduled, chan, landed, log, observed, actVars,
                   workload>>

\* try_send: a view that finds the channel full is dropped.
Publish(t) ==
    /\ landed[t] # << >>
    /\ chan' = IF Len(chan) < ChanCap THEN Append(chan, landed[t][1]) ELSE chan
    /\ landed' = [landed EXCEPT ![t] = << >>]
    /\ UNCHANGED <<active, agentVars, counters, scheduled, todo, log, observed, actVars, runVars>>
-----------------------------------------------------------------------------
(* The forwarder: on_receipt for the head of the channel.                  *)

ForwardSkipped ==
    /\ Idle("forwarder") /\ chan # << >> /\ Head(chan).kind = "shadow"
    /\ chan' = Tail(chan)
    /\ UNCHANGED <<active, agentVars, counters, scheduled, todo, landed, log, observed, actVars,
                   runVars>>

ForwardEnforcement ==
    /\ Idle("forwarder") /\ chan # << >> /\ Head(chan).kind \in Stages
    /\ LET v == Head(chan) IN
       /\ reputation' = [reputation EXCEPT ![v.agent] = Clamp(@ + v.delta)]
       /\ quarantined' = [quarantined EXCEPT ![v.agent] = Flip(v.kind, @)]
    /\ chan' = Tail(chan)
    /\ UNCHANGED <<active, stage, counters, scheduled, todo, landed, log, observed, actVars,
                   runVars>>

\* Rules are triggered by evaluation denies; an Activate receipt passes by.
ForwardEvaluation ==
    /\ Idle("forwarder") /\ chan # << >> /\ Head(chan).kind \in {"deny", "activate"}
    /\ LET v    == Head(chan)
           live == IF v.kind = "deny" THEN DOMAIN Config[active] ELSE {}
       IN  \E firing \in {{r \in live : Fires(r, v)}} :
       LET fired == Pick(RuleOrder, {i \in DOMAIN RuleOrder : RuleOrder[i] \in firing})
       IN
       /\ counters' = [r \in Rules |-> IF r \in live
                                       THEN Counted(r, v, Key(Config[active][r], v))
                                       ELSE counters[r]]
       /\ stage' = [g \in Groups |->
                      IF g # Nobody /\ \E i \in DOMAIN fired : Key(Config[active][fired[i]], v) = g
                      THEN "detect" ELSE stage[g]]
       /\ scheduled' = scheduled \o FlattenSeq([i \in DOMAIN fired |-> CoachFor(fired[i], v)])
       /\ todo' = [todo EXCEPT !["forwarder"] =
                     [i \in DOMAIN fired |-> DetectEffect(fired[i], v)]]
    /\ chan' = Tail(chan)
    /\ UNCHANGED <<active, reputation, quarantined, landed, log, observed, actVars, runVars>>
-----------------------------------------------------------------------------
(* The scheduler: poll_scheduled.                                          *)

Poll ==
    /\ Idle("scheduler")
    /\ LET due   == Pick(scheduled, {i \in DOMAIN scheduled : scheduled[i].left = 0})
           later == Pick(scheduled, {i \in DOMAIN scheduled : scheduled[i].left > 0})
       IN
       /\ due # << >>
       /\ todo' = [todo EXCEPT !["scheduler"] = [i \in DOMAIN due |-> StageEffect(due[i])]]
       /\ scheduled' =
            later \o FlattenSeq([i \in DOMAIN due |-> NextStages(due[i], Config[active])])
    /\ UNCHANGED <<active, agentVars, counters, chan, landed, log, observed, actVars, runVars>>
-----------------------------------------------------------------------------
(* ConstitutionService.Activate: the evaluator first, then what current()  *)
(* returns is bound to the engine, then a receipt.                         *)

ActivateEvaluator(a) ==
    /\ actPc[a] = "idle" /\ a \in workload.activations
    /\ evaluating' = NewVersion[a]
    /\ actPc' = [actPc EXCEPT ![a] = "fetch"]
    /\ UNCHANGED <<active, agentVars, counters, scheduled, taskVars, observed, fetched, runVars>>

FetchCurrent(a) ==
    /\ actPc[a] = "fetch"
    /\ fetched' = [fetched EXCEPT ![a] = evaluating]
    /\ actPc' = [actPc EXCEPT ![a] = "bind"]
    /\ UNCHANGED <<active, agentVars, counters, scheduled, taskVars, observed, evaluating, runVars>>

\* EnforcementEngine::activate.
BindEngine(a) ==
    /\ actPc[a] = "bind"
    /\ active' = fetched[a]
    /\ counters' = [r \in Rules |-> [g \in Groups |-> << >>]]
    /\ actPc' = [actPc EXCEPT ![a] = "done"]
    /\ todo' = [todo EXCEPT ![a] =
                  <<[kind |-> "activate", agent |-> Nobody, rule |-> "none", delta |-> 0,
                     span |-> 0, version |-> fetched[a], age |-> 0]>>]
    /\ UNCHANGED <<agentVars, scheduled, chan, landed, log, observed, evaluating, fetched, runVars>>
-----------------------------------------------------------------------------
(* Time.  Only a receipt that can be counted needs its age on the way.     *)

Older(q) == [i \in DOMAIN q |-> IF q[i].kind = "deny" THEN [q[i] EXCEPT !.age = @ + 1] ELSE q[i]]

InTime(q) == \A i \in DOMAIN q : q[i].age < workload.maxLag

Tick ==
    /\ InTime(chan) /\ \A t \in Tasks : InTime(todo[t]) /\ InTime(landed[t])
    /\ chan' = Older(chan)
    /\ todo' = [t \in Tasks |-> Older(todo[t])]
    /\ landed' = [t \in Tasks |-> Older(landed[t])]
    /\ counters' = [r \in Rules |-> [g \in Groups |->
                      [i \in DOMAIN counters[r][g] |->
                         Min({counters[r][g][i] + 1, workload.maxLag + MaxWindow + 1})]]]
    /\ scheduled' = [i \in DOMAIN scheduled |-> [scheduled[i] EXCEPT !.left = Max({@ - 1, 0})]]
    /\ UNCHANGED <<active, agentVars, log, observed, actVars, runVars>>
-----------------------------------------------------------------------------
Emitting(t) == AppendReceipt(t) \/ Publish(t)
Forwarding  == ForwardSkipped \/ ForwardEnforcement \/ ForwardEvaluation
Activating(a) == ActivateEvaluator(a) \/ FetchCurrent(a) \/ BindEngine(a)

Next ==
    \/ \E d \in Observed : Observe(d)
    \/ \E t \in Tasks : Emitting(t) \/ AppendFails(t)
    \/ Forwarding \/ Poll \/ Tick
    \/ \E a \in Activations : Activating(a)

Spec == Init /\ [][Next]_vars

\* Tasks keep being polled, the ticker keeps ticking, time passes.
Fairness ==
    /\ \A t \in Tasks : WF_vars(Emitting(t))
    /\ WF_vars(Forwarding) /\ WF_vars(Poll) /\ WF_vars(Tick)

FairSpec == Spec /\ Fairness
-----------------------------------------------------------------------------
\* Everything that was appended has reached the engine.
Quiet == chan = << >> /\ \A t \in Tasks : landed[t] = << >>

Indices(kinds, g) == {i \in DOMAIN log : log[i].kind \in kinds /\ log[i].agent = g}

\* Receipts of one kind, rule and agent in the log.
Count(kind, r, g) == Cardinality({i \in Indices({kind}, g) : log[i].rule = r})

(***************************************************************************)
(* QuarantineFollowsLog: once the engine has seen everything, an agent is  *)
(* quarantined exactly when the last enforcement receipt about it that     *)
(* matters is a quarantine; enforcement.md:154 has the capability layer    *)
(* read the state "from the most recent `enforcement.quarantine` /         *)
(* `enforcement.reverse` receipt for the agent".                           *)
(***************************************************************************)
QuarantineFollowsLog ==
    Quiet => \A g \in Groups :
        LET I == Indices({"quarantine", "reverse", "evict"}, g)
        IN  quarantined[g] <=> (I # {} /\ log[Max(I)].kind = "quarantine")

(***************************************************************************)
(* LadderOrder: per rule and agent, the n-th quarantine is logged after    *)
(* the n-th coach, the n-th evict and the n-th reverse after the n-th      *)
(* quarantine, however the chains of several detects overlap: the log only *)
(* grows, so it is enough to compare the counts in every state             *)
(* (enforcement.rs next_stage_schedule).                                   *)
(***************************************************************************)
LadderOrder ==
    \A r \in Rules, g \in Groups :
        /\ Count("quarantine", r, g) <= Count("coach", r, g)
        /\ Count("evict", r, g) <= Count("quarantine", r, g)
        /\ Count("reverse", r, g) <= Count("quarantine", r, g)

(***************************************************************************)
(* DetectsAccounted: a deny counts towards one detect of a rule, and a     *)
(* shadow-mode deny towards none: threshold times the detects about an     *)
(* agent never exceeds its denies (check_detect re-arms, the forwarder     *)
(* skips shadow receipts).  And the denies behind a detect lie within the  *)
(* rule's time window, also when they reach the engine late and out of     *)
(* order, as long as none is later than a window (CounterBucket::prune     *)
(* takes the arriving receipt's timestamp for the present).                *)
(***************************************************************************)
DetectsAccounted ==
    \A v \in Versions : \A r \in DOMAIN Config[v] :
        /\ Config[v][r].perPrincipal =>
              \A g \in Agents : Config[v][r].threshold * Count("detect", r, g)
                                 <= Cardinality({d \in observed \ Shadow : Subject[d] = g})
        /\ \A i \in DOMAIN log :
              (log[i].kind = "detect" /\ log[i].rule = r) => log[i].span <= Config[v][r].window

(***************************************************************************)
(* QuarantineExpires: a quarantine by a rule with expires_after or evict   *)
(* ends while that rule is in force (enforcement.md:185 "when wall-clock   *)
(* advances past it, the engine emits an `enforcement.reverse`             *)
(* automatically"); and once its end is scheduled, an amendment that takes *)
(* the rule away does not keep the agent quarantined (poll_scheduled       *)
(* emits a due stage without looking its rule up).                         *)
(***************************************************************************)
QuarantineExpires ==
    \A g \in Agents :
        /\ quarantined[g] ~> (~quarantined[g] \/ active # workload.genesis)
        /\ (\E i \in DOMAIN scheduled : scheduled[i].agent = g
                                       /\ scheduled[i].stage \in {"reverse", "evict"})
               ~> ~quarantined[g]
=============================================================================
