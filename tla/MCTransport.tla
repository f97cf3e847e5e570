---------------------------- MODULE MCTransport ----------------------------
(***************************************************************************)
(* Transport under six workloads.  Unicast: two subscriptions and a        *)
(* retried send for an agent whose inbox exists.  Leaving: a subscriber    *)
(* drops its stream.  Broadcast: a role and a swarm send to two agents,    *)
(* one of them without an inbox until it subscribes.  Polling: a receive   *)
(* beside a subscription.  Outside: a send nothing can route.  Fresh: two  *)
(* subscriptions race for an agent that has no inbox.                      *)
(***************************************************************************)
EXTENDS Transport

CONSTANTS a1, a2, x1, x2, x3, r1, s1, s2, s3, e1, e2, t1

MCSubAgent == [x \in Subs |-> IF x = x3 THEN a2 ELSE a1]
MCSendEnv == [s \in Sends |-> IF s = s2 THEN e2 ELSE e1]

ToA1 == [kind |-> "agent", agent |-> a1]

Unicast ==
    [registered |-> {a1}, administered |-> {}, subs |-> {x1, x2},
     sendTo |-> [s \in Sends |-> ToA1], maxFaults |-> 1, maxDrops |-> 0]
Leaving ==
    [Unicast EXCEPT !.sendTo = [s \in {s1, s2} |-> ToA1], !.maxFaults = 0, !.maxDrops = 1]
Broadcast ==
    [registered |-> {a1}, administered |-> {a1, a2}, subs |-> {x3},
     sendTo |-> [s \in {s1, s2} |-> IF s = s1 THEN [kind |-> "role"]
                                    ELSE [kind |-> "swarm", filter |-> {t1}]],
     maxFaults |-> 0, maxDrops |-> 0]
Polling ==
    [Unicast EXCEPT !.subs = {x1, r1}, !.sendTo = [s \in {s1, s2} |-> ToA1]]
Outside ==
    [Broadcast EXCEPT !.administered = {}, !.subs = {},
                      !.sendTo = [s \in {s1} |-> [kind |-> "external"]]]
\* Nobody has subscribed for the agent yet, and two subscriptions race.
Fresh == [Leaving EXCEPT !.registered = {}]
MCWorkloads == {Unicast, Leaving, Broadcast, Polling, Outside, Fresh}

\* MCTransportFreshDrop.cfg.
FreshWorkloads == {Fresh}
=============================================================================
