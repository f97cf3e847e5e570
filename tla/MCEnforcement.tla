--------------------------- MODULE MCEnforcement ---------------------------
(***************************************************************************)
(* Enforcement for one agent, under three workloads: denies that arrive    *)
(* late and out of order at pattern rules, with an append that fails; the  *)
(* overlapping chains of two denies through the whole ladder; and a chain  *)
(* whose rule is amended away half-way.                                    *)
(***************************************************************************)
EXTENDS Enforcement

CONSTANTS a1, none, d1, d2, d3, d4, act, r1, r2, r3, empty, pattern, ladder

MCSubject == [d \in Observed |-> a1]
MCRank == [d \in Observed |-> CASE d = d1 -> 1 [] d = d2 -> 2 [] d = d3 -> 3 [] d = d4 -> 4]
MCRuleOrder == <<r1, r2, r3>>

\* Two matching denies within two ticks, and nothing more.
Pattern ==
    [perPrincipal |-> TRUE, threshold |-> 2, window |-> 2, coach |-> << >>,
     quarantine |-> << >>, evict |-> << >>, expires |-> << >>, deltas |-> << >>]

\* Any deny starts a chain; its reverse is due a tick before its evict.
Ladder == [Pattern EXCEPT !.threshold = 1, !.coach = <<1>>, !.quarantine = <<1>>,
                          !.expires = <<1>>, !.evict = <<2>>]

MCConfig ==
    [v \in Versions |->
       CASE v = empty   -> << >>
         [] v = pattern -> [r \in {r1, r2} |->
                              IF r = r1 THEN Pattern
                              ELSE [Pattern EXCEPT !.perPrincipal = FALSE, !.threshold = 3]]
         [] v = ladder  -> [r \in {r3} |-> Ladder]]

MCNewVersion == [a \in Activations |-> empty]

LateDenies ==
    [genesis |-> pattern, observed |-> {d1, d2, d3, d4}, activations |-> {},
     maxFaults |-> 1, maxLag |-> 2]
Overlapping ==
    [genesis |-> ladder, observed |-> {d1, d2}, activations |-> {},
     maxFaults |-> 0, maxLag |-> 1]
Amended ==
    [genesis |-> ladder, observed |-> {d1}, activations |-> {act},
     maxFaults |-> 0, maxLag |-> 1]
MCWorkloads == {LateDenies, Overlapping, Amended}

\* The instance is one that DetectsAccounted is meant for.
ASSUME MCEnforcementAssumption == SettledRules /\ PromptReceipts
=============================================================================
