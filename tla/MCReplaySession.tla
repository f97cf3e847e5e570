--------------------------- MODULE MCReplaySession ---------------------------
(***************************************************************************)
(* Two sessions on four production receipts.  The first one's lookback     *)
(* makes the candidate's rule fire, and the follow-on falls into its       *)
(* window.  The second one's window fits a page, or overflows it, or       *)
(* starts at 0 with a lookback.                                            *)
(***************************************************************************)
EXTENDS ReplaySession

CONSTANTS s1, s2, r2

Deny(ns) == [ns |-> ns, kind |-> "deny"]

MCSource == {Deny(0), Deny(1), Deny(2), [ns |-> 3, kind |-> "send"]}

Window(from, to, filter, mode, lookback) ==
    [from |-> from, to |-> to, filter |-> filter, mode |-> mode, lookback |-> lookback]

MCWanted ==
    [s \in Sessions |->
        IF s = s1 THEN {Window(2, 3, {"deny"}, "warm", 2)}
        ELSE {Window(1, 2, {}, "cold", 1), Window(0, 2, {}, "cold", 1), Window(0, 1, {}, "warm", 1)}]

\* The second run joins the first on s1 or has s2 to itself.
MCTarget == [p \in Runs \union Closers |-> IF p = r2 THEN Sessions ELSE {s1}]
==============================================================================
