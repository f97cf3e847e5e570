---------------------------- MODULE MCAdmission ----------------------------
(***************************************************************************)
(* Instances of Admission: one agent that streams, calls, leaves and comes *)
(* back while the operator evicts it.                                      *)
(***************************************************************************)
EXTENDS Admission

CONSTANTS a1, sub, unary, evict, selfRevoke, reg, k1

MCKind ==
    [c \in Calls |-> CASE c = sub -> "subscribe"
                       [] c = unary -> "unary"
                       [] c = evict -> "operator"
                       [] c = selfRevoke -> "revoke"
                       [] c = reg -> "register"]

MCTarget == [c \in Calls |-> a1]

MCSubject == [k \in Caps |-> a1]
=============================================================================
