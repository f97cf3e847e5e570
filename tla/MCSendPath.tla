----------------------------- MODULE MCSendPath -----------------------------
(***************************************************************************)
(* Instances of SendPath: a send, and operator calls that bring in the     *)
(* constitutions strict, which permits nothing, and open.                  *)
(***************************************************************************)
EXTENDS SendPath

CONSTANTS send, activate, shadowing, clear, promote, base, strict, open

MCLoads == [c \in Activates \cup Shadows |-> IF c = activate THEN strict ELSE open]
MCPermitted == [c \in Constitutions |-> IF c = strict THEN {} ELSE {send}]
=============================================================================
