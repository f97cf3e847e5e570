----------------------------- MODULE ReceiptLog -----------------------------
(***************************************************************************)
(* What a receipt store promises its callers (traits ReceiptStore and      *)
(* SealStore, crates/yutha-receipt/src/store.rs): an append-only set of    *)
(* content addresses, and seals that come a whole batch at a time and are  *)
(* never moved to another batch.  ReceiptStore implements this.            *)
(***************************************************************************)
EXTENDS FiniteSets

CONSTANTS Addresses,  \* content addresses that may be appended
          Root(_)     \* the Merkle root of a set of addresses

VARIABLES log,        \* the addresses stored
          sealOf      \* the root each sealed address was sealed under

vars == <<log, sealOf>>

Init == log = {} /\ sealOf = [a \in {} |-> {}]

Append(a) ==
    /\ log' = log \union {a}
    /\ UNCHANGED sealOf

\* "every receipt in batch.leaves either gets a seal record, or none do"
RecordSealedBatch(batch) ==
    LET root == Root(batch) IN
    /\ UNCHANGED log
    /\ batch # {} /\ batch \subseteq log
    /\ \A a \in batch \intersect DOMAIN sealOf : sealOf[a] = root
    /\ sealOf' = [a \in batch \union DOMAIN sealOf |->
                    IF a \in batch THEN root ELSE sealOf[a]]

Next ==
    \/ \E a \in Addresses : Append(a)
    \/ \E batch \in SUBSET log : RecordSealedBatch(batch)

Spec == Init /\ [][Next]_vars
=============================================================================
