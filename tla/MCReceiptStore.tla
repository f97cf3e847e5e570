--------------------------- MODULE MCReceiptStore ---------------------------
(***************************************************************************)
(* Instances of ReceiptStore: receipts that tie on their time, one that is *)
(* written twice at once, one of a later spec version, one with two        *)
(* predecessors and one that is signed twice in a role, while two sealers  *)
(* take overlapping batches.                                               *)
(***************************************************************************)
EXTENDS ReceiptStore

CONSTANTS w1, w2, w3, w4, w5, s1, s2

\* A receipt signed by those of the signers, each a pair <<role, key>>.
Receipt(n, spec, ns, preds, signers) ==
    LET bytes == [n |-> n, spec |-> spec, ns |-> ns, actor |-> "a",
                  kind |-> IF n = 3 THEN "k2" ELSE "k1", preds |-> preds]
        sigs  == [i \in DOMAIN signers |->
                    [role |-> signers[i][1], key |-> signers[i][2], over |-> bytes]]
    IN  [n |-> n, spec |-> spec, ns |-> ns, actor |-> "a", kind |-> bytes.kind,
         preds |-> preds, sigs |-> sigs]

Actor == <<"Actor", "good">>

r1 == Receipt(1, "1.0.0", 2, <<9>>, <<Actor>>)
r2 == Receipt(2, "1.1.0", 2, <<1>>, <<Actor, <<"ControlPlane", "unknown">>>>)
r3 == Receipt(3, "1.0.0", 1, <<2, 1>>, <<Actor>>)
r4 == Receipt(4, "1.0.0", 3, <<1>>, <<Actor, <<"Supervisor", "good">>, <<"Supervisor", "good">>>>)

MCReceipts == {r1, r2, r3, r4}

MCWrites == [p \in Appenders |-> CASE p = w1 -> r1 [] p = w2 -> r2 [] p = w3 -> r3
                                   [] p = w4 -> r4 [] p = w5 -> r1]

MCCommitmentId == [s \in Sealers |-> s]

MCQueries == {[by |-> "time", from |-> 1, to |-> 2], [by |-> "agent", actor |-> "a"]}

\* Up to seven leaves, every leaf proves itself and nothing else does, and
\* batches that differ have roots that differ.
Numbered(S) == LET T == {[n |-> i, ns |-> i \div 3, address |-> i] : i \in S}
               IN  CHOOSE s \in [1 .. Cardinality(T) -> T] : \A i, j \in DOMAIN s : s[i] = s[j] => i = j

ASSUME MerkleReference ==
    /\ \A k \in 1 .. 7 :
          LET b == build_merkle(Numbered(1 .. k)) IN
          \A i \in 1 .. k, a \in 1 .. 8 :
              verify_path(a, b.leaves[i].path, b.root) <=> a = b.leaves[i].leaf
    /\ \A S, T \in SUBSET (1 .. 5) \ {{}} :
          build_merkle(Numbered(S)).root = build_merkle(Numbered(T)).root => S = T
=============================================================================
