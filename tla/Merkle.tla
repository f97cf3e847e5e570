------------------------------- MODULE Merkle -------------------------------
(***************************************************************************)
(* The sorted-pair Merkle tree of crates/yutha-receipt/src/merkle.rs.      *)
(* SHA-256 is symbolic: the hash of a pair is the set of its two parts,    *)
(* which is what ordering the two digests before hashing makes of it, so   *)
(* equal roots mean equal trees.  A receipt is given by the content        *)
(* address it hashes to and its place (ns, n) in the canonical order,      *)
(* where n stands for the bytes of the address.                            *)
(***************************************************************************)
EXTENDS Integers, Sequences, FiniteSets, SequencesExt

Leaf(address) == <<"leaf", address>>

sorted_pair_hash(a, b) == <<"node", {a, b}>>

\* (monotonic_ns, receipt_id) ascending.
Precedes(x, y) == x.ns < y.ns \/ (x.ns = y.ns /\ x.n < y.n)

\* The entries that come before the i-th; sort_by is stable.
Below(entries, i) ==
    {j \in DOMAIN entries : IF j < i THEN ~Precedes(entries[i], entries[j])
                                     ELSE Precedes(entries[j], entries[i])}

\* entries.sort_by: an entry's place is after those below it.
Place(entries) == [i \in DOMAIN entries |-> Cardinality(Below(entries, i)) + 1]

Canonically(entries) ==
    LET place == Place(entries)
    IN  [k \in DOMAIN entries |-> entries[CHOOSE i \in DOMAIN entries : place[i] = k]]

\* One round of the level loop: an odd level pairs its last node with itself.
NextLevel(level) ==
    [k \in 1 .. (Len(level) + 1) \div 2 |->
        sorted_pair_hash(level[2 * k - 1],
                         IF 2 * k <= Len(level) THEN level[2 * k] ELSE level[2 * k - 1])]

\* The levels of the tree from the leaves (0) up; the root repeats at the end.
Levels(leaves) ==
    LET L[k \in 0 .. Len(leaves)] ==
            IF k = 0 THEN leaves
            ELSE LET below == L[k - 1] IN
                 IF Len(below) = 1 THEN below ELSE NextLevel(below)
    IN  L

Depth(levels) ==
    CHOOSE d \in DOMAIN levels :
        /\ Len(levels[d]) = 1
        /\ \A e \in DOMAIN levels : e < d => Len(levels[e]) > 1

\* The sibling recorded for the node at position pos (from 0) of a level.
Sibling(level, pos) ==
    IF pos % 2 = 1 THEN level[pos]
    ELSE IF pos + 1 < Len(level) THEN level[pos + 2] ELSE level[pos + 1]

\* The root over canonically sorted entries and the path of each leaf.
Tree(sorted) ==
    LET levels == Levels([i \in DOMAIN sorted |-> Leaf(sorted[i].address)])
        depth  == Depth(levels)
    IN  [root   |-> levels[depth][1],
         leaves |-> [i \in DOMAIN sorted |->
                       [leaf |-> sorted[i].address,
                        path |-> [k \in 1 .. depth |->
                                    Sibling(levels[k - 1], (i - 1) \div (2 ^ (k - 1)))]]]]

\* build_merkle; "BatchInvalid" for an empty batch or a repeated address.
build_merkle(entries) ==
    IF entries = <<>> \/ ~IsInjective([i \in DOMAIN entries |-> entries[i].address])
    THEN [root |-> "BatchInvalid", leaves |-> <<>>]
    ELSE Tree(Canonically(entries))

verify_path(address, path, root) ==
    FoldLeft(sorted_pair_hash, Leaf(address), path) = root
=============================================================================
