---------------------------- MODULE ReceiptStore ----------------------------
(***************************************************************************)
(* The receipt stores: MemoryStore (crates/yutha-receipt/src/memory.rs)    *)
(* and PostgresStore (backends/postgres-receipt/src/lib.rs), which every   *)
(* control plane appends to, pages through and seals.                      *)
(*                                                                         *)
(* MemoryStore works under one RwLock, so an operation is one step.  A     *)
(* PostgresStore operation is a transaction: a step is a statement, other  *)
(* sessions see what is committed, a statement waits for a key or row that *)
(* another open transaction holds, and the connection may fail at any      *)
(* statement, or at the commit with its outcome unknown to the caller.     *)
(*                                                                         *)
(* A receipt is a record [n, spec, ns, actor, kind, preds, sigs]; n stands *)
(* for the rest of its canonical bytes.  Its content address is the record *)
(* without the signatures (SHA-256 is taken to be injective).  A signature *)
(* is [role, key, over]: over are the canonical bytes that were signed.    *)
(***************************************************************************)
EXTENDS Integers, Sequences, FiniteSets, SequencesExt, Merkle

CONSTANTS Receipts,     \* receipts that may be appended
          Backends,     \* stores to check: subset of {"memory", "postgres"}
          Appenders,    \* calls of append ...
          Writes,       \* ... and the receipt each one is given
          Sealers,      \* callers of record_sealed_batch ...
          CommitmentId, \* ... and the commitment id of each one's batch
          Resolvable,   \* actors whose passport key resolves
          Queries,      \* the queries a reader may walk through
          PageLimit,    \* rows per page
          MaxI64,       \* the largest BIGINT
          MaxBatch,     \* bound: leaves of one batch
          MaxFaults     \* bound: connections lost

VARIABLES backend,  \* the store this deployment runs on
          rows,     \* committed receipts, with the signatures they came with
          seals,    \* committed seals: address -> [root, path, commitment]
          pc,       \* per call
          staged,   \* per call: rows of its open transaction
          batch,    \* per sealer: the batch it records
          leaf,     \* per sealer: the leaf it is at
          locked,   \* per sealer: seal rows it holds FOR UPDATE
          walk,     \* the reader
          faults

callVars == <<pc, staged, batch, leaf, locked>>
vars == <<backend, rows, seals, callVars, walk, faults>>

None == "none"

-----------------------------------------------------------------------------
(* Receipts *)

content_address(r) == [n |-> r.n, spec |-> r.spec, ns |-> r.ns, actor |-> r.actor,
                       kind |-> r.kind, preds |-> r.preds]

IsList(s) == Len(s) \in Nat /\ s = [i \in 1 .. Len(s) |-> s[i]]

IsReceipt(r) ==
    /\ r = [n |-> r.n, spec |-> r.spec, ns |-> r.ns, actor |-> r.actor, kind |-> r.kind,
            preds |-> r.preds, sigs |-> r.sigs]
    /\ r.n \in Nat /\ r.ns \in Nat
    /\ IsList(r.preds) /\ IsList(r.sigs)

ASSUME ReceiptStoreAssumption ==
    /\ \A r \in Receipts : IsReceipt(r)
    /\ \A r, q \in Receipts : r.n = q.n => content_address(r) = content_address(q)
    /\ Writes \in [Appenders -> Receipts] /\ Appenders \intersect Sealers = {}
    /\ Backends \subseteq {"memory", "postgres"}
    /\ PageLimit \in Nat \ {0} /\ MaxFaults \in Nat /\ MaxI64 \in Nat

StoredAddresses == {content_address(r) : r \in rows}

rank(role) == CASE role = "Actor" -> 0 [] role = "ControlPlane" -> 1
                [] role = "Supervisor" -> 2 [] role = "Attestation" -> 3
                [] role = "BatchRoot" -> 4

enforce_canonical_order(sigs) ==
    \A i \in 1 .. Len(sigs) - 1 : rank(sigs[i].role) <= rank(sigs[i + 1].role)

\* A signature verifies against the canonical bytes of the receipt as it is now.
verify(r, sig) == sig.key = "good" /\ sig.over = content_address(r)

\* The first actor signature must verify; another role's only if its key resolves.
verify_receipt_signatures(r) ==
    LET actorSigs == {i \in DOMAIN r.sigs : r.sigs[i].role = "Actor"}
    IN  /\ enforce_canonical_order(r.sigs)
        /\ \E first \in actorSigs :
              verify(r, r.sigs[first]) /\ \A i \in actorSigs : first <= i
        /\ \A i \in DOMAIN r.sigs \ actorSigs :
              r.sigs[i].key # "unknown" => verify(r, r.sigs[i])

resolve_actor(actor) == actor \in Resolvable

verify_pre_append(r) == resolve_actor(r.actor) /\ verify_receipt_signatures(r)

\* u64_to_i64 saturates.
u64_to_i64(v) == IF v > MaxI64 THEN MaxI64 ELSE v

\* What reading a stored receipt back may give: MemoryStore clones it;
\* PostgresStore rebuilds it: the predecessor rows, a set, come in any order, and
\* the spec version, which has no column, is taken to be 1.0.0.
rehydrate_receipt(r) ==
    IF backend = "memory" THEN {r}
    ELSE {[r EXCEPT !.preds = order, !.ns = u64_to_i64(r.ns), !.spec = "1.0.0"] :
            order \in SetToSeqs(ToSet(r.preds))}

(* Batches as LocalSealer builds them *)

Entry(r) == [n |-> r.n, ns |-> r.ns, address |-> content_address(r)]

seal_batch(receipts) == build_merkle([i \in DOMAIN receipts |-> Entry(receipts[i])])

RootOf(addresses) ==
    LET order == SetToSeq(addresses)
    IN  build_merkle([i \in DOMAIN order |->
                        [n |-> order[i].n, ns |-> order[i].ns, address |-> order[i]]]).root

-----------------------------------------------------------------------------
(* Append *)

Called(p, step) == pc[p] = step

Goto(p, step) == pc' = [pc EXCEPT ![p] = step]

\* The entries of new, and those of old it does not replace.
Overlay(new, old) ==
    [a \in DOMAIN new \union DOMAIN old |-> IF a \in DOMAIN new THEN new[a] ELSE old[a]]

Drop(p, step) ==
    /\ Goto(p, step)
    /\ staged' = [staged EXCEPT ![p] = {}]

MemoryAppend(p) ==
    /\ backend = "memory" /\ Called(p, "append")
    /\ IF ~verify_pre_append(Writes[p]) THEN Goto(p, "rejected") /\ UNCHANGED rows
       ELSE IF content_address(Writes[p]) \in StoredAddresses
            THEN Goto(p, "present") /\ UNCHANGED rows
            ELSE Goto(p, "inserted") /\ rows' = rows \union {Writes[p]}
    /\ UNCHANGED <<backend, seals, staged, batch, leaf, locked, walk, faults>>

AppendBegin(p) ==
    /\ backend = "postgres" /\ Called(p, "append")
    /\ Goto(p, IF verify_pre_append(Writes[p]) THEN "insert" ELSE "rejected")
    /\ UNCHANGED <<backend, rows, seals, staged, batch, leaf, locked, walk, faults>>

\* Mutant: the row is committed before the rows that belong to it.
insert_receipt_Autocommits(p) ==
    /\ Called(p, "insert")
    /\ IF content_address(Writes[p]) \in StoredAddresses
       THEN Goto(p, "commit") /\ UNCHANGED rows
       ELSE Goto(p, "related") /\ rows' = rows \union {[Writes[p] EXCEPT !.sigs = <<>>]}
    /\ UNCHANGED <<backend, seals, staged, batch, leaf, locked, walk, faults>>

\* INSERT ... ON CONFLICT DO NOTHING waits while another transaction holds the key.
insert_receipt(p) ==
    /\ Called(p, "insert")
    /\ \A q \in Appenders \ {p} :
          \A r \in staged[q] : content_address(r) # content_address(Writes[p])
    /\ IF content_address(Writes[p]) \in StoredAddresses
       THEN Goto(p, "commit") /\ UNCHANGED staged
       ELSE /\ Goto(p, "related")
            /\ staged' = [staged EXCEPT ![p] = {[Writes[p] EXCEPT !.sigs = <<>>]}]
    /\ UNCHANGED <<backend, rows, seals, batch, leaf, locked, walk, faults>>

\* Predecessor, signature, evidence and cost rows; (receipt_id, role) is a key.
insert_related(p) ==
    /\ Called(p, "related")
    /\ IF IsInjective([i \in DOMAIN Writes[p].sigs |-> Writes[p].sigs[i].role])
       THEN Goto(p, "commit") /\ staged' = [staged EXCEPT ![p] = {Writes[p]}]
       ELSE Drop(p, "failed")
    /\ UNCHANGED <<backend, rows, seals, batch, leaf, locked, walk, faults>>

AppendCommit(p) ==
    /\ Called(p, "commit")
    /\ rows' = rows \union staged[p]
    /\ Drop(p, IF staged[p] = {} THEN "present" ELSE "inserted")
    /\ UNCHANGED <<backend, seals, batch, leaf, locked, walk, faults>>

(* Faults of a connection: before the commit the transaction is gone; at   *)
(* the commit it may have been applied all the same.                       *)

AppendLost(p) ==
    /\ faults < MaxFaults
    /\ pc[p] \in {"insert", "related", "commit"}
    /\ Drop(p, "failed")
    /\ rows' \in {rows} \union (IF pc[p] = "commit" THEN {rows \union staged[p]} ELSE {})
    /\ faults' = faults + 1
    /\ UNCHANGED <<backend, seals, batch, leaf, locked, walk>>

-----------------------------------------------------------------------------
(* Sealing *)

Seal(s, l) == [root |-> batch[s].root, path |-> l.path, commitment |-> CommitmentId[s]]

\* Mutant: the leaves are recorded in the order a hash map gives them.
SealBegin_AnyOrder(s) ==
    /\ Called(s, "seal")
    /\ \E chosen \in SUBSET rows :
          /\ chosen # {} /\ Cardinality(chosen) <= MaxBatch
          /\ \E order \in SetToSeqs(1 .. Cardinality(chosen)) :
                batch' = [batch EXCEPT ![s] =
                   LET b == seal_batch(SetToSeq(chosen))
                   IN  [b EXCEPT !.leaves = [i \in DOMAIN order |-> b.leaves[order[i]]]]]
    /\ leaf' = [leaf EXCEPT ![s] = 1]
    /\ Goto(s, "lookup")
    /\ UNCHANGED <<backend, rows, seals, staged, locked, walk, faults>>

\* A sealer reads receipts from the store and builds their tree.
SealBegin(s) ==
    /\ Called(s, "seal")
    /\ \E chosen \in SUBSET rows :
          /\ chosen # {} /\ Cardinality(chosen) <= MaxBatch
          /\ \E read \in [chosen -> UNION {rehydrate_receipt(r) : r \in chosen}] :
                /\ \A r \in chosen : read[r] \in rehydrate_receipt(r)
                /\ batch' = [batch EXCEPT ![s] =
                      seal_batch(LET order == SetToSeq(chosen)
                                 IN  [i \in DOMAIN order |-> read[order[i]]])]
    /\ leaf' = [leaf EXCEPT ![s] = 1]
    /\ Goto(s, "lookup")
    /\ UNCHANGED <<backend, rows, seals, staged, locked, walk, faults>>

\* Mutant: only the first leaf is looked up.
Conflicts_FirstLeaf(s) ==
    LET a == batch[s].leaves[1].leaf
    IN  a \in DOMAIN seals /\ seals[a].root # batch[s].root

Conflicts(s) ==
    \E i \in DOMAIN batch[s].leaves :
        /\ batch[s].leaves[i].leaf \in DOMAIN seals
        /\ seals[batch[s].leaves[i].leaf].root # batch[s].root

\* MemoryStore: check every leaf, then write every leaf, under the write lock.
\* A batch that is already recorded is written again with the new commitment.
MemoryRecord(s) ==
    /\ backend = "memory" /\ Called(s, "lookup")
    /\ IF Conflicts(s) THEN Goto(s, "invalid") /\ UNCHANGED seals
       ELSE /\ Goto(s, "sealed")
            /\ seals' = Overlay([a \in {l.leaf : l \in ToSet(batch[s].leaves)} |->
                                  Seal(s, CHOOSE l \in ToSet(batch[s].leaves) : l.leaf = a)],
                                seals)
    /\ UNCHANGED <<backend, rows, staged, batch, leaf, locked, walk, faults>>

AtLeaf(s) == batch[s].leaves[leaf[s]]

LeafStaged(s, a) == \E l \in staged[s] : l.address = a

Advance(s) ==
    IF leaf[s] < Len(batch[s].leaves)
    THEN leaf' = [leaf EXCEPT ![s] = @ + 1] /\ Goto(s, "lookup")
    ELSE Goto(s, "commit") /\ UNCHANGED leaf

Release(s, step) ==
    /\ Drop(s, step)
    /\ locked' = [locked EXCEPT ![s] = {}]

\* What a statement of t makes one of s wait for.
WaitsFor(s, t) ==
    \/ pc[s] = "lookup" /\ AtLeaf(s).leaf \in locked[t]
    \/ pc[s] = "fill" /\ LeafStaged(t, AtLeaf(s).leaf)

CanRun(s) == \A t \in Sealers \ {s} : ~WaitsFor(s, t)

\* SELECT batch_root ... FOR UPDATE: the committed row, if any, is locked.
SealLookup(s) ==
    /\ backend = "postgres" /\ Called(s, "lookup") /\ CanRun(s)
    /\ LET a == AtLeaf(s).leaf IN
       IF a \notin DOMAIN seals
       THEN Goto(s, "fill") /\ UNCHANGED <<staged, leaf, locked>>
       ELSE IF seals[a].root # batch[s].root
            THEN Release(s, "invalid") /\ UNCHANGED leaf
            ELSE /\ locked' = [locked EXCEPT ![s] = @ \union {a}]
                 /\ Advance(s)
                 /\ UNCHANGED staged
    /\ UNCHANGED <<backend, rows, seals, batch, walk, faults>>

\* Mutant: ON CONFLICT DO UPDATE instead of the key's refusal.
SealInsert_Overwrites(s) ==
    /\ Called(s, "fill") /\ CanRun(s)
    /\ IF AtLeaf(s).leaf \notin StoredAddresses
       THEN Release(s, "failed") /\ UNCHANGED leaf
       ELSE /\ staged' = [staged EXCEPT ![s] = @ \union
                            {[address |-> AtLeaf(s).leaf, seal |-> Seal(s, AtLeaf(s))]}]
            /\ Advance(s)
            /\ UNCHANGED locked
    /\ UNCHANGED <<backend, rows, seals, batch, walk, faults>>

\* INSERT INTO receipt_seal: receipt_id is the key and refers to receipts.
SealInsert(s) ==
    /\ Called(s, "fill") /\ CanRun(s)
    /\ LET a == AtLeaf(s).leaf IN
       IF a \in DOMAIN seals \/ a \notin StoredAddresses
       THEN Release(s, "failed") /\ UNCHANGED leaf
       ELSE /\ staged' = [staged EXCEPT ![s] = @ \union
                            {[address |-> a, seal |-> Seal(s, AtLeaf(s))]}]
            /\ Advance(s)
            /\ UNCHANGED locked
    /\ UNCHANGED <<backend, rows, seals, batch, walk, faults>>

Applied(s) ==
    Overlay([a \in {l.address : l \in staged[s]} |->
                (CHOOSE l \in staged[s] : l.address = a).seal],
            seals)

SealCommit(s) ==
    /\ s \in Sealers /\ Called(s, "commit")
    /\ seals' = Applied(s)
    /\ Release(s, "sealed")
    /\ UNCHANGED <<backend, rows, batch, leaf, walk, faults>>

SealLost(s) ==
    /\ faults < MaxFaults /\ backend = "postgres"
    /\ pc[s] \in {"lookup", "fill", "commit"}
    /\ Release(s, "failed")
    /\ seals' \in {seals} \union (IF pc[s] = "commit" THEN {Applied(s)} ELSE {})
    /\ faults' = faults + 1
    /\ UNCHANGED <<backend, rows, batch, leaf, walk>>

-----------------------------------------------------------------------------
(* Queries *)

Matches(q, r) ==
    CASE q.by = "predecessor" -> q.pred \in ToSet(r.preds)
      [] q.by = "agent"       -> r.actor = q.actor
      [] q.by = "kind"        -> r.kind = q.kind
      [] q.by = "time"        -> r.ns >= q.from /\ r.ns <= q.to

Key(r) == <<r.ns, r.n>>

\* Mutant: the cursor forgets the receipt id.
Before_TimeOnly(k, m) == k[1] < m[1]

Before(k, m) == k[1] < m[1] \/ (k[1] = m[1] /\ k[2] < m[2])

\* The rows after the cursor in (occurred_at_ns, receipt_id) order.
AfterCursor(q, cursor) ==
    LET found == {r \in rows : Matches(q, r) /\ (cursor = <<>> \/ Before(cursor, Key(r)))}
    IN  Canonically(SetToSeq(found))

Idle == [on |-> FALSE, query |-> None, cursor |-> <<>>, had |-> {}, got |-> <<>>, end |-> FALSE]

WalkBegin(q) ==
    /\ ~walk.on
    /\ walk' = [Idle EXCEPT !.on = TRUE, !.query = q,
                            !.had = {Key(r) : r \in {x \in rows : Matches(q, x)}}]
    /\ UNCHANGED <<backend, rows, seals, callVars, faults>>

\* One call of query: PostgresStore peeks at one row past the page; MemoryStore
\* returns everything at once.
query ==
    /\ walk.on /\ ~walk.end
    /\ LET found == AfterCursor(walk.query, walk.cursor)
           more  == backend = "postgres" /\ Len(found) > PageLimit
           page  == IF more THEN SubSeq(found, 1, PageLimit) ELSE found
       IN  \E read \in [DOMAIN page -> UNION {rehydrate_receipt(r) : r \in ToSet(page)}] :
              /\ \A i \in DOMAIN page : read[i] \in rehydrate_receipt(page[i])
              /\ walk' = [walk EXCEPT !.got = @ \o read, !.end = ~more,
                                      !.cursor = IF more THEN Key(page[Len(page)]) ELSE @]
    /\ UNCHANGED <<backend, rows, seals, callVars, faults>>

-----------------------------------------------------------------------------
Init ==
    /\ backend \in Backends
    /\ rows = {} /\ seals = [a \in {} |-> None]
    /\ \E sealing \in BOOLEAN :   \* what happens beside the appends
          /\ pc = [p \in Appenders \union Sealers |->
                      IF p \in Appenders THEN "append" ELSE IF sealing THEN "seal" ELSE "away"]
          /\ walk = [Idle EXCEPT !.on = sealing, !.end = sealing]
    /\ staged = [p \in Appenders \union Sealers |-> {}]
    /\ batch = [s \in Sealers |-> [root |-> None, leaves |-> <<>>]]
    /\ leaf = [s \in Sealers |-> 0]
    /\ locked = [s \in Sealers |-> {}]
    /\ faults = 0

Next ==
    \/ \E p \in Appenders :
          MemoryAppend(p) \/ AppendBegin(p) \/ insert_receipt(p) \/ insert_related(p)
             \/ AppendCommit(p) \/ AppendLost(p)
    \/ \E s \in Sealers :
          SealBegin(s) \/ MemoryRecord(s) \/ SealLookup(s) \/ SealInsert(s)
             \/ SealCommit(s) \/ SealLost(s)
    \/ \E q \in Queries : WalkBegin(q)
    \/ query

Spec == Init /\ [][Next]_vars

-----------------------------------------------------------------------------
(* Properties *)

\* Both stores keep the promise of the traits: appends only add, and a batch is
\* sealed whole and under one root, whatever the transactions do to each other.
Log == INSTANCE ReceiptLog
         WITH Addresses <- {content_address(r) : r \in Receipts},
              Root <- RootOf,
              log <- StoredAddresses,
              sealOf <- [a \in DOMAIN seals |-> seals[a].root]

ImplementsLog == Log!Spec

\* The seals recorded under a root prove themselves against it, and are exactly
\* the leaves of its tree: no interleaving of two batches leaves part of one.
SealsProve ==
    /\ \A a \in DOMAIN seals : verify_path(a, seals[a].path, seals[a].root)
    /\ \A root \in {seals[a].root : a \in DOMAIN seals} :
          RootOf({b \in DOMAIN seals : seals[b].root = root}) = root

\* A reader that follows the page tokens to the end gets every receipt that was
\* there when it began, and none twice, while others append.
PagesComplete ==
    LET keys == [i \in DOMAIN walk.got |-> Key(walk.got[i])]
    IN  /\ IsInjective(keys)
        /\ walk.end => walk.had \subseteq ToSet(keys)

\* What Postgres can give back unchanged; MemoryStore gives back everything.
Survives(r) ==
    backend = "memory" \/ (r.ns <= MaxI64 /\ Len(r.preds) <= 1 /\ r.spec = "1.0.0")

\* A reader that verifies a receipt it was handed accepts it exactly if it has the
\* bytes of a stored one: no reader sees a row without its signatures, none takes
\* what rehydrate_receipt changed for the original, and a receipt that fits the
\* columns is never refused.
ReadsVerify ==
    \A i \in DOMAIN walk.got :
       /\ verify_pre_append(walk.got[i]) <=> content_address(walk.got[i]) \in StoredAddresses
       /\ \A r \in rows :
             r.n = walk.got[i].n /\ Survives(r) => verify_pre_append(walk.got[i])

\* Two sealers never wait for each other's seal rows: every batch takes its leaves
\* in the one canonical order.
NoLockCycle == \A s, t \in Sealers : s # t => ~(WaitsFor(s, t) /\ WaitsFor(t, s))

\* "Core: ... content-address consistency": a receipt read back has the content
\* address it is stored under.
ReadKeepsAddress ==
    \A i \in DOMAIN walk.got : content_address(walk.got[i]) \in StoredAddresses
=============================================================================
