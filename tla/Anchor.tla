------------------------------- MODULE Anchor -------------------------------
(***************************************************************************)
(* Sui anchoring: the AnchorDriver task (backends/sui-anchor/src/          *)
(* driver.rs) takes receipts above its watermark from the receipt store,   *)
(* SuiSealer and RpcAnchorClient submit the batch as a transaction, the    *)
(* Move contract receipt_anchor checks and records it, and the driver      *)
(* writes the seals and advances the watermark.  The control plane seeds   *)
(* the watermark from the chain when it starts (main.rs).                  *)
(*                                                                         *)
(* A transaction whose confirmation times out may still execute later, or  *)
(* never.  A crash loses the process; the store and the chain remain.      *)
(* Receipts carry the monotonic clock of the process that stamped them,    *)
(* which starts again at zero with the process (yutha-core/src/time.rs).   *)
(* A batch stands for its Merkle root (Merkle shows roots are as good).    *)
(***************************************************************************)
EXTENDS Integers, Sequences, FiniteSets

LOCAL INSTANCE FiniteSetsExt

CONSTANTS BatchCountThreshold, MaxBatchSize, RetryAttempts,   \* AnchorDriverConfig
          PageLimit,     \* rows the store returns for one query
          MaxReceipts,   \* bound: receipts stamped
          MaxClock,      \* bound: readings of the clock
          MaxFaults,     \* bound: timeouts and failed calls
          MaxCrashes     \* bound: crashes of the control plane

ASSUME AnchorAssumption ==
    /\ BatchCountThreshold \in Nat \ {0} /\ MaxBatchSize \in Nat \ {0}
    /\ RetryAttempts \in Nat /\ PageLimit \in Nat \ {0}
    /\ MaxReceipts \in Nat /\ MaxClock \in Nat /\ MaxFaults \in Nat /\ MaxCrashes \in Nat

VARIABLES clock,      \* the process's monotonic clock
          minted,     \* receipts stamped so far
          inflight,   \* receipts stamped and not yet appended
          store,      \* the receipt store
          seals,      \* the seal store: receipt id -> its batch
          pc, watermark, attempt,   \* AnchorDriver
          candidates, \* the batch it holds
          txs,        \* transactions submitted: [batch, status]
          events,     \* AnchorCommitted events; SwarmAnchor.batch_count is their number
          lastEnd,    \* SwarmAnchor.last_ns_range_end
          late,       \* history: receipts appended after a batch reached past them
          cut,        \* history: receipts left out of a batch that tie with its last
          faults, crashes

stampVars  == <<clock, minted, inflight, store, late>>
driverVars == <<pc, watermark, attempt, candidates>>
chainVars  == <<txs, events, lastEnd>>
vars == <<stampVars, seals, driverVars, chainVars, cut, faults, crashes>>

NsOf(batch) == {r.ns : r \in batch}

\* compute_ns_range
NsStart(batch) == Min(NsOf(batch))
NsEnd(batch)   == Max(NsOf(batch))

-----------------------------------------------------------------------------
(* Receipts arrive *)

Up == pc # "down"

Tick ==
    /\ Up /\ clock < MaxClock
    /\ clock' = clock + 1
    /\ UNCHANGED <<minted, inflight, store, late, seals, driverVars, chainVars, cut, faults, crashes>>

\* Timestamp::now: a handler stamps its receipt before it appends it.
Stamp ==
    /\ Up /\ minted < MaxReceipts
    /\ minted' = minted + 1
    /\ inflight' = inflight \union {[id |-> minted + 1, ns |-> clock]}
    /\ UNCHANGED <<clock, store, late, seals, driverVars, chainVars, cut, faults, crashes>>

Reached == {watermark, lastEnd} \union NsOf(candidates)
             \union UNION {NsOf(txs[i].batch) : i \in DOMAIN txs}

AppendReceipt(r) ==
    /\ r \in inflight
    /\ inflight' = inflight \ {r}
    /\ store' = store \union {r}
    /\ late' = IF \E n \in Reached : r.ns <= n THEN late \union {r} ELSE late
    /\ UNCHANGED <<clock, minted, seals, driverVars, chainVars, cut, faults, crashes>>

-----------------------------------------------------------------------------
(* The driver *)

Goto(step) == pc' = step

read_anchor_state == lastEnd

\* spawn_anchor_driver: the watermark is what the chain says at start.
Boot ==
    /\ pc = "down"
    /\ watermark' = read_anchor_state
    /\ attempt' = 0 /\ candidates' = {}
    /\ Goto("fetch")
    /\ UNCHANGED <<stampVars, seals, chainVars, cut, faults, crashes>>

\* Mutant: the page is cut to the batch size before it is sorted.
fetch_candidates_TruncatesFirst(receipts) ==
    LET above == {r \in receipts : r.ns >= watermark + 1}
    IN  {S \in SUBSET above : Cardinality(S) = Min({MaxBatchSize, Cardinality(above)})}

\* The sets a fetch may return: one page, sorted by time, cut to the batch size.
\* The sort is stable and the page of MemoryStore comes in any order, so a tie at
\* the cut may go either way.
fetch_candidates(receipts) ==
    LET above == {r \in receipts : r.ns >= watermark + 1}
        k     == Min({MaxBatchSize, PageLimit, Cardinality(above)})
    IN  {S \in SUBSET above :
            /\ Cardinality(S) = k
            /\ \A r \in S, s \in above \ S : r.ns <= s.ns}

\* One turn of the loop up to should_seal.  Whether batch_time_threshold has
\* passed is not tracked: below the count a seal is due or not.
Fetch ==
    /\ pc = "fetch"
    /\ \E S \in fetch_candidates(store) :
          \/ /\ S # {}
             /\ candidates' = S /\ attempt' = 0 /\ Goto("submit")
             /\ cut' = cut \union {r \in store \ S : r.ns = NsEnd(S)}
          \/ /\ Cardinality(S) < BatchCountThreshold
             /\ candidates' = {} /\ UNCHANGED <<attempt, cut>> /\ Goto("idle")
    /\ UNCHANGED <<stampVars, seals, watermark, chainVars, faults, crashes>>

FetchFails ==
    /\ pc = "fetch" /\ faults < MaxFaults
    /\ faults' = faults + 1
    /\ Goto("idle")
    /\ UNCHANGED <<stampVars, seals, watermark, attempt, candidates, chainVars, cut, crashes>>

\* Every sleep of the loop ends in another turn.
Wake ==
    /\ pc = "idle"
    /\ Goto("fetch")
    /\ candidates' = {}
    /\ UNCHANGED <<stampVars, seals, watermark, attempt, chainVars, cut, faults, crashes>>

-----------------------------------------------------------------------------
(* The contract *)

\* What the sealer checks before it signs: a range, and a histogram with entries.
canonical_preimage(batch) == batch # {} /\ NsStart(batch) <= NsEnd(batch)

\* commit_batch: start <= end and the histogram hold of every batch the sealer
\* builds and so does the signature; what can fail is the order of the ranges.
Accepts(batch) == canonical_preimage(batch) /\ NsStart(batch) >= lastEnd

commit_batch(i) ==
    /\ txs[i].status = "pending"
    /\ IF Accepts(txs[i].batch)
       THEN /\ txs' = [txs EXCEPT ![i].status = "success"]
            /\ events' = Append(events, txs[i].batch)
            /\ lastEnd' = NsEnd(txs[i].batch)
       ELSE /\ txs' = [txs EXCEPT ![i].status = "abort"]
            /\ UNCHANGED <<events, lastEnd>>
    /\ UNCHANGED <<stampVars, seals, driverVars, cut, faults, crashes>>

-----------------------------------------------------------------------------
(* SuiSealer::seal_batch and RpcAnchorClient::submit_commit_batch *)

\* Building the transaction simulates it; then it is sent.
Submit ==
    /\ pc = "submit"
    /\ IF Accepts(candidates)
       THEN /\ txs' = Append(txs, [batch |-> candidates, status |-> "pending"])
            /\ Goto("wait")
       ELSE Goto("idle") /\ UNCHANGED txs
    /\ UNCHANGED <<stampVars, seals, watermark, attempt, candidates, events, lastEnd, cut, faults, crashes>>

Mine == Len(txs)

Confirmed ==
    /\ pc = "wait" /\ txs[Mine].status # "pending"
    /\ Goto(IF txs[Mine].status = "success" THEN "record" ELSE "idle")
    /\ UNCHANGED <<stampVars, seals, watermark, attempt, candidates, chainVars, cut, faults, crashes>>

\* Mutant: a checkpoint timeout is taken for success.
TimedOut_Optimistic ==
    /\ pc = "wait" /\ faults < MaxFaults
    /\ faults' = faults + 1
    /\ Goto("record")
    /\ UNCHANGED <<stampVars, seals, watermark, attempt, candidates, chainVars, cut, crashes>>

\* A transient error, whatever becomes of the transaction: try_seal_with_backoff
\* submits the same receipts again until its attempts are used up.
TimedOut ==
    /\ pc = "wait" /\ faults < MaxFaults
    /\ faults' = faults + 1
    /\ IF attempt < RetryAttempts
       THEN attempt' = attempt + 1 /\ Goto("submit")
       ELSE UNCHANGED attempt /\ Goto("idle")
    /\ UNCHANGED <<stampVars, seals, watermark, candidates, chainVars, cut, crashes>>

\* record_sealed_batch, which refuses a receipt sealed in another batch.
Record ==
    /\ pc = "record"
    /\ IF \E r \in candidates : r.id \in DOMAIN seals /\ seals[r.id] # candidates
       THEN Goto("idle") /\ UNCHANGED <<seals, watermark>>
       ELSE /\ seals' = [i \in DOMAIN seals \union {r.id : r \in candidates} |->
                            IF \E r \in candidates : r.id = i THEN candidates ELSE seals[i]]
            /\ watermark' = NsEnd(candidates)
            /\ Goto("fetch")
    /\ candidates' = {}
    /\ UNCHANGED <<stampVars, attempt, chainVars, cut, faults, crashes>>

RecordFails ==
    /\ pc = "record" /\ faults < MaxFaults
    /\ faults' = faults + 1
    /\ candidates' = {}
    /\ Goto("idle")
    /\ UNCHANGED <<stampVars, seals, watermark, attempt, chainVars, cut, crashes>>

Crash ==
    /\ Up /\ crashes < MaxCrashes
    /\ crashes' = crashes + 1
    /\ clock' = 1 /\ inflight' = {} /\ candidates' = {}
    /\ Goto("down")
    /\ UNCHANGED <<minted, store, late, seals, watermark, attempt, chainVars, cut, faults>>

-----------------------------------------------------------------------------
Init ==
    /\ clock = 1 /\ minted = 0
    /\ inflight = {} /\ store = {} /\ late = {}
    /\ seals = [i \in {} |-> {}]
    /\ pc = "down" /\ watermark = 0 /\ attempt = 0 /\ candidates = {}
    /\ txs = <<>> /\ events = <<>> /\ lastEnd = 0 /\ cut = {}
    /\ faults = 0 /\ crashes = 0

Driver == Boot \/ Fetch \/ FetchFails \/ Wake \/ Submit \/ Confirmed \/ TimedOut
            \/ Record \/ RecordFails

Next ==
    \/ Tick \/ Stamp \/ Driver \/ Crash
    \/ \E r \in inflight : AppendReceipt(r)
    \/ \E i \in DOMAIN txs : commit_batch(i)

Spec == Init /\ [][Next]_vars

\* The driver's task and the append calls are scheduled, a started process boots,
\* and a transaction that was sent executes; clocks and faults owe nothing.
FairSpec ==
    /\ Spec
    /\ WF_vars(Boot) /\ WF_vars(Wake) /\ WF_vars(Fetch) /\ WF_vars(Submit)
    /\ WF_vars(Confirmed) /\ WF_vars(Record)
    /\ WF_vars(\E r \in inflight : AppendReceipt(r))
    /\ WF_vars(\E i \in DOMAIN txs : commit_batch(i))

-----------------------------------------------------------------------------
(* Properties *)

Anchored == UNION {events[i] : i \in DOMAIN events}

\* A receipt the seal store calls sealed is in a batch the contract accepted, as
\* that batch: timeouts, retries, crashes and late transactions never let the
\* seal store run ahead of the chain.  And the batches on chain follow one another
\* in time: a receipt that a retry committed twice ends one batch and begins the
\* other.
SealedIsAnchored ==
    /\ \A i \in DOMAIN seals : \E k \in DOMAIN events : events[k] = seals[i]
    /\ \A i, j \in DOMAIN events : i < j =>
          /\ NsEnd(events[i]) <= NsStart(events[j])
          /\ \A r \in events[i] \intersect events[j] :
                r.ns = NsEnd(events[i]) /\ r.ns = NsStart(events[j])

\* The watermark passes over a receipt only if it came late, that is after a batch
\* had been taken that reaches its time, or if it ties with the last of a batch
\* that was full: the page limit, the cut to the batch size and a restart from the
\* chain lose no other that was there.
PassedOverOnlyIfLate ==
    \A r \in store : r.ns < watermark => r \in Anchored \union late \union cut

\* "The next cadence tick should succeed" after the contract refused a batch
\* because an earlier submission had landed: every receipt that came in time and
\* lies above the chain's range is anchored in the end.
AnchoringResumes ==
    \A id \in 1 .. MaxReceipts :
        (\E r \in store \ late : r.id = id) ~> (\E r \in Anchored \union cut : r.id = id)
=============================================================================
