---------------------------- MODULE ReplayWindow ----------------------------
(***************************************************************************)
(* The per-sender replay filter of crates/yutha-transport/src/replay.rs as *)
(* pure operators: SenderState, the two rejection tests of `admit`, and    *)
(* the state it leaves behind when it accepts.  An envelope is any record  *)
(* with the fields nonce and epoch.                                        *)
(*                                                                         *)
(* nonces_queue and nonces_set always hold the same nonces, so one         *)
(* sequence stands for both.  EpochModulus is 2^64: the skew test adds two *)
(* u64 values, and a release build wraps.                                  *)
(***************************************************************************)
EXTENDS Integers, Sequences

CONSTANTS WindowSize,     \* nonces remembered per sender (1024 by default)
          MaxEpochSkew,   \* tolerated epoch lag (256 by default)
          EpochModulus    \* 2^64

ASSUME WindowAssumption ==
    /\ WindowSize \in Nat
    /\ MaxEpochSkew \in Nat
    /\ EpochModulus \in Nat \ {0}

\* Mutants, each a plausible slip in replay.rs, named by the definition they
\* replace.
Record_EvictsTwo(st, e) ==
    LET pushed == Append(st.nonces, e.nonce)
    IN  [nonces    |-> IF Len(pushed) > WindowSize THEN Tail(Tail(pushed)) ELSE pushed,
         max_epoch |-> IF e.epoch > st.max_epoch THEN e.epoch ELSE st.max_epoch]
Record_ForgetsOnReuse(st, e) ==
    LET kept   == IF e.epoch = st.max_epoch THEN << >> ELSE st.nonces
        pushed == Append(kept, e.nonce)
    IN  [nonces    |-> IF Len(pushed) > WindowSize THEN Tail(pushed) ELSE pushed,
         max_epoch |-> IF e.epoch > st.max_epoch THEN e.epoch ELSE st.max_epoch]
-----------------------------------------------------------------------------
NewSender == [nonces |-> << >>, max_epoch |-> 0]

\* envelope.epoch + max_epoch_skew < state.max_epoch, in u64 arithmetic.
EpochStale(st, e) == (e.epoch + MaxEpochSkew) % EpochModulus < st.max_epoch

DuplicateNonce(st, e) == \E i \in 1..Len(st.nonces) : st.nonces[i] = e.nonce

Admits(st, e) == ~EpochStale(st, e) /\ ~DuplicateNonce(st, e)

\* Push the nonce, drop the oldest beyond the window, raise max_epoch.
Record(st, e) ==
    LET pushed == Append(st.nonces, e.nonce)
    IN  [nonces    |-> IF Len(pushed) > WindowSize THEN Tail(pushed) ELSE pushed,
         max_epoch |-> IF e.epoch > st.max_epoch THEN e.epoch ELSE st.max_epoch]
=============================================================================
