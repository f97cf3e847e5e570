------------------------------- MODULE Replay -------------------------------
(***************************************************************************)
(* Replay protection end to end: agent processes that mint envelopes with  *)
(* a per-process epoch counter (the Python adapters), a network that may   *)
(* delay, reorder and duplicate what was minted, and the control plane's   *)
(* ReplayProtection, which admits or rejects each arrival.                 *)
(*                                                                         *)
(* `minted` only grows: any envelope ever signed may arrive at any time,   *)
(* any number of times.  `admitted` is a history variable.                 *)
(***************************************************************************)
EXTENDS ReplayWindow

CONSTANTS Senders,       \* agent identities
          EpochStart,    \* the adapters' epoch_start (1 by default)
          MaxEpoch,      \* bound: epochs an agent process mints
          MaxRestarts,   \* bound: times an agent process is restarted
          MaxAdmits,     \* bound: envelopes admitted per sender
          ExpiryChoices  \* whether minted envelopes carry expires_at

ASSUME ReplayAssumption ==
    /\ EpochStart \in Nat
    /\ MaxEpoch \in Nat
    /\ MaxRestarts \in Nat
    /\ MaxAdmits \in Nat
    /\ ExpiryChoices \subseteq BOOLEAN
    /\ MaxEpoch + MaxEpochSkew < EpochModulus

\* The defaults of ReplayProtection::new, 1024 and 256, satisfy it.
ASSUME SkewAssumption == WindowSize > 2 * MaxEpochSkew

VARIABLES nextEpoch,  \* each agent process's epoch counter
          incarnation,\* how often each agent process was started
          minted,     \* every envelope ever signed
          aged,       \* envelopes whose time to live has passed
          window,     \* ReplayProtection.per_sender
          admitted    \* history: what was admitted from each sender, in order

replayVars == <<nextEpoch, incarnation, minted, aged, window, admitted>>

\* A nonce is 16 random bytes, so unique to the process that drew it and the
\* envelope it drew it for.
Nonces == Nat \X Nat

Envelopes == [from : Senders, nonce : Nonces, epoch : Nat, expires : BOOLEAN]

Windows == [nonces : Seq(Nonces), max_epoch : Nat]

\* The types, and the bound on what the filter remembers of a sender.
ReplayTypeOK ==
    /\ nextEpoch \in [Senders -> Nat]
    /\ incarnation \in [Senders -> Nat]
    /\ minted \in SUBSET Envelopes
    /\ aged \in SUBSET minted
    /\ window \in [Senders -> Windows]
    /\ \A s \in Senders : Len(window[s].nonces) <= WindowSize
    /\ admitted \in [Senders -> Seq(Envelopes)]
-----------------------------------------------------------------------------
ReplayInit ==
    /\ nextEpoch = [s \in Senders |-> EpochStart]
    /\ incarnation = [s \in Senders |-> 0]
    /\ minted = {}
    /\ aged = {}
    /\ window = [s \in Senders |-> NewSender]
    /\ admitted = [s \in Senders |-> << >>]

\* The adapter's send: take the next epoch under the lock, draw a nonce, sign.
Mint(s) ==
    /\ nextEpoch[s] <= MaxEpoch
    /\ \E x \in ExpiryChoices :
         minted' = minted \cup {[from    |-> s,
                                 nonce   |-> <<incarnation[s], nextEpoch[s]>>,
                                 epoch   |-> nextEpoch[s],
                                 expires |-> x]}
    /\ nextEpoch' = [nextEpoch EXCEPT ![s] = @ + 1]
    /\ UNCHANGED <<incarnation, aged, window, admitted>>

\* The agent process stops and a new one starts with the default epoch_start.
Restart(s) ==
    /\ incarnation[s] < MaxRestarts
    /\ incarnation' = [incarnation EXCEPT ![s] = @ + 1]
    /\ nextEpoch' = [nextEpoch EXCEPT ![s] = EpochStart]
    /\ UNCHANGED <<minted, aged, window, admitted>>

\* Wall-clock time passes the envelope's expires_at, or the swarm's default
\* time to live when it has none.
Age(e) ==
    /\ e \notin aged
    /\ aged' = aged \cup {e}
    /\ UNCHANGED <<nextEpoch, incarnation, minted, window, admitted>>

\* Envelope::is_expired_at: only an envelope with expires_at can expire.
IsExpired(e) == e.expires /\ e \in aged

\* ReplayProtection::admit accepts an arrival.  A rejected one changes nothing.
Admit(e) ==
    /\ Len(admitted[e.from]) < MaxAdmits
    /\ ~IsExpired(e)
    /\ Admits(window[e.from], e)
    /\ window' = [window EXCEPT ![e.from] = Record(@, e)]
    /\ admitted' = [admitted EXCEPT ![e.from] = Append(@, e)]
    /\ UNCHANGED <<nextEpoch, incarnation, minted, aged>>

ReplayNext ==
    \/ \E s \in Senders : Mint(s) \/ Restart(s)
    \/ \E e \in minted : Age(e) \/ Admit(e)

ReplaySpec == ReplayInit /\ [][ReplayNext]_replayVars
-----------------------------------------------------------------------------
(***************************************************************************)
(* AdmitOnce: as long as an agent process is not restarted, no envelope of *)
(* it is admitted twice, however often and however late the network        *)
(* delivers it, even after its nonce has left the bounded window: the      *)
(* epoch test must take over before the nonce test lets go (replay.rs      *)
(* `admit`).                                                               *)
(***************************************************************************)
AdmitOnce ==
    \A s \in Senders : incarnation[s] = 0 =>
        \A i, j \in 1..Len(admitted[s]) :
            admitted[s][i] = admitted[s][j] => i = j

(***************************************************************************)
(* NoReplayInWindow: with agents that restart and so reuse epochs, two     *)
(* admissions of one nonce are still more than WindowSize admissions apart *)
(* (the eviction loop of replay.rs `admit` forgets none too early).        *)
(***************************************************************************)
NoReplayInWindow ==
    \A s \in Senders : \A i, j \in 1..Len(admitted[s]) :
        (i < j /\ admitted[s][i].nonce = admitted[s][j].nonce)
            => j - i > WindowSize

(***************************************************************************)
(* EpochLagBounded: nothing is admitted more than MaxEpochSkew epochs      *)
(* behind any envelope admitted before it (the skew test of `admit`).      *)
(***************************************************************************)
EpochLagBounded ==
    \A s \in Senders : \A i, j \in 1..Len(admitted[s]) :
        i < j => admitted[s][j].epoch + MaxEpochSkew >= admitted[s][i].epoch
=============================================================================
