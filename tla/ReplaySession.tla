---------------------------- MODULE ReplaySession ----------------------------
(***************************************************************************)
(* Replay sessions (RFC 0018): an operator creates a session for a         *)
(* candidate constitution, streams a window of production receipts through *)
(* the session's own enforcement engine, reads what the candidate would    *)
(* have emitted, and closes the session.  grpc/replay.rs holds the         *)
(* handlers, yutha-replay/src/session.rs the session, and a ReplayStore    *)
(* (memory or Postgres) the session's row and its receipts.                *)
(*                                                                         *)
(* Handlers and streaming tasks interleave at every store call and every   *)
(* await of the engine.  The engine is kept to one detect rule with one    *)
(* follow-on stage; Enforcement models it whole.  Lifecycle receipts are   *)
(* stamped after every window, which reaches into the past.                *)
(***************************************************************************)
EXTENDS Integers, Sequences, FiniteSets, SequencesExt

CONSTANTS Backends,             \* "memory", "postgres"
          Sessions, Runs, Closers, NoSession,
          Source,               \* production receipts: [ns, kind]
          Wanted,               \* session -> what its CreateSession may ask for:
                                \*   [from, to, filter, mode, lookback]
          Target,               \* bound: run or close -> the sessions it may name
          Threshold, Span, CoachAfter,   \* the candidate's detect rule
          PageLimit,            \* rows of a Postgres page
          MaxFaults             \* bound: failed calls and crashes

ASSUME ReplaySessionAssumption ==
    /\ Threshold \in Nat \ {0} /\ Span \in Nat /\ CoachAfter \in Nat
    /\ PageLimit \in Nat \ {0}
    /\ MaxFaults \in Nat
    /\ IsFiniteSet(Runs)

VARIABLES backend,
          asked,      \* session -> what its CreateSession asked for
          rows,       \* ReplayStore: session -> [window, replayed], for the sessions it has
          own, loose, \* session -> receipts in its store, in a store nobody else can name
          handle,     \* session -> which of the two its ReplaySession writes to
          live,       \* ControlPlaneState::replay_sessions
          engine,     \* session -> [bucket, due]
          last_step_emissions,
          creating,   \* CreateSession calls, one for each session
          run,        \* RunSession calls and the tasks they spawn
          closing,    \* CloseSession calls
          audit,      \* lifecycle receipts in the production store
          failures

storeVars == <<rows, own, loose>>
sessVars  == <<asked, handle, live, engine, last_step_emissions>>
callVars  == <<creating, run, closing>>
sessionVars == <<backend, storeVars, sessVars, callVars, audit, failures>>

IdleRun == [pc |-> "idle", session |-> NoSession, todo |-> << >>, effects |-> << >>,
            preds |-> {}, emitted |-> {}, replayed |-> 0]

SessionInit ==
    /\ backend \in Backends
    /\ rows = << >>
    /\ own = [s \in Sessions |-> << >>] /\ loose = [s \in Sessions |-> << >>]
    /\ asked = [s \in Sessions |-> NoSession]
    /\ handle = [s \in Sessions |-> "own"]
    /\ live = {}
    /\ engine = [s \in Sessions |-> [bucket |-> << >>, due |-> {}]]
    /\ last_step_emissions = [s \in Sessions |-> {}]
    /\ creating = [s \in Sessions |-> "idle"]
    /\ run = [r \in Runs |-> IdleRun]
    /\ closing = [c \in Closers |-> [pc |-> "idle", session |-> NoSession, total |-> 0]]
    /\ audit = {}
    /\ failures = 0

-----------------------------------------------------------------------------
(* The candidate's engine.                                                 *)

on_receipt(e, r) ==
    LET kept  == Append(SelectSeq(e.bucket, LAMBDA t : t + Span >= r.ns), r.ns)
        fires == Len(kept) >= Threshold
    IN  IF r.kind # "deny" THEN [engine |-> e, effects |-> << >>]
        ELSE [engine  |-> [bucket |-> IF fires THEN << >> ELSE kept,
                           due |-> IF fires THEN e.due \union {r.ns + CoachAfter} ELSE e.due],
              effects |-> IF fires THEN <<"detect">> ELSE << >>]

\* Synthetic time is the time of the receipt being replayed.
poll_scheduled(e, now) ==
    LET fired == {d \in e.due : d <= now} IN
    [engine  |-> [e EXCEPT !.due = @ \ fired],
     effects |-> [i \in 1 .. Cardinality(fired) |-> "coach"]]

Feed(e, r) == poll_scheduled(on_receipt(e, r).engine, r.ns).engine

-----------------------------------------------------------------------------
(* The stores.                                                             *)

\* The first page of a time range of the production store, oldest first.
TimeRange(from, to) ==
    LET hits == SetToSortSeq({r \in Source : from <= r.ns /\ r.ns <= to},
                             LAMBDA a, b : a.ns < b.ns)
    IN  IF backend = "memory" \/ Len(hits) <= PageLimit THEN hits ELSE SubSeq(hits, 1, PageLimit)

\* The step of a run has effects it has not yet appended.
EmitsMore(r) == Cardinality(run[r].emitted) < Len(run[r].effects)

\* Another call is about to take the write lock of the MemoryReplayStore.
Contended(s) ==
    /\ backend = "memory"
    /\ \/ \E r \in Runs : run[r].pc = "emit" /\ ~EmitsMore(r)
       \/ \E c \in Closers : closing[c].pc = "delete"
       \/ \E t \in Sessions \ {s} : creating[t] = "idle"

\* MemoryReplayStore::session_store hands out a fresh store when the lock is
\* taken or the session unknown; the Postgres handle only names the session.
session_store(s) ==
    IF backend = "postgres" THEN {"own"}
    ELSE (IF s \in DOMAIN rows THEN {"own"} ELSE {}) \union
         (IF s \notin DOMAIN rows \/ Contended(s) THEN {"loose"} ELSE {})

\* What QueryReplayReceipts reads when the lock is free.
QueryReplayReceipts(s) ==
    IF backend = "postgres" \/ s \in DOMAIN rows THEN own[s] ELSE << >>

touch_session(s, delta) ==
    rows' = IF s \in DOMAIN rows THEN [rows EXCEPT ![s].replayed = @ + delta] ELSE rows

\* The row goes, and with it (ON DELETE CASCADE) its receipts.  A MemoryStore
\* lives on for whoever holds it.
delete_session(s) ==
    /\ rows' = [t \in DOMAIN rows \ {s} |-> rows[t]]
    /\ own' = IF backend = "postgres" THEN [own EXCEPT ![s] = << >>] ELSE own

-----------------------------------------------------------------------------
(* CreateSession.                                                          *)

Creating(s, from, to) == creating[s] = from /\ creating' = [creating EXCEPT ![s] = to]

\* Operator authentication and the request's fields are checked before.
create_session(s, w) ==
    /\ Creating(s, "idle", "open")
    /\ asked' = [asked EXCEPT ![s] = w]
    /\ rows' = [t \in DOMAIN rows \union {s} |->
                  IF t = s THEN [window |-> w, replayed |-> 0] ELSE rows[t]]
    /\ UNCHANGED <<backend, own, loose, handle, live, engine, last_step_emissions, run, closing,
                   audit, failures>>

OpenStore(s) ==
    /\ Creating(s, "open", "build")
    /\ \E h \in session_store(s) : handle' = [handle EXCEPT ![s] = h]
    /\ UNCHANGED <<backend, storeVars, asked, live, engine, last_step_emissions, run, closing,
                   audit, failures>>

\* The receipts that warm the engine up; a cold session sees none.
Lookback_ToFrom(w) ==
    IF w.mode = "cold" THEN << >>
    ELSE TimeRange(IF w.from > w.lookback THEN w.from - w.lookback ELSE 0, w.from)
Lookback(w) ==
    IF w.mode = "cold" THEN << >>
    ELSE TimeRange(IF w.from > w.lookback THEN w.from - w.lookback ELSE 0,
                   IF w.from > 0 THEN w.from - 1 ELSE 0)

\* create_cold and create_warm: the effects of the lookback are dropped.  The
\* session is nobody else's until it is put into the map.
Build(s) ==
    /\ Creating(s, "build", "audit")
    /\ engine' = [engine EXCEPT ![s] = FoldLeft(Feed, @, Lookback(asked[s]))]
    /\ live' = live \union {s}
    /\ UNCHANGED <<backend, storeVars, asked, handle, last_step_emissions, run, closing, audit, failures>>

\* The candidate does not load, or the lookback cannot be read.  The row stays.
BuildFails(s) ==
    /\ Creating(s, "build", "failed")
    /\ failures < MaxFaults /\ failures' = failures + 1
    /\ UNCHANGED <<backend, storeVars, sessVars, run, closing, audit>>

\* When it cannot be signed or appended the call fails and the session stays.
emit_replay_session_create_receipt(s) ==
    /\ UNCHANGED <<backend, storeVars, sessVars, run, closing>>
    /\ \/ /\ Creating(s, "audit", "done")
          /\ audit' = audit \union {[kind |-> "create", session |-> s, total |-> 0]}
          /\ UNCHANGED failures
       \/ /\ Creating(s, "audit", "failed")
          /\ failures < MaxFaults /\ failures' = failures + 1
          /\ UNCHANGED audit

-----------------------------------------------------------------------------
(* RunSession, and the task it spawns.                                     *)

\* A task that ends leaves what it reported.
Over(r, pc) == [IdleRun EXCEPT !.pc = pc, !.session = run[r].session, !.replayed = run[r].replayed]

Step(r, from, new) == run[r].pc = from /\ run' = [run EXCEPT ![r] = new]

RunBegin(r, s) ==
    /\ Step(r, "idle", [IdleRun EXCEPT !.pc = IF s \in live THEN "window" ELSE "not_found",
                                    !.session = s])
    /\ UNCHANGED <<backend, storeVars, sessVars, creating, closing, audit, failures>>

Passes(r, filter) == filter = {} \/ r.kind \in filter

\* The window comes from the row; then one query, sorted and filtered.
ReadWindow(r) ==
    LET s == run[r].session IN
    /\ IF s \notin DOMAIN rows THEN Step(r, "window", [run[r] EXCEPT !.pc = "not_found"])
       ELSE LET w == rows[s].window IN
            Step(r, "window",
                 [run[r] EXCEPT !.pc = "play",
                      !.todo = SelectSeq(TimeRange(w.from, w.to), LAMBDA x : Passes(x, w.filter))])
    /\ UNCHANGED <<backend, storeVars, sessVars, creating, closing, audit, failures>>

\* The row or the window cannot be read: the call, or the task it spawned, reports it.
ReadWindowFails(r) ==
    /\ Step(r, "window", Over(r, "failed"))
    /\ failures < MaxFaults /\ failures' = failures + 1
    /\ UNCHANGED <<backend, storeVars, sessVars, creating, closing, audit>>

\* play_receipt, in the steps between its awaits.
FeedOriginal(r) ==
    LET s == run[r].session
        o == on_receipt(engine[s], Head(run[r].todo))
    IN  /\ run[r].todo # << >>
        /\ Step(r, "play", [run[r] EXCEPT !.pc = "poll", !.effects = o.effects, !.emitted = {}])
        /\ engine' = [engine EXCEPT ![s] = o.engine]
        /\ UNCHANGED <<backend, storeVars, asked, handle, live, last_step_emissions, creating,
                       closing, audit, failures>>

\* poll_scheduled, then the chain head is read once for the whole step.
PollAndLink_SharedHead(r) ==
    LET s == run[r].session
        o == poll_scheduled(engine[s], Head(run[r].todo).ns)
    IN  /\ Step(r, "poll", [run[r] EXCEPT !.pc = "emit", !.effects = @ \o o.effects,
                                          !.preds = UNION {last_step_emissions[t] : t \in Sessions}])
        /\ engine' = [engine EXCEPT ![s] = o.engine]
        /\ UNCHANGED <<backend, storeVars, asked, handle, live, last_step_emissions, creating,
                       closing, audit, failures>>
PollAndLink(r) ==
    LET s == run[r].session
        o == poll_scheduled(engine[s], Head(run[r].todo).ns)
    IN  /\ Step(r, "poll", [run[r] EXCEPT !.pc = "emit", !.effects = @ \o o.effects,
                                          !.preds = last_step_emissions[s]])
        /\ engine' = [engine EXCEPT ![s] = o.engine]
        /\ UNCHANGED <<backend, storeVars, asked, handle, live, last_step_emissions, creating,
                       closing, audit, failures>>

\* Receipts are stamped when they are built, so no two are the same.
Emission(r) ==
    LET n == Cardinality(run[r].emitted) + 1 IN
    [id |-> <<r, run[r].replayed + 1, n>>, kind |-> run[r].effects[n],
     preds |-> run[r].preds, session |-> run[r].session]

\* The row a Postgres receipt refers to must still be there.
AppendEmission(r) ==
    LET s == run[r].session
        e == Emission(r)
    IN  /\ EmitsMore(r)
        /\ backend = "postgres" => s \in DOMAIN rows
        /\ Step(r, "emit", [run[r] EXCEPT !.emitted = @ \union {e.id}])
        /\ IF handle[s] = "own"
           THEN own' = [own EXCEPT ![s] = Append(@, e)] /\ UNCHANGED loose
           ELSE loose' = [loose EXCEPT ![s] = Append(@, e)] /\ UNCHANGED own
        /\ UNCHANGED <<backend, rows, sessVars, creating, closing, audit, failures>>

\* Signer or store fails: the task reports it and ends; what was appended stays.
EmissionFails(r) ==
    LET gone == backend = "postgres" /\ run[r].session \notin DOMAIN rows IN
    /\ EmitsMore(r)
    /\ gone \/ failures < MaxFaults
    /\ failures' = IF gone THEN failures ELSE failures + 1
    /\ Step(r, "emit", Over(r, "failed"))
    /\ UNCHANGED <<backend, storeVars, sessVars, creating, closing, audit>>

FinishReceipt_SetsCount(r) ==
    LET s == run[r].session IN
    /\ ~EmitsMore(r)
    /\ Step(r, "emit", [run[r] EXCEPT !.pc = "send", !.todo = Tail(@), !.replayed = @ + 1,
                                          !.effects = << >>, !.preds = {}, !.emitted = {}])
    /\ last_step_emissions' = [last_step_emissions EXCEPT ![s] = run[r].emitted]
    /\ rows' = IF s \in DOMAIN rows THEN [rows EXCEPT ![s].replayed = run[r].replayed + 1] ELSE rows
    /\ UNCHANGED <<backend, own, loose, asked, handle, live, engine, creating, closing, audit, failures>>
\* The new chain head, whether the step emitted or not, and touch_session(.., 1),
\* whose error is ignored.  What others do between the two they could as well do
\* before the first.
FinishReceipt(r) ==
    LET s == run[r].session IN
    /\ ~EmitsMore(r)
    /\ Step(r, "emit", [run[r] EXCEPT !.pc = "send", !.todo = Tail(@), !.replayed = @ + 1,
                                          !.effects = << >>, !.preds = {}, !.emitted = {}])
    /\ last_step_emissions' = [last_step_emissions EXCEPT ![s] = run[r].emitted]
    /\ \/ touch_session(s, 1) /\ UNCHANGED failures
       \/ failures < MaxFaults /\ failures' = failures + 1 /\ UNCHANGED rows
    /\ UNCHANGED <<backend, own, loose, asked, handle, live, engine, creating, closing, audit>>

\* tx.send waits for room in the channel, and fails once the client has gone.
SendProgress(r) ==
    /\ \/ Step(r, "send", [run[r] EXCEPT !.pc = "play"])
       \/ Step(r, "send", Over(r, "cancelled"))
    /\ UNCHANGED <<backend, storeVars, sessVars, creating, closing, audit, failures>>

\* The window is done: touch_session(.., 0), whose error is ignored and would leave
\* the row as it is too, and the terminal message.
Complete(r) ==
    /\ run[r].todo = << >>
    /\ Step(r, "play", Over(r, "complete"))
    /\ touch_session(run[r].session, 0)
    /\ UNCHANGED <<backend, own, loose, sessVars, creating, closing, audit, failures>>

Ended == {"not_found", "failed", "cancelled", "complete", "dead"}

-----------------------------------------------------------------------------
(* CloseSession.                                                           *)

Closing(c, from, new) == closing[c].pc = from /\ closing' = [closing EXCEPT ![c] = new]

\* The total is read here, and reported after everything is gone.
CloseBegin(c, s) ==
    /\ Closing(c, "idle", IF s \in DOMAIN rows
                          THEN [pc |-> "delete", session |-> s, total |-> rows[s].replayed]
                          ELSE [pc |-> "not_found", session |-> s, total |-> 0])
    /\ UNCHANGED <<backend, storeVars, sessVars, creating, run, audit, failures>>

\* Out of the map, then out of the store; a call that comes between the two
\* finds what it would have found before or after both.
CloseDelete(c) ==
    /\ Closing(c, "delete", [closing[c] EXCEPT !.pc = "audit"])
    /\ live' = live \ {closing[c].session}
    /\ delete_session(closing[c].session)
    /\ UNCHANGED <<backend, loose, asked, handle, engine, last_step_emissions, creating, run,
                   audit, failures>>

\* The store fails: the session is out of the map, its row and receipts stay, and
\* no receipt tells of the close.
CloseDeleteFails(c) ==
    /\ Closing(c, "delete", [closing[c] EXCEPT !.pc = "failed"])
    /\ live' = live \ {closing[c].session}
    /\ failures < MaxFaults /\ failures' = failures + 1
    /\ UNCHANGED <<backend, storeVars, asked, handle, engine, last_step_emissions, creating, run,
                   audit>>

emit_replay_session_close_receipt(c) ==
    /\ UNCHANGED <<backend, storeVars, sessVars, creating, run>>
    /\ \/ /\ Closing(c, "audit", [closing[c] EXCEPT !.pc = "done", !.total = 0])
          /\ audit' = audit \union {[kind |-> "close", session |-> closing[c].session,
                                       total |-> closing[c].total]}
          /\ UNCHANGED failures
       \/ /\ Closing(c, "audit", [closing[c] EXCEPT !.pc = "failed"])
          /\ failures < MaxFaults /\ failures' = failures + 1
          /\ UNCHANGED audit

-----------------------------------------------------------------------------
\* The process dies: the session map, its engines and tasks go; only Postgres
\* keeps the rows and the receipts.
Restart ==
    /\ failures < MaxFaults /\ failures' = failures + 1
    /\ live' = {}
    /\ creating' = [s \in Sessions |-> IF creating[s] \in {"idle", "done"} THEN creating[s] ELSE "failed"]
    /\ run' = [r \in Runs |-> IF run[r].pc \in Ended \union {"idle"} THEN run[r]
                              ELSE Over(r, "dead")]
    /\ closing' = [c \in Closers |-> IF closing[c].pc \in {"idle", "done", "not_found"} THEN closing[c]
                                     ELSE [closing[c] EXCEPT !.pc = "failed"]]
    /\ rows' = IF backend = "memory" THEN << >> ELSE rows
    /\ own' = IF backend = "memory" THEN [s \in Sessions |-> << >>] ELSE own
    /\ loose' = [s \in Sessions |-> << >>]
    /\ engine' = [s \in Sessions |-> [bucket |-> << >>, due |-> {}]]
    /\ last_step_emissions' = [s \in Sessions |-> {}]
    /\ UNCHANGED <<backend, asked, handle, audit>>

CreateStep(s) == \/ \E w \in Wanted[s] : create_session(s, w)
                 \/ OpenStore(s) \/ Build(s)
                 \/ BuildFails(s) \/ emit_replay_session_create_receipt(s)
Play(r) == \/ ReadWindow(r) \/ ReadWindowFails(r) \/ FeedOriginal(r) \/ PollAndLink(r)
           \/ AppendEmission(r) \/ EmissionFails(r) \/ FinishReceipt(r) \/ SendProgress(r) \/ Complete(r)
CloseStep(c) == CloseDelete(c) \/ CloseDeleteFails(c) \/ emit_replay_session_close_receipt(c)

SessionNext ==
    \/ \E s \in Sessions : CreateStep(s)
    \/ \E r \in Runs : Play(r) \/ \E s \in Target[r] : RunBegin(r, s)
    \/ \E c \in Closers : CloseStep(c) \/ \E s \in Target[c] : CloseBegin(c, s)
    \/ Restart

SessionSpec == SessionInit /\ [][SessionNext]_sessionVars

-----------------------------------------------------------------------------
(* Properties.                                                             *)

\* A graph walk from any receipt an operator can read in a session stays in
\* that session (session.rs:53, RFC 0018 4.3): its predecessors can be read
\* there too, ahead of it, whatever runs, closes and restarts did meanwhile;
\* and once a session's row is gone there is nothing left to read.
WalksStayInside ==
    \A s \in Sessions :
        LET seen == QueryReplayReceipts(s) IN
        /\ seen # << >> => s \in DOMAIN rows
        /\ \A i \in DOMAIN seen :
              /\ seen[i].session = s
              /\ \A p \in seen[i].preds : \E j \in 1 .. i - 1 : seen[j].id = p

\* The receipts the streams of a session have replayed and report: the n-th of run r.
Reported(s) ==
    UNION {{r} \X (1 .. run[r].replayed) : r \in {q \in Runs : run[q].session = s}}

\* A session's row counts the receipts its streams replayed, all streams together,
\* and no receipt twice: it is never ahead of them, and behind only by calls of
\* touch_session that failed (grpc/replay.rs:427, replay_store.rs:344).
CountsAgree ==
    \A s \in DOMAIN rows :
        /\ rows[s].replayed <= Cardinality(Reported(s))
        /\ Cardinality(Reported(s)) <= rows[s].replayed + failures

\* What the engine would emit if it saw every receipt of lookback and window
\* once, in the order of time.
Expected(w) ==
    LET back == IF w.mode = "cold" THEN 0 ELSE w.lookback
        fed  == {x \in Source : /\ w.from - back <= x.ns /\ x.ns <= w.to
                                /\ x.ns >= w.from => Passes(x, w.filter)}
        Then(acc, x) ==
            LET o == on_receipt(acc.engine, x)
                p == poll_scheduled(o.engine, x.ns)
            IN  [engine |-> p.engine,
                 out |-> IF x.ns < w.from THEN acc.out ELSE acc.out \o o.effects \o p.effects]
    IN  FoldLeft(Then, [engine |-> [bucket |-> << >>, due |-> {}], out |-> << >>],
                 SetToSortSeq(fed, LAMBDA a, b : a.ns < b.ns)).out

\* The two windows the code does not replay as asked: one whose rows, or those of
\* its lookback, fill more than a Postgres page, which is all that is read, and a
\* warm one from 0, whose lookback ends in the window (session.rs:184).
ReadWhole(w) ==
    LET Within(from, to) == {x \in Source : from <= x.ns /\ x.ns <= to} IN
    /\ backend = "postgres" => /\ Cardinality(Within(w.from, w.to)) <= PageLimit
                               /\ Cardinality(Within(w.from - w.lookback, w.from - 1)) <= PageLimit
    /\ w.mode = "warm" => w.from > 0

\* A session's only run, when it completes a window that is read whole, has left
\* exactly the emissions of the candidate on that window: a receipt at the edge of
\* lookback and window counts once, and other sessions do not show (session.rs:146,
\* :235).
RunMatchesReference ==
    \A r \in Runs :
        LET s == run[r].session IN
        (/\ run[r].pc = "complete"
         /\ \A q \in Runs \ {r} : run[q].session # s
         /\ s \in DOMAIN rows /\ handle[s] = "own" /\ ReadWhole(rows[s].window))
        => [i \in DOMAIN own[s] |-> own[s][i].kind] = Expected(rows[s].window)

\* The same of every window, as v1.proto:756 ("the window has been fully consumed")
\* and session.rs:179 (a lookback up to "from_unix_ns)", exclusive) have it.
EveryRunMatches ==
    \A r \in Runs :
        LET s == run[r].session IN
        (/\ run[r].pc = "complete" /\ \A q \in Runs \ {r} : run[q].session # s
         /\ s \in DOMAIN rows /\ handle[s] = "own")
        => [i \in DOMAIN own[s] |-> own[s][i].kind] = Expected(rows[s].window)

\* Everything a live session has emitted can be queried in that session, as
\* replay_store.rs:276 argues ("the slot is always present").
EmissionsQueryable ==
    \A s \in live : loose[s] = << >>
==============================================================================
