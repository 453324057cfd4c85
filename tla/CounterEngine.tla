---------------------------- MODULE CounterEngine ----------------------------
(***************************************************************************)
(* The counter engine of collector/counters.py under the schedule that     *)
(* collector/app.py gives it.                                              *)
(*                                                                         *)
(* Two kinds of thread touch the rows.  The event-loop thread counts       *)
(* records (ingest, _touch) and drives the main task of run(): sleep,      *)
(* flush, sleep, ... until it is cancelled.  Each flush runs on an         *)
(* executor thread, reads the same row objects without a lock, writes them *)
(* to the one shared sqlite3 connection and clears their dirty flags.      *)
(* Between two bytecodes either thread may be paused.  A record being      *)
(* counted and a flush are each split where the middle matters: between    *)
(* the count and the rest of a row, and around each use of shared state;   *)
(* what is read or set next to each other is one step.                     *)
(*                                                                         *)
(* A cancelled await of run_in_executor does not stop the thread behind    *)
(* it: when the main task is cancelled while a flush runs, the shutdown    *)
(* flush starts beside the old one, on the same connection and so in the   *)
(* same sqlite transaction.                                                *)
(*                                                                         *)
(* Whatever the main task awaits between two flushes, the sleep, a sync, a *)
(* heartbeat, is "sleep" here; CollectorLoop tells them apart.             *)
(***************************************************************************)
EXTENDS UsageRow, FiniteSets

LOCAL INSTANCE FiniteSetsExt

CONSTANTS
  Keys,          \* the resolved (object_type, object_id) pairs
  NoKey,         \* not one of them
  Stamps,        \* the record timestamps, capped at now
  MaxHits,       \* bound: hits counted over the whole history
  CancelPoints   \* where the main task may be cancelled: "sleep", "flush"

ASSUME NoKeyAssumption == NoKey \notin Keys
ASSUME StampsAssumption == Stamps \subseteq Nat \ {0}
ASSUME MaxHitsAssumption == MaxHits \in Nat
ASSUME CancelAssumption == CancelPoints \subseteq {"sleep", "flush"}

VARIABLES
  main,     \* what the main task of run() awaits, or how the process ended
  rows,     \* CounterEngine._rows; Absent when the key has no row
  dirty,    \* the keys whose row has dirty = True
  rec,      \* the record the event-loop thread is counting
  job,      \* the executor jobs running engine.flush
  txn,      \* row images written on the connection and not committed
  db,       \* the committed usage_counter table
  atRisk,   \* health.flush_failures > 0
  truth,    \* history: every hit counted, by this process or an earlier one
  raced,    \* history: keys hit while a flush that picked them was running, or
            \* during the shutdown, and not picked since
  due       \* history: the rows that were dirty when the main task was cancelled

memVars == <<rows, dirty, rec>>
dbVars  == <<txn, db>>
vars    == <<main, rows, dirty, rec, job, txn, db, atRisk, truth, raced, due>>

Jobs == {"periodic", "final"}

NoRec  == [todo |-> {}, cur |-> NoKey, ts |-> 0, hit |-> "attempted"]
IdleJob == [pc |-> "idle", known |-> {}, picked |-> {}, todo |-> {},
            cur |-> NoKey, head |-> Absent]

NoRows == [k \in Keys |-> Absent]

Up      == main \in {"sleep", "flush", "final"}
Known   == {k \in Keys : Present(rows[k])}
Busy(k) == \E f \in Jobs : k \in job[f].picked

\* The flush that is running, or the last one, may be over before it stores a
\* hit on k.
Late(k) == Busy(k) \/ main = "final"

\* The shutdown flush was submitted while a periodic one was running.
Overlapped == main = "final" /\ job["periodic"].pc # "idle"

\* The event-loop thread runs one callback at a time: while it is counting a
\* record, neither the main task nor another record can make a step.
LoopIsFree == Up /\ rec = NoRec

Init ==
  /\ main = "sleep"
  /\ rows = NoRows /\ dirty = {} /\ rec = NoRec
  /\ job = [f \in Jobs |-> IdleJob]
  /\ txn = NoRows /\ db = NoRows
  /\ atRisk = FALSE
  /\ truth = NoRows /\ raced = {} /\ due = NoRows

-----------------------------------------------------------------------------
(* Counting a record, on the event-loop thread.                            *)

\* Counting a hit on each key of K stays within the bound.
HitsLeft(K) ==
  Cardinality(K) + MapThenSumSet(LAMBDA k : truth[k].count, Keys) <= MaxHits

\* Mutant: a dimension whose name does not resolve is counted, not skipped.
IngestUnresolved(K, ts, hit) ==
  /\ LoopIsFree
  /\ HitsLeft(K)
  /\ rec' = [todo |-> K \cup {NoKey}, cur |-> NoKey, ts |-> ts, hit |-> hit]
  /\ UNCHANGED <<main, rows, dirty, job, txn, db, atRisk, truth, raced, due>>

\* ingest: a record that is not a duplicate, whose named dimensions resolve
\* to the keys of K; hit is the state is_brokered makes of it.
Ingest(K, ts, hit) ==
  /\ LoopIsFree
  /\ K # {}
  /\ HitsLeft(K)
  /\ rec' = [todo |-> K, cur |-> NoKey, ts |-> ts, hit |-> hit]
  /\ UNCHANGED <<main, rows, dirty, job, txn, db, atRisk, truth, raced, due>>

\* _touch up to the increment: the row exists and its count is up, its
\* last_seen, its state and its dirty flag still lag behind.
TouchCount(k) ==
  /\ k \in rec.todo /\ rec.cur = NoKey
  /\ rows' = [rows EXCEPT ![k] = Counted(@)]
  /\ truth' = [truth EXCEPT ![k] = Dated(Counted(@), rec.ts, rec.hit)]
  /\ rec' = [rec EXCEPT !.todo = @ \ {k}, !.cur = k]
  /\ raced' = IF Late(k) THEN raced \cup {k} ELSE raced
  /\ UNCHANGED <<main, dirty, job, txn, db, atRisk, due>>

\* Mutant: only a new row is marked dirty.
TouchRestNewOnly(k) ==
  /\ rec.cur = k /\ k # NoKey
  /\ rows' = [rows EXCEPT ![k] = Dated(@, rec.ts, rec.hit)]
  /\ dirty' = IF rows[k].count = 1 THEN dirty \cup {k} ELSE dirty
  /\ rec' = IF rec.todo = {} THEN NoRec ELSE [rec EXCEPT !.cur = NoKey]
  /\ raced' = IF Late(k) THEN raced \cup {k} ELSE raced
  /\ UNCHANGED <<main, job, txn, db, atRisk, truth, due>>

\* _touch from last_seen on, through dirty = True.
TouchRest(k) ==
  /\ rec.cur = k /\ k # NoKey
  /\ rows' = [rows EXCEPT ![k] = Dated(@, rec.ts, rec.hit)]
  /\ dirty' = dirty \cup {k}
  /\ rec' = IF rec.todo = {} THEN NoRec ELSE [rec EXCEPT !.cur = NoKey]
  /\ raced' = IF Late(k) THEN raced \cup {k} ELSE raced
  /\ UNCHANGED <<main, job, txn, db, atRisk, truth, due>>

-----------------------------------------------------------------------------
(* The main task, on the event-loop thread.                                *)

\* The sleep is over: flush_once submits engine.flush and awaits it.
StartFlush ==
  /\ LoopIsFree /\ main = "sleep"
  /\ job' = [job EXCEPT !["periodic"].pc = "queued"]
  /\ main' = "flush"
  /\ UNCHANGED <<memVars, dbVars, atRisk, truth, raced, due>>

\* The await returns or raises; a failure is noted and never forgotten.
FlushReturns ==
  /\ LoopIsFree /\ main = "flush"
  /\ job["periodic"].pc \in {"ok", "failed"}
  /\ atRisk' = IF job["periodic"].pc = "failed" THEN TRUE ELSE atRisk
  /\ job' = [job EXCEPT !["periodic"] = IdleJob]
  /\ main' = "sleep"
  /\ UNCHANGED <<memVars, dbVars, truth, raced, due>>

DirtyRows == [k \in Keys |-> IF k \in dirty THEN rows[k] ELSE Absent]

\* Mutant: the process is left without a last flush.
CancelQuits(p) ==
  /\ LoopIsFree /\ main = p
  /\ job' = [job EXCEPT !["final"].pc = "ok",
               !["periodic"] = IF @.pc = "queued" THEN IdleJob ELSE @]
  /\ main' = "final"
  /\ due' = DirtyRows
  /\ UNCHANGED <<memVars, dbVars, atRisk, truth, raced>>

\* Cancellation: the shutdown flush is submitted at once.  A periodic job no
\* thread has started yet is cancelled with its future; a started one runs on.
Cancel(p) ==
  /\ LoopIsFree /\ main = p
  /\ job' = [job EXCEPT !["final"].pc = "queued",
               !["periodic"] = IF @.pc = "queued" THEN IdleJob ELSE @]
  /\ main' = "final"
  /\ due' = DirtyRows
  /\ UNCHANGED <<memVars, dbVars, atRisk, truth, raced>>

\* The shutdown flush is over, well or badly: the server and the connection
\* are closed.  What is uncommitted is rolled back, a job left running fails.
\* Until the server is closed, records are still counted.  The process ended
\* "torn" if that flush failed, or a periodic one shared its transaction.
Close ==
  /\ LoopIsFree /\ main = "final"
  /\ job["final"].pc \in {"ok", "failed"}
  /\ main' = IF job["final"].pc = "failed" \/ Overlapped THEN "torn" ELSE "stopped"
  /\ job' = [f \in Jobs |-> IdleJob]
  /\ txn' = NoRows
  /\ UNCHANGED <<memVars, db, atRisk, truth, raced, due>>

\* The process dies: memory and the open transaction are gone.
Crash ==
  /\ Up
  /\ main' = "crashed"
  /\ rows' = NoRows /\ dirty' = {} /\ rec' = NoRec
  /\ job' = [f \in Jobs |-> IdleJob]
  /\ txn' = NoRows /\ due' = NoRows
  /\ UNCHANGED <<db, atRisk, truth, raced>>

\* load: every stored row, clean.
Loaded == db

\* A new process: a loaded engine and a fresh Health.
Restart ==
  /\ ~Up
  /\ main' = "sleep"
  /\ rows' = Loaded /\ dirty' = {}
  /\ atRisk' = FALSE
  /\ raced' = {} /\ due' = NoRows
  /\ UNCHANGED <<rec, job, dbVars, truth>>

-----------------------------------------------------------------------------
(* engine.flush, on an executor thread.                                    *)

\* The scan for dirty rows iterates over _rows.values().
BeginScan(f) ==
  /\ job[f].pc = "queued"
  /\ job' = [job EXCEPT ![f] = [@ EXCEPT !.pc = "scan", !.known = Known,
                                         !.picked = dirty]]
  /\ UNCHANGED <<main, memVars, dbVars, atRisk, truth, raced, due>>

\* A row inserted since makes the iteration raise.  Otherwise a row is
\* picked if it is dirty when the scan passes it.
EndScan(f) ==
  /\ job[f].pc = "scan"
  /\ IF Known # job[f].known
     THEN /\ job' = [job EXCEPT ![f] = [IdleJob EXCEPT !.pc = "failed"]]
          /\ UNCHANGED raced
     ELSE \E D \in SUBSET (job[f].picked \cup dirty) :
            /\ job[f].picked \cap dirty \subseteq D
            /\ job' = [job EXCEPT
                 ![f] = [IdleJob EXCEPT !.pc = IF D = {} THEN "ok" ELSE "read",
                                        !.picked = D, !.todo = D]]
            /\ raced' = raced \ D
  /\ UNCHANGED <<main, memVars, dbVars, atRisk, truth, due>>

\* The parameters of the upsert are read left to right: state and count, here
\* in one step ...
ReadHead(f, k) ==
  /\ job[f].pc = "read" /\ job[f].cur = NoKey
  /\ k \in job[f].todo
  /\ job' = [job EXCEPT ![f] = [@ EXCEPT !.cur = k,
                                         !.head = [rows[k] EXCEPT !.last = 0]]]
  /\ UNCHANGED <<main, memVars, dbVars, atRisk, truth, raced, due>>

\* ... then last_seen, and the statement runs.
Written(j) ==
  [j EXCEPT !.todo = @ \ {j.cur}, !.cur = NoKey, !.head = Absent,
            !.pc = IF j.todo = {j.cur} THEN "tail" ELSE @]

WriteRow(f) ==
  /\ job[f].pc = "read" /\ job[f].cur # NoKey
  /\ txn' = [txn EXCEPT ![job[f].cur] =
               [job[f].head EXCEPT !.last = rows[job[f].cur].last]]
  /\ job' = [job EXCEPT ![f] = Written(@)]
  /\ UNCHANGED <<main, memVars, db, atRisk, truth, raced, due>>

\* Leaving `with conn`: everything written on the connection is committed.
Commit(f) ==
  /\ job[f].pc = "tail"
  /\ db' = [k \in Keys |-> Upserted(db[k], txn[k])]
  /\ txn' = NoRows
  /\ job' = [job EXCEPT ![f].pc = "clear"]
  /\ UNCHANGED <<main, memVars, atRisk, truth, raced, due>>

\* Mutant: every row is marked clean.
ClearAll(f) ==
  /\ job[f].pc = "clear"
  /\ dirty' = {}
  /\ job' = [job EXCEPT ![f] = [IdleJob EXCEPT !.pc = "ok"]]
  /\ UNCHANGED <<main, rows, rec, dbVars, atRisk, truth, raced, due>>

\* The picked rows are marked clean, whatever happened to them meanwhile.
ClearDirty(f) ==
  /\ job[f].pc = "clear"
  /\ dirty' = dirty \ job[f].picked
  /\ job' = [job EXCEPT ![f] = [IdleJob EXCEPT !.pc = "ok"]]
  /\ UNCHANGED <<main, rows, rec, dbVars, atRisk, truth, raced, due>>

\* Mutant: the flags are cleared although the transaction failed.
FailFlushClears(f) ==
  /\ \/ job[f].pc = "read" /\ job[f].cur # NoKey
     \/ job[f].pc = "tail"
  /\ txn' = NoRows
  /\ dirty' = dirty \ job[f].picked
  /\ job' = [job EXCEPT ![f] = [IdleJob EXCEPT !.pc = "failed"]]
  /\ UNCHANGED <<main, rows, rec, db, atRisk, truth, raced, due>>

\* A statement or the commit raises: the transaction is rolled back, no flag
\* is cleared.
FailFlush(f) ==
  /\ \/ job[f].pc = "read" /\ job[f].cur # NoKey
     \/ job[f].pc = "tail"
  /\ txn' = NoRows
  /\ job' = [job EXCEPT ![f] = [IdleJob EXCEPT !.pc = "failed"]]
  /\ UNCHANGED <<main, memVars, db, atRisk, truth, raced, due>>

-----------------------------------------------------------------------------
Count == \/ \E K \in SUBSET Keys, ts \in Stamps, hit \in States : Ingest(K, ts, hit)
         \/ \E k \in Keys : TouchCount(k) \/ TouchRest(k)

MainStep == StartFlush \/ FlushReturns \/ Close

FlushStep(f) == \/ BeginScan(f) \/ EndScan(f)
                \/ \E k \in Keys : ReadHead(f, k)
                \/ WriteRow(f) \/ Commit(f) \/ ClearDirty(f) \/ FailFlush(f)

Next == \/ Count
        \/ MainStep
        \/ \E p \in CancelPoints : Cancel(p)
        \/ \E f \in Jobs : FlushStep(f)
        \/ Crash \/ Restart

Spec == Init /\ [][Next]_vars

-----------------------------------------------------------------------------
(* Safety.                                                                 *)

MainStates == {"sleep", "flush", "final", "stopped", "torn", "crashed"}
JobStates  == {"idle", "queued", "scan", "read", "tail", "clear", "ok", "failed"}
Table  == [Keys -> Row]
RecSet == [todo : SUBSET Keys, cur : Keys \cup {NoKey},
           ts : Stamps \cup {0}, hit : States]
JobSet == [pc : JobStates, known : SUBSET Keys, picked : SUBSET Keys,
           todo : SUBSET Keys, cur : Keys \cup {NoKey}, head : Row]

\* The values the engine, its jobs, the transaction and the table take.
TypeOK ==
  /\ main \in MainStates
  /\ rows \in Table /\ txn \in Table /\ db \in Table /\ truth \in Table
  /\ dirty \subseteq Keys /\ raced \subseteq Keys
  /\ rec \in RecSet /\ job \in [Jobs -> JobSet]
  /\ atRisk \in BOOLEAN /\ due \in Table

\* Neither the table nor the memory ever claims a hit, a date or a brokered
\* session that no record gave: not after a torn read, an overlapping flush,
\* a rollback, a crash or any number of restarts.
NoFalseEvidence ==
  \A k \in Keys : Leq(db[k], truth[k]) /\ Leq(rows[k], truth[k])

\* While the process runs, the table never knows more than memory: the
\* dashboard and a restart can only see the engine's past.
DbNeverAhead == main # "crashed" => \A k \in Keys : Leq(db[k], rows[k])

\* A row that is clean, and not in the middle of being counted, is stored with
\* a date.  The date decides between "never used" and "used", and no race loses
\* it, short of two flushes rolling back each other's transaction.
PresenceDurable ==
  Up /\ ~Overlapped =>
        \A k \in Keys :
          Present(rows[k]) /\ k \notin dirty /\ rec.cur # k => db[k].last > 0

\* A clean row that no flush is writing equals its stored image, unless a
\* hit landed on it while the last flush that picked it was running: that
\* race is the only way a hit is ever lost from the table.
OnlyRacesLoseHits ==
  Up /\ ~Overlapped =>
        \A k \in Keys :
          k \notin dirty \cup raced /\ rec.cur # k /\ ~Busy(k) => db[k] = rows[k]

\* A shutdown ("flushing and closing") whose flush succeeded, with no other beside
\* it, has stored at least what was dirty when it began.  All that memory knows is
\* then in the table, except for keys hit during the shutdown or, in the same way,
\* during an earlier flush that picked them and marked them clean, and never
\* dirty since: that hit is in memory only, and is lost with it.
CleanStopIsComplete ==
  main = "stopped" => \A k \in Keys : /\ Leq(due[k], db[k])
                                      /\ k \notin raced => db[k] = rows[k]

\* What a reader of flush and _touch expects of the dirty flag: a clean row
\* outside a flush is stored as it is, so that a last_seen is never lost
\* ("presence/last_seen stay correct").
CleanRowIsDurable ==
  Up => \A k \in Keys :
          k \notin dirty /\ rec.cur # k /\ ~Busy(k) => db[k] = rows[k]

-----------------------------------------------------------------------------
(* The engine keeps the promise of DurableStore: memory is the engine's    *)
(* rows while a process runs and what the next one will load otherwise.    *)

Abstract == INSTANCE DurableStore WITH mem <- IF Up THEN rows ELSE db,
                                       disk <- db

KeepsPromise == Abstract!SSpec

-----------------------------------------------------------------------------
(* Liveness.  The event loop finishes the record it is counting and comes  *)
(* back to the main task, and the executor runs what was submitted; that a *)
(* record arrives, that the process is cancelled, dies or is started again *)
(* is up to the environment.  Two things the code does not guarantee are   *)
(* assumed.  sqlite may refuse any number of flushes, but not for ever:    *)
(* against a database that always fails the code can only report AT-RISK.  *)
(* And what the main task awaits between two flushes ends: a sync is       *)
(* retried as long as ZPA answers 429 or 503 (oneapi.py), and while it is, *)
(* nothing is flushed and nothing is reported.                             *)
(***************************************************************************)

DatabaseRecovers == <>[][\A f \in Jobs : ~FailFlush(f)]_vars

SyncsEnd == SF_vars(StartFlush)

Fairness ==
  /\ WF_vars(\E k \in Keys : TouchCount(k) \/ TouchRest(k))
  /\ SF_vars(FlushReturns) /\ SF_vars(Close)
  /\ \A f \in Jobs : WF_vars(FlushStep(f))

FairSpec == Spec /\ Fairness /\ DatabaseRecovers /\ SyncsEnd

Images == [count : 1..MaxHits, last : Stamps, state : States]

\* A row that is dirty while no flush that picked it is running reaches the table
\* as it is, or as it has become, unless the process ends first.  (Of one that is
\* picked only what was read is certain: see OnlyRacesLoseHits.)
DirtyRowIsFlushed ==
  \A k \in Keys, r \in Images :
    (Up /\ k \in dirty /\ ~Busy(k) /\ rows[k] = r) ~> (~Up \/ Leq(r, db[k]))

=============================================================================
