---------------------------- MODULE CollectorLoop ----------------------------
(***************************************************************************)
(* The main task of collector/app.py: nightly and requested config syncs,  *)
(* flushes and coverage heartbeats, one after the other, each on an        *)
(* executor thread, and the shutdown.                                      *)
(*                                                                         *)
(* All of them write through one sqlite3 connection, which has one open    *)
(* transaction: whoever commits or rolls back does it for everything that  *)
(* was written and not yet committed.  In turn they are harmless.  But     *)
(* cancelling the main task does not stop the thread it awaits, and the    *)
(* shutdown flush then runs beside it.                                     *)
(*                                                                         *)
(* The evidence in memory is one row here (CounterEngine has several, and  *)
(* the bytecodes between).  The config rows were all stored by an earlier  *)
(* sync, and ZPA lists them all (ConfigSync has it change).                *)
(***************************************************************************)
EXTENDS Integers, FiniteSets

CONSTANTS
  Objs,          \* config objects
  Day,           \* hours in a day
  SyncHour,      \* config_sync_hour
  CancelPoints,  \* what the main task may be cancelled in
  NoHour,        \* no hour at all
  MaxHour        \* bound: hours since the start

Awaited == {"nightly", "requested", "flush", "heartbeat", "sleep"}
Syncing == {"nightly", "requested"}

ASSUME DayAssumption == Day \in Nat \ {0} /\ SyncHour \in Nat /\ MaxHour \in Nat
ASSUME NoHourAssumption == NoHour \notin Int
ASSUME CancelAssumption == CancelPoints \subseteq Awaited

VARIABLES
  main,       \* what the main task awaits, or how the process ended
  asked,      \* sync_requested.is_set()
  night,      \* last_synced_hour_key
  fresh,      \* health.records_total > last_records_total
  job,        \* the executor jobs
  stamp,      \* the hour the heartbeat was submitted with
  dirty,      \* the flag of the row
  written,    \* config rows the running sync has written
  txn,        \* config rows written on the connection and not committed
  stamped,    \* config rows committed with the time of the running sync
  off,        \* config rows whose last_config_seen is not last_config_sync
  covered,    \* the hours in coverage_hourly
  syncFailed, \* health.config_sync_failed
  flushFailed,\* health.flush_failures > 0
  hour,       \* the clock
  ticked,     \* the clock went on since the loop was at its top or a sync ended
  owed,       \* history: no sync was started since the last request
  waiting,    \* history: where the evidence of one chosen record is
  heard,      \* history: the hour of the last record
  busy        \* history: the hour in which a sync last returned

loopVars == <<asked, night, fresh>>
dbVars   == <<written, txn, stamped, off>>
health   == <<syncFailed, flushFailed>>
clock    == <<hour, ticked>>
history  == <<owed, heard, busy>>
vars == <<main, loopVars, job, stamp, dirty, waiting, dbVars, covered, health, clock, history>>

Kinds   == {"sync", "flush", "heartbeat", "final"}
Flushes == {"flush", "final"}
NoJobs  == [j \in Kinds |-> "idle"]

Up == main \in Awaited \cup {"final"}

Init ==
  /\ main = "sleep" /\ asked = FALSE /\ night = NoHour /\ fresh = FALSE
  /\ job = NoJobs /\ stamp = NoHour
  /\ dirty = FALSE /\ waiting = "no"
  /\ written = {} /\ txn = {} /\ stamped = {} /\ off = {} /\ covered = {}
  /\ syncFailed = FALSE /\ flushFailed = FALSE
  /\ hour = 0 /\ ticked = TRUE
  /\ owed = FALSE /\ heard = NoHour /\ busy = NoHour

-----------------------------------------------------------------------------
(* The main task, on the event-loop thread.                                *)

\* Mutant: the key remembered is the hour of the day, without the date.
DueOnce == hour % Day = SyncHour /\ night \notin {h \in 0..hour : h % Day = SyncHour}

\* The nightly sync is due, once in its hour.
Due == hour % Day = SyncHour /\ night # hour

\* The job awaited before is over; the next one is submitted and awaited.
Submit(j, m) == main' = m /\ job' = [NoJobs EXCEPT ![j] = "begin"]

SubmitSync(m) == Submit("sync", m) /\ owed' = FALSE

Returned(j) == job[j] \in {"ok", "failed"}

\* A request is taken and its sync awaited, or else it is time to flush.
CheckRequest ==
  \/ /\ asked /\ SubmitSync("requested")
     /\ asked' = FALSE
  \/ /\ ~asked /\ Submit("flush", "flush")
     /\ UNCHANGED <<asked, owed>>

\* The sleep is over and the loop is at its top.
Wake ==
  /\ main = "sleep"
  /\ \/ /\ Due /\ SubmitSync("nightly")
        /\ night' = hour /\ UNCHANGED asked
     \/ /\ ~Due /\ CheckRequest
        /\ UNCHANGED night
  /\ ticked' = FALSE
  /\ UNCHANGED <<fresh, stamp, dirty, waiting, dbVars, covered, health, hour, heard, busy>>

\* The nightly sync returns, well or badly.
NightlyReturns ==
  /\ main = "nightly" /\ Returned("sync")
  /\ CheckRequest
  /\ busy' = hour /\ ticked' = FALSE
  /\ UNCHANGED <<night, fresh, stamp, dirty, waiting, dbVars, covered, health, hour, heard>>

\* Mutant: the request is cleared when its sync is over.
RequestedReturnsClears ==
  /\ main = "requested" /\ Returned("sync")
  /\ Submit("flush", "flush")
  /\ asked' = FALSE
  /\ busy' = hour /\ ticked' = FALSE
  /\ UNCHANGED <<night, fresh, stamp, dirty, waiting, dbVars, covered, health, hour,
                 owed, heard>>

\* The requested sync returns, well or badly.
RequestedReturns ==
  /\ main = "requested" /\ Returned("sync")
  /\ Submit("flush", "flush")
  /\ busy' = hour /\ ticked' = FALSE
  /\ UNCHANGED <<loopVars, stamp, dirty, waiting, dbVars, covered, health, hour, owed, heard>>

\* The process is gone, and with it jobs and transaction.
Die(how) ==
  main' = how /\ job' = NoJobs /\ written' = {} /\ stamped' = {} /\ txn' = {}

\* Nothing catches what run_sync raises: run() ends without a last flush.
SyncRaisesOut ==
  /\ main \in Syncing /\ job["sync"] = "raised"
  /\ Die("dead")
  /\ UNCHANGED <<loopVars, stamp, dirty, waiting, off, covered, health, clock, history>>

\* Mutant: the failure of a flush is not noted.
NoteNothing == flushFailed' = flushFailed

\* A failure is noted and never forgotten.
NoteFlush == flushFailed' = (flushFailed \/ job["flush"] = "failed")

\* Mutant: every flush is followed by a heartbeat, records or not.
BeatAlways == Submit("heartbeat", "heartbeat") /\ stamp' = hour

\* Mutant: the heartbeat carries the key of the nightly sync.
BeatWithKey == fresh /\ Submit("heartbeat", "heartbeat") /\ stamp' = night

\* Records arrived since the last heartbeat: the next is stamped with now.
Beat == fresh /\ Submit("heartbeat", "heartbeat") /\ stamp' = hour

\* Mutant: no heartbeat after a failed flush, and none for its records later.
FlushReturnsForgets ==
  /\ main = "flush" /\ Returned("flush")
  /\ NoteFlush
  /\ \/ job["flush"] = "ok" /\ Beat
     \/ /\ ~(fresh /\ job["flush"] = "ok")
        /\ main' = "sleep" /\ job' = NoJobs /\ UNCHANGED stamp
  /\ fresh' = FALSE
  /\ UNCHANGED <<asked, night, dirty, waiting, dbVars, covered, syncFailed, clock, history>>

\* The flush returns, well or badly.
FlushReturns ==
  /\ main = "flush" /\ Returned("flush")
  /\ NoteFlush
  /\ \/ Beat
     \/ ~fresh /\ main' = "sleep" /\ job' = NoJobs /\ UNCHANGED stamp
  /\ fresh' = FALSE
  /\ UNCHANGED <<asked, night, dirty, waiting, dbVars, covered, syncFailed, clock, history>>

\* The heartbeat returns; its failure is logged and forgotten.
HeartbeatReturns ==
  /\ main = "heartbeat" /\ Returned("heartbeat")
  /\ main' = "sleep" /\ job' = NoJobs /\ stamp' = NoHour
  /\ UNCHANGED <<loopVars, dirty, waiting, dbVars, covered, health, clock, history>>

\* Cancelled: the shutdown flush is submitted.  What runs goes on running; a
\* job no thread has started yet is cancelled with its future.
Cancel(m) ==
  /\ main = m /\ main' = "final"
  /\ \E dropped \in SUBSET {j \in Kinds : job[j] = "begin"} :
       job' = [j \in Kinds |-> IF j = "final" THEN "begin"
                               ELSE IF j \in dropped THEN "idle" ELSE job[j]]
  /\ UNCHANGED <<loopVars, stamp, dirty, waiting, dbVars, covered, health, clock, history>>

\* The shutdown flush is over, well or badly: the connection is closed, and
\* with it goes what is uncommitted and whatever still wanted to write.
Close ==
  /\ main = "final" /\ Returned("final")
  /\ Die("stopped")
  /\ UNCHANGED <<loopVars, stamp, dirty, waiting, off, covered, health, clock, history>>

-----------------------------------------------------------------------------
(* The jobs, on executor threads.                                          *)

Goes(j, pc) == job' = [job EXCEPT ![j] = pc]

\* The pull is complete; a 429 or a 503 only delays it.
SyncPulls ==
  /\ job["sync"] = "begin" /\ Goes("sync", "write")
  /\ UNCHANGED <<main, loopVars, stamp, dirty, waiting, dbVars, covered, health, clock, history>>

\* Mutant: each row is committed as it is written.
SyncWritesForGood(o) ==
  /\ job["sync"] = "write" /\ o \notin written
  /\ written' = written \cup {o}
  /\ stamped' = stamped \cup {o} /\ off' = off \cup {o}
  /\ UNCHANGED <<main, loopVars, job, stamp, dirty, waiting, txn, covered, health, clock, history>>

\* One upsert of a config row, each of them once: what somebody else rolls
\* back meanwhile is not written again.
SyncWrites(o) ==
  /\ job["sync"] = "write" /\ o \notin written
  /\ written' = written \cup {o} /\ txn' = txn \cup {o}
  /\ UNCHANGED <<main, loopVars, job, stamp, dirty, waiting, stamped, off, covered, health,
                 clock, history>>

\* last_config_sync is set, what is written is committed, health hears of it.
SyncCommits ==
  /\ job["sync"] = "write" /\ written = Objs
  /\ off' = Objs \ (stamped \cup txn)
  /\ written' = {} /\ stamped' = {} /\ txn' = {}
  /\ Goes("sync", "ok") /\ syncFailed' = FALSE
  /\ UNCHANGED <<main, loopVars, stamp, dirty, waiting, covered, flushFailed, clock, history>>

\* The client or the database fails: the connection is rolled back, even if
\* the sync has not written yet, and the index is read again, which may raise.
SyncFails ==
  /\ job["sync"] \in {"begin", "write"}
  /\ written' = {} /\ stamped' = {} /\ txn' = {}
  /\ \/ Goes("sync", "failed") /\ syncFailed' = TRUE
     \/ Goes("sync", "raised") /\ UNCHANGED syncFailed
  /\ UNCHANGED <<main, loopVars, stamp, dirty, waiting, off, covered, flushFailed, clock,
                 history>>

\* Someone else than the sync leaves `with conn`: the rows the sync has written
\* so far are committed too, last_config_sync is not.
CommitOthers ==
  /\ stamped' = stamped \cup txn /\ off' = off \cup txn /\ txn' = {}
  /\ UNCHANGED written

FlushNothing(f) ==
  /\ job[f] = "begin" /\ ~dirty
  /\ Goes(f, "ok")
  /\ UNCHANGED <<main, loopVars, stamp, dirty, waiting, dbVars, covered, health, clock, history>>

\* The dirty row is picked, read and written; its flag stays set ...
FlushWrites(f) ==
  /\ job[f] = "begin" /\ dirty
  /\ Goes(f, "write")
  /\ waiting' = IF waiting = "mem" THEN f ELSE waiting
  /\ UNCHANGED <<main, loopVars, stamp, dirty, dbVars, covered, health, clock, history>>

\* ... until the transaction is committed: then it is cleared, even if the row
\* was hit again since it was read.
FlushCommits(f) ==
  /\ job[f] = "write"
  /\ CommitOthers /\ Goes(f, "ok") /\ dirty' = FALSE
  /\ waiting' = IF waiting = f THEN "no" ELSE waiting
  /\ UNCHANGED <<main, loopVars, stamp, covered, health, clock, history>>

\* A statement or the commit fails: the flag stays as it is.
FlushFails(f) ==
  /\ job[f] = "write"
  /\ txn' = {} /\ Goes(f, "failed")
  /\ waiting' = IF waiting = f THEN "mem" ELSE waiting
  /\ UNCHANGED <<main, loopVars, stamp, dirty, written, stamped, off, covered, health, clock,
                 history>>

\* record_coverage
Heartbeat ==
  /\ job["heartbeat"] = "begin"
  /\ \/ /\ covered' = covered \cup {stamp}
        /\ CommitOthers /\ Goes("heartbeat", "ok")
     \/ /\ txn' = {} /\ Goes("heartbeat", "failed")
        /\ UNCHANGED <<covered, written, stamped, off>>
  /\ UNCHANGED <<main, loopVars, stamp, dirty, waiting, health, clock, history>>

\* Mutant: the window begins one hour early.
WindowWide(days) == hour - days * Day .. hour

\* The trailing hours of a report, the current one among them.
Window(days) == hour - days * Day + 1 .. hour

\* coverage_summary: how many of them are not covered.
Gaps(days) == days * Day - Cardinality(covered \cap Window(days))

-----------------------------------------------------------------------------
(* The rest of the world.                                                  *)

Writing == \E f \in Flushes : job[f] = "write"

\* A record is counted.  Only one counted while no flush is writing the row is
\* chosen: the flush may mark the row clean without having seen the hit, and
\* nothing of that shows here (OnlyRacesLoseHits of CounterEngine is about it).
Record ==
  /\ Up
  /\ dirty' = TRUE /\ fresh' = TRUE /\ heard' = hour
  /\ waiting' = IF waiting = "no" /\ ~Writing THEN "mem" ELSE waiting
  /\ UNCHANGED <<main, asked, night, job, stamp, dbVars, covered, health, clock, owed, busy>>

\* POST /api/sync
Request ==
  /\ Up
  /\ asked' = TRUE /\ owed' = TRUE
  /\ UNCHANGED <<main, night, fresh, job, stamp, dirty, waiting, dbVars, covered, health,
                 clock, heard, busy>>

\* A sync may take hours; the rest of a pass of the loop is assumed to take less
\* than one, so that the clock strikes at most once in it.  Its longest part is
\* the sleep, of FLUSH_SECONDS, which load_settings does not bound.
Tick ==
  /\ hour < MaxHour
  /\ main \in Syncing \/ ~Up \/ ~ticked
  /\ hour' = hour + 1 /\ ticked' = TRUE
  /\ UNCHANGED <<main, loopVars, job, stamp, dirty, waiting, dbVars, covered, health, history>>

Crash ==
  /\ Up
  /\ Die("dead")
  /\ UNCHANGED <<loopVars, stamp, dirty, waiting, off, covered, health, clock, history>>

\* A new process, which reaches the top of its loop within the hour.
Restart ==
  /\ ~Up
  /\ main' = "sleep" /\ asked' = FALSE /\ night' = NoHour /\ fresh' = FALSE
  /\ stamp' = NoHour /\ dirty' = FALSE /\ waiting' = "no"
  /\ syncFailed' = FALSE /\ flushFailed' = FALSE
  /\ ticked' = TRUE /\ owed' = FALSE
  /\ UNCHANGED <<job, dbVars, covered, hour, heard, busy>>

-----------------------------------------------------------------------------
MainStep == \/ Wake \/ NightlyReturns \/ RequestedReturns \/ SyncRaisesOut
            \/ FlushReturns \/ HeartbeatReturns \/ Close

SyncStep == SyncPulls \/ SyncCommits \/ SyncFails \/ \E o \in Objs : SyncWrites(o)

FlushStep(f) == FlushNothing(f) \/ FlushWrites(f) \/ FlushCommits(f) \/ FlushFails(f)

Next == \/ MainStep \/ SyncStep \/ Heartbeat
        \/ \E f \in Flushes : FlushStep(f)
        \/ \E m \in CancelPoints : Cancel(m)
        \/ Record \/ Request \/ Tick \/ Crash \/ Restart

Spec == Init /\ [][Next]_vars

\* The event loop comes back to the main task, and the executor runs what was
\* submitted.  What the client does is up to the service: it retries a 429 or
\* a 503 for ever, and there is no limit to the whole.
LoopSpec ==
  /\ Spec
  /\ WF_vars(MainStep) /\ WF_vars(Heartbeat)
  /\ \A f \in Flushes : WF_vars(FlushStep(f))
  /\ WF_vars(job["sync"] = "write" /\ SyncStep)

\* The service lets every pull end, with an answer or with an error.
PatientSpec == LoopSpec /\ WF_vars(job["sync"] = "begin" /\ SyncStep)

-----------------------------------------------------------------------------
Hours == Nat \cup {NoHour}

\* The values the main task, the jobs and the tables take.
TypeOK ==
  /\ main \in Awaited \cup {"final", "stopped", "dead"}
  /\ job \in [Kinds -> {"idle", "begin", "write", "ok", "failed", "raised"}]
  /\ night \in Hours /\ stamp \in Hours /\ heard \in Hours /\ busy \in Hours
  /\ hour \in Nat /\ covered \subseteq Nat
  /\ written \subseteq Objs /\ txn \subseteq Objs /\ stamped \subseteq Objs /\ off \subseteq Objs
  /\ waiting \in {"no", "mem"} \cup Flushes
  /\ {asked, fresh, dirty, syncFailed, flushFailed, ticked, owed} \subseteq BOOLEAN

\* "no partial sync": every config row committed carries the time that
\* last_config_sync gives, after every crash, failure and shutdown.  A row that
\* does not is shown as retired.
NoPartialSync == off = {}

\* An hour becomes covered only if a record was counted no earlier than in the
\* last hour covered before, however many flushes, failed heartbeats and restarts
\* come in between: of an outage of the log stream one hour at most is covered,
\* the one in which the heartbeat of the last records comes late.
CoverageIsEarned ==
  [][\A h \in covered' \ covered :
       heard # NoHour /\ \A g \in covered : heard >= g]_vars

\* An outage shows in every report: of the n hours since the last record, as
\* far as they are in the window, all are gaps but the one that a late heartbeat
\* has covered ("an LSS outage undetectable" is what must not be).
OutageShows ==
  \A days \in 1..2 :
    Gaps(days) >= (IF heard \in Window(days) THEN hour - heard ELSE days * Day) - 1

\* While the process runs, a record is covered in its hour or a later one: only
\* a failed heartbeat leaves a gap where there was none.
HeardIsCovered ==
  fresh ~> \/ ~Up \/ job["heartbeat"] = "failed"
           \/ \E h \in covered : h >= heard

\* The hour of the nightly sync does not end without one having been started,
\* unless another sync was running in it.
NightIsNotSkipped ==
  [][hour' # hour /\ hour % Day = SyncHour /\ main \in Awaited =>
       night = hour \/ main \in Syncing \/ busy = hour]_vars

\* Every request gets a sync that starts after it, unless the process ends: a
\* request that arrives while a sync runs is not answered by that sync.
RequestIsServed == owed ~> (~owed \/ ~Up)

Loud == syncFailed \/ flushFailed

\* "loud, non-silent degradation": a record counted while no flush is writing its
\* row is stored, or health stops saying OK, as long as the service lets every
\* pull end.  Neither exception is loud: a record counted during the write may
\* stay off the disk, and a pull retried for ever keeps all of them there, with
\* health OK.
StoredOrLoud == waiting # "no" ~> (waiting = "no" \/ ~Up \/ Loud)

=============================================================================
