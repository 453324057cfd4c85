# ZPA collector: specifications, model checks and proofs

The collector listens to the log stream (LSS) of Zscaler Private Access, counts
which applications, segments and servers are really used, pulls the configured
objects over the OneAPI, and reports which objects could be retired. What it
must get right is evidence: an object reported unused that was used, or an object
reported gone that is still there, leads an operator to delete something that
works. This directory models the parts of `src/collector/` on which that evidence
depends, checks them with TLC and proves the central invariants with TLAPS.

## 1. Inventory

### Components

| component | source | state it keeps | operations |
|---|---|---|---|
| counter engine | `counters.py` | `_rows` (one `CounterRow` per object), `dirty` per row | `ingest`, `_touch`, `flush`, `load` |
| connection dedup | `counters.py`, `fields.py` | `_inflight` (ConnectionID to monotonic time), in memory only | `_is_duplicate`, `_evict_expired` |
| config sync | `config_sync.py` | the `config_object`, `config_edge`, `meta` tables | `sync`, `NameIndex`, `load_name_index` |
| main loop | `app.py` | `last_synced_hour_key`, `last_records_total`, `sync_requested`, the index holder | nightly and requested sync, flush, heartbeat, shutdown |
| LSS receiver | `receiver.py` | per connection: a line buffer and the name index | `iter_frames`, `handle`, `_process_line` |
| OneAPI client | `oneapi.py` | token and its expiry | `_api_get` with retries, `paged_get`, `list_microtenants` |
| dashboard | `httpd.py`, `classify.py` | none (a connection per request) | `_classified_rows`, export, `POST /api/sync` |
| health and coverage | `health.py`, `counters.py` | failure flags; the `coverage_hourly` table | `note_*`, `state`, `record_coverage`, `coverage_summary` |
| SQLite layer | `db.py` | one connection shared by the writers, `user_version` | `connect`, `migrate`, `get_meta`, `set_meta` |
| record parsing | `fields.py` | none | names, ids, dates and flags of a record |
| settings | `config.py` | none after start | `load_settings` |
| command line, self test, synthetic sender | `cli.py`, `selftest.py`, `synth_sender.py` | none | entry points and tools |

### How they interact

One asyncio event loop runs the receiver and the main task of `run()`. The
receiver's `handle` calls `engine.ingest` synchronously, so a record is counted
without a pause *of the event loop*. The main task submits each `flush`, `sync`
and `record_coverage` to an executor and awaits it, so at most one is awaited
at a time; but these jobs run in other threads, on the rows the event loop
counts into, and on one `sqlite3` connection opened with
`check_same_thread=False`. No lock is taken anywhere. The dashboard runs in
further threads, with a connection of its own per request, and sets the event
`sync_requested` through `call_soon_threadsafe`.

### What is hard here

* `_touch` and `flush` interleave in the middle: a row is scanned, read field by
  field and marked clean by one thread while the other changes it.
* Cancelling an awaited executor job does not stop its thread. The shutdown flush
  then shares the connection, and its implicit transaction, with what still runs.
* The stream loses, replays and reorders records; dedup state is lost at restart.
* Names are resolved by an index that is replaced by syncs, kept by connections,
  and rebuilt at a restart from rows of objects that no longer exist.
* A pull is not a snapshot: ZPA changes between the listings and between the pages of
  one, refuses requests, and lets the token expire in between.
* A row is a bounded summary of records that come in any order of their dates, under a
  clock that may be set back.
* The migration of an old database may be interrupted between its two commits.
* A report reads the database in several statements while a sync commits.
* The main loop does one thing at a time, and one of them may never end.

### What makes each component correct

* counter engine: nothing is stored that no record said; no evidence is lost other
  than by dying between two flushes; in particular `last_seen` survives.
* dedup: no object is hidden that every record names; none is counted again without cause;
  memory is bounded by the connections of one TTL.
* config sync: an object ZPA still lists is never retired; an access is counted for
  the object accessed or for none; no partial sync is visible. The code does not
  reach all of this: sections 3 and 5 say where it stops.
* main loop: the nightly sync is not skipped, requests are served, failures are loud.
* coverage: an outage of the stream leaves a gap in the covered hours, and shows in
  every report; a record leaves none.
* classification: a band follows from the records alone, and only time cools it.
* migration: one row per object afterwards, the one that syncs refresh.
* dashboard: no used object is shown as silent; none that exists as retired.
* receiver: one malformed or long line never costs another record.
* OneAPI client: a complete listing or an error. There are two silently shorter ones,
  after a deletion between two pages and after a page of another shape (section 5).

The hazards behind these, each at its line and with the properties that guard it,
are listed in `PROJECT.json`.

## 2. Modules

| module | models | extends or instantiates |
|---|---|---|
| `UsageRow` | a row of evidence and its changes: `_touch`, the upsert | |
| `DurableStore` | abstract: what the engine promises about memory and disk | `UsageRow` |
| `CounterEngine` | rows, dirty flags, flush threads, transaction, load, cancellation | `UsageRow`; refines `DurableStore` |
| `ConnectionDedup` | dedup slots under a lossy stream, time, restarts | |
| `ConfigSync` | start-up with the migration; ZPA, the pull, the transaction, the index holder, the streams | |
| `OneApiPull` | the pages, the token, the retries and the errors of one pull | |
| `Dashboard` | one report in three statements | composes with `ConfigSync` |
| `Receiver` | one log stream: framing, processing of a line, end of a connection | |
| `CollectorLoop` | the main task, its executor jobs, the clock, requests, coverage and its report | |
| `Verdict` | a whole row as a summary of its records, and what a report says of it | |
| `CounterEngineProofs` | theorems: no evidence invented, disk never ahead, what is never lost; the engine implements `DurableStore` | `CounterEngine` |
| `ConnectionDedupProofs`, `ConfigSyncProofs`, `OneApiPullProofs`, `ReceiverProofs`, `CollectorLoopProofs`, `VerdictProofs` | theorems | the module they name |
| `DashboardProofs` | theorems about a report beside a running system | `Dashboard`, `ConfigSyncProofs` |
| `MCCounterEngine`, `MCConnectionDedup`, `MCConfigSync`, `MCDashboard`, `MCVerdict` | instances for TLC: symmetry sets, microtenants | the module they name (`Receiver`, `CollectorLoop` and `OneApiPull` are run as they are) |

Operators whose comment begins with "Mutant" are not part of any specification.
Each is a plausible mistake in the definition that follows it; put in its place it
makes TLC find a property of the module violated.

### CounterEngine

| model | code |
|---|---|
| `rows`, `dirty` | `CounterEngine._rows`, `CounterRow.dirty` |
| `Ingest(K, ts, hit)` | `ingest` up to the loop over the dimensions; `K` are the keys whose names resolve |
| `TouchCount`, `TouchRest` | `_touch`, split after `access_count += 1` |
| `BeginScan`, `EndScan` | the list comprehension over `_rows.values()`; it raises if a key was inserted meanwhile |
| `ReadHead`, `WriteRow` | the parameters of one upsert, read left to right, and the statement |
| `Commit`, `ClearDirty`, `FailFlush` | leaving `with conn`, the loop that clears the flags, a rollback |
| `Loaded`, `Restart`, `Crash` | `load` in a new process; the death of the old one |
| `StartFlush`, `FlushReturns`, `Cancel`, `Close` | the flush part of `run()` and its shutdown |

A record is split in two steps, and a flush around each use of what it shares with the
other thread; the columns `ReadHead` reads one after the other (`access_count`, `state`)
are read in one step, and the last one in the step that writes the row, as no property
tells these apart from finer steps. `"sleep"` stands for whatever `run()` awaits between
two flushes: the sleep, a sync, a heartbeat. A row keeps `access_count`, `last_seen_ts` and `state`,
the three columns a verdict is made from (`Verdict` has the others). `truth` is the
history of every hit, over all processes. Of the other history variables `raced`
remembers which rows were hit while a flush that had picked them was running, or
during the shutdown, and were not picked since; `due` remembers the rows that were
dirty when the shutdown began. A process ends `"stopped"`, `"torn"` (its last flush failed, or
shared the transaction with a flush that still ran) or `"crashed"`.

### ConnectionDedup

`inflight[c]` is the time in `_inflight`, 0 for none. `Duplicate` and
`FirstSighting` are the two branches of `_is_duplicate` together with what `ingest`
does next; `Evicted` is `_evict_expired`, which every record runs first. The
environment opens and closes connections, loses records, delivers them again, and
delivers a close before its open. A connection is about one object of each of
the dimensions `Dims` (an application, a segment, a server), and in each record any of
their names may resolve or not, as in the loop of `ingest`. `present`, `seen` and
`shadowed` are histories: the objects a connection was counted for, those a record of it
resolved, and those that did not resolve in the record that took the last slot.

### ConfigSync and Dashboard

`Init` is an empty database or one that schema version 1 has synced once, with a row
for each microtenant of an object. `Migrate` and `Stamp` are the two commits of
`migrate`, `LoadIndex` is `load_name_index`; `boot` is how far `run()` has got, and
`Restart` may come at any moment.

`zpa` maps an object to its name and to the microtenants whose listing contains it.
`PullTenant` is the loop body of `sync` for one microtenant (`paged_get` is taken as
one listing), `Commit` its transaction, `Publish` the assignment in `_sync_now`,
`FailSync` any exception. `Connect` keeps the index as `handle` does. `Access` is a
record as far as it matters here. `settled` and `settledAt` are histories: the objects that
have not changed since the sync in progress began, since the sync behind the table, behind
the index, behind the index of a stream; `mistaken` are those of them whose access was
counted for another. `Dashboard` adds `BeginReport` (`get_meta`),
`ReadObjects` (`_summary_rows`) and `ReadGhosts` (`_ghost_rows`); between any two a
sync or an access may happen; a restart takes the request with it. `wasUsed` and
`wasRetired` are the objects that were so at the request, `news` those first used or
refreshed between the first two statements.

### OneApiPull

`list` is what the service would list now, in its order; the microtenants are one of
its listings, and both kinds of entries are finite sets (`FiniteAssumption`: a tenant has
so many objects). `Create` inserts an entry at any place, `Delete` removes one, both while
the pull runs. `Answer` is one round of the loop in `paged_get` (its page of the
listing, then `IsLast`, `Turned` or `Returned`); `GetToken`, `Refused`, `Retry`, `Fail`
and `Unauthorized` are the branches of `token` and `_api_get`, `NotLicensed` the 404 of
`list_microtenants`. `pull.todo` and `pull.pulled` are the outer loop in `sync`. What
the service does is external and modelled from what the client relies on; that the
page count is the one of the moment is the least it may do.

### Receiver

A byte is known by its place in the stream and a line by the place of its newline
(`ends`), so that the buffer is two numbers: it holds the bytes behind `from`, up to
`pos`. `Lines` and `Remaining` are `iter_frames`, written with the set of newlines in the
buffer (`Ended`) and the place where each line starts (`Start`) instead of a loop, and
`KindOf` is what `parse_line` and the checks behind it make of the line; `Read` is one turn of the loop in `handle`, with every line in it processed, as there is no
`await` in between; `ReadRaises` is the turn in which a line raises. `Drop` is the end
of the stream or a reset. After either the sender connects again and goes on with a line
it has not begun (`Resumptions`); what it had sent meanwhile is `lost`. What the engine does with a record is in the other modules.

### CollectorLoop

`main` is what the main task awaits. `Wake`, `NightlyReturns`, `RequestedReturns`,
`FlushReturns`, `HeartbeatReturns` are the stretches of the loop between two awaits,
`SyncRaisesOut`, `Cancel` and `Close` its ends. `job` holds the executor jobs, which
go on when the main task is cancelled; `txn` is the one implicit transaction, so that
`CommitOthers` commits whatever the sync has written so far; `written` are the rows
`SyncWrites` has been through, each once, rolled back by another job or not. An hour is a
tick. The evidence in memory is one row with its dirty flag, which a flush clears after its
commit, and `waiting` follows one chosen record through it. It is chosen among those counted
while no flush is writing the row: what happens to the others is in `CounterEngine`.
`Window` and `Gaps` are `coverage_summary`.

### Verdict

`mem.row` and `disk.row` are the `CounterRow` and the `usage_counter` row of one object;
`log` beside each is the list of the records it summarizes, which the program does
not have. `Touched` is `_touch` with `Trimmed` (the histogram) and `Sampled` (the
users), `Ingest` caps a date at the clock as the code does. `DaysIdle`, `Band`,
`ObservedDays`, `Capped` are what `_classified_rows` reads out of a row. Records of one
object only: rows do not share anything.

## 3. Runs

| run | asks | expects |
|---|---|---|
| `engine` | is evidence ever invented, ahead of memory, or lost other than by the known race; does a clean stop store what was dirty | pass |
| `engine_promise` | does the engine implement `DurableStore`; does a dirty row reach the table | pass |
| `engine_lost_dirty` | is a clean row stored as it is | violation |
| `dedup` | is every object of a connection counted that its records name, a recount never without cause, and a slot freed in time | pass |
| `config_two_scopes` | is only what is gone retired, when an object is listed under two microtenants | violation |
| `config_stale_stream` | is an access counted that the current index can resolve | violation |
| `report` | is a lasting object kept, in one row, through migration and syncs; is an unchanged object's access ever counted for another; are there ghosts; whom may a report call retired, and is it never silent about used objects | pass |
| `receiver` | does every line arrive, wherever reads cut the stream, with a bounded buffer | pass |
| `loop` | nightly sync, requests, coverage and its report, storing what no flush was just writing; no partial sync unless one is cancelled | pass |
| `loop_shutdown` | no partial sync, when a sync is cancelled | violation |
| `pull` | does a pull that succeeds have everything, whatever changes and fails; does it end | pass |
| `verdict` | is a row the summary of its records, and its line in a report right | pass |

### What they show

* `engine`: no interleaving of counting, flushing, failing, dying and cancelling makes
  the table or memory claim a hit, a date or a brokered session that no record gave
  (`NoFalseEvidence`), and a running process always knows at least what is stored
  (`DbNeverAhead`). A clean row has a stored date (`PresenceDurable`), so the verdict
  "never used" is not reached by a race. `OnlyRacesLoseHits` pins the one race that
  loses a hit to the window in which a flush that picked the row is running. Both
  leave out the shutdown that overlaps a running flush, in which two flushes may roll
  back each other's transaction. A clean stop has stored at least what was dirty when it began
  (`CleanStopIsComplete`). What memory knows beyond that may be lost in two ways: a key is
  hit during the shutdown, as the server is closed after the flush, or it was hit in the
  race of an earlier flush, was marked clean then and never became dirty again.
* `engine_lost_dirty`: that race. A hit counted between the read of a row and the loop
  that clears the flags is marked clean unwritten; its `last_seen` stays off the disk
  until the next hit on the row.
* `engine_promise`: seen from the database, the engine is a store in which memory only
  grows, disk only grows up to memory, and a restart falls back to disk. A row that is dirty
  while no running flush has picked it reaches the table as it is or later, never as an
  older image (`DirtyRowIsFlushed`), if the process lives, the database recovers and
  syncs end.
* `dedup`: the cutoff is exact, and neither loss nor replay nor reordering hides an
  object, except one whose own name did not resolve in the record that took the slot,
  be it that the other names did (`SeenIsCounted`).
* `report`, `config_two_scopes`: an object that ZPA listed throughout is not retired,
  unless it was created while the microtenants were being listed and two of them list
  it. Then it may be stored under the second first and under the first by the next
  sync, and the row left behind is never refreshed again.
* `report` also starts from a version 1 database: whichever rows the migration finds
  and wherever it is interrupted, an object has one row when the collector is up, and
  the one that is kept is the one the next sync refreshes (`OneRowEach`,
  `SteadyIsKept`; keeping the last row instead would retire every object that two
  microtenants list).
* `config_stale_stream`: a connection that outlives a sync does not learn a new name.
* `report`: the statements of a report need not see the same sync. No used object is
  called silent, whatever falls between them, and as usage never precedes its config
  row (`NoGhosts`) none is shown as a ghost. Every object that was retired at the request
  is called so; the others called so were first used, or refreshed by a sync, between the
  first two statements (`RetiredOfItsTime`, see 5).
* `report`: an object that has not changed since the sync behind a stream's index began has
  its accesses counted for itself or, if its name is ambiguous there, for nobody
  (`UsageIsEarned`), however old the index is and whether it was published or read back
  after a restart. An object that was created or renamed since has no such promise (see 5).
* `pull`: an object that is listed throughout is pulled for every microtenant that is
  there throughout, as long as nothing is deleted from the listing being read. New
  objects at any place, refusals, a shrinking number of pages or an expired token
  never make a shorter pull look complete (`PullIsComplete`, `PullEnds`).
* `verdict`: late records, a trimmed date that comes back and a clock set back leave the
  row the exact summary of its records; bands round the right way at both thresholds
  and at every hour; medium confidence may be given a little less than a day early and
  never more (`ConfidenceIsEarned`); a sample not called capped is everyone.
* `receiver`: where the reads cut the stream makes no difference to any line that is
  not too long, the two length checks of `iter_frames` agree, and besides whole lines
  only the tail of an over-long line is ever processed, which is no JSON object.
* `loop`, `loop_shutdown`: shutdown commits half a sync when it interrupts one.
* `loop`: an outage of n hours shows as at least n - 1 gaps in any window
  (`OutageShows`), a record is covered in its hour or a later one unless the process
  or the heartbeat fails (`HeardIsCovered`).
* `loop`: a record counted while no flush is writing its row is stored or health stops saying
  OK, if pulls end (`StoredOrLoud`). A record counted during the write is not followed: it may
  stay off the disk with health OK, which is what `engine_lost_dirty` shows.

### Bounds

| bound | value | why it is enough (the theorems of section 4 hold for every value) |
|---|---|---|
| `Keys` | 2 | a flush fails at the second row after writing the first; no property relates three rows |
| `Stamps` | {1, 2} | a later and an earlier date; liveness uses one, as no date is tested |
| `MaxHits` | 3 | a row hit before, during and after a flush, or two rows and a race on one |
| `Conns`, `TTL`, `MaxTime` | 2, 2, 5 | connections share only the eviction; two TTLs pass |
| `Dims` | 2 | one name resolves and the other does not; the code treats all five alike |
| `MaxLosses`, `MaxReplays`, `MaxRestarts` | 1 each | each may fall anywhere; the theorems hold for every value |
| `Objs`, `Names`, `TenantOrder` | 2, 2, 2 | an ambiguous name, a swap of names, one scope before the other |
| `MaxChanges`, `MaxSyncs`, `MaxRestarts` | 2, 2, 1 in `report` (none restarted in the `config_` runs) | with the database `Init` chooses, an object renamed and deleted, or a name that passes from one to the other; a sync before and after; a restart anywhere, also in the migration |
| `Objs`, `Tenants`, `PageSize` in `OneApiPull` | 3, 1, 2 | two pages that become one or the reverse; one listing after the other |
| `MaxChanges` in `OneApiPull` | 2 | one entry shifts another over the page border and back |
| `Count`, `Lengths` | 3, {0, 2, 3, 6} | a line with a neighbour on both sides; empty, just short enough, just too long, and long enough for its head to be discarded twice or once with a tail that fits |
| `MaxLine`, `MaxRead`, `MaxDrops` | 2, 4, 1 | a read ends inside a line or spans three; a reset anywhere |
| `MaxBytes` | 21 | the three longest lines with their newlines: it excludes no stream |
| `Objs` in `CollectorLoop` | 2 | a sync in the middle of its rows |
| `Day`, `MaxHour` | 2, 3 | two nights, with another hour between and after them |
| `MaxHits`, `Users`, `Cap` in `Verdict` | 4, 3, 2 | a user returns after the sample was full; a dropped date returns |
| `Day`, `Keep`, `MaxHour` in `Verdict` | 2, 2, 5 | three dates for a histogram of two; every offset of an hour within a day |
| `Warm`, `Stale`, `Medium` | 0, 1, 2 | every band on both sides of its threshold; 7, 30 and 90 in the code |

Deadlock is checked in every run but `receiver`, whose sender has only so many lines
and then falls silent.

### Fairness

* `CounterEngine!Fairness`: the event loop finishes the record it counts (weak, it
  does not pause); the main task gets its turn among any number of records (strong,
  as a record disables it again and again, while asyncio's ready queue is
  first-in first-out); an executor thread that was given a job makes progress (weak).
  Nothing is assumed about records, cancellation, crashes or restarts.
* `DatabaseRecovers`: from some point on no statement fails. Without it a flush may
  fail for ever and the code can only report AT-RISK; with it, the row must be retried.
* `SyncsEnd`: what the main task awaits between two flushes ends (strong, as records
  interrupt the main task). The code does not guarantee it: a sync retries 429 and 503 for
  ever (`oneapi.py:84`). `DirtyRowIsFlushed` needs both, and the code gives neither.
* `CollectorLoop!LoopSpec`: the same for the loop and its jobs. The pull of a sync is
  left out on purpose, as `_api_get` retries for ever; `PatientSpec` adds that every
  pull ends, with an answer or an error; `loop` runs under it. Without it, records need not be
  stored, and nothing is loud (see 5).
* `CollectorLoop!Tick`: a pass of the loop without a sync takes less than an hour. `load_settings`
  does not check it: `FLUSH_SECONDS` (`config.py:99`), the length of the sleep, may be anything.
* `OneApiPull!Fairness`: a refused request is asked again (weak), and the service
  answers one that is asked again and again at last (strong): the code itself has no
  limit. No fairness on `Fail`, on the token's expiry or on what changes.

## 4. Proofs

All theorems hold for every value of the constants under the assumptions named in the
modules, which say what a constant is and no more: `NoKey`, `NoName`, `NoTenant`, `NoUser`,
`NoHour` and `Micro` are none of the values they stand beside; stamps, the TTL, the page
size, the caps and the lengths of the day are positive; thresholds are natural; `TenantOrder`
lists no microtenant twice; the sets of objects and microtenants of a pull are finite.
A cancel point is a place where the main task awaits, an object is listed under some
microtenant. Every safety invariant and every action property that a passing run checks is
proved; `NoPartialSync` and the refinement `KeepsPromise` are proved
under the hypotheses that the violated runs and section 5 show to be needed.

**CounterEngineProofs.** `TypeCorrect` is inductive by itself; it says among other
things that only resolved keys are counted or written. `NoFalseEvidence` is not
inductive: a commit stores what a flush read some time ago, and a crash between read
and commit must not matter. `EvidenceInv` orders all copies of a row by `Leq`
("carries no evidence that the other does not"):

    head read by a flush <= row,  written on the connection <= row,
    table <= row,  row <= truth,  and for the row in the middle of being
    counted, even with its missing half added, row <= truth

plus that a process that is down has no jobs, no transaction and no record half
counted. Each copy is taken from a larger one and the larger ones only grow, so each
action keeps the order; the algebra is in the lemmas on `Leq`, `Counted` and `Dated`.
From it follow `NoFalseEvidenceEver` and `DbIsNeverAhead`.

What is lost depends on when a flag is cleared, so the
invariant follows a row through a flush. `Schedule` says which jobs can run together: a
cancelled flush and the shutdown flush, and no others. `DatedInv`: a row that was counted has
a date, except while its record is half counted. The rest, `AloneInv`, holds as
long as no two flushes overlap: what a flush picked is still dirty, the open transaction is
exactly the rows it has written, a picked row that no hit raced with is the same in memory,
in the head that was read and in the transaction, and after the commit on disk
(`CalmIsExact`); a row about to be marked clean is stored with a date
(`ClearIsStored`); so a clean row is (`CleanIsStored`). From these follow
`PresenceIsDurable`, `OnlyRacesLoseHitsEver` and, with `LastFlushTakesAll`,
`CleanStopStoresWhatIsDirty`. For its first half, that what was dirty when the shutdown began
is stored whatever raced, `DueInv` follows such a row: it is dirty until the last flush picks
it, then still to be read, in the head, in the transaction, in the table, each at least as
late (`OnItsWay`). None of the parts is inductive without the others: that clearing a
flag is safe depends on the commit before it, and that on the row not having changed since.

For the refinement, `DbBelowTxn` adds that a commit takes nothing back: what is written
carries all that is stored. Every step then maps to a step of `DurableStore` or to a
stutter. `KeepsPromiseAlone` has the hypothesis `[]~Overlapped`: two flushes that share a
transaction do break the promise (section 5). It is met by every process that is
cancelled while it sleeps (`KeepsPromiseWhenCancelledAsleep`), as in the run
`engine_promise`, and by every behaviour in which no cancelled flush outlives its awaiting.

**ConnectionDedupProofs.** `DedupInv` adds to `NoExpiredSlot` that the last eviction
is not in the future, and that a connection counted and not freed since either still
holds a slot no younger than its count, or was counted at least a TTL ago. The second
part is what makes a recount need a cause: to be counted the slot must be free.
`SlotsExpire`, `RecountsHaveCause` (an action property) and `SeenIsAlwaysCounted`
(an object seen behind a slot was counted by the record that took it, or shadowed by it)
follow.

**ConfigSyncProofs.** `KnownInv` says that the published index, the one of each stream and a
pull about to be published hold ids of the committed table only; no row is ever deleted but
the second one of an object. `NoGhostsEver` needs all of it, as a stream may use an index of long ago.
`EarnedInv` follows an object that has not changed from what is pulled to the table, to the
index that is published or read back, to the index a stream took: each has it under the name
it carries now. Its name therefore resolves to it there or, being ambiguous, to nothing, but
never to another object (`UsageIsEarnedEver`).
`HomeInv` is for `SteadyIsKeptEver` and `OneRowEver`. The home of an object is the first of
its microtenants in the order they are listed. Unless the object was created while they were
being listed, it is pulled and stored under its home (`HomeStored`, `HomePulled`), or what is
not pulled yet is still to come (`NotYetListed`); after the migration that is its
only row (`OneRow`), so that the commit finds it (`SamePlace`) and refreshes it
(`ConfirmedFresh`). The migration is part of the induction: it keeps the row of the home.

**DashboardProofs.** A report changes nothing of the system (`SystemUndisturbed`: `DSpec`
implies `Spec`), so the invariants above hold beside it. `UsedIsReportedUsedEver` is that
usage only grows and the rows of a report are read after the set it compares
with. For `RetiredOfItsTimeEver`, `StampInv` has that no stored row is newer than the last
sync and that the next one to commit is, and `OldRows` that a row that is old at the request and
not refreshed until the rows are read is old then as well; what was refreshed or first
used in between is in `news`.

**CollectorLoopProofs.** `TurnInv` is whose turn it is: before the shutdown only the awaited
job runs. With it an open transaction belongs to one job, and no commit takes half a sync
(`TableInv`). `NoPartialSyncAlone` has the hypothesis `[]~Beside`, that no shutdown flush
runs beside a sync: `loop_shutdown` shows that it is needed. `NoPartialSyncEver` is
the case of the run `loop`, a main task that is never cancelled while it awaits a sync.
`HourInv` and `HeardInv` follow the heartbeat: an hour is stamped when a record was
counted since the flush before, so at most one covered hour is later than the last record.
`CoverageIsEarnedEver` and, by counting the hours of a window, `OutageShowsEver` follow.
`NightInv` says that as long as the clock has not struck since the top of the loop, an
hour of the nightly sync has had its sync or saw another one return (`NightIsNeverSkipped`);
that it strikes at most once between two tops, syncs apart, is an assumption of the model
(`Tick`): a flush and a heartbeat take less than an hour.

**OneApiPullProofs.** The invariant of the pages is `ReadInv`: in the listing being read, what
was there all the time is read already or at a place from the current page on. An entry that
is inserted shifts others to later places, which keeps it; one that is deleted does not, hence
`shrunk`. That the last page is recognised although the number of pages changes is the
step that ends a listing. `DoneInv` adds the outer loop: a microtenant that was there all
the time is being read, still to be read, or read in full. `TypeInv` has that
a listing holds an entry once. `PulledWhereListedEver` and `PullIsCompleteEver` follow.

**VerdictProofs.** `DateInv`: the first and last date of a row are dates of its records, no
record is later than the last, and the row on disk is no later than the one in memory. With
the arithmetic of whole days (`DivMonotone`, `DivApart`, `IdleWithin`) this gives
`BandIsRightEver`, `OnlyTimeCoolsEver` and `ConfidenceIsEarnedEver` for every day length and
threshold. `SummaryInv` is about the two bounded parts. The histogram is that of the `Keep`
newest dates: the lemma `NewestAgain` says that to trim before a date is added and again
after it is to trim once at the end, so a date dropped early never comes back with fewer
hits. The sample is ordered by last hit, has with a user everyone who came later, and
has everyone while it is shorter than the cap (`SampleRight`): `SummaryIsExactEver`,
`UncappedIsEveryoneEver`, and `TypeCorrect` with the bounds of both parts.

**ReceiverProofs.** What the buffer holds is not enough to know what the next newline ends:
the head of a line may be gone. `HeadGone` says that what is missing at the head is by
itself longer than a line may be, so a line whose newline comes is whole if it is
short (`LineFacts`). It is kept because `iter_frames` discards a partial line only past the same
limit (`RemainingFacts`), and because a connection begins with a line (`ResumptionFacts`).
`NoEndInside`: no newline waits in the buffer, so each line is framed once. With
`OverBefore`, that what was processed or lost ends before the buffer begins, the lines of
a read come behind all earlier ones (`HistoryKept`). `ShortLinesArriveEver`,
`OnlyTailsEver`, `BufferIsBounded` and `TypeCorrect` follow, for all lengths, limits, reads
and resets; that a part of a line is no JSON object, an assumption of the model, is not used.

Only model-checked are the liveness properties `DirtyRowIsFlushed`, `PullEnds`,
`HeardIsCovered`, `RequestIsServed` and `StoredOrLoud`, as the prover does not reach ENABLED
and fairness.

The types of `ConnectionDedup` are proved and not checked in a run; those of `ConfigSync` are
checked as a part of `DTypeOK`.

## 5. Differences between code and documentation

Four are shown by runs and listed as findings in `PROJECT.json`: `engine_lost_dirty`,
`config_two_scopes`, `config_stale_stream`, `loop_shutdown`. Others were met while
modelling. These the models allow:

* A report that a sync overtakes between its first two statements has an old
  `last_config_sync` and new rows, and calls every used object retired that the sync has
  refreshed (`httpd.py:129`; `httpd.py:151` says "in config table but not refreshed this
  sync"). `RetiredOfItsTime` names them (`news`).
* Usage may go to an object that was not accessed: a stream keeps the index of its
  connect (`receiver.py:51`). When an object is deleted or renamed and another takes its
  name, an access of the new one on that stream is counted for the former holder of the name,
  which then looks used. `UsageIsEarned` promises nothing to an object that changed
  after the sync behind the index began. When an index read back after a restart has both,
  deleted rows included (`config_sync.py:162`), the name is ambiguous and the access is
  counted for nobody; before the new holder is stored it goes to the old one.
* 429 and 503 are retried without limit inside a sync that the main loop awaits: as
  long as ZPA refuses, nothing is flushed, and health, which promises "loud, non-silent
  degradation" (`health.py:1`), has nothing to report. `PatientSpec` and
  `OneApiPull!Fairness` assume it away.
* An entry deleted from a page already read shifts another over the border: the pull
  succeeds without it, and it is retired until the next sync. `PullIsComplete` names
  the exception (`shrunk`).
* The token is never renewed within a pull; when it expires, the sync fails.
* A page without `list` or `totalPages` is taken for an empty and last one
  (`oneapi.py:105-106`): the pull succeeds without the rest of the listing. `Answer` assumes
  that the service omits them only where there is nothing to list.
* A connection that outlives the TTL is counted again at its close, as is one whose
  slot was freed by a close that overtook its open (`README.md:255-256`, "they're
  collapsed to one count"). `RecountNeedsCause` names these causes.
* The dedup slot is taken before the five names are resolved, each on its own
  (`counters.py:73`, `counters.py:87-96`). An object whose name does not resolve in the first
  record, be it that the others do, is not counted by the later records of the connection
  even if its name is known by then, so "presence/last_seen stay correct"
  (`counters.py:7-8`) is not true of it. `SeenIsCounted` names the exception, object by object.
* A record counted while a flush is writing its row is marked clean unwritten
  (`engine_lost_dirty`), with health OK. `StoredOrLoud` follows no such record, and
  `CleanStopIsComplete` does not promise that a clean stop stores it.
* Records counted while the shutdown flush runs, or before the server is closed after
  it, are lost, and a shutdown that overlaps a flush may even set the table back.
* The head of an over-long line is dropped, and its tail may be taken for a line of
  its own (`receiver.py:15`, "is dropped"). `OnlyTailsBesides` bounds what follows.
  Nor is it counted, as `.env.example:19` says.

These are outside of the models:

* `asyncio.run` cancels the main task at SIGINT only: a container stopped by SIGTERM
  ends without its last flush (`Crash` in the models).
* A `Retry-After` that is an HTTP date has its digits joined to one number of seconds
  (`oneapi.py:27`), a wait of thousands of years.
* `GET_PAUSE` is kept between the pages of a listing only, not between the listings
  (`oneapi.py:16`, "seconds between GETs").
* `RECENT_USERS_MAX=0` makes `user_sample[-0:]` keep everyone (`Cap` is positive here);
  raised across a restart, it makes `user_sample_capped` false although users were dropped.
* `FLUSH_SECONDS` has no upper bound (`config.py:99`). Where it is an hour or more, the loop
  may sleep through the hour of the nightly sync (`Tick` assumes that it is less).
* `WINDOW_DAYS` and the `window` of a request are not checked: zero or less gives no
  or negative gaps.
* Health does not call a stream stale if no record has come since the start
  (`health.py:83`).
* Server groups and connector groups have no field in the log, so they are always silent.

## 6. Not modelled

* Parsing, formatting, CSV and JSON, authentication, TLS, static files, the command
  line, the self test and the synthetic sender: pure functions or I/O, where unit
  tests reach what a model would.
* The label of a row and `updated_at`: they decide nothing.
* `config_edge`: written, never read. The lookup by microtenant: not used by `ingest`.
* Loop lag and staleness in `health.py`: wall-clock thresholds over logged values.
* A flush in the middle of a shutdown flush, in `Verdict`: a flush is one step there. That two
  of them may set a row back is in `CounterEngine`.
* How long a retry or a pause waits: the models have no time where only order matters.
* `SyncResult.retired_ids`: computed and never read. `usage_state`: never called.

## 7. Plan

Built: the counter engine (first, as everything else reports what it stored), dedup,
the config sync with the migration, the pull, the report, the verdict, the receiver
and the main loop. Proved: all their safety properties and the refinement of
`DurableStore`, under the hypotheses section 4 names. The liveness properties stay with TLC.
