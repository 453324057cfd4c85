------------------------- MODULE CollectorLoopProofs -------------------------
(***************************************************************************)
(* Proofs about CollectorLoop for every set of config objects, every hour  *)
(* of the nightly sync and length of the day, every set of points where    *)
(* the main task may be cancelled, and every number of hours.              *)
(***************************************************************************)
EXTENDS CollectorLoop, TLAPS, FiniteSetTheorems

USE DayAssumption, NoHourAssumption, CancelAssumption

(***************************************************************************)
(* Whose turn it is.  Before the shutdown only the job that the main task  *)
(* awaits is not idle; a process that has ended has no jobs.               *)
(***************************************************************************)
OnlyJob(J) == \A j \in Kinds \ J : job[j] = "idle"

Turns ==
  /\ main \in Syncing => OnlyJob({"sync"})
  /\ main = "flush" => OnlyJob({"flush"})
  /\ main = "heartbeat" => OnlyJob({"heartbeat"})
  /\ main = "sleep" \/ ~Up => OnlyJob({})

Mains == Awaited \cup {"final", "stopped", "dead"}
Pcs == {"idle", "begin", "write", "ok", "failed", "raised"}

TurnInv ==
  /\ main \in Mains /\ job \in [Kinds -> Pcs]
  /\ Turns

\* A step of a job: it is not idle, and no other job moves.
JobMoves(j, pc) == main' = main /\ job[j] # "idle" /\ Goes(j, pc)

LEMMA JobSteps ==
  ASSUME SyncStep \/ Heartbeat \/ \E f \in Flushes : FlushStep(f)
  PROVE  \/ main' = main /\ job' = job
         \/ \E j \in Kinds, pc \in Pcs : JobMoves(j, pc)
<1> USE DEF JobMoves, Kinds, Pcs
<1>1. CASE SyncStep
  BY <1>1 DEF SyncStep, SyncPulls, SyncCommits, SyncFails, SyncWrites
<1>2. CASE Heartbeat
  BY <1>2 DEF Heartbeat
<1>3. ASSUME NEW f \in Flushes, FlushStep(f) PROVE \E pc \in Pcs : JobMoves(f, pc)
  BY <1>3 DEF FlushStep, FlushNothing, FlushWrites, FlushCommits, FlushFails
<1> QED
  BY <1>1, <1>2, <1>3 DEF Flushes

LEMMA Submitted ==
  ASSUME NEW j \in Kinds, NEW m, Submit(j, m)
  PROVE  /\ main' = m /\ job' \in [Kinds -> Pcs] /\ job'[j] = "begin"
         /\ \A i \in Kinds \ {j} : job'[i] = "idle"
  BY DEF Submit, NoJobs, Pcs

\* What the steps of the main task do to the jobs.
LEMMA MainSteps ==
  ASSUME MainStep
  PROVE  \/ SubmitSync("nightly") /\ main = "sleep"
         \/ SubmitSync("requested") /\ main \in {"sleep", "nightly"}
         \/ Submit("flush", "flush") /\ main \in {"sleep", "nightly", "requested"}
         \/ Submit("heartbeat", "heartbeat") /\ main = "flush"
         \/ main' \in {"sleep", "dead", "stopped"} /\ job' = NoJobs
  BY DEF MainStep, Wake, NightlyReturns, RequestedReturns, CheckRequest, SyncRaisesOut,
         FlushReturns, Beat, HeartbeatReturns, Close, Die

LEMMA TurnInit == Init => TurnInv
  BY DEF Init, TurnInv, Turns, OnlyJob, NoJobs, Mains, Pcs, Awaited, Syncing, Up

LEMMA TurnStep == TurnInv /\ [Next]_vars => TurnInv'
<1> SUFFICES ASSUME TurnInv, [Next]_vars PROVE TurnInv'
  OBVIOUS
<1>k. {"sync", "flush", "heartbeat", "final"} = Kinds
  BY DEF Kinds
<1>t. /\ main \in Mains /\ job \in [Kinds -> Pcs] /\ Turns
  BY DEF TurnInv
<1>1. ASSUME main' = main, job' = job PROVE TurnInv'
  BY <1>1 DEF TurnInv, Turns, OnlyJob, Up
<1>2. ASSUME NEW j \in Kinds, NEW pc \in Pcs, JobMoves(j, pc) PROVE TurnInv'
  <2>1. /\ main' = main /\ job' \in [Kinds -> Pcs] /\ job[j] # "idle"
        /\ \A i \in Kinds \ {j} : job'[i] = job[i]
    BY <1>2, <1>t DEF JobMoves, Goes
  <2> QED
    BY <1>t, <2>1 DEF TurnInv, Turns, OnlyJob, Up
<1>3. ASSUME main' \in {"sleep", "dead", "stopped"}, job' = NoJobs PROVE TurnInv'
  BY <1>3 DEF TurnInv, Turns, OnlyJob, NoJobs, Mains, Pcs, Awaited, Syncing, Up
<1>4. ASSUME NEW j \in {"sync", "flush", "heartbeat"}, NEW m \in Awaited, Submit(j, m),
             m \in Syncing => j = "sync", m = "flush" => j = "flush",
             m = "heartbeat" => j = "heartbeat", m # "sleep"
      PROVE  TurnInv'
  BY <1>4, <1>k, Submitted DEF TurnInv, Turns, OnlyJob, Mains, Awaited, Up
<1>5. CASE MainStep
  <2>1. \/ Submit("sync", "nightly") \/ Submit("sync", "requested")
        \/ Submit("flush", "flush") \/ Submit("heartbeat", "heartbeat")
        \/ main' \in {"sleep", "dead", "stopped"} /\ job' = NoJobs
    BY <1>5, MainSteps DEF SubmitSync
  <2> QED
    BY <2>1, <1>3, <1>4 DEF Awaited, Syncing
<1>6. CASE SyncStep \/ Heartbeat \/ \E f \in Flushes : FlushStep(f)
  BY <1>1, <1>2, <1>6, JobSteps
<1>7. ASSUME NEW m \in CancelPoints, Cancel(m) PROVE TurnInv'
  <2>1. main' = "final" /\ job' \in [Kinds -> Pcs]
    BY <1>7, <1>t DEF Cancel, Pcs
  <2> QED
    BY <2>1 DEF TurnInv, Turns, Mains, Awaited, Syncing, Up
<1>8. CASE Record \/ Request \/ Tick
  BY <1>1, <1>8 DEF Record, Request, Tick
<1>9. CASE Crash
  BY <1>3, <1>9 DEF Crash, Die
<1>10. CASE Restart
  <2>1. main' = "sleep" /\ job' = job /\ OnlyJob({})
    BY <1>10, <1>t DEF Restart, Turns
  <2> QED
    BY <2>1, <1>t DEF TurnInv, Turns, OnlyJob, Mains, Awaited, Syncing, Up
<1>11. CASE UNCHANGED vars
  BY <1>1, <1>11 DEF vars
<1> QED
  BY <1>5, <1>6, <1>7, <1>8, <1>9, <1>10, <1>11 DEF Next

(***************************************************************************)
(* The config table.  While no shutdown flush runs beside a sync, what the *)
(* sync has written and not committed is nobody else's to commit.          *)
(***************************************************************************)
Beside == main = "final" /\ job["sync"] # "idle"

TableInv ==
  /\ txn # {} => job["sync"] = "write"
  /\ written = txn
  /\ NoPartialSync

LEMMA TableInit == Init => TableInv
  BY DEF Init, TableInv, NoPartialSync, NoJobs

LEMMA TableStep == TurnInv /\ ~Beside /\ TableInv /\ [Next]_vars => TableInv'
<1> SUFFICES ASSUME TurnInv, ~Beside, TableInv, [Next]_vars PROVE TableInv'
  OBVIOUS
<1> USE DEF dbVars, Kinds
<1>t. /\ main \in Mains /\ job \in [Kinds -> Pcs] /\ Turns
  BY DEF TurnInv
<1>1. ASSUME UNCHANGED <<written, txn, off>>, txn # {} => job'["sync"] = "write" PROVE TableInv'
  BY <1>1 DEF TableInv, NoPartialSync
<1>2. ASSUME txn' = {}, written' = {}, off' = off \/ off' = {} PROVE TableInv'
  BY <1>2 DEF TableInv, NoPartialSync
\* Whoever else is at work, the sync is idle.
<1>3. ASSUME NEW j \in Kinds \ {"sync"}, job[j] # "idle" PROVE txn = {} /\ job["sync"] = "idle"
  BY <1>t, <1>3 DEF Turns, OnlyJob, Beside, TableInv, Mains, Awaited, Syncing, Up
<1>4. CASE MainStep
  <2>1. \/ txn' = {} /\ written' = {}
        \/ UNCHANGED <<written, txn>> /\ job["sync"] # "write"
    <3>1. main \in {"sleep", "flush", "heartbeat"} => job["sync"] = "idle"
      BY <1>t DEF Turns, OnlyJob
    <3> QED
      BY <1>4, <3>1 DEF MainStep, Wake, NightlyReturns, RequestedReturns, CheckRequest,
         SyncRaisesOut, FlushReturns, Beat, HeartbeatReturns, Close, Die, Returned
  <2>2. off' = off
    BY <1>4 DEF MainStep, Wake, NightlyReturns, RequestedReturns, SyncRaisesOut,
                FlushReturns, HeartbeatReturns, Close
  <2> QED
    BY <1>1, <1>2, <2>1, <2>2 DEF TableInv
<1>5. CASE SyncPulls
  BY <1>5, <1>t DEF SyncPulls, Goes, TableInv, NoPartialSync
<1>6. ASSUME NEW o \in Objs, SyncWrites(o) PROVE TableInv'
  BY <1>6 DEF SyncWrites, TableInv, NoPartialSync
<1>7. CASE SyncCommits \/ SyncFails
  BY <1>2, <1>7 DEF SyncCommits, SyncFails, TableInv
<1>8. CASE Heartbeat
  <2>1. job["heartbeat"] # "idle"
    BY <1>8 DEF Heartbeat
  <2>2. txn = {} /\ written = {}
    BY <1>3, <2>1 DEF TableInv
  <2>3. txn' = {} /\ written' = {} /\ off' = off
    BY <1>8, <2>2 DEF Heartbeat, CommitOthers
  <2> QED
    BY <1>2, <2>3
<1>9. ASSUME NEW f \in Flushes, FlushStep(f) PROVE TableInv'
  <2>1. job[f] # "idle" /\ f \in Kinds \ {"sync"}
    BY <1>9 DEF FlushStep, FlushNothing, FlushWrites, FlushCommits, FlushFails, Flushes
  <2>2. txn = {} /\ written = {}
    BY <1>3, <2>1 DEF TableInv
  <2>3. txn' = {} /\ written' = {} /\ off' = off
    BY <1>9, <2>2 DEF FlushStep, FlushNothing, FlushWrites, FlushCommits, FlushFails,
                      CommitOthers
  <2> QED
    BY <1>2, <2>3
<1>10. ASSUME NEW m \in CancelPoints, Cancel(m) PROVE TableInv'
  <2>1. txn # {} => job'["sync"] = "write"
    BY <1>10, <1>t DEF Cancel, TableInv
  <2> QED
    BY <1>1, <1>10, <2>1 DEF Cancel
<1>11. CASE Record \/ Request \/ Tick
  BY <1>11, <1>1 DEF Record, Request, Tick, TableInv
<1>12. CASE Crash
  BY <1>12, <1>2 DEF Crash, Die
<1>13. CASE Restart
  BY <1>13, <1>1 DEF Restart, TableInv
<1>14. CASE UNCHANGED vars
  BY <1>14, <1>1 DEF vars, TableInv
<1> QED
  BY <1>4, <1>5, <1>6, <1>7, <1>8, <1>9, <1>10, <1>11, <1>12, <1>13, <1>14
     DEF Next, SyncStep

LEMMA TurnInvariant == Spec => []TurnInv
  BY TurnInit, TurnStep, PTL DEF Spec

\* Whatever crashes, failures, requests and shutdowns there are: as long as no
\* shutdown flush runs beside a sync, the table never shows a part of a sync.
THEOREM NoPartialSyncAlone == Spec /\ []~Beside => []NoPartialSync
<1>1. TableInv => NoPartialSync
  BY DEF TableInv
<1> QED
  BY <1>1, TurnInvariant, TableInit, TableStep, PTL DEF Spec

\* A main task that is never cancelled while it awaits a sync never has the
\* shutdown flush beside one.
THEOREM NoPartialSyncEver ==
  ASSUME CancelPoints \cap Syncing = {}
  PROVE  Spec => []NoPartialSync
<1>1. Init => ~Beside
  BY DEF Init, Beside
<1>2. TurnInv /\ ~Beside /\ [Next]_vars => ~Beside'
  <2> SUFFICES ASSUME TurnInv, ~Beside, [Next]_vars, main' = "final"
               PROVE  job'["sync"] = "idle"
    BY DEF Beside
  <2>t. job \in [Kinds -> Pcs] /\ Turns
    BY DEF TurnInv
  <2>1. ASSUME NEW m \in CancelPoints, Cancel(m) PROVE job'["sync"] = "idle"
    <3>1. m = main /\ main \in Awaited \ Syncing
      BY <2>1 DEF Cancel
    <3>2. job["sync"] = "idle"
      BY <2>t, <3>1 DEF Turns, OnlyJob, Kinds, Awaited, Syncing
    <3> QED
      BY <2>1, <3>2 DEF Cancel, Kinds
  <2>2. CASE main = "final" /\ job["sync"] = "idle" /\ job'["sync"] # "idle"
    <3>1. ~MainStep
      BY <2>2, MainSteps DEF SubmitSync, Submit, MainStep, Close
    <3> QED
      BY <2>1, <2>2, <2>t, <3>1 DEF Next, SyncStep, SyncPulls, SyncWrites, SyncCommits,
         SyncFails, Heartbeat, FlushStep, FlushNothing, FlushWrites, FlushCommits,
         FlushFails, Flushes, Goes, Kinds, Record, Request, Tick, Crash, Die, Restart, vars
  <2>3. CASE main # "final"
    <3>1. ~MainStep
      BY <2>3, MainSteps DEF SubmitSync, Submit
    <3>2. ~(SyncStep \/ Heartbeat \/ \E f \in Flushes : FlushStep(f))
      BY <2>3, JobSteps DEF JobMoves
    <3> QED
      BY <2>1, <2>3, <3>1, <3>2 DEF Next, Record, Request, Tick, Crash, Die, Restart, vars
  <2> QED
    BY <2>2, <2>3 DEF Beside
<1> QED
  BY <1>1, <1>2, TurnInvariant, NoPartialSyncAlone, PTL DEF Spec

(***************************************************************************)
(* The hours.  A heartbeat carries the hour in which it was submitted, and *)
(* is submitted only when a record was counted since the flush before; so  *)
(* at most one covered hour is later than the last record.                 *)
(***************************************************************************)
Beating == job["heartbeat"] = "begin"

HourInv ==
  /\ hour \in Nat /\ covered \subseteq 0..hour
  /\ heard \in 0..hour \cup {NoHour}
  /\ Beating => stamp \in 0..hour

HeardInv ==
  /\ heard = NoHour => covered = {}
  /\ fresh \/ Beating => heard # NoHour /\ \A g \in covered : g <= heard
  /\ fresh /\ Beating => stamp <= heard
  /\ \A g, h \in covered : g > heard /\ h > heard => g = h

LEMMA HourInit == Init => HourInv /\ HeardInv
  BY DEF Init, HourInv, HeardInv, Beating, NoJobs, Kinds

LEMMA HourStep == TurnInv /\ HourInv /\ HeardInv /\ [Next]_vars => HourInv' /\ HeardInv'
<1> SUFFICES ASSUME TurnInv, HourInv, HeardInv, [Next]_vars PROVE HourInv' /\ HeardInv'
  OBVIOUS
<1> USE DEF loopVars, dbVars, health, clock, history, Kinds
<1>t. /\ main \in Mains /\ job \in [Kinds -> Pcs] /\ Turns
  BY DEF TurnInv
<1>1. ASSUME UNCHANGED <<covered, heard>>, fresh' => fresh,
             hour' = hour \/ hour' = hour + 1, Beating' => Beating /\ stamp' = stamp
      PROVE  HourInv' /\ HeardInv'
  BY <1>1 DEF HourInv, HeardInv
<1>2. ASSUME job'["heartbeat"] = "idle", UNCHANGED <<covered, heard, hour>>, fresh' => fresh
      PROVE  HourInv' /\ HeardInv'
  BY <1>1, <1>2 DEF Beating
<1>3. ASSUME NEW j \in {"sync", "flush"}, NEW m, Submit(j, m) PROVE job'["heartbeat"] = "idle"
  BY <1>3, Submitted
<1>4. CASE Wake \/ NightlyReturns \/ RequestedReturns
  <2>1. UNCHANGED <<covered, heard, hour, fresh>>
    BY <1>4 DEF Wake, NightlyReturns, RequestedReturns
  <2>2. job'["heartbeat"] = "idle"
    BY <1>3, <1>4 DEF Wake, NightlyReturns, RequestedReturns, CheckRequest, SubmitSync
  <2> QED
    BY <1>2, <2>1, <2>2
<1>5. CASE SyncRaisesOut \/ HeartbeatReturns \/ Close \/ Crash
  BY <1>2, <1>5 DEF SyncRaisesOut, HeartbeatReturns, Close, Crash, Die, NoJobs
<1>6. CASE FlushReturns
  <2>1. UNCHANGED <<covered, heard, hour>> /\ fresh' = FALSE
    BY <1>6 DEF FlushReturns
  <2>2. CASE Beat
    BY <2>1, <2>2 DEF Beat, HourInv, HeardInv, Beating
  <2>3. CASE job' = NoJobs
    BY <1>2, <2>1, <2>3 DEF NoJobs
  <2> QED
    BY <1>6, <2>2, <2>3 DEF FlushReturns
<1>7. CASE Heartbeat
  <2>1. /\ Beating /\ ~Beating' /\ UNCHANGED <<heard, hour, fresh>>
        /\ covered' = covered \/ covered' = covered \cup {stamp}
    BY <1>7, <1>t DEF Heartbeat, Goes, Beating
  <2>2. /\ stamp \in 0..hour /\ hour \in Nat /\ covered \subseteq 0..hour
        /\ heard \in 0..hour /\ \A g \in covered : g <= heard
        /\ fresh => stamp <= heard
    BY <2>1 DEF HourInv, HeardInv
  <2>3. HourInv'
    BY <2>1, <2>2 DEF HourInv
  <2>4. ASSUME NEW g \in covered', g > heard PROVE g = stamp
    <3>1. g \in covered => g \in Int /\ heard \in Int /\ g <= heard
      BY <2>2
    <3>2. g \notin covered
      BY <2>4, <3>1
    <3> QED
      BY <2>1, <3>2
  <2>5. fresh => \A g \in covered' : g <= heard
    BY <2>1, <2>2
  <2> QED
    BY <2>1, <2>2, <2>3, <2>4, <2>5 DEF HeardInv
<1>8. ASSUME SyncStep \/ \E f \in Flushes : FlushStep(f) PROVE HourInv' /\ HeardInv'
  <2>1. UNCHANGED <<covered, heard, hour, fresh, stamp>>
    BY <1>8 DEF SyncStep, SyncPulls, SyncWrites, SyncCommits, SyncFails, FlushStep,
                FlushNothing, FlushWrites, FlushCommits, FlushFails
  <2>2. job'["heartbeat"] = job["heartbeat"]
    BY <1>8, <1>t DEF SyncStep, SyncPulls, SyncWrites, SyncCommits, SyncFails, FlushStep,
                      FlushNothing, FlushWrites, FlushCommits, FlushFails, Goes, Flushes
  <2> QED
    BY <1>1, <2>1, <2>2 DEF Beating
<1>9. ASSUME NEW m \in CancelPoints, Cancel(m) PROVE HourInv' /\ HeardInv'
  BY <1>1, <1>9, <1>t DEF Cancel, Beating
<1>10. CASE Record
  BY <1>10 DEF Record, HourInv, HeardInv, Beating
<1>11. CASE Request \/ Tick
  BY <1>1, <1>11 DEF Request, Tick, Beating
<1>12. CASE Restart
  <2>1. job["heartbeat"] = "idle" /\ job' = job
    BY <1>12, <1>t DEF Restart, Turns, OnlyJob
  <2> QED
    BY <1>2, <1>12, <2>1 DEF Restart
<1>13. CASE UNCHANGED vars
  BY <1>1, <1>13 DEF vars, Beating
<1> QED
  BY <1>4, <1>5, <1>6, <1>7, <1>8, <1>9, <1>10, <1>11, <1>12, <1>13
     DEF Next, MainStep

LEMMA HourInvariant == Spec => [](HourInv /\ HeardInv)
  BY TurnInvariant, HourInit, HourStep, PTL DEF Spec

\* An hour becomes covered only if a record was counted no earlier than in the
\* last hour covered before, whatever fails, is cancelled or restarted.
THEOREM CoverageIsEarnedEver == Spec => CoverageIsEarned
<1>1. HourInv /\ HeardInv /\ [Next]_vars =>
        [\A h \in covered' \ covered :
           heard # NoHour /\ \A g \in covered : heard >= g]_vars
  <2> SUFFICES ASSUME HourInv, HeardInv, Next, NEW h \in covered', h \notin covered
               PROVE  heard # NoHour /\ \A g \in covered : heard >= g
    OBVIOUS
  <2>1. Beating
    BY DEF Next, MainStep, Wake, NightlyReturns, RequestedReturns, CheckRequest,
         SyncRaisesOut, FlushReturns, HeartbeatReturns, Close, SyncStep, SyncPulls,
         SyncWrites, SyncCommits, SyncFails, Heartbeat, FlushStep, FlushNothing,
         FlushWrites, FlushCommits, FlushFails, Cancel, Record, Request, Tick, Crash,
         Restart, Beating
  <2>2. heard # NoHour /\ \A g \in covered : g <= heard
    BY <2>1 DEF HeardInv
  <2> QED
    BY <2>2 DEF HourInv
<1> QED
  BY <1>1, HourInvariant, PTL DEF Spec, CoverageIsEarned

(***************************************************************************)
(* The gaps of a report.                                                   *)
(***************************************************************************)
\* Of the hours since the last record the window holds at most one covered.
LEMMA LateHours ==
  ASSUME HourInv, HeardInv, NEW low \in Int
  PROVE  LET late == {g \in covered \cap (low .. hour) : heard = NoHour \/ g > heard}
         IN  IsFiniteSet(late) /\ Cardinality(late) \in {0, 1}
<1> DEFINE late == {g \in covered \cap (low .. hour) : heard = NoHour \/ g > heard}
<1>1. \A g, h \in late : g = h
  BY DEF HeardInv
<1>2. late = {} \/ \E g \in late : late = {g}
  BY <1>1
<1> HIDE DEF late
<1>3. IsFiniteSet(late) /\ Cardinality(late) \in {0, 1}
  <2>1. CASE late = {}
    BY <2>1, FS_EmptySet
  <2>2. ASSUME NEW g \in late, late = {g} PROVE IsFiniteSet(late) /\ Cardinality(late) = 1
    BY <2>2, FS_Singleton
  <2> QED
    BY <1>2, <2>1, <2>2
<1> QED
  BY <1>3 DEF late

LEMMA GapsOfAnOutage ==
  ASSUME HourInv, HeardInv, NEW w \in Nat \ {0}
  PROVE  w - Cardinality(covered \cap (hour - w + 1 .. hour))
           >= (IF heard \in hour - w + 1 .. hour THEN hour - heard ELSE w) - 1
<1> DEFINE low == hour - w + 1
           late == {g \in covered \cap (low .. hour) : heard = NoHour \/ g > heard}
           heardOf == IF heard \in low .. hour THEN low .. heard ELSE {}
<1>h. /\ hour \in Nat /\ low \in Int /\ heard \in 0..hour \cup {NoHour}
      /\ covered \subseteq 0..hour
  BY DEF HourInv
<1>1. IsFiniteSet(late) /\ Cardinality(late) \in {0, 1}
  BY <1>h, LateHours
<1>2. /\ IsFiniteSet(heardOf)
      /\ Cardinality(heardOf) = IF heard \in low .. hour THEN heard - low + 1 ELSE 0
  <2>1. CASE heard \in low .. hour
    <3>1. heard \in Int /\ low <= heard /\ heardOf = low .. heard
      BY <1>h, <2>1
    <3> QED
      BY <1>h, <2>1, <3>1, FS_Interval
  <2>2. CASE heard \notin low .. hour
    BY <2>2, FS_EmptySet
  <2> QED
    BY <2>1, <2>2
<1>3. covered \cap (low .. hour) \subseteq late \cup heardOf
  <2> SUFFICES ASSUME NEW g \in covered, g \in low .. hour, g \notin late
               PROVE  g \in heardOf
    OBVIOUS
  <2>1. heard \in 0..hour /\ g <= heard /\ g \in Int
    BY <1>h
  <2> QED
    BY <1>h, <2>1
<1> HIDE DEF late, heardOf
<1>4. /\ IsFiniteSet(late \cup heardOf)
      /\ Cardinality(late \cup heardOf)
           = Cardinality(late) + Cardinality(heardOf) - Cardinality(late \cap heardOf)
  BY <1>1, <1>2, FS_Union
<1>5. Cardinality(late \cap heardOf) \in Nat
  <2>1. IsFiniteSet(late \cap heardOf)
    BY <1>1, FS_Intersection
  <2> QED
    BY <2>1, FS_CardinalityType
<1>6. /\ Cardinality(covered \cap (low .. hour)) \in Nat
      /\ Cardinality(covered \cap (low .. hour)) <= Cardinality(late \cup heardOf)
  <2>1. /\ IsFiniteSet(covered \cap (low .. hour))
        /\ Cardinality(covered \cap (low .. hour)) <= Cardinality(late \cup heardOf)
    BY <1>3, <1>4, FS_Subset
  <2> QED
    BY <2>1, FS_CardinalityType
<1>7. Cardinality(covered \cap (low .. hour))
        <= 1 + (IF heard \in low .. hour THEN heard - low + 1 ELSE 0)
  <2> DEFINE n == Cardinality(covered \cap (low .. hour))
             k == Cardinality(late)
             m == Cardinality(heardOf)
             b == Cardinality(late \cap heardOf)
             u == Cardinality(late \cup heardOf)
  <2>1. n \in Nat /\ b \in Nat /\ k \in {0, 1} /\ n <= u /\ u = k + m - b
    BY <1>1, <1>4, <1>5, <1>6
  <2>2. m = (IF heard \in low .. hour THEN heard - low + 1 ELSE 0) /\ m \in Int
    BY <1>2, <1>h
  <2> HIDE DEF n, k, m, b, u
  <2>3. n <= 1 + m
    BY <2>1, <2>2
  <2> QED
    BY <2>2, <2>3 DEF n
<1> QED
  BY <1>h, <1>6, <1>7

\* An outage of the log streams shows in the coverage of every report: of the
\* hours since the last record one at most is covered.
THEOREM OutageShowsEver == Spec => []OutageShows
<1>1. HourInv /\ HeardInv => OutageShows
  <2> SUFFICES ASSUME HourInv, HeardInv, NEW days \in 1..2
               PROVE  Gaps(days) >= (IF heard \in Window(days) THEN hour - heard
                                                             ELSE days * Day) - 1
    BY DEF OutageShows
  <2>1. days * Day \in Nat \ {0}
    <3>1. days = 1 \/ days = 2
      OBVIOUS
    <3> QED
      BY <3>1
  <2> DEFINE w == days * Day
  <2>2. w \in Nat \ {0} /\ Window(days) = hour - w + 1 .. hour
        /\ Gaps(days) = w - Cardinality(covered \cap Window(days))
    BY <2>1 DEF Window, Gaps
  <2> HIDE DEF w
  <2>3. w - Cardinality(covered \cap (hour - w + 1 .. hour))
          >= (IF heard \in hour - w + 1 .. hour THEN hour - heard ELSE w) - 1
    BY <2>2, GapsOfAnOutage
  <2> QED
    BY <2>2, <2>3 DEF w
<1> QED
  BY <1>1, HourInvariant, PTL

(***************************************************************************)
(* The nightly sync.  From the top of the loop to its end the clock        *)
(* strikes once at most, a sync apart; and before it strikes, the hour of  *)
(* the nightly sync has had its sync or has seen another one return.       *)
(***************************************************************************)
NightInv == ~ticked /\ hour % Day = SyncHour => night = hour \/ busy = hour

LEMMA NightInit == Init => NightInv
  BY DEF Init, NightInv

LEMMA NightStep == NightInv /\ [Next]_vars => NightInv'
<1> SUFFICES ASSUME NightInv, [Next]_vars PROVE NightInv'
  OBVIOUS
<1> USE DEF loopVars, dbVars, health, clock, history
<1>1. ASSUME UNCHANGED <<ticked, hour, night, busy>> PROVE NightInv'
  BY <1>1 DEF NightInv
<1>2. CASE Wake
  BY <1>2 DEF Wake, Due, NightInv
<1>3. CASE NightlyReturns \/ RequestedReturns
  BY <1>3 DEF NightlyReturns, RequestedReturns, NightInv
<1>4. CASE SyncRaisesOut \/ FlushReturns \/ HeartbeatReturns \/ Close \/ Crash
  BY <1>1, <1>4 DEF SyncRaisesOut, FlushReturns, HeartbeatReturns, Close, Crash
<1>5. CASE SyncStep
  BY <1>1, <1>5 DEF SyncStep, SyncPulls, SyncWrites, SyncCommits, SyncFails
<1>6. CASE Heartbeat
  BY <1>1, <1>6 DEF Heartbeat
<1>7. ASSUME NEW f \in Flushes, FlushStep(f) PROVE NightInv'
  BY <1>1, <1>7 DEF FlushStep, FlushNothing, FlushWrites, FlushCommits, FlushFails
<1>8. ASSUME NEW m \in CancelPoints, Cancel(m) PROVE NightInv'
  BY <1>1, <1>8 DEF Cancel
<1>9. CASE Record \/ Request
  BY <1>1, <1>9 DEF Record, Request
<1>10. CASE Tick \/ Restart
  BY <1>10 DEF Tick, Restart, NightInv
<1>11. CASE UNCHANGED vars
  BY <1>1, <1>11 DEF vars
<1> QED
  BY <1>2, <1>3, <1>4, <1>5, <1>6, <1>7, <1>8, <1>9, <1>10, <1>11 DEF Next, MainStep

\* The hour of the nightly sync does not end without one having been started,
\* unless another sync was running in it: neither a slow pass of the loop nor
\* a restart in another hour skips a night.
THEOREM NightIsNeverSkipped == Spec => NightIsNotSkipped
<1>1. NightInv /\ [Next]_vars =>
        [hour' # hour /\ hour % Day = SyncHour /\ main \in Awaited =>
           night = hour \/ main \in Syncing \/ busy = hour]_vars
  <2> SUFFICES ASSUME NightInv, Next, hour' # hour, hour % Day = SyncHour,
                      main \in Awaited \ Syncing
               PROVE  night = hour \/ busy = hour
    OBVIOUS
  <2>1. Tick
    BY DEF Next, MainStep, Wake, NightlyReturns, RequestedReturns, CheckRequest,
         SyncRaisesOut, FlushReturns, HeartbeatReturns, Close, SyncStep, SyncPulls,
         SyncWrites, SyncCommits, SyncFails, Heartbeat, FlushStep, FlushNothing,
         FlushWrites, FlushCommits, FlushFails, Cancel, Record, Request, Crash, Restart,
         clock
  <2>2. ~ticked
    BY <2>1 DEF Tick, Up
  <2> QED
    BY <2>2 DEF NightInv
<1> QED
  BY <1>1, NightInit, NightStep, PTL DEF Spec, NightIsNotSkipped

(***************************************************************************)
(* Types.                                                                  *)
(***************************************************************************)
RestOK ==
  /\ night \in Hours /\ stamp \in Hours /\ busy \in Hours
  /\ written \subseteq Objs /\ txn \subseteq Objs /\ stamped \subseteq Objs /\ off \subseteq Objs
  /\ waiting \in {"no", "mem"} \cup Flushes

FlagsOK ==
  /\ asked \in BOOLEAN /\ fresh \in BOOLEAN /\ dirty \in BOOLEAN /\ syncFailed \in BOOLEAN
  /\ flushFailed \in BOOLEAN /\ ticked \in BOOLEAN /\ owed \in BOOLEAN

LEMMA RestInit == Init => RestOK /\ FlagsOK
  BY DEF Init, RestOK, FlagsOK, Hours

LEMMA RestStep == HourInv /\ RestOK /\ [Next]_vars => RestOK'
<1> SUFFICES ASSUME HourInv, RestOK, [Next]_vars PROVE RestOK'
  OBVIOUS
<1> USE DEF loopVars, dbVars, health, clock, history, Hours
<1>1. hour \in Nat
  BY DEF HourInv
<1>2. CASE MainStep
  BY <1>1, <1>2 DEF RestOK, MainStep, Wake, NightlyReturns, RequestedReturns, CheckRequest,
       SubmitSync, SyncRaisesOut, FlushReturns, Beat, HeartbeatReturns, Close, Die
<1>3. CASE SyncStep
  BY <1>3 DEF RestOK, SyncStep, SyncPulls, SyncWrites, SyncCommits, SyncFails
<1>4. CASE Heartbeat
  BY <1>4 DEF RestOK, Heartbeat, CommitOthers
<1>5. ASSUME NEW f \in Flushes, FlushStep(f) PROVE RestOK'
  BY <1>5 DEF RestOK, FlushStep, FlushNothing, FlushWrites, FlushCommits, FlushFails,
       CommitOthers
<1>6. ASSUME NEW m \in CancelPoints, Cancel(m) PROVE RestOK'
  BY <1>6 DEF RestOK, Cancel
<1>7. CASE Record \/ Request \/ Tick \/ Crash \/ Restart
  BY <1>7 DEF RestOK, Record, Request, Tick, Crash, Die, Restart
<1>8. CASE UNCHANGED vars
  BY <1>8 DEF RestOK, vars
<1> QED
  BY <1>2, <1>3, <1>4, <1>5, <1>6, <1>7, <1>8 DEF Next

LEMMA FlagsStep == FlagsOK /\ [Next]_vars => FlagsOK'
<1> SUFFICES ASSUME FlagsOK, [Next]_vars PROVE FlagsOK'
  OBVIOUS
<1> USE DEF loopVars, dbVars, health, clock, history
<1>1. CASE MainStep
  <2>1. asked' \in BOOLEAN /\ owed' \in BOOLEAN /\ fresh' \in BOOLEAN /\ ticked' \in BOOLEAN
        /\ dirty' = dirty /\ syncFailed' = syncFailed
    BY <1>1 DEF FlagsOK, MainStep, Wake, NightlyReturns, RequestedReturns, CheckRequest,
       SubmitSync, SyncRaisesOut, FlushReturns, HeartbeatReturns, Close
  <2>2. flushFailed' = flushFailed \/ flushFailed' = (flushFailed \/ job["flush"] = "failed")
    BY <1>1 DEF MainStep, Wake, NightlyReturns, RequestedReturns, SyncRaisesOut,
       FlushReturns, NoteFlush, HeartbeatReturns, Close
  <2>3. flushFailed' \in BOOLEAN
    BY <2>2 DEF FlagsOK
  <2> QED
    BY <2>1, <2>3 DEF FlagsOK
<1>2. CASE SyncStep
  BY <1>2 DEF FlagsOK, SyncStep, SyncPulls, SyncWrites, SyncCommits, SyncFails
<1>3. CASE Heartbeat
  BY <1>3 DEF FlagsOK, Heartbeat
<1>4. ASSUME NEW f \in Flushes, FlushStep(f) PROVE FlagsOK'
  BY <1>4 DEF FlagsOK, FlushStep, FlushNothing, FlushWrites, FlushCommits, FlushFails
<1>5. ASSUME NEW m \in CancelPoints, Cancel(m) PROVE FlagsOK'
  BY <1>5 DEF FlagsOK, Cancel
<1>6. CASE Record \/ Request \/ Tick \/ Crash \/ Restart
  BY <1>6 DEF FlagsOK, Record, Request, Tick, Crash, Restart
<1>7. CASE UNCHANGED vars
  BY <1>7 DEF FlagsOK, vars
<1> QED
  BY <1>1, <1>2, <1>3, <1>4, <1>5, <1>6, <1>7 DEF Next

\* The main task, the jobs, the clock and the tables keep their types.
THEOREM TypeCorrect == Spec => []TypeOK
<1>1. TurnInv /\ HourInv /\ RestOK /\ FlagsOK => TypeOK
  <2> SUFFICES ASSUME TurnInv, HourInv, RestOK, FlagsOK PROVE TypeOK
    OBVIOUS
  <2>1. {asked, fresh, dirty, syncFailed, flushFailed, ticked, owed} \subseteq BOOLEAN
    BY DEF FlagsOK
  <2>2. heard \in Hours /\ hour \in Nat /\ covered \subseteq Nat
    BY DEF HourInv, Hours
  <2> QED
    BY <2>1, <2>2 DEF TurnInv, RestOK, TypeOK, Mains, Pcs
<1> QED
  BY <1>1, TurnInvariant, HourInvariant, RestInit, RestStep, FlagsStep, PTL DEF Spec

=============================================================================
