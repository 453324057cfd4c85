------------------------------- MODULE Verdict -------------------------------
(***************************************************************************)
(* From the records of one object to its line in the report: the row that  *)
(* _touch in collector/counters.py keeps of them, and what                 *)
(* collector/classify.py and collector/httpd.py read out of it.            *)
(*                                                                         *)
(* A row is a bounded summary: a count, the first and the last time, the   *)
(* hits of the newest dates, the most recent users.  Records come in any   *)
(* order of their dates, the clock may be set back, a crash loses what was *)
(* not flushed.  Beside each row the model keeps the log it summarizes,    *)
(* which the program does not have.  The flush is one step here;           *)
(* CounterEngine has its races.                                            *)
(***************************************************************************)
EXTENDS Integers, FiniteSets, SequencesExt

CONSTANTS
  Users,
  NoUser,    \* no Username in the record, or the sample is switched off
  Day,       \* hours of a day
  Keep,      \* dates in the histogram; 90 in the code
  Cap,       \* recent_users_max
  Warm, Stale,   \* warm_days, stale_days
  Medium,    \* observed days of medium confidence; 90 in the code
  MaxHour,   \* bound: the last hour of the clock
  MaxHits    \* bound: hits in one log

ASSUME NoUserAssumption == NoUser \notin Users
ASSUME BoundAssumption == {Day, Keep, Cap, Medium, MaxHour, MaxHits} \subseteq Nat \ {0}
ASSUME ThresholdAssumption == Warm \in Nat /\ Stale \in Nat

VARIABLES
  now,   \* the clock, in hours
  mem,   \* the CounterRow, and the log it summarizes
  disk   \* the usage_counter row, and the log it summarizes

vars == <<now, mem, disk>>

Hours   == 1..MaxHour
Date(t) == t \div Day
Dates   == 0..Date(MaxHour)

\* A new row; 0 stands for the empty string.
NewRow == [count |-> 0, first |-> 0, last |-> 0,
           daily |-> [d \in Dates |-> 0], users |-> <<>>]
Nothing == [row |-> NewRow, log |-> <<>>]

Init == now = 1 /\ mem = Nothing /\ disk = Nothing

-----------------------------------------------------------------------------
(* Counting.                                                               *)

Newest(S, n) == {d \in S : Cardinality({e \in S : e > d}) < n}

\* Mutant: one date too many.
TrimmedLate(daily) ==
  LET kept == Newest({d \in Dates : daily[d] > 0}, Keep + 1)
  IN [d \in Dates |-> IF d \in kept THEN daily[d] ELSE 0]

\* The newest dates that were hit are kept, be they the latest counted or not.
Trimmed(daily) ==
  LET kept == Newest({d \in Dates : daily[d] > 0}, Keep)
  IN [d \in Dates |-> IF d \in kept THEN daily[d] ELSE 0]

\* Mutant: a user of the sample keeps its place when seen again.
SampledInPlace(users, u) ==
  LET q == IF u \in ToSet(users) THEN users ELSE Append(users, u)
  IN CASE u = NoUser                  -> users
       [] u # NoUser /\ Len(q) > Cap  -> Tail(q)
       [] u # NoUser /\ Len(q) <= Cap -> q

\* Distinct users, the latest at the end, at most Cap of them.
Sampled(users, u) ==
  LET q == Append(RemoveFirst(users, u), u)
  IN CASE u = NoUser                  -> users
       [] u # NoUser /\ Len(q) > Cap  -> SubSeq(q, Len(q) - Cap + 1, Len(q))
       [] u # NoUser /\ Len(q) <= Cap -> q

\* Mutant: last_seen is the date of the latest record.
LastOf(r, ts) == ts

Later(r, ts) == IF ts > r.last THEN ts ELSE r.last

\* _touch.
Touched(r, ts, u) ==
  [count |-> r.count + 1,
   first |-> IF r.first = 0 THEN ts ELSE r.first,
   last  |-> Later(r, ts),
   daily |-> Trimmed([r.daily EXCEPT ![Date(ts)] = @ + 1]),
   users |-> Sampled(r.users, u)]

\* ingest: the record's own time, that of the clock if it has none or is ahead.
Ingest(ev, u) ==
  /\ Len(mem.log) < MaxHits
  /\ LET ts == IF ev <= now THEN ev ELSE now IN
       mem' = [row |-> Touched(mem.row, ts, u),
               log |-> Append(mem.log, [ts |-> ts, user |-> u])]
  /\ UNCHANGED <<now, disk>>

Flush ==
  /\ disk' = mem
  /\ UNCHANGED <<now, mem>>

\* The process dies and is started again: load.
Restart ==
  /\ mem' = disk
  /\ UNCHANGED <<now, disk>>

\* Time passes, or the clock is corrected.
SetClock(t) ==
  /\ t \in {now - 1, now + 1} \cap Hours
  /\ now' = t
  /\ UNCHANGED <<mem, disk>>

Next == \/ \E ev \in Hours, u \in Users \cup {NoUser} : Ingest(ev, u)
        \/ Flush \/ Restart
        \/ \E t \in Hours : SetClock(t)

Spec == Init /\ [][Next]_vars

-----------------------------------------------------------------------------
(* The line of the report.                                                 *)

\* Mutant: a day that has begun counts as a day.
DaysIdleUp(t) == IF t >= now THEN 0 ELSE (now - t + Day - 1) \div Day

\* days_idle: whole days, 0 for a time ahead of the clock.
DaysIdle(t) == IF t >= now THEN 0 ELSE (now - t) \div Day

\* band; red without a last_seen.
Band ==
  CASE disk.row.last = 0               -> "red"
    [] disk.row.last # 0 /\ DaysIdle(disk.row.last) <= Warm -> "green"
    [] disk.row.last # 0 /\ DaysIdle(disk.row.last) \in Warm + 1..Stale -> "yellow"
    [] OTHER                           -> "orange"

\* Mutant: the days since the object was first seen.
ObservedSinceFirst == DaysIdle(disk.row.first)

\* The days between the first and the last sighting, each rounded by itself.
ObservedDays ==
  LET d == DaysIdle(disk.row.first) - DaysIdle(disk.row.last)
  IN IF disk.row.first = 0 \/ d < 0 THEN 0 ELSE d

\* Mutant: a full sample is not called capped.
CappedOver == Len(disk.row.users) > Cap

\* user_sample_capped
Capped == Len(disk.row.users) >= Cap

-----------------------------------------------------------------------------
RowSet == [count : 0..MaxHits, first : Hours \cup {0}, last : Hours \cup {0},
           daily : [Dates -> 0..MaxHits], users : Seq(Users)]

\* The values the clock and the rows take; a row is bounded ("bounded,
\* distinct", "last 90 days").
TypeOK ==
  /\ now \in Hours
  /\ \A r \in {mem.row, disk.row} :
       /\ r \in RowSet
       /\ Cardinality({d \in Dates : r.daily[d] > 0}) <= Keep
       /\ Len(r.users) <= Cap

TimesOf(log) == {log[i].ts : i \in DOMAIN log}
UsersOf(log) == {log[i].user : i \in DOMAIN log} \ {NoUser}
LastHit(log, u) == Max({i \in DOMAIN log : log[i].user = u})

\* What a row should say of the log behind it: how often the newest dates were
\* hit, and who came last, in this order.
DailyOf(log) ==
  LET kept == Newest({Date(t) : t \in TimesOf(log)}, Keep)
  IN [d \in Dates |-> IF d \in kept
                      THEN Cardinality({i \in DOMAIN log : Date(log[i].ts) = d}) ELSE 0]

RecentUsers(log) ==
  {u \in UsersOf(log) :
     Cardinality({v \in UsersOf(log) : LastHit(log, v) > LastHit(log, u)}) < Cap}

\* The row is the exact summary of what was counted, whatever the order of the
\* dates: no date that was trimmed comes back with a smaller count, no user who
\* came again is dropped before one who did not.
SummaryIsExact ==
  \A c \in {mem, disk} : c.log # <<>> =>
    /\ c.row.count = Len(c.log)
    /\ c.row.last = Max(TimesOf(c.log))
    /\ c.row.daily = DailyOf(c.log)
    /\ ToSet(c.row.users) = RecentUsers(c.log)
    /\ \A i, j \in DOMAIN c.row.users :
         i < j => LastHit(c.log, c.row.users[i]) < LastHit(c.log, c.row.users[j])

\* "heat bands are a pure function of (last_seen, now, thresholds)": an object
\* is green if and only if a stored hit is less than warm + 1 days old, orange
\* if and only if every one is older than both thresholds, red if there is none.
BandIsRight ==
  LET Within(days) == \E t \in TimesOf(disk.log) : now - t < (days + 1) * Day
  IN /\ Band = "green" <=> Within(Warm)
     /\ Band = "orange" <=> disk.log # <<>> /\ ~Within(Warm) /\ ~Within(Stale)
     /\ Band = "red" <=> disk.log = <<>>

\* Medium confidence is never given to an object whose stored hits are not more
\* than Medium - 1 days apart, at whatever hour the report is asked for.
ConfidenceIsEarned ==
  disk.log # <<>> /\ ObservedDays >= Medium =>
    Max(TimesOf(disk.log)) - Min(TimesOf(disk.log)) > (Medium - 1) * Day

\* A sample that is not called capped has everyone who was ever counted.
UncappedIsEveryone == Capped \/ ToSet(disk.row.users) = UsersOf(disk.log)

Heat == CASE Band = "red" -> 0 [] Band = "orange" -> 1 [] Band = "yellow" -> 2
          [] OTHER -> 3

\* Only time cools a verdict: no record, however late, no flush and no restart.
OnlyTimeCools == [][now' <= now => Heat' >= Heat]_vars

=============================================================================
