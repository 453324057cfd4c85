---------------------------- MODULE VerdictProofs ----------------------------
(***************************************************************************)
(* Proofs about Verdict for every set of users, every length of the day,   *)
(* of the histogram and of the sample, every threshold and every bound.    *)
(***************************************************************************)
EXTENDS Verdict, TLAPS, FiniteSetTheorems, SequenceTheorems, WellFoundedInduction

USE NoUserAssumption, ThresholdAssumption

LEMMA Bounds ==
  /\ Day \in Nat \ {0} /\ Keep \in Nat \ {0} /\ Cap \in Nat \ {0} /\ Medium \in Nat \ {0}
  /\ MaxHour \in Nat \ {0} /\ MaxHits \in Nat \ {0}
  BY BoundAssumption

(***************************************************************************)
(* Numbers.                                                                *)
(***************************************************************************)
LEMMA DivMonotone ==
  ASSUME NEW a \in Nat, NEW b \in Nat, a <= b
  PROVE  a \div Day <= b \div Day
  BY Bounds

LEMMA DivBound ==
  ASSUME NEW a \in Nat, NEW w \in Nat
  PROVE  /\ a \div Day \in Nat
         /\ a \div Day <= w <=> a < (w + 1) * Day
  BY Bounds

\* Whole days that are w apart are more than w - 1 days of hours apart.
LEMMA DivApart ==
  ASSUME NEW a \in Nat, NEW b \in Nat, NEW w \in Nat, a \div Day >= b \div Day + w
  PROVE  a - b > (w - 1) * Day
<1> DEFINE q == a \div Day
           p == b \div Day
<1>1. /\ q \in Nat /\ p \in Nat /\ Day * q <= a /\ b < Day * p + Day
  BY Bounds
<1> HIDE DEF q, p
<1>2. q >= p + w
  BY DEF q, p
<1>3. Day * q >= Day * (p + w)
  BY <1>1, <1>2, Bounds
<1>4. Day * (p + w) - (Day * p + Day) = (w - 1) * Day
  BY <1>1, Bounds
<1>5. /\ Day * q \in Nat /\ Day * (p + w) \in Nat /\ Day * p + Day \in Nat
      /\ (w - 1) * Day \in Int
  BY <1>1, Bounds
<1> QED
  BY <1>1, <1>3, <1>4, <1>5

LEMMA LeastOfNaturals ==
  ASSUME NEW S \in SUBSET Nat, S # {}
  PROVE  \E m \in S : \A x \in S : m <= x
<1> DEFINE R == OpToRel(<, Nat)
<1>1. IsWellFoundedOn(R, Nat)
  BY NatLessThanWellFounded
<1>2. \A i, j \in Nat : i < j => <<i, j>> \in R
  BY DEF OpToRel
<1> HIDE DEF R
<1>3. PICK m \in S : \A j \in S : <<j, m>> \notin R
  <2>1. S \subseteq Nat /\ S # {}
    OBVIOUS
  <2>2. \E m \in S : \A j \in S : ~(<<j, m>> \in R)
    BY ONLY <1>1, <2>1, WFMin
  <2> QED
    BY <2>2
<1>4. ASSUME NEW x \in S PROVE m <= x
  <2>1. m \in Nat /\ x \in Nat /\ ~(x < m)
    BY <1>2, <1>3
  <2> QED
    BY <2>1
<1> QED
  BY <1>4

LEMMA GreatestOfNaturals ==
  ASSUME NEW S \in SUBSET Nat, S # {}, NEW n \in Nat, \A x \in S : x <= n
  PROVE  \E m \in S : \A x \in S : x <= m
<1> DEFINE T == {n - x : x \in S}
<1>1. T \in SUBSET Nat /\ T # {}
  <2>1. ASSUME NEW x \in S PROVE n - x \in Nat
    <3>1. x \in Nat /\ x <= n
      OBVIOUS
    <3> QED
      BY <3>1
  <2> QED
    BY <2>1
<1>2. PICK k \in T : \A j \in T : k <= j
  BY <1>1, LeastOfNaturals
<1>3. PICK m \in S : k = n - m
  OBVIOUS
<1>4. ASSUME NEW x \in S PROVE x <= m
  <2>1. k <= n - x
    BY <1>2
  <2> QED
    BY <1>3, <2>1
<1> QED
  BY <1>4

LEMMA MaxIs ==
  ASSUME NEW S \in SUBSET Nat, NEW m \in S, \A x \in S : x <= m
  PROVE  Max(S) = m
<1>1. Max(S) \in S /\ \A x \in S : Max(S) >= x
  BY DEF Max
<1>2. Max(S) \in Nat /\ m \in Nat /\ Max(S) <= m /\ Max(S) >= m
  BY <1>1
<1> QED
  BY <1>2

LEMMA MaxOf ==
  ASSUME NEW S \in SUBSET Nat, S # {}, NEW n \in Nat, \A x \in S : x <= n
  PROVE  Max(S) \in S /\ \A x \in S : x <= Max(S)
<1>1. PICK m \in S : \A x \in S : x <= m
  BY GreatestOfNaturals
<1>2. Max(S) = m
  BY <1>1, MaxIs
<1> QED
  BY <1>1, <1>2

LEMMA MinOf ==
  ASSUME NEW S \in SUBSET Nat, S # {}
  PROVE  Min(S) \in S /\ \A x \in S : Min(S) <= x
<1>1. \E m \in S : \A x \in S : m <= x
  BY LeastOfNaturals
<1> QED
  BY <1>1 DEF Min

LEMMA UpTo ==
  ASSUME NEW n \in Nat
  PROVE  IsFiniteSet(1..n) /\ Cardinality(1..n) = n
<1>1. IsFiniteSet(1..n) /\ Cardinality(1..n) = IF 1 > n THEN 0 ELSE n - 1 + 1
  BY FS_Interval
<1> QED
  BY <1>1

(***************************************************************************)
(* Types.  Whatever has been counted, a row and its log move together.     *)
(***************************************************************************)
Hit == [ts : Hours, user : Users \cup {NoUser}]

TypedRow == [count : Nat, first : Hours \cup {0}, last : Hours \cup {0},
             daily : [Dates -> Nat], users : Seq(Users)]

Cells == [row : TypedRow, log : Seq(Hit)]

LEMMA CellFacts ==
  ASSUME NEW c \in Cells
  PROVE  /\ c.row.count \in Nat /\ c.row.last \in Nat /\ c.row.first \in Nat
         /\ c.row.first \in Hours \cup {0} /\ c.row.last \in Hours \cup {0}
         /\ c.row.daily \in [Dates -> Nat] /\ c.row.users \in Seq(Users)
         /\ c.log \in Seq(Hit)
  BY DEF Cells, TypedRow, Hours

\* A row and its log once a hit has been counted.
Counted(c, ts, u) ==
  [row |-> Touched(c.row, ts, u), log |-> Append(c.log, [ts |-> ts, user |-> u])]

LEMMA HourFacts ==
  /\ Hours \subseteq Nat /\ \A t \in Hours : t # 0 /\ t <= MaxHour
  /\ Dates \subseteq Nat /\ \A d \in Dates : d <= Date(MaxHour)
  /\ Date(MaxHour) \in Nat /\ \A t \in Hours : Date(t) \in Dates
<1>1. Hours \subseteq Nat /\ \A t \in Hours : t # 0 /\ t <= MaxHour
  BY Bounds DEF Hours
<1>2. \A t \in Nat : Date(t) \in Nat
  BY Bounds DEF Date
<1>3. MaxHour \in Nat
  BY Bounds
<1>4. ASSUME NEW t \in Hours PROVE Date(t) \in Dates
  <2>1. Date(t) <= Date(MaxHour)
    BY <1>1, <1>3, DivMonotone DEF Date
  <2> QED
    BY <1>1, <1>2, <1>3, <2>1 DEF Dates
<1>5. Dates \subseteq Nat /\ \A d \in Dates : d <= Date(MaxHour)
  BY <1>2, <1>3 DEF Dates
<1> QED
  BY <1>1, <1>2, <1>3, <1>4, <1>5

LEMMA SampledTyped ==
  ASSUME NEW users \in Seq(Users), NEW u \in Users \cup {NoUser}
  PROVE  /\ Sampled(users, u) \in Seq(Users)
         /\ Len(users) <= Cap => Len(Sampled(users, u)) <= Cap
<1>1. CASE u = NoUser
  BY <1>1 DEF Sampled
<1>2. CASE u # NoUser
  <2> DEFINE q == Append(RemoveFirst(users, u), u)
  <2>1. RemoveFirst(users, u) \in Seq(Users)
    <3>1. ASSUME NEW k \in 1..Len(users) PROVE RemoveAt(users, k) \in Seq(Users)
      BY DEF RemoveAt
    <3>2. CASE \E i \in 1..Len(users) : users[i] = u
      <4> DEFINE I == {i \in 1..Len(users) : users[i] = u}
      <4>1. I \in SUBSET Nat /\ I # {}
        BY <3>2
      <4>2. Min(I) \in 1..Len(users)
        BY <4>1, MinOf
      <4>3. SelectInSeq(users, LAMBDA v : v = u) = Min(I)
        BY <3>2 DEF SelectInSeq
      <4> QED
        BY <3>1, <3>2, <4>2, <4>3 DEF RemoveFirst
    <3> QED
      BY <3>2 DEF RemoveFirst
  <2>2. q \in Seq(Users) /\ Len(q) \in Nat
    BY <1>2, <2>1
  <2> HIDE DEF q
  <2>3. CASE Len(q) > Cap
    <3>1. Cap \in Nat /\ ~(Len(q) <= Cap) /\ Len(q) - Cap + 1 \in 1..Len(q)
      BY <2>2, <2>3, Bounds
    <3>2. Sampled(users, u) = SubSeq(q, Len(q) - Cap + 1, Len(q))
      BY <1>2, <2>3, <3>1 DEF Sampled, q
    <3> QED
      BY <2>2, <3>1, <3>2, <2>3
  <2>4. CASE ~(Len(q) > Cap)
    BY <1>2, <2>2, <2>4, Bounds DEF Sampled, q
  <2> QED
    BY <2>3, <2>4
<1> QED
  BY <1>1, <1>2

LEMMA TrimmedTyped ==
  ASSUME NEW daily \in [Dates -> Nat]
  PROVE  Trimmed(daily) \in [Dates -> Nat]
  BY DEF Trimmed

LEMMA CountedFields ==
  ASSUME NEW c \in Cells, NEW ts \in Hours, NEW u \in Users \cup {NoUser}
  PROVE  LET x == Counted(c, ts, u) IN
         /\ x.log = Append(c.log, [ts |-> ts, user |-> u])
         /\ x.row.count = c.row.count + 1
         /\ x.row.first = IF c.row.first = 0 THEN ts ELSE c.row.first
         /\ x.row.last = IF ts > c.row.last THEN ts ELSE c.row.last
         /\ x.row.daily = Trimmed([c.row.daily EXCEPT ![Date(ts)] = @ + 1])
         /\ x.row.users = Sampled(c.row.users, u)
  BY DEF Counted, Touched, Later

LEMMA CountedTyped ==
  ASSUME NEW c \in Cells, NEW ts \in Hours, NEW u \in Users \cup {NoUser}
  PROVE  Counted(c, ts, u) \in Cells
<1> DEFINE r == c.row
           x == Touched(r, ts, u)
<1>1. /\ r.count \in Nat /\ r.first \in Hours \cup {0} /\ r.last \in Hours \cup {0}
      /\ r.daily \in [Dates -> Nat] /\ r.users \in Seq(Users) /\ c.log \in Seq(Hit)
  BY DEF Cells, TypedRow
<1>2. [r.daily EXCEPT ![Date(ts)] = @ + 1] \in [Dates -> Nat]
  <2>1. Date(ts) \in Dates
    BY HourFacts
  <2> QED
    BY <1>1, <2>1
<1>3. x \in TypedRow
  <2> DEFINE first == IF r.first = 0 THEN ts ELSE r.first
             last  == Later(r, ts)
             daily == Trimmed([r.daily EXCEPT ![Date(ts)] = @ + 1])
             users == Sampled(r.users, u)
  <2>1. daily \in [Dates -> Nat]
    BY <1>2, TrimmedTyped
  <2>2. users \in Seq(Users)
    BY <1>1, SampledTyped
  <2>3. first \in Hours \cup {0} /\ last \in Hours \cup {0} /\ r.count + 1 \in Nat
    BY <1>1 DEF Later
  <2>4. x = [count |-> r.count + 1, first |-> first, last |-> last,
             daily |-> daily, users |-> users]
    BY DEF Touched
  <2> HIDE DEF first, last, daily, users, x
  <2> QED
    BY <2>1, <2>2, <2>3, <2>4 DEF TypedRow
<1>4. [ts |-> ts, user |-> u] \in Hit
  BY DEF Hit
<1>5. Append(c.log, [ts |-> ts, user |-> u]) \in Seq(Hit)
  BY <1>1, <1>4
<1> QED
  BY <1>3, <1>5 DEF Counted, Cells

LEMMA NothingTyped == Nothing \in Cells /\ Nothing.row = NewRow /\ Nothing.log = <<>>
<1>1. NewRow \in TypedRow
  BY DEF NewRow, TypedRow
<1> QED
  BY <1>1 DEF Nothing, Cells

\* One more hit in a log.
LEMMA OneMoreHit ==
  ASSUME NEW log \in Seq(Hit), NEW ts \in Hours, NEW u \in Users \cup {NoUser}
  PROVE  LET l == Append(log, [ts |-> ts, user |-> u])
             n == Len(log) + 1
         IN /\ l \in Seq(Hit) /\ Len(l) = n /\ n \in Nat /\ l # <<>>
            /\ DOMAIN log = 1..Len(log) /\ DOMAIN l = 1..n
            /\ l[n].ts = ts /\ l[n].user = u
            /\ \A i \in 1..Len(log) : l[i] = log[i]
<1> DEFINE h == [ts |-> ts, user |-> u]
<1>1. h \in Hit /\ h.ts = ts /\ h.user = u
  BY DEF Hit
<1> HIDE DEF h
<1>2. /\ Append(log, h) \in Seq(Hit) /\ Len(Append(log, h)) = Len(log) + 1
      /\ Len(log) \in Nat /\ Append(log, h)[Len(log) + 1] = h
      /\ DOMAIN log = 1..Len(log)
      /\ \A i \in 1..Len(log) : Append(log, h)[i] = log[i]
  BY <1>1
<1>3. DOMAIN Append(log, h) = 1..Len(log) + 1 /\ Append(log, h) # <<>>
  BY <1>2
<1> QED
  BY <1>1, <1>2, <1>3 DEF h

LEMMA TimesOfLog ==
  ASSUME NEW log \in Seq(Hit)
  PROVE  TimesOf(log) \subseteq Hours
<1>1. \A i \in DOMAIN log : log[i] \in Hit
  OBVIOUS
<1> QED
  BY <1>1 DEF TimesOf, Hit

LEMMA TimesOfAppend ==
  ASSUME NEW log \in Seq(Hit), NEW ts \in Hours, NEW u \in Users \cup {NoUser}
  PROVE  /\ TimesOf(log) \subseteq Hours
         /\ TimesOf(Append(log, [ts |-> ts, user |-> u])) = TimesOf(log) \cup {ts}
<1> DEFINE l == Append(log, [ts |-> ts, user |-> u])
           n == Len(log) + 1
<1>1. /\ DOMAIN log = 1..Len(log) /\ DOMAIN l = 1..n /\ Len(log) \in Nat
      /\ l[n].ts = ts /\ \A i \in 1..Len(log) : l[i] = log[i]
  BY OneMoreHit
<1>2. TimesOf(log) \subseteq Hours
  BY TimesOfLog
<1> HIDE DEF l
<1>3. TimesOf(l) = TimesOf(log) \cup {ts}
  <2>1. \A i \in 1..n : i \in 1..Len(log) \/ i = n
    BY <1>1
  <2>2. \A i \in 1..Len(log) : i \in 1..n
    BY <1>1
  <2>3. n \in 1..n
    BY <1>1
  <2>4. ASSUME NEW t \in TimesOf(l) PROVE t \in TimesOf(log) \cup {ts}
    BY <1>1, <2>1 DEF TimesOf
  <2>5. ASSUME NEW t \in TimesOf(log) PROVE t \in TimesOf(l)
    BY <1>1, <2>2 DEF TimesOf
  <2>6. ts \in TimesOf(l)
    BY <1>1, <2>3 DEF TimesOf
  <2> QED
    BY <2>4, <2>5, <2>6
<1> QED
  BY <1>2, <1>3 DEF l

(***************************************************************************)
(* The dates of a row: its last hit is the latest that was counted, its    *)
(* first one was counted too.                                              *)
(***************************************************************************)
DatedRight(c) ==
  /\ Len(c.log) <= MaxHits /\ c.row.count = Len(c.log)
  /\ c.log = <<>> => c.row.first = 0 /\ c.row.last = 0
  /\ c.log # <<>> => /\ c.row.first \in TimesOf(c.log) /\ c.row.last \in TimesOf(c.log)
                     /\ \A t \in TimesOf(c.log) : t <= c.row.last

LEMMA CountedDated ==
  ASSUME NEW c \in Cells, DatedRight(c), Len(c.log) < MaxHits,
         NEW ts \in Hours, NEW u \in Users \cup {NoUser}
  PROVE  /\ DatedRight(Counted(c, ts, u))
         /\ c.row.last <= Counted(c, ts, u).row.last
<1> DEFINE x == Counted(c, ts, u)
<1>1. /\ c.log \in Seq(Hit) /\ c.row.count \in Nat
      /\ c.row.first \in Hours \cup {0} /\ c.row.last \in Hours \cup {0}
  BY DEF Cells, TypedRow
<1>2. /\ x.row.count = c.row.count + 1
      /\ x.row.first = IF c.row.first = 0 THEN ts ELSE c.row.first
      /\ x.row.last = IF ts > c.row.last THEN ts ELSE c.row.last
  BY CountedFields
<1>l. x.log = Append(c.log, [ts |-> ts, user |-> u])
  BY CountedFields
<1> HIDE DEF x
<1>3. /\ Len(x.log) = Len(c.log) + 1 /\ x.log # <<>> /\ Len(c.log) \in Nat
      /\ TimesOf(x.log) = TimesOf(c.log) \cup {ts} /\ TimesOf(c.log) \subseteq Hours
  BY <1>1, <1>l, OneMoreHit, TimesOfAppend
<1>4. c.log = <<>> => TimesOf(c.log) = {}
  BY DEF TimesOf
<1>5. c.row.last \in Nat /\ ts \in Nat /\ ts # 0 /\ TimesOf(c.log) \subseteq Nat
      /\ MaxHits \in Nat
  BY <1>1, <1>3, HourFacts, Bounds
<1>6. x.row.first \in TimesOf(x.log)
  BY <1>1, <1>2, <1>3, HourFacts DEF DatedRight
<1>7. x.row.last \in TimesOf(x.log) /\ \A t \in TimesOf(x.log) : t <= x.row.last
  <2>1. CASE c.log = <<>>
    BY <1>2, <1>3, <1>4, <1>5, <2>1 DEF DatedRight
  <2>2. CASE c.log # <<>>
    BY <1>2, <1>3, <1>5, <2>2 DEF DatedRight
  <2> QED
    BY <2>1, <2>2
<1>8. c.row.last <= x.row.last
  BY <1>2, <1>5
<1>9. DatedRight(x)
  BY <1>2, <1>3, <1>5, <1>6, <1>7 DEF DatedRight
<1> QED
  BY <1>8, <1>9 DEF x

LEMMA NextCases ==
  ASSUME now \in Hours, [Next]_vars
  PROVE  \/ /\ UNCHANGED <<now, disk>> /\ Len(mem.log) < MaxHits
            /\ \E ts \in Hours, u \in Users \cup {NoUser} : mem' = Counted(mem, ts, u)
         \/ UNCHANGED <<now, mem>> /\ disk' = mem
         \/ UNCHANGED <<now, disk>> /\ mem' = disk
         \/ UNCHANGED <<mem, disk>> /\ now' \in Hours
<1>1. ASSUME NEW ev \in Hours, NEW u \in Users \cup {NoUser}, Ingest(ev, u)
      PROVE  /\ UNCHANGED <<now, disk>> /\ Len(mem.log) < MaxHits
             /\ \E ts \in Hours : mem' = Counted(mem, ts, u)
  <2> DEFINE ts == IF ev <= now THEN ev ELSE now
  <2>1. ts \in Hours /\ mem' = Counted(mem, ts, u)
    BY <1>1 DEF Ingest, Counted
  <2> QED
    BY <1>1, <2>1 DEF Ingest
<1>2. CASE Flush \/ Restart \/ UNCHANGED vars
  BY <1>2 DEF Flush, Restart, vars
<1>3. ASSUME NEW t \in Hours, SetClock(t) PROVE UNCHANGED <<mem, disk>> /\ now' \in Hours
  BY <1>3 DEF SetClock
<1> QED
  BY <1>1, <1>2, <1>3 DEF Next

\* A row and its log have their types and their dates, and the row stored is
\* never ahead of the one in memory.
DateInv ==
  /\ now \in Hours /\ mem \in Cells /\ disk \in Cells
  /\ DatedRight(mem) /\ DatedRight(disk)
  /\ disk.row.last <= mem.row.last

LEMMA DateInit == Init => DateInv
<1> SUFFICES ASSUME Init PROVE DateInv
  OBVIOUS
<1>1. mem = Nothing /\ disk = Nothing /\ now = 1
  BY DEF Init
<1>2. /\ Nothing.log = <<>> /\ Nothing.row.count = 0 /\ Nothing.row.first = 0
      /\ Nothing.row.last = 0 /\ Len(<<>>) = 0
  BY DEF Nothing, NewRow
<1>3. DatedRight(Nothing)
  BY <1>2, Bounds DEF DatedRight
<1> QED
  BY <1>1, <1>2, <1>3, NothingTyped, Bounds DEF DateInv, Hours

LEMMA DateStep == DateInv /\ [Next]_vars => DateInv'
<1> SUFFICES ASSUME DateInv, [Next]_vars PROVE DateInv'
  OBVIOUS
<1>1. ASSUME NEW ts \in Hours, NEW u \in Users \cup {NoUser}, Len(mem.log) < MaxHits,
             mem' = Counted(mem, ts, u), UNCHANGED <<now, disk>>
      PROVE  DateInv'
  <2>1. DatedRight(mem') /\ mem.row.last <= mem'.row.last /\ mem' \in Cells
    BY <1>1, CountedDated, CountedTyped DEF DateInv
  <2>2. disk.row.last \in Nat /\ mem.row.last \in Nat /\ mem'.row.last \in Nat
    BY <2>1, CellFacts DEF DateInv
  <2> QED
    BY <1>1, <2>1, <2>2 DEF DateInv, DatedRight, TimesOf
<1>2. CASE UNCHANGED <<now, mem>> /\ disk' = mem
  BY <1>2, CellFacts DEF DateInv, DatedRight, TimesOf
<1>3. CASE UNCHANGED <<now, disk>> /\ mem' = disk
  BY <1>3, CellFacts DEF DateInv, DatedRight, TimesOf
<1>4. CASE UNCHANGED <<mem, disk>> /\ now' \in Hours
  BY <1>4 DEF DateInv, DatedRight, TimesOf
<1> QED
  BY <1>1, <1>2, <1>3, <1>4, NextCases DEF DateInv

LEMMA DateInvariant == Spec => []DateInv
  BY DateInit, DateStep, PTL DEF Spec

(***************************************************************************)
(* The band and the confidence.                                            *)
(***************************************************************************)
IdleAt(t, n) == IF t >= n THEN 0 ELSE (n - t) \div Day

LEMMA IdleWithin ==
  ASSUME NEW t \in Hours, NEW n \in Hours, NEW w \in Nat
  PROVE  /\ IdleAt(t, n) \in Nat
         /\ IdleAt(t, n) <= w <=> n - t < (w + 1) * Day
<1>1. t \in Nat /\ n \in Nat
  BY HourFacts
<1>2. CASE t >= n
  <2>1. (w + 1) * Day > 0
    BY Bounds
  <2>2. (w + 1) * Day \in Nat
    BY Bounds
  <2> QED
    BY <1>1, <1>2, <2>1, <2>2 DEF IdleAt
<1>3. CASE ~(t >= n)
  <2>1. n - t \in Nat
    BY <1>1, <1>3
  <2> QED
    BY <1>3, <2>1, DivBound DEF IdleAt
<1> QED
  BY <1>2, <1>3

LEMMA IdleMonotone ==
  ASSUME NEW t \in Hours, NEW u \in Hours, NEW n \in Hours, NEW m \in Hours,
         t <= u, m <= n
  PROVE  IdleAt(u, m) <= IdleAt(t, n)
<1>1. t \in Nat /\ u \in Nat /\ n \in Nat /\ m \in Nat
  BY HourFacts
<1>2. IdleAt(t, n) \in Nat
  BY IdleWithin
<1>3. CASE u >= m
  BY <1>2, <1>3 DEF IdleAt
<1>4. CASE ~(u >= m)
  <2>1. m - u \in Nat /\ n - t \in Nat /\ m - u <= n - t /\ ~(t >= n)
    BY <1>1, <1>4
  <2>2. (m - u) \div Day <= (n - t) \div Day
    BY <2>1, DivMonotone
  <2> QED
    BY <1>4, <2>1, <2>2 DEF IdleAt
<1> QED
  BY <1>3, <1>4

BandAt(l, n) ==
  CASE l = 0                                   -> "red"
    [] l # 0 /\ IdleAt(l, n) <= Warm           -> "green"
    [] l # 0 /\ IdleAt(l, n) \in Warm + 1..Stale -> "yellow"
    [] OTHER                                   -> "orange"

LEMMA BandIsBandAt ==
  /\ Band = BandAt(disk.row.last, now)
  /\ Band' = BandAt(disk'.row.last, now')
  BY DEF Band, BandAt, DaysIdle, IdleAt

LEMMA BandCases ==
  ASSUME NEW l \in Hours \cup {0}, NEW n \in Hours
  PROVE  /\ l = 0 => BandAt(l, n) = "red"
         /\ l # 0 /\ IdleAt(l, n) <= Warm => BandAt(l, n) = "green"
         /\ l # 0 /\ IdleAt(l, n) > Warm /\ IdleAt(l, n) <= Stale => BandAt(l, n) = "yellow"
         /\ l # 0 /\ IdleAt(l, n) > Warm /\ IdleAt(l, n) > Stale => BandAt(l, n) = "orange"
<1>1. CASE l = 0
  BY <1>1 DEF BandAt
<1>2. CASE l # 0
  <2>1. IdleAt(l, n) \in Nat /\ Warm \in Nat /\ Stale \in Nat
    BY <1>2, IdleWithin
  <2>2. CASE IdleAt(l, n) <= Warm
    BY <1>2, <2>1, <2>2 DEF BandAt
  <2>3. CASE IdleAt(l, n) > Warm /\ IdleAt(l, n) <= Stale
    BY <1>2, <2>1, <2>3 DEF BandAt
  <2>4. CASE IdleAt(l, n) > Warm /\ IdleAt(l, n) > Stale
    BY <1>2, <2>1, <2>4 DEF BandAt
  <2> QED
    BY <1>2, <2>1, <2>2, <2>3, <2>4
<1> QED
  BY <1>1, <1>2

\* An object is green if and only if a hit less than warm + 1 days old is
\* stored, orange if and only if every one stored is older than both thresholds,
\* red if and only if none is stored, however late the records came.
THEOREM BandIsRightEver == Spec => []BandIsRight
<1>1. DateInv => BandIsRight
  <2> SUFFICES ASSUME DateInv PROVE BandIsRight
    OBVIOUS
  <2> DEFINE l == disk.row.last
             T == TimesOf(disk.log)
             Within(w) == \E t \in T : now - t < (w + 1) * Day
  <2>1. now \in Hours /\ l \in Hours \cup {0} /\ T \subseteq Hours
    BY CellFacts, TimesOfLog DEF DateInv
  <2>2. ASSUME disk.log = <<>> PROVE l = 0 /\ T = {}
    BY <2>2 DEF DateInv, DatedRight, TimesOf
  <2>3. ASSUME disk.log # <<>> PROVE l \in T /\ \A t \in T : t <= l
    BY <2>3 DEF DateInv, DatedRight
  <2> HIDE DEF l, T
  <2>4. ASSUME disk.log # <<>>, NEW w \in Nat PROVE IdleAt(l, now) <= w <=> Within(w)
    <3>1. IdleAt(l, now) <= w <=> now - l < (w + 1) * Day
      BY <2>1, <2>3, <2>4, IdleWithin
    <3>2. \A t \in T : now - t < (w + 1) * Day => now - l < (w + 1) * Day
      <4> SUFFICES ASSUME NEW t \in T, now - t < (w + 1) * Day
                   PROVE  now - l < (w + 1) * Day
        OBVIOUS
      <4>1. t <= l /\ t \in Nat /\ l \in Nat /\ now \in Nat /\ (w + 1) * Day \in Nat
        BY <2>1, <2>3, <2>4, HourFacts, Bounds
      <4> QED
        BY <4>1
    <3> QED
      BY <2>3, <2>4, <3>1, <3>2
  <2>5. CASE disk.log = <<>>
    <3>1. Band = "red" /\ ~Within(Warm) /\ ~Within(Stale)
      BY <2>1, <2>2, <2>5, BandIsBandAt, BandCases DEF l
    <3> QED
      BY <2>5, <3>1 DEF BandIsRight, T
  <2>6. CASE disk.log # <<>>
    <3>1. /\ IdleAt(l, now) <= Warm <=> Within(Warm)
          /\ IdleAt(l, now) <= Stale <=> Within(Stale)
          /\ l # 0 /\ IdleAt(l, now) \in Nat
      BY <2>1, <2>3, <2>4, <2>6, IdleWithin, HourFacts
    <3>2. /\ Within(Warm) => Band = "green"
          /\ ~Within(Warm) /\ Within(Stale) => Band = "yellow"
          /\ ~Within(Warm) /\ ~Within(Stale) => Band = "orange"
      BY <2>1, <3>1, BandIsBandAt, BandCases DEF l
    <3> HIDE DEF Within
    <3>3. /\ Band = "green" <=> Within(Warm)
          /\ Band = "orange" <=> ~Within(Warm) /\ ~Within(Stale)
          /\ Band # "red"
      BY <3>2
    <3> QED
      BY <2>6, <3>3 DEF BandIsRight, Within, T
  <2> QED
    BY <2>5, <2>6
<1> QED
  BY <1>1, DateInvariant, PTL

\* Only time cools a verdict: no record, however old its date, no flush and no
\* restart makes the band of an object colder while the clock does not go on.
THEOREM OnlyTimeCoolsEver == Spec => OnlyTimeCools
<1>1. DateInv /\ DateInv' /\ [Next]_vars => [now' <= now => Heat' >= Heat]_vars
  <2> SUFFICES ASSUME DateInv, DateInv', [Next]_vars, now' <= now PROVE Heat' >= Heat
    OBVIOUS
  <2> DEFINE l == disk.row.last
             k == disk'.row.last
  <2>1. /\ now \in Hours /\ now' \in Hours /\ l \in Hours \cup {0} /\ k \in Hours \cup {0}
        /\ l \in Nat /\ k \in Nat
    BY CellFacts DEF DateInv
  <2>2. l <= k
    BY <2>1, NextCases DEF DateInv
  <2>3. Band = BandAt(l, now) /\ Band' = BandAt(k, now')
    BY BandIsBandAt
  <2> HIDE DEF l, k
  <2>4. CASE l = 0
    <3>1. Heat = 0
      BY <2>1, <2>3, <2>4, BandCases DEF Heat
    <3>2. Heat' \in {0, 1, 2, 3}
      BY DEF Heat
    <3> QED
      BY <3>1, <3>2
  <2>5. CASE l # 0
    <3>1. l \in Hours /\ k \in Hours /\ k # 0
      BY <2>1, <2>2, <2>5, HourFacts
    <3>2. /\ IdleAt(k, now') <= IdleAt(l, now)
          /\ IdleAt(k, now') \in Nat /\ IdleAt(l, now) \in Nat
      BY <2>1, <2>2, <3>1, IdleMonotone, IdleWithin
    <3>3. CASE IdleAt(k, now') <= Warm
      <4>1. Heat' = 3
        BY <2>1, <2>3, <3>1, <3>3, BandCases DEF Heat
      <4>2. Heat \in {0, 1, 2, 3}
        BY DEF Heat
      <4> QED
        BY <4>1, <4>2
    <3>4. CASE IdleAt(k, now') > Warm /\ IdleAt(k, now') <= Stale
      <4>1. Heat' = 2
        BY <2>1, <2>3, <3>1, <3>4, BandCases DEF Heat
      <4>2. IdleAt(l, now) > Warm
        BY <3>2, <3>4
      <4>3. Band \in {"yellow", "orange"}
        BY <2>1, <2>3, <2>5, <3>2, <4>2, BandCases
      <4> QED
        BY <4>1, <4>3 DEF Heat
    <3>5. CASE IdleAt(k, now') > Warm /\ IdleAt(k, now') > Stale
      <4>1. Heat' = 1
        BY <2>1, <2>3, <3>1, <3>5, BandCases DEF Heat
      <4>2. IdleAt(l, now) > Warm /\ IdleAt(l, now) > Stale
        BY <3>2, <3>5
      <4>3. Band = "orange"
        BY <2>1, <2>3, <2>5, <4>2, BandCases
      <4> QED
        BY <4>1, <4>3 DEF Heat
    <3> QED
      BY <3>2, <3>3, <3>4, <3>5
  <2> QED
    BY <2>4, <2>5
<1> QED
  BY <1>1, DateInvariant, PTL DEF Spec, OnlyTimeCools

\* Medium confidence is never given to an object whose first and last stored
\* hits are Medium - 1 days apart or less, at whatever hour the report is made
\* and however the clock was set back.
THEOREM ConfidenceIsEarnedEver == Spec => []ConfidenceIsEarned
<1>1. DateInv => ConfidenceIsEarned
  <2> SUFFICES ASSUME DateInv, disk.log # <<>>, ObservedDays >= Medium
               PROVE  Max(TimesOf(disk.log)) - Min(TimesOf(disk.log)) > (Medium - 1) * Day
    BY DEF ConfidenceIsEarned
  <2> DEFINE l == disk.row.last
             f == disk.row.first
             T == TimesOf(disk.log)
  <2>1. /\ now \in Hours /\ T \in SUBSET Nat /\ T \subseteq Hours
        /\ l \in T /\ f \in T /\ \A t \in T : t <= l
    BY CellFacts, TimesOfLog, HourFacts DEF DateInv, DatedRight
  <2>2. f \in Hours /\ l \in Hours /\ f # 0 /\ f \in Nat /\ l \in Nat /\ now \in Nat
        /\ Medium \in Nat \ {0}
    BY <2>1, HourFacts, Bounds
  <2>3. /\ ObservedDays = (IF f = 0 \/ IdleAt(f, now) - IdleAt(l, now) < 0
                           THEN 0 ELSE IdleAt(f, now) - IdleAt(l, now))
    BY DEF ObservedDays, DaysIdle, IdleAt
  <2> HIDE DEF l, f, T
  <2>4. IdleAt(f, now) \in Nat /\ IdleAt(l, now) \in Nat
    BY <2>1, <2>2, IdleWithin
  <2>5. IdleAt(f, now) >= IdleAt(l, now) + Medium
    BY <2>2, <2>3, <2>4
  <2>6. now > f /\ IdleAt(f, now) = (now - f) \div Day /\ now - f \in Nat
    BY <2>2, <2>4, <2>5 DEF IdleAt
  <2>7. l - f > (Medium - 1) * Day
    <3>0. (Medium - 1) * Day \in Nat
      BY <2>2, Bounds
    <3>1. CASE l >= now
      <4>1. 0 \div Day = 0 /\ IdleAt(l, now) = 0
        BY <3>1, Bounds DEF IdleAt
      <4>2. (now - f) \div Day >= 0 \div Day + Medium
        BY <2>5, <2>6, <4>1
      <4>3. now - f - 0 > (Medium - 1) * Day
        BY <2>2, <2>6, <4>2, DivApart
      <4> QED
        BY <2>2, <3>0, <3>1, <4>3
    <3>2. CASE ~(l >= now)
      <4>1. now - l \in Nat /\ IdleAt(l, now) = (now - l) \div Day
        BY <2>2, <3>2 DEF IdleAt
      <4>2. (now - f) - (now - l) > (Medium - 1) * Day
        BY <2>2, <2>5, <2>6, <4>1, DivApart
      <4> QED
        BY <2>2, <3>0, <4>2
    <3> QED
      BY <3>1, <3>2
  <2>8. Max(T) = l /\ Min(T) \in T /\ Min(T) <= f
    BY <2>1, MaxIs, MinOf
  <2>9. Min(T) \in Nat
    BY <2>1, <2>8
  <2>10. (Medium - 1) * Day \in Nat
    BY <2>2, Bounds
  <2> QED
    BY <2>2, <2>7, <2>8, <2>9, <2>10 DEF T
<1> QED
  BY <1>1, DateInvariant, PTL

(***************************************************************************)
(* The histogram: what is trimmed stays trimmed.                           *)
(***************************************************************************)
Above(S, d) == {e \in S : e > d}

LEMMA DatesFinite ==
  ASSUME NEW S \in SUBSET Dates
  PROVE  IsFiniteSet(S) /\ Cardinality(S) \in Nat /\ S \in SUBSET Nat
<1>1. IsFiniteSet(Dates)
  BY HourFacts, FS_Interval DEF Dates
<1>2. IsFiniteSet(S)
  BY <1>1, FS_Subset
<1>3. Cardinality(S) \in Nat
  BY <1>2, FS_CardinalityType
<1> QED
  BY <1>2, <1>3, HourFacts

LEMMA SmallerSet ==
  ASSUME NEW S \in SUBSET Dates, NEW T \in SUBSET S
  PROVE  Cardinality(T) <= Cardinality(S) /\ Cardinality(T) \in Nat /\ Cardinality(S) \in Nat
<1>1. IsFiniteSet(S) /\ T \in SUBSET Dates
  BY DatesFinite
<1>2. Cardinality(T) <= Cardinality(S)
  BY <1>1, FS_Subset
<1> QED
  BY <1>1, <1>2, DatesFinite

LEMMA NewestIs ==
  ASSUME NEW S, NEW n
  PROVE  Newest(S, n) = {d \in S : Cardinality(Above(S, d)) < n}
  BY DEF Newest, Above

\* No more than n dates are the newest n.
LEMMA NewestBounded ==
  ASSUME NEW S \in SUBSET Dates, NEW n \in Nat
  PROVE  Cardinality(Newest(S, n)) <= n
<1> DEFINE N == Newest(S, n)
<1>1. N \in SUBSET Dates /\ N \subseteq S
  BY NewestIs
<1>2. CASE N = {}
  BY <1>2, FS_EmptySet
<1>3. CASE N # {}
  <2>1. PICK m \in N : \A x \in N : m <= x
    BY <1>1, <1>3, DatesFinite, LeastOfNaturals
  <2>2. Cardinality(Above(S, m)) < n
    BY <2>1, NewestIs
  <2> HIDE DEF N
  <2> DEFINE R == N \ {m}
  <2>3. R \subseteq Above(S, m)
    <3> SUFFICES ASSUME NEW x \in N, x # m PROVE x \in S /\ x > m
      BY DEF Above
    <3> QED
      BY <1>1, <2>1, DatesFinite
  <2>4. Above(S, m) \in SUBSET Dates /\ R \in SUBSET Above(S, m)
    BY <2>3 DEF Above
  <2>5. Cardinality(R) <= Cardinality(Above(S, m)) /\ Cardinality(R) \in Nat
        /\ Cardinality(Above(S, m)) \in Nat
    BY <2>4, SmallerSet
  <2>6. IsFiniteSet(N)
    BY <1>1, DatesFinite
  <2>7. Cardinality(R) = Cardinality(N) - 1 /\ Cardinality(N) \in Nat
    BY <1>1, <2>1, <2>6, FS_RemoveElement, DatesFinite
  <2>8. Cardinality(N) <= n
    BY <2>2, <2>5, <2>7
  <2> QED
    BY <2>8 DEF N
<1> QED
  BY <1>2, <1>3

\* To take the newest dates first, and again when one more has come, is the same
\* as to take them of all.
LEMMA NewestAgain ==
  ASSUME NEW S \in SUBSET Dates, NEW d \in Dates, NEW n \in Nat
  PROVE  Newest(Newest(S, n) \cup {d}, n) = Newest(S \cup {d}, n)
<1> DEFINE N == Newest(S, n)
           A == S \cup {d}
           B == N \cup {d}
<1>0. /\ N = {e \in S : Cardinality(Above(S, e)) < n}
      /\ A \in SUBSET Dates /\ B \in SUBSET Dates /\ B \subseteq A /\ N \subseteq S
      /\ Newest(B, n) = {e \in B : Cardinality(Above(B, e)) < n}
      /\ Newest(A, n) = {e \in A : Cardinality(Above(A, e)) < n}
  BY NewestIs
<1> HIDE DEF N
<1>1. \A e \in Dates : Above(S, e) \in SUBSET Dates /\ Above(A, e) \in SUBSET Dates
                       /\ Above(S, e) \subseteq Above(A, e) /\ Above(B, e) \subseteq Above(A, e)
  BY <1>0 DEF Above
<1>2. ASSUME NEW e \in A, Cardinality(Above(A, e)) < n
      PROVE  e \in B /\ Cardinality(Above(B, e)) < n
  <2>1. Cardinality(Above(B, e)) <= Cardinality(Above(A, e))
        /\ Cardinality(Above(S, e)) <= Cardinality(Above(A, e))
        /\ Cardinality(Above(B, e)) \in Nat /\ Cardinality(Above(S, e)) \in Nat
        /\ Cardinality(Above(A, e)) \in Nat
    BY <1>0, <1>1, SmallerSet
  <2>2. Cardinality(Above(B, e)) < n /\ Cardinality(Above(S, e)) < n
    BY <1>2, <2>1
  <2> QED
    BY <1>0, <2>2
<1>3. ASSUME NEW e \in B, Cardinality(Above(B, e)) < n
      PROVE  Cardinality(Above(A, e)) < n
  <2> DEFINE L == {f \in S \ N : f > e}
  <2>1. CASE L = {}
    <3>1. Above(A, e) = Above(B, e)
      BY <1>0, <2>1 DEF Above
    <3> QED
      BY <1>3, <3>1
  <2>2. CASE L # {}
    <3>1. L \in SUBSET Nat /\ \A f \in L : f <= Date(MaxHour)
      BY HourFacts
    <3>2. PICK f \in L : \A g \in L : g <= f
      BY <2>2, <3>1, HourFacts, GreatestOfNaturals
    <3>3. f \in Dates /\ e \in Dates /\ f > e /\ f \in Nat /\ e \in Nat
      BY <1>0, HourFacts
    <3>4. ~(Cardinality(Above(S, f)) < n)
      BY <1>0
    <3>5. Above(S, f) \subseteq Above(B, e)
      <4> SUFFICES ASSUME NEW g \in S, g > f PROVE g \in N /\ g > e
        BY DEF Above
      <4>1. g \in Nat /\ g > e
        BY <3>3, HourFacts
      <4>2. g \notin L
        BY <3>2, <3>3, <4>1
      <4> QED
        BY <4>1, <4>2
    <3>6. Above(B, e) \in SUBSET Dates
      BY <1>0 DEF Above
    <3>7. Cardinality(Above(S, f)) <= Cardinality(Above(B, e))
          /\ Cardinality(Above(S, f)) \in Nat /\ Cardinality(Above(B, e)) \in Nat
      BY <3>5, <3>6, SmallerSet
    <3> QED
      BY <1>3, <3>4, <3>7
  <2> QED
    BY <2>1, <2>2
<1>4. Newest(B, n) = Newest(A, n)
  BY <1>0, <1>2, <1>3
<1> QED
  BY <1>4 DEF N

DatesOf(log)   == {Date(t) : t \in TimesOf(log)}
HitsOn(log, d) == {i \in DOMAIN log : Date(log[i].ts) = d}

LEMMA DailyOfIs ==
  ASSUME NEW log
  PROVE  DailyOf(log) = [d \in Dates |-> IF d \in Newest(DatesOf(log), Keep)
                                         THEN Cardinality(HitsOn(log, d)) ELSE 0]
  BY DEF DailyOf, DatesOf, HitsOn

LEMMA HitsOnFacts ==
  ASSUME NEW log \in Seq(Hit), NEW d \in Dates
  PROVE  /\ IsFiniteSet(HitsOn(log, d)) /\ Cardinality(HitsOn(log, d)) \in Nat
         /\ Cardinality(HitsOn(log, d)) <= Len(log)
         /\ Cardinality(HitsOn(log, d)) > 0 <=> d \in DatesOf(log)
         /\ DatesOf(log) \in SUBSET Dates
<1>1. /\ Len(log) \in Nat /\ DOMAIN log = 1..Len(log) /\ HitsOn(log, d) \subseteq 1..Len(log)
  BY DEF HitsOn
<1>2. IsFiniteSet(1..Len(log)) /\ Cardinality(1..Len(log)) = Len(log)
  BY <1>1, UpTo
<1>3. IsFiniteSet(HitsOn(log, d)) /\ Cardinality(HitsOn(log, d)) <= Len(log)
  BY <1>1, <1>2, FS_Subset
<1>4. Cardinality(HitsOn(log, d)) \in Nat
  BY <1>3, FS_CardinalityType
<1>5. HitsOn(log, d) # {} <=> d \in DatesOf(log)
  BY DEF HitsOn, DatesOf, TimesOf
<1>6. Cardinality(HitsOn(log, d)) = 0 <=> HitsOn(log, d) = {}
  BY <1>3, FS_EmptySet
<1>7. DatesOf(log) \in SUBSET Dates
  BY TimesOfLog, HourFacts DEF DatesOf
<1> QED
  BY <1>3, <1>4, <1>5, <1>6, <1>7

LEMMA HitsOnAppend ==
  ASSUME NEW log \in Seq(Hit), NEW ts \in Hours, NEW u \in Users \cup {NoUser},
         NEW d \in Dates
  PROVE  LET l == Append(log, [ts |-> ts, user |-> u]) IN
         Cardinality(HitsOn(l, d)) =
           Cardinality(HitsOn(log, d)) + (IF d = Date(ts) THEN 1 ELSE 0)
<1> DEFINE l == Append(log, [ts |-> ts, user |-> u])
           n == Len(log) + 1
<1>1. /\ DOMAIN log = 1..Len(log) /\ DOMAIN l = 1..n /\ Len(log) \in Nat
      /\ l[n].ts = ts /\ \A i \in 1..Len(log) : l[i] = log[i]
  BY OneMoreHit
<1> HIDE DEF l
<1>2. IsFiniteSet(HitsOn(log, d)) /\ Cardinality(HitsOn(log, d)) \in Nat
  BY HitsOnFacts
<1>3. n \notin HitsOn(log, d)
  BY <1>1 DEF HitsOn
<1>4. \A i : i \in 1..n <=> i \in 1..Len(log) \/ i = n
  BY <1>1
<1>5. CASE d = Date(ts)
  <2>1. HitsOn(l, d) = HitsOn(log, d) \cup {n}
    BY <1>1, <1>4, <1>5 DEF HitsOn
  <2>2. Cardinality(HitsOn(l, d)) = Cardinality(HitsOn(log, d)) + 1
    BY <1>2, <1>3, <2>1, FS_AddElement
  <2> QED
    BY <1>5, <2>2 DEF l
<1>6. CASE d # Date(ts)
  <2>1. HitsOn(l, d) = HitsOn(log, d)
    BY <1>1, <1>4, <1>6 DEF HitsOn
  <2> QED
    BY <1>2, <1>6, <2>1 DEF l
<1> QED
  BY <1>5, <1>6

LEMMA DatesOfAppend ==
  ASSUME NEW log \in Seq(Hit), NEW ts \in Hours, NEW u \in Users \cup {NoUser}
  PROVE  DatesOf(Append(log, [ts |-> ts, user |-> u])) = DatesOf(log) \cup {Date(ts)}
<1>1. TimesOf(Append(log, [ts |-> ts, user |-> u])) = TimesOf(log) \cup {ts}
  BY TimesOfAppend
<1> QED
  BY <1>1 DEF DatesOf

\* The histogram a row has is the one of its log.
LEMMA CountedDaily ==
  ASSUME NEW c \in Cells, NEW ts \in Hours, NEW u \in Users \cup {NoUser},
         c.row.daily = DailyOf(c.log)
  PROVE  Counted(c, ts, u).row.daily = DailyOf(Counted(c, ts, u).log)
<1> DEFINE x == Counted(c, ts, u)
           d == Date(ts)
           D == DatesOf(c.log)
           N == Newest(D, Keep)
           K == Newest(D \cup {d}, Keep)
           H(e) == Cardinality(HitsOn(c.log, e))
           day == [c.row.daily EXCEPT ![d] = @ + 1]
<1>1. /\ c.log \in Seq(Hit) /\ c.row.daily \in [Dates -> Nat]
      /\ d \in Dates /\ D \in SUBSET Dates
  BY CellFacts, HourFacts, HitsOnFacts
<1>2. x.row.daily = Trimmed(day) /\ x.log = Append(c.log, [ts |-> ts, user |-> u])
  BY CountedFields
<1>3. c.row.daily = [e \in Dates |-> IF e \in N THEN H(e) ELSE 0]
  BY DailyOfIs
<1>4. \A e \in Dates : H(e) \in Nat /\ (H(e) > 0 <=> e \in D)
  BY <1>1, HitsOnFacts
<1>5. N \subseteq D /\ K \subseteq D \cup {d}
  BY NewestIs
<1>6. DailyOf(x.log) = [e \in Dates |-> IF e \in K
                                        THEN H(e) + (IF e = d THEN 1 ELSE 0) ELSE 0]
  <2>1. DatesOf(x.log) = D \cup {d}
    BY <1>1, <1>2, DatesOfAppend
  <2>2. \A e \in Dates : Cardinality(HitsOn(x.log, e)) = H(e) + (IF e = d THEN 1 ELSE 0)
    BY <1>1, <1>2, HitsOnAppend
  <2> HIDE DEF x, H, D
  <2>3. DailyOf(x.log) = [e \in Dates |-> IF e \in K
                                         THEN Cardinality(HitsOn(x.log, e)) ELSE 0]
    BY <2>1, DailyOfIs
  <2> QED
    BY <2>2, <2>3
<1> HIDE DEF x, H, N, K, D, d
<1>7. day = [e \in Dates |-> (IF e \in N THEN H(e) ELSE 0) + (IF e = d THEN 1 ELSE 0)]
  BY <1>1, <1>3, <1>4
<1>8. {e \in Dates : day[e] > 0} = N \cup {d}
  BY <1>1, <1>4, <1>5, <1>7
<1>9. Newest(N \cup {d}, Keep) = K
  <2>1. Keep \in Nat
    BY Bounds
  <2> QED
    BY <1>1, <2>1, NewestAgain DEF N, K
<1>10. Trimmed(day) = [e \in Dates |-> IF e \in K THEN day[e] ELSE 0]
  BY <1>8, <1>9 DEF Trimmed
<1>11. K \subseteq N \cup {d}
  BY <1>9, NewestIs
<1>12. ASSUME NEW e \in K, e \in Dates
       PROVE  day[e] = H(e) + (IF e = d THEN 1 ELSE 0)
  <2>1. CASE e \in N
    BY <1>4, <1>7, <1>12, <2>1
  <2>2. CASE e \notin N
    <3>1. e = d
      BY <1>11, <1>12, <2>2
    <3>2. e \notin D
      <4> SUFFICES ASSUME e \in D PROVE FALSE
        OBVIOUS
      <4>1. D \cup {d} = D
        BY <3>1
      <4> QED
        BY <1>12, <2>2, <4>1 DEF N, K
    <3> QED
      BY <1>1, <1>4, <1>7, <2>2, <3>1, <3>2
  <2> QED
    BY <2>1, <2>2
<1>13. Trimmed(day) = DailyOf(x.log)
  BY <1>6, <1>10, <1>12
<1> QED
  BY <1>2, <1>13 DEF x

LEMMA NothingDaily == NewRow.daily = DailyOf(<<>>)
<1>1. Newest(DatesOf(<<>>), Keep) = {}
  BY NewestIs DEF DatesOf, TimesOf
<1> QED
  BY <1>1, DailyOfIs DEF NewRow

\* A histogram that is the one of a log has at most Keep dates, and no date more
\* hits than there are in the log.
LEMMA DailyBounded ==
  ASSUME NEW log \in Seq(Hit), Len(log) <= MaxHits
  PROVE  /\ DailyOf(log) \in [Dates -> 0..MaxHits]
         /\ Cardinality({d \in Dates : DailyOf(log)[d] > 0}) <= Keep
<1> DEFINE D == DatesOf(log)
           N == Newest(D, Keep)
<1>1. Keep \in Nat /\ MaxHits \in Nat /\ Len(log) \in Nat
  BY Bounds
<1>2. D \in SUBSET Dates
  <2>1. \A t \in TimesOf(log) : Date(t) \in Dates
    BY TimesOfLog, HourFacts
  <2> QED
    BY <2>1 DEF DatesOf
<1>3. \A d \in Dates : /\ Cardinality(HitsOn(log, d)) \in Nat
                        /\ Cardinality(HitsOn(log, d)) <= Len(log)
                        /\ Cardinality(HitsOn(log, d)) > 0 <=> d \in D
  BY HitsOnFacts
<1>4. N \subseteq D
  BY NewestIs
<1>5. Cardinality(N) <= Keep
  BY <1>1, <1>2, NewestBounded
<1> HIDE DEF D, N
<1>6. DailyOf(log) = [d \in Dates |-> IF d \in N THEN Cardinality(HitsOn(log, d)) ELSE 0]
  BY DailyOfIs DEF D, N
<1>7. {d \in Dates : DailyOf(log)[d] > 0} = N
  BY <1>2, <1>3, <1>4, <1>6
<1>8. DailyOf(log) \in [Dates -> 0..MaxHits]
  <2>1. ASSUME NEW d \in Dates PROVE Cardinality(HitsOn(log, d)) \in 0..MaxHits
    <3>1. Cardinality(HitsOn(log, d)) \in Nat /\ Cardinality(HitsOn(log, d)) <= Len(log)
      BY HitsOnFacts
    <3> QED
      BY <1>1, <3>1
  <2>2. 0 \in 0..MaxHits
    BY <1>1
  <2> QED
    BY <1>6, <2>1, <2>2
<1> QED
  BY <1>5, <1>7, <1>8

(***************************************************************************)
(* The sample: the users of the log who came last, in that order.          *)
(***************************************************************************)
LEMMA UsersOfLog ==
  ASSUME NEW log \in Seq(Hit)
  PROVE  /\ UsersOf(log) \subseteq Users /\ IsFiniteSet(UsersOf(log))
         /\ \A u \in UsersOf(log) : /\ LastHit(log, u) \in 1..Len(log)
                                    /\ log[LastHit(log, u)].user = u
<1>1. Len(log) \in Nat /\ DOMAIN log = 1..Len(log) /\ \A i \in DOMAIN log : log[i] \in Hit
  OBVIOUS
<1>2. UsersOf(log) \subseteq Users
  BY <1>1 DEF UsersOf, Hit
<1>3. IsFiniteSet(UsersOf(log))
  <2> DEFINE W == {log[i].user : i \in 1..Len(log)}
             f == [i \in 1..Len(log) |-> log[i].user]
  <2>1. f \in Surjection(1..Len(log), W)
    BY DEF Surjection
  <2>2. IsFiniteSet(1..Len(log))
    BY <1>1, UpTo
  <2>3. IsFiniteSet(W)
    BY <2>1, <2>2, FS_Surjection
  <2>4. UsersOf(log) \in SUBSET W
    BY <1>1 DEF UsersOf
  <2> QED
    BY <2>3, <2>4, FS_Subset
<1>4. ASSUME NEW u \in UsersOf(log)
      PROVE  LastHit(log, u) \in 1..Len(log) /\ log[LastHit(log, u)].user = u
  <2> DEFINE I == {i \in DOMAIN log : log[i].user = u}
  <2>1. I \in SUBSET Nat /\ I # {} /\ \A i \in I : i <= Len(log)
    BY <1>1 DEF UsersOf
  <2>2. Max(I) \in I
    BY <1>1, <2>1, MaxOf
  <2> QED
    BY <1>1, <2>2 DEF LastHit
<1> QED
  BY <1>2, <1>3, <1>4

\* The user of one more hit is now the last; no other one has moved.
LEMMA LastHitAppend ==
  ASSUME NEW log \in Seq(Hit), NEW ts \in Hours, NEW u \in Users \cup {NoUser}
  PROVE  LET l == Append(log, [ts |-> ts, user |-> u]) IN
         /\ UsersOf(l) = UsersOf(log) \cup ({u} \ {NoUser})
         /\ LastHit(l, u) = Len(log) + 1
         /\ \A w \in Users \ {u} : LastHit(l, w) = LastHit(log, w)
<1> DEFINE l == Append(log, [ts |-> ts, user |-> u])
           n == Len(log) + 1
<1>1. /\ DOMAIN log = 1..Len(log) /\ DOMAIN l = 1..n /\ Len(log) \in Nat /\ n \in Nat
      /\ l[n].user = u /\ \A i \in 1..Len(log) : l[i] = log[i]
  BY OneMoreHit
<1> HIDE DEF l
<1>2. \A i : i \in 1..n <=> i \in 1..Len(log) \/ i = n
  BY <1>1
<1>3. UsersOf(l) = UsersOf(log) \cup ({u} \ {NoUser})
  BY <1>1, <1>2 DEF UsersOf
<1>4. LastHit(l, u) = n
  <2> DEFINE I == {i \in DOMAIN l : l[i].user = u}
  <2>1. I \in SUBSET Nat /\ n \in I /\ \A i \in I : i <= n
    BY <1>1
  <2>2. Max(I) = n
    BY <2>1, MaxIs
  <2> QED
    BY <2>2 DEF LastHit
<1>5. ASSUME NEW w \in Users \ {u} PROVE LastHit(l, w) = LastHit(log, w)
  <2>1. {i \in DOMAIN l : l[i].user = w} = {i \in DOMAIN log : log[i].user = w}
    BY <1>1, <1>2
  <2> QED
    BY <2>1 DEF LastHit
<1> QED
  BY <1>3, <1>4, <1>5 DEF l


LEMMA SetOfDistinct ==
  ASSUME NEW s \in Seq(Users), \A i, j \in 1..Len(s) : s[i] = s[j] => i = j
  PROVE  IsFiniteSet(ToSet(s)) /\ Cardinality(ToSet(s)) = Len(s)
<1>1. Len(s) \in Nat /\ DOMAIN s = 1..Len(s)
  OBVIOUS
<1>2. IsFiniteSet(1..Len(s)) /\ Cardinality(1..Len(s)) = Len(s)
  BY <1>1, UpTo
<1> DEFINE f == [i \in 1..Len(s) |-> s[i]]
<1>3. f \in Surjection(1..Len(s), ToSet(s)) /\ f \in Injection(1..Len(s), ToSet(s))
  BY <1>1 DEF Surjection, Injection, IsInjective, ToSet
<1> QED
  BY <1>2, <1>3, FS_Surjection

\* list.remove on a list of distinct members.
LEMMA RemoveFirstFacts ==
  ASSUME NEW s \in Seq(Users), NEW u, \A i, j \in 1..Len(s) : s[i] = s[j] => i = j
  PROVE  LET r == RemoveFirst(s, u) IN
         /\ r \in Seq(Users)
         /\ Len(s) - 1 <= Len(r) /\ Len(r) <= Len(s)
         /\ ToSet(r) = ToSet(s) \ {u}
         /\ \A i, j \in 1..Len(r) : i < j =>
              \E a, b \in 1..Len(s) : a < b /\ r[i] = s[a] /\ r[j] = s[b]
<1> DEFINE r == RemoveFirst(s, u)
<1>0. Len(s) \in Nat /\ DOMAIN s = 1..Len(s)
  OBVIOUS
<1>1. CASE ~\E i \in 1..Len(s) : s[i] = u
  <2>1. r = s
    BY <1>1 DEF RemoveFirst
  <2> QED
    BY <1>0, <1>1, <2>1 DEF ToSet
<1>2. CASE \E i \in 1..Len(s) : s[i] = u
  <2> DEFINE I == {i \in 1..Len(s) : s[i] = u}
             k == Min(I)
  <2>1. I \in SUBSET Nat /\ I # {}
    BY <1>2
  <2>2. k \in I
    BY <2>1, MinOf
  <2>3. SelectInSeq(s, LAMBDA v : v = u) = k
    BY <1>2 DEF SelectInSeq
  <2>4. r = SubSeq(s, 1, k - 1) \o SubSeq(s, k + 1, Len(s))
    BY <1>2, <2>3 DEF RemoveFirst, RemoveAt
  <2>5. k \in 1..Len(s) /\ s[k] = u
    BY <2>2
  <2> HIDE DEF k, I, r
  <2>6. /\ r \in Seq(Users) /\ Len(r) = Len(s) - 1
        /\ \A i \in 1..Len(r) : r[i] = s[IF i < k THEN i ELSE i + 1]
    <3> DEFINE a == SubSeq(s, 1, k - 1)
               b == SubSeq(s, k + 1, Len(s))
    <3>1. /\ a \in Seq(Users) /\ Len(a) = k - 1 /\ k - 1 \in Nat
          /\ \A i \in 1..k - 1 : a[i] = s[i]
      BY <1>0, <2>5
    <3>2. /\ b \in Seq(Users) /\ Len(b) = Len(s) - k /\ Len(s) - k \in Nat
          /\ \A i \in 1..Len(s) - k : b[i] = s[i + k]
      <4>1. /\ k \in Int /\ k + 1 \in Int /\ Len(s) \in Int /\ Len(s) - k \in Nat
            /\ \A i \in k + 1..Len(s) : s[i] \in Users
        BY <1>0, <2>5
      <4>2. /\ b \in Seq(Users) /\ Len(b) = IF k + 1 <= Len(s) THEN Len(s) - (k + 1) + 1 ELSE 0
            /\ \A i \in 1..Len(s) - (k + 1) + 1 : b[i] = s[k + 1 + i - 1]
        BY <4>1, SubSeqProperties
      <4>3. Len(s) - (k + 1) + 1 = Len(s) - k /\ \A i \in 1..Len(s) - k : k + 1 + i - 1 = i + k
        BY <4>1
      <4> HIDE DEF b
      <4>4. Len(b) = Len(s) - k
        BY <4>1, <4>2
      <4>5. ASSUME NEW i \in 1..Len(s) - k PROVE b[i] = s[i + k]
        <5>1. i \in 1..Len(s) - (k + 1) + 1 /\ k + 1 + i - 1 = i + k
          BY <4>3
        <5> QED
          BY <4>2, <5>1
      <4> QED
        BY <4>1, <4>2, <4>4, <4>5
    <3> HIDE DEF a, b
    <3>3. /\ r \in Seq(Users) /\ Len(r) = Len(s) - 1
          /\ \A i \in 1..Len(r) : r[i] = IF i <= k - 1 THEN a[i] ELSE b[i - (k - 1)]
      <4>1. r = a \o b
        BY <2>4 DEF a, b
      <4>2. /\ r \in Seq(Users) /\ Len(r) = Len(a) + Len(b)
            /\ \A i \in 1..Len(a) + Len(b) : r[i] = IF i <= Len(a) THEN a[i] ELSE b[i - Len(a)]
        <5>1. a \in Seq(Users) /\ b \in Seq(Users)
          BY <3>1, <3>2
        <5>2. /\ a \o b \in Seq(Users) /\ Len(a \o b) = Len(a) + Len(b)
              /\ \A i \in 1..Len(a) + Len(b) :
                   (a \o b)[i] = IF i <= Len(a) THEN a[i] ELSE b[i - Len(a)]
          BY ONLY <5>1, ConcatProperties
        <5> QED
          BY ONLY <4>1, <5>2
      <4>3. Len(a) + Len(b) = Len(s) - 1
        BY <1>0, <2>5, <3>1, <3>2
      <4> QED
        BY <3>1, <4>2, <4>3
    <3>4. ASSUME NEW i \in 1..Len(r) PROVE r[i] = s[IF i < k THEN i ELSE i + 1]
      <4>1. CASE i < k
        <5>1. i <= k - 1 /\ i \in 1..k - 1
          BY <1>0, <2>5, <3>3, <4>1
        <5> QED
          BY <3>1, <3>3, <4>1, <5>1
      <4>2. CASE ~(i < k)
        <5>1. ~(i <= k - 1) /\ i - (k - 1) \in 1..Len(s) - k /\ i - (k - 1) + k = i + 1
          BY <1>0, <2>5, <3>3, <4>2
        <5> QED
          BY <3>2, <3>3, <4>2, <5>1
      <4> QED
        BY <4>1, <4>2
    <3> QED
      BY <3>3, <3>4
  <2>7. ToSet(r) = ToSet(s) \ {u}
    <3>0. DOMAIN r = 1..Len(r)
      BY <2>6
    <3>1. ASSUME NEW i \in 1..Len(r) PROVE r[i] \in ToSet(s) \ {u}
      <4> DEFINE a == IF i < k THEN i ELSE i + 1
      <4>1. a \in 1..Len(s) /\ a # k /\ r[i] = s[a]
        BY <1>0, <2>5, <2>6
      <4>2. s[a] # u
        BY <2>5, <4>1
      <4> QED
        BY <1>0, <4>1, <4>2 DEF ToSet
    <3>2. ASSUME NEW a \in 1..Len(s), s[a] # u PROVE s[a] \in ToSet(r)
      <4> DEFINE i == IF a < k THEN a ELSE a - 1
      <4>1. i \in 1..Len(r) /\ (IF i < k THEN i ELSE i + 1) = a
        BY <1>0, <2>5, <2>6, <3>2
      <4>2. r[i] = s[a]
        BY <2>6, <4>1
      <4> QED
        BY <3>0, <4>1, <4>2 DEF ToSet
    <3>3. ToSet(r) \subseteq ToSet(s) \ {u}
      BY <3>0, <3>1 DEF ToSet
    <3>4. ToSet(s) \ {u} \subseteq ToSet(r)
      BY <1>0, <3>2 DEF ToSet
    <3> QED
      BY <3>3, <3>4
  <2>8. ASSUME NEW i \in 1..Len(r), NEW j \in 1..Len(r), i < j
        PROVE  \E a, b \in 1..Len(s) : a < b /\ r[i] = s[a] /\ r[j] = s[b]
    <3> DEFINE a == IF i < k THEN i ELSE i + 1
               b == IF j < k THEN j ELSE j + 1
    <3>1. a \in 1..Len(s) /\ b \in 1..Len(s) /\ a < b
      BY <1>0, <2>5, <2>6, <2>8
    <3>2. r[i] = s[a] /\ r[j] = s[b]
      BY <2>6
    <3> QED
      BY <3>1, <3>2
  <2>9. Len(s) - 1 <= Len(r) /\ Len(r) <= Len(s)
    BY <1>0, <2>6
  <2> QED
    BY <2>6, <2>7, <2>8, <2>9 DEF r
<1> QED
  BY <1>1, <1>2

\* The users of s come in the order of their last hits, and none of the log who
\* came after one of them is missing.
Recent(s, log) ==
  /\ ToSet(s) \subseteq UsersOf(log)
  /\ \A i, j \in 1..Len(s) : i < j => LastHit(log, s[i]) < LastHit(log, s[j])
  /\ \A v \in ToSet(s), w \in UsersOf(log) :
       LastHit(log, w) > LastHit(log, v) => w \in ToSet(s)

SampleRight(c) ==
  /\ Recent(c.row.users, c.log)
  /\ Len(c.row.users) <= Cap
  /\ Len(c.row.users) < Cap => ToSet(c.row.users) = UsersOf(c.log)

LEMMA RecentDistinct ==
  ASSUME NEW log \in Seq(Hit), NEW s \in Seq(Users), Recent(s, log)
  PROVE  /\ \A i, j \in 1..Len(s) : s[i] = s[j] => i = j
         /\ \A i \in 1..Len(s) : s[i] \in UsersOf(log) /\ LastHit(log, s[i]) \in Nat
<1>1. Len(s) \in Nat /\ DOMAIN s = 1..Len(s)
  OBVIOUS
<1>2. ASSUME NEW i \in 1..Len(s)
      PROVE  s[i] \in UsersOf(log) /\ LastHit(log, s[i]) \in Nat
  <2>1. s[i] \in UsersOf(log)
    BY <1>1 DEF Recent, ToSet
  <2>2. LastHit(log, s[i]) \in 1..Len(log)
    BY <2>1, UsersOfLog
  <2> QED
    BY <2>1, <2>2
<1>3. ASSUME NEW i \in 1..Len(s), NEW j \in 1..Len(s), s[i] = s[j], i # j
      PROVE  FALSE
  <2>1. i < j \/ j < i
    BY <1>3
  <2>2. LastHit(log, s[i]) < LastHit(log, s[j]) \/ LastHit(log, s[j]) < LastHit(log, s[i])
    BY <2>1 DEF Recent
  <2> QED
    BY <1>2, <1>3, <2>2
<1> QED
  BY <1>2, <1>3

\* A user who came again goes to the end; the others keep their order.
LEMMA RecentAppend ==
  ASSUME NEW log \in Seq(Hit), NEW s \in Seq(Users), Recent(s, log),
         NEW ts \in Hours, NEW u \in Users
  PROVE  LET q == Append(RemoveFirst(s, u), u)
             l == Append(log, [ts |-> ts, user |-> u])
         IN /\ Recent(q, l)
            /\ q \in Seq(Users) /\ Len(s) <= Len(q) /\ Len(q) <= Len(s) + 1
            /\ ToSet(q) = ToSet(s) \cup {u}
<1> DEFINE r == RemoveFirst(s, u)
           q == Append(r, u)
           l == Append(log, [ts |-> ts, user |-> u])
           n == Len(log) + 1
<1>1. /\ \A i, j \in 1..Len(s) : s[i] = s[j] => i = j
      /\ \A i \in 1..Len(s) : s[i] \in UsersOf(log)
  BY RecentDistinct
<1>2. /\ r \in Seq(Users) /\ Len(s) - 1 <= Len(r) /\ Len(r) <= Len(s)
      /\ ToSet(r) = ToSet(s) \ {u}
      /\ \A i, j \in 1..Len(r) : i < j =>
           \E a, b \in 1..Len(s) : a < b /\ r[i] = s[a] /\ r[j] = s[b]
  BY <1>1, RemoveFirstFacts
<1>3. /\ UsersOf(l) = UsersOf(log) \cup {u} /\ LastHit(l, u) = n
      /\ \A w \in Users \ {u} : LastHit(l, w) = LastHit(log, w)
  BY LastHitAppend
<1>4. /\ UsersOf(log) \subseteq Users
      /\ \A w \in UsersOf(log) : LastHit(log, w) \in Nat /\ LastHit(log, w) < n
  <2>1. \A w \in UsersOf(log) : LastHit(log, w) \in 1..Len(log) /\ Len(log) \in Nat
    BY UsersOfLog
  <2> QED
    BY <2>1, UsersOfLog
<1> HIDE DEF l, r
<1>5. /\ q \in Seq(Users) /\ Len(q) = Len(r) + 1 /\ Len(r) \in Nat /\ Len(s) \in Nat
      /\ q[Len(r) + 1] = u /\ \A i \in 1..Len(r) : q[i] = r[i]
      /\ DOMAIN q = 1..Len(q) /\ DOMAIN r = 1..Len(r)
  BY <1>2
<1> HIDE DEF q, n
<1>6. \A i : i \in 1..Len(q) <=> i \in 1..Len(r) \/ i = Len(r) + 1
  BY <1>5
<1>7. ToSet(q) = ToSet(r) \cup {u}
  <2>1. ASSUME NEW w \in ToSet(q) PROVE w \in ToSet(r) \cup {u}
    BY <1>5, <1>6 DEF ToSet
  <2>2. ASSUME NEW w \in ToSet(r) PROVE w \in ToSet(q)
    BY <1>5, <1>6 DEF ToSet
  <2>3. u \in ToSet(q)
    BY <1>5, <1>6 DEF ToSet
  <2> QED
    BY <2>1, <2>2, <2>3
<1>8. ToSet(q) = ToSet(s) \cup {u}
  BY <1>2, <1>7
<1>9. ToSet(q) \subseteq UsersOf(l)
  BY <1>3, <1>8 DEF Recent
<1>10. ASSUME NEW i \in 1..Len(r)
       PROVE  r[i] \in UsersOf(log) /\ r[i] # u /\ r[i] \in Users
  <2>1. r[i] \in ToSet(s) \ {u}
    BY <1>2, <1>5 DEF ToSet
  <2> QED
    BY <1>4, <2>1 DEF Recent
<1>11. ASSUME NEW i \in 1..Len(q), NEW j \in 1..Len(q), i < j
       PROVE  LastHit(l, q[i]) < LastHit(l, q[j])
  <2>1. i \in 1..Len(r)
    BY <1>5, <1>11
  <2>2. CASE j \in 1..Len(r)
    <3>1. PICK a, b \in 1..Len(s) : a < b /\ r[i] = s[a] /\ r[j] = s[b]
      BY <1>2, <1>11, <2>1, <2>2
    <3>2. LastHit(log, r[i]) < LastHit(log, r[j])
      BY <3>1 DEF Recent
    <3> QED
      BY <1>3, <1>5, <1>10, <2>1, <2>2, <3>2
  <2>3. CASE j = Len(r) + 1
    <3>1. LastHit(l, q[j]) = n
      BY <1>3, <1>5, <2>3
    <3> QED
      BY <1>3, <1>4, <1>5, <1>10, <2>1, <3>1
  <2> QED
    BY <1>6, <2>2, <2>3
<1>12. ASSUME NEW v \in ToSet(q), NEW w \in UsersOf(l), LastHit(l, w) > LastHit(l, v)
       PROVE  w \in ToSet(q)
  <2>1. CASE w = u
    BY <1>8, <2>1
  <2>2. CASE w # u
    <3>1. w \in UsersOf(log) /\ LastHit(l, w) = LastHit(log, w)
      BY <1>3, <1>4, <2>2
    <3>2. n \in Nat
      BY DEF n
    <3>3. v # u
      BY <1>3, <1>4, <1>12, <3>1, <3>2
    <3>4. v \in ToSet(s) /\ v \in Users
      BY <1>4, <1>8, <3>3 DEF Recent
    <3>5. LastHit(log, w) > LastHit(log, v)
      BY <1>3, <1>12, <3>1, <3>3, <3>4
    <3> QED
      BY <1>8, <3>1, <3>4, <3>5 DEF Recent
  <2> QED
    BY <2>1, <2>2
<1>13. Recent(q, l)
  BY <1>9, <1>11, <1>12 DEF Recent
<1>14. Len(s) <= Len(q) /\ Len(q) <= Len(s) + 1
  BY <1>2, <1>5
<1> QED
  BY <1>5, <1>8, <1>13, <1>14 DEF q, l, r

\* Who is first in the sample may go.
LEMMA RecentTail ==
  ASSUME NEW log \in Seq(Hit), NEW q \in Seq(Users), Recent(q, log), Len(q) > 1
  PROVE  Recent(SubSeq(q, 2, Len(q)), log)
<1> DEFINE s == SubSeq(q, 2, Len(q))
<1>1. /\ s \in Seq(Users) /\ Len(s) = Len(q) - 1 /\ Len(q) \in Nat
      /\ \A i \in 1..Len(s) : s[i] = q[i + 1]
      /\ DOMAIN q = 1..Len(q) /\ DOMAIN s = 1..Len(s)
  OBVIOUS
<1> HIDE DEF s
<1>2. \A i \in 1..Len(s) : i + 1 \in 1..Len(q) /\ i + 1 > 1
  BY <1>1
<1>3. /\ \A i \in 1..Len(q) : q[i] \in UsersOf(log) /\ LastHit(log, q[i]) \in Nat
  BY RecentDistinct
<1>4. ToSet(s) \subseteq ToSet(q)
  BY <1>1, <1>2 DEF ToSet
<1>5. ASSUME NEW i \in 1..Len(s), NEW j \in 1..Len(s), i < j
      PROVE  LastHit(log, s[i]) < LastHit(log, s[j])
  <2>1. i + 1 < j + 1
    BY <1>5
  <2> QED
    BY <1>1, <1>2, <2>1 DEF Recent
<1>6. ASSUME NEW i \in 1..Len(s), NEW w \in UsersOf(log),
             LastHit(log, w) > LastHit(log, s[i])
      PROVE  w \in ToSet(s)
  <2>1. w \in ToSet(q)
    BY <1>1, <1>4, <1>6 DEF Recent, ToSet
  <2>2. PICK j \in 1..Len(q) : w = q[j]
    BY <1>1, <2>1 DEF ToSet
  <2>3. j # 1
    <3> SUFFICES ASSUME j = 1 PROVE FALSE
      OBVIOUS
    <3>1. LastHit(log, q[1]) < LastHit(log, q[i + 1])
      BY <1>1, <1>2 DEF Recent
    <3>2. s[i] = q[i + 1] /\ i + 1 \in 1..Len(q) /\ 1 \in 1..Len(q)
      BY <1>1, <1>2
    <3>3. LastHit(log, q[1]) \in Nat /\ LastHit(log, q[i + 1]) \in Nat
      BY <1>3, <3>2
    <3>4. LastHit(log, q[1]) > LastHit(log, q[i + 1])
      BY <1>6, <2>2, <3>2
    <3> QED
      BY <3>1, <3>3, <3>4
  <2>4. j - 1 \in 1..Len(s) /\ s[j - 1] = q[j]
    BY <1>1, <2>3
  <2> QED
    BY <1>1, <2>2, <2>4 DEF ToSet
<1>7. ToSet(s) \subseteq UsersOf(log)
  BY <1>4 DEF Recent
<1>8. \A v \in ToSet(s) : \E i \in 1..Len(s) : v = s[i]
  BY <1>1 DEF ToSet
<1>9. Recent(s, log)
  BY <1>5, <1>6, <1>7, <1>8 DEF Recent
<1> QED
  BY <1>9 DEF s

LEMMA CountedSample ==
  ASSUME NEW c \in Cells, NEW ts \in Hours, NEW u \in Users \cup {NoUser}, SampleRight(c)
  PROVE  SampleRight(Counted(c, ts, u))
<1> DEFINE x == Counted(c, ts, u)
           s == c.row.users
           l == Append(c.log, [ts |-> ts, user |-> u])
           q == Append(RemoveFirst(s, u), u)
<1>1. c.log \in Seq(Hit) /\ s \in Seq(Users) /\ Cap \in Nat \ {0}
  BY CellFacts, Bounds
<1>2. x.row.users = Sampled(s, u) /\ x.log = l
  BY CountedFields
<1>3. Recent(s, c.log) /\ Len(s) <= Cap /\ (Len(s) < Cap => ToSet(s) = UsersOf(c.log))
  BY DEF SampleRight
<1>4. UsersOf(l) = UsersOf(c.log) \cup ({u} \ {NoUser})
  BY <1>1, LastHitAppend
<1> HIDE DEF x, s
<1>5. CASE u = NoUser
  <2>1. Sampled(s, u) = s
    BY <1>5 DEF Sampled
  <2>2. \A w \in UsersOf(c.log) : w \in Users \ {u}
    BY <1>1, <1>5, UsersOfLog
  <2>3. \A w \in Users \ {u} : LastHit(l, w) = LastHit(c.log, w)
    BY <1>1, LastHitAppend
  <2>4. UsersOf(l) = UsersOf(c.log)
    BY <1>4, <1>5
  <2>5. \A i \in 1..Len(s) : s[i] \in UsersOf(c.log)
    BY <1>1, <1>3, RecentDistinct
  <2> HIDE DEF l
  <2>6. \A w \in UsersOf(c.log) : LastHit(l, w) = LastHit(c.log, w)
    BY <2>2, <2>3
  <2>7. Recent(s, l)
    BY <1>3, <2>4, <2>5, <2>6 DEF Recent
  <2> QED
    BY <1>2, <1>3, <2>1, <2>4, <2>7 DEF SampleRight, x
<1>6. CASE u # NoUser
  <2>1. /\ Recent(q, l) /\ q \in Seq(Users) /\ Len(s) <= Len(q) /\ Len(q) <= Len(s) + 1
        /\ ToSet(q) = ToSet(s) \cup {u}
    BY <1>1, <1>3, <1>6, RecentAppend
  <2>2. Len(q) \in Nat /\ Len(s) \in Nat /\ l \in Seq(Hit)
    BY <1>1, <2>1, OneMoreHit
  <2> HIDE DEF l
  <2>3. CASE Len(q) > Cap
    <3>1. Len(q) = Cap + 1 /\ Len(q) - Cap + 1 = 2 /\ ~(Len(q) <= Cap) /\ Len(q) > 1
      BY <1>1, <1>3, <2>1, <2>2, <2>3
    <3> HIDE DEF q
    <3>0. Sampled(s, u) = SubSeq(q, Len(q) - Cap + 1, Len(q))
      BY <1>6, <2>3, <3>1 DEF Sampled, q
    <3>2. Sampled(s, u) = SubSeq(q, 2, Len(q))
      BY <3>0, <3>1
    <3>3. Recent(SubSeq(q, 2, Len(q)), l) /\ Len(SubSeq(q, 2, Len(q))) = Cap
      BY <1>1, <2>1, <2>2, <3>1, RecentTail
    <3> QED
      BY <1>1, <1>2, <3>2, <3>3 DEF SampleRight, x
  <2>4. CASE ~(Len(q) > Cap)
    <3>1. Len(q) <= Cap
      BY <1>1, <2>2, <2>4
    <3>2. Sampled(s, u) = q
      BY <1>6, <2>4, <3>1 DEF Sampled
    <3> HIDE DEF q
    <3>3. Len(q) < Cap => ToSet(q) = UsersOf(l)
      BY <1>1, <1>3, <1>4, <1>6, <2>1, <2>2 DEF l
    <3> QED
      BY <1>2, <2>1, <3>1, <3>2, <3>3 DEF SampleRight, x
  <2> QED
    BY <2>3, <2>4
<1> QED
  BY <1>5, <1>6

\* A sample that is right is the set of users who came last.
LEMMA SampleIsRecent ==
  ASSUME NEW c \in Cells, SampleRight(c)
  PROVE  ToSet(c.row.users) = RecentUsers(c.log)
<1> DEFINE s == c.row.users
           log == c.log
           U == ToSet(s)
           W == UsersOf(log)
           After(u) == {v \in W : LastHit(log, v) > LastHit(log, u)}
<1>1. log \in Seq(Hit) /\ s \in Seq(Users) /\ Cap \in Nat \ {0} /\ Len(s) \in Nat
  BY CellFacts, Bounds
<1>2. /\ Recent(s, log) /\ Len(s) <= Cap /\ (Len(s) < Cap => U = W) /\ U \subseteq W
      /\ \A v \in U, w \in W : LastHit(log, w) > LastHit(log, v) => w \in U
  BY DEF SampleRight, Recent
<1>3. IsFiniteSet(W) /\ \A u \in W : LastHit(log, u) \in Nat /\ log[LastHit(log, u)].user = u
  BY <1>1, UsersOfLog
<1>4. IsFiniteSet(U) /\ Cardinality(U) = Len(s)
  BY <1>1, <1>2, RecentDistinct, SetOfDistinct
<1>5. RecentUsers(log) = {u \in W : Cardinality(After(u)) < Cap}
  BY DEF RecentUsers
<1> HIDE DEF s, log, U, W
<1>6. ASSUME NEW u \in U PROVE Cardinality(After(u)) < Cap
  <2>1. After(u) \subseteq U \ {u}
    BY <1>2, <1>3
  <2>2. IsFiniteSet(U \ {u}) /\ Cardinality(U \ {u}) = Len(s) - 1
    BY <1>4, FS_RemoveElement
  <2>3. IsFiniteSet(After(u)) /\ Cardinality(After(u)) <= Len(s) - 1
    BY <2>1, <2>2, FS_Subset
  <2>4. Cardinality(After(u)) \in Nat
    BY <2>3, FS_CardinalityType
  <2> QED
    BY <1>1, <1>2, <2>3, <2>4
<1>7. ASSUME NEW u \in W, u \notin U PROVE ~(Cardinality(After(u)) < Cap)
  <2>1. Len(s) = Cap
    BY <1>1, <1>2, <1>7
  <2>2. U \subseteq After(u)
    <3> SUFFICES ASSUME NEW v \in U PROVE LastHit(log, v) > LastHit(log, u)
      BY <1>2
    <3>1. ~(LastHit(log, u) > LastHit(log, v)) /\ LastHit(log, u) # LastHit(log, v)
      BY <1>2, <1>3, <1>7
    <3> QED
      BY <1>2, <1>3, <3>1
  <2>3. IsFiniteSet(After(u))
    BY <1>3, FS_Subset
  <2>4. Cardinality(U) <= Cardinality(After(u)) /\ Cardinality(After(u)) \in Nat
    BY <2>2, <2>3, FS_Subset, FS_CardinalityType
  <2> QED
    BY <1>1, <1>4, <2>1, <2>4
<1>8. U = RecentUsers(log)
  BY <1>2, <1>5, <1>6, <1>7
<1> QED
  BY <1>8 DEF U, s, log

(***************************************************************************)
(* The row is the exact summary of its log.                                *)
(***************************************************************************)
Summarized(c) == c.row.daily = DailyOf(c.log) /\ SampleRight(c)

SummaryInv == Summarized(mem) /\ Summarized(disk)

LEMMA SummaryInit == Init => SummaryInv
<1> SUFFICES ASSUME Init PROVE SummaryInv
  OBVIOUS
<1>1. mem = Nothing /\ disk = Nothing /\ Nothing.row = NewRow /\ Nothing.log = <<>>
  BY NothingTyped DEF Init
<1>2. NewRow.users = <<>> /\ Len(<<>>) = 0 /\ ToSet(<<>>) = {} /\ UsersOf(<<>>) = {}
  BY DEF NewRow, ToSet, UsersOf
<1>3. Recent(<<>>, <<>>)
  BY <1>2 DEF Recent
<1>4. SampleRight(Nothing)
  <2>1. Nothing.row.users = <<>> /\ Nothing.log = <<>> /\ 0 <= Cap
    BY <1>1, <1>2, Bounds
  <2> QED
    BY <1>2, <1>3, <2>1 DEF SampleRight
<1> QED
  BY <1>1, <1>4, NothingDaily DEF SummaryInv, Summarized

LEMMA SummaryStep == DateInv /\ SummaryInv /\ [Next]_vars => SummaryInv'
<1> SUFFICES ASSUME DateInv, SummaryInv, [Next]_vars PROVE SummaryInv'
  OBVIOUS
<1>1. Summarized(mem) /\ Summarized(disk) /\ mem \in Cells
  BY DEF SummaryInv, DateInv
<1>2. ASSUME NEW ts \in Hours, NEW u \in Users \cup {NoUser}
      PROVE  Summarized(Counted(mem, ts, u))
  BY <1>1, CountedDaily, CountedSample DEF Summarized
<1>3. Summarized(mem') /\ Summarized(disk')
  BY <1>1, <1>2, NextCases DEF DateInv
<1> QED
  BY <1>3 DEF SummaryInv

LEMMA SummaryInvariant == Spec => [](DateInv /\ SummaryInv)
  BY DateInit, DateStep, SummaryInit, SummaryStep, PTL DEF Spec

\* The clock and the rows keep their types, and a row stays bounded, a histogram
\* to Keep dates and a sample to Cap users, however many are counted.
THEOREM TypeCorrect == Spec => []TypeOK
<1>1. DateInv /\ SummaryInv => TypeOK
  <2> SUFFICES ASSUME DateInv, SummaryInv, NEW c \in {mem, disk}
               PROVE  /\ c.row \in RowSet
                      /\ Cardinality({d \in Dates : c.row.daily[d] > 0}) <= Keep
                      /\ Len(c.row.users) <= Cap
    BY DEF TypeOK, DateInv
  <2>1. c \in Cells /\ DatedRight(c) /\ c.row.daily = DailyOf(c.log) /\ SampleRight(c)
    BY DEF DateInv, SummaryInv, Summarized
  <2>2. /\ c.row \in TypedRow /\ c.log \in Seq(Hit) /\ Len(c.log) <= MaxHits
        /\ c.row.count = Len(c.log) /\ Len(c.row.users) <= Cap
    BY <2>1 DEF Cells, DatedRight, SampleRight
  <2>3. /\ DailyOf(c.log) \in [Dates -> 0..MaxHits]
        /\ Cardinality({d \in Dates : DailyOf(c.log)[d] > 0}) <= Keep
    BY <2>2, DailyBounded
  <2>4. c.row.count \in 0..MaxHits
    BY <2>2, Bounds
  <2>5. c.row \in RowSet
    BY <2>1, <2>2, <2>3, <2>4 DEF RowSet, TypedRow
  <2> QED
    BY <2>1, <2>2, <2>3, <2>5
<1> QED
  BY <1>1, SummaryInvariant, PTL

\* A row is the exact summary of the records it counted, in whatever order of
\* their dates they came: a date that was trimmed never returns with a smaller
\* count, and no user leaves the sample before one who came earlier.
THEOREM SummaryIsExactEver == Spec => []SummaryIsExact
<1>1. DateInv /\ SummaryInv => SummaryIsExact
  <2> SUFFICES ASSUME DateInv, SummaryInv, NEW c \in {mem, disk}, c.log # <<>>
               PROVE  /\ c.row.count = Len(c.log)
                      /\ c.row.last = Max(TimesOf(c.log))
                      /\ c.row.daily = DailyOf(c.log)
                      /\ ToSet(c.row.users) = RecentUsers(c.log)
                      /\ \A i, j \in DOMAIN c.row.users : i < j =>
                           LastHit(c.log, c.row.users[i]) < LastHit(c.log, c.row.users[j])
    BY DEF SummaryIsExact
  <2>1. c \in Cells /\ DatedRight(c) /\ c.row.daily = DailyOf(c.log) /\ SampleRight(c)
    BY DEF DateInv, SummaryInv, Summarized
  <2>2. c.log \in Seq(Hit) /\ c.row.users \in Seq(Users)
    BY <2>1, CellFacts
  <2>3. Max(TimesOf(c.log)) = c.row.last
    BY <2>1, <2>2, TimesOfLog, HourFacts, MaxIs DEF DatedRight
  <2>4. DOMAIN c.row.users = 1..Len(c.row.users)
    BY <2>2
  <2> QED
    BY <2>1, <2>3, <2>4, SampleIsRecent DEF DatedRight, SampleRight, Recent
<1> QED
  BY <1>1, SummaryInvariant, PTL

\* A stored sample that the report does not call capped has every user who was
\* ever counted for the object.
THEOREM UncappedIsEveryoneEver == Spec => []UncappedIsEveryone
<1>1. DateInv /\ SummaryInv => UncappedIsEveryone
  <2> SUFFICES ASSUME DateInv, SummaryInv, ~Capped
               PROVE  ToSet(disk.row.users) = UsersOf(disk.log)
    BY DEF UncappedIsEveryone
  <2>1. SampleRight(disk) /\ disk.row.users \in Seq(Users) /\ Cap \in Nat
    BY CellFacts, Bounds DEF DateInv, SummaryInv, Summarized
  <2>2. Len(disk.row.users) \in Nat /\ ~(Len(disk.row.users) >= Cap)
    BY <2>1 DEF Capped
  <2>3. Len(disk.row.users) < Cap
    BY <2>1, <2>2
  <2> QED
    BY <2>1, <2>3 DEF SampleRight
<1> QED
  BY <1>1, SummaryInvariant, PTL

=============================================================================
