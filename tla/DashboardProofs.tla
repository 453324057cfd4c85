--------------------------- MODULE DashboardProofs ---------------------------
(***************************************************************************)
(* Proofs about Dashboard.  A report only reads, so the system beside it   *)
(* behaves as ConfigSync says (SystemUndisturbed), and what ConfigSyncProofs *)
(* shows of it can be used here.                                           *)
(***************************************************************************)
EXTENDS Dashboard, ConfigSyncProofs

\* Whoever asks for reports, and whenever: what happens to ZPA, the sync, the
\* table and the streams is a behaviour of the system without a dashboard.
THEOREM SystemUndisturbed == DSpec => Spec
<1>1. DInit => Init
  BY DEF DInit
<1>2. [DNext]_dvars => [Next]_vars
  BY DEF DNext, RestartAll, ReportStep, BeginReport, ReadObjects, ReadGhosts, EndReport,
         Next, dvars
<1> QED
  BY <1>1, <1>2, PTL DEF DSpec, Spec

LEMMA SystemInvariant == DSpec => [](TypeInv /\ KnownInv /\ HomeInv)
  BY SystemUndisturbed, TypeInvariant, KnownInvariant, HomeInvariant, PTL

(***************************************************************************)
(* Types, and the effect of the statements of a report.                    *)
(***************************************************************************)
ReportOK ==
  /\ report \in [pc : {"idle", "objects", "ghosts", "answered"}, last : Nat,
                 rows : SUBSET ReportRow]
  /\ wasUsed \subseteq Objs /\ wasRetired \subseteq Objs /\ news \subseteq Objs

LEMMA ReportInit == DInit => ReportOK
  BY DEF DInit, ReportOK, NoReport

LEMMA SummaryRowsTyped ==
  ASSUME TypeOK
  PROVE  SummaryRows \subseteq ReportRow
<1> SUFFICES ASSUME NEW r \in config
             PROVE  [id |-> r.id, silent |-> r.id \notin used, drift |-> Drift(r)] \in ReportRow
  BY DEF SummaryRows
<1>1. r.id \in Objs /\ Drift(r) \in Drifts /\ (r.id \notin used) \in BOOLEAN
  BY RowTypes DEF Drift, Drifts
<1> QED
  BY <1>1 DEF ReportRow

\* The second statement gives one row for each config row.
LEMMA SummaryRowsOfConfig ==
  /\ \A x \in config : \E r \in SummaryRows : r.id = x.id
  /\ \A r \in SummaryRows : \E x \in config :
       r.id = x.id /\ r.silent = (x.id \notin used) /\ r.drift = Drift(x)
<1> DEFINE row(i, b, d) == [id |-> i, silent |-> b, drift |-> d]
<1>1. \A i, b, d : row(i, b, d).id = i /\ row(i, b, d).silent = b /\ row(i, b, d).drift = d
  OBVIOUS
<1>2. SummaryRows = {row(x.id, x.id \notin used, Drift(x)) : x \in config}
  BY DEF SummaryRows
<1> HIDE DEF row
<1>3. ASSUME NEW x \in config PROVE \E r \in SummaryRows : r.id = x.id
  <2>1. row(x.id, x.id \notin used, Drift(x)) \in SummaryRows
    BY <1>2, Zenon
  <2>2. row(x.id, x.id \notin used, Drift(x)).id = x.id
    BY <1>1, ZenonT(30)
  <2> QED
    BY <2>1, <2>2, Zenon
<1>4. ASSUME NEW r \in SummaryRows
      PROVE  \E x \in config :
               r.id = x.id /\ r.silent = (x.id \notin used) /\ r.drift = Drift(x)
  <2>1. PICK x \in config : r = row(x.id, x.id \notin used, Drift(x))
    BY <1>2, Zenon
  <2> QED
    BY <2>1 DEF row
<1> QED
  BY <1>3, <1>4

GhostRows == {[id |-> o, silent |-> FALSE, drift |-> "ghost"] : o \in used \ ConfigIds}

LEMMA GhostRowsTyped ==
  ASSUME TypeOK
  PROVE  GhostRows \subseteq ReportRow
<1> SUFFICES ASSUME NEW o \in used \ ConfigIds
             PROVE  [id |-> o, silent |-> FALSE, drift |-> "ghost"] \in ReportRow
  BY DEF GhostRows
<1>1. o \in Objs /\ FALSE \in BOOLEAN /\ "ghost" \in Drifts
  BY DEF TypeOK, Drifts
<1>2. \A i \in Objs, b \in BOOLEAN, d \in Drifts :
        [id |-> i, silent |-> b, drift |-> d] \in ReportRow
  BY DEF ReportRow
<1> QED
  BY <1>1, <1>2, Zenon

LEMMA ReportStepTyped == TypeInv /\ ReportOK /\ [DNext]_dvars => ReportOK'
<1> SUFFICES ASSUME TypeInv, ReportOK, [DNext]_dvars PROVE ReportOK'
  OBVIOUS
<1>t. TypeOK
  BY DEF TypeInv
<1>1. ASSUME UNCHANGED reportVars PROVE ReportOK'
  BY <1>1 DEF ReportOK, reportVars
<1>2. ASSUME Forgotten PROVE ReportOK'
  BY <1>2 DEF Forgotten, ReportOK, NoReport
<1>3. CASE BeginReport
  BY <1>3, <1>t DEF BeginReport, ReportOK, NoReport, TypeOK
<1>4. CASE ReadObjects
  <2>1. SummaryRows \in SUBSET ReportRow
    BY <1>t, SummaryRowsTyped
  <2>2. news' \subseteq Objs
    BY <1>4, <1>t, RowTypes DEF ReadObjects, TypeOK
  <2> QED
    BY <1>4, <2>1, <2>2 DEF ReadObjects, ReportOK
<1>5. CASE ReadGhosts
  <2>1. report' = [report EXCEPT !.pc = "answered", !.rows = @ \cup GhostRows]
        /\ UNCHANGED <<wasUsed, wasRetired, news>>
    BY <1>5 DEF ReadGhosts, GhostRows
  <2> QED
    BY <1>t, <2>1, GhostRowsTyped DEF ReportOK
<1> QED
  BY <1>1, <1>2, <1>3, <1>4, <1>5 DEF DNext, RestartAll, ReportStep, EndReport, dvars

LEMMA ReportTyped == DSpec => []ReportOK
  BY SystemInvariant, ReportInit, ReportStepTyped, PTL DEF DSpec

\* A report, and the system beside it, keep their types.
THEOREM DTypeCorrect == DSpec => []DTypeOK
<1>1. TypeInv /\ ReportOK => DTypeOK
  BY DEF TypeInv, ReportOK, DTypeOK
<1> QED
  BY <1>1, SystemInvariant, ReportTyped, PTL

(***************************************************************************)
(* A sync stamps its rows later than every sync before it, so no report    *)
(* that knows an earlier one takes its rows for old.                       *)
(***************************************************************************)
StampInv ==
  /\ \A r \in config : 1 <= r.seen /\ r.seen <= lastSync
  /\ lastSync <= syncs
  /\ sync.pc \in {"pull", "write"} => lastSync < syncs

LEMMA StampInit == Init => StampInv
<1> SUFFICES ASSUME Init PROVE StampInv
  OBVIOUS
<1>1. /\ \A r \in config : r.seen = 1 /\ Existing # {}
      /\ lastSync = syncs /\ syncs \in {0, 1} /\ (Existing # {} => syncs = 1)
      /\ sync.pc = "idle"
  BY DEF Init, Idle
<1> QED
  BY <1>1 DEF StampInv

LEMMA StampStep == TypeInv /\ StampInv /\ [Next]_vars => StampInv'
<1> SUFFICES ASSUME TypeInv, StampInv, [Next]_vars PROVE StampInv'
  OBVIOUS
<1>t. /\ syncs \in Nat /\ lastSync \in Nat /\ sync \in SyncSet
      /\ \A r \in config : r.seen \in Nat
  BY DEF TypeInv, TypeOK, Stored
<1>1. ASSUME config' \subseteq config, UNCHANGED <<lastSync, syncs>>,
             sync'.pc \in {"pull", "write"} => sync.pc \in {"pull", "write"}
      PROVE  StampInv'
  BY <1>1 DEF StampInv
<1>2. CASE Migrate
  BY <1>1, <1>2 DEF Migrate, Collapsed
<1>3. CASE StartSync
  <2>1. /\ syncs' = syncs + 1 /\ UNCHANGED <<config, lastSync>>
    BY <1>3 DEF StartSync
  <2> QED
    BY <1>t, <2>1 DEF StampInv
<1>4. CASE Commit
  <2>1. /\ lastSync' = syncs /\ syncs' = syncs /\ lastSync < syncs
        /\ sync'.pc = "publish"
    BY <1>4, <1>t DEF Commit, StampInv, SyncSet
  <2>2. \A r \in config' : r \in config \/ r.seen = syncs
    BY <1>4 DEF Commit
  <2>3. \A r \in config' : 1 <= r.seen /\ r.seen <= syncs
    BY <1>t, <2>1, <2>2 DEF StampInv
  <2> QED
    BY <1>t, <2>1, <2>3 DEF StampInv
<1>5. CASE PullTenant
  BY <1>1, <1>5 DEF PullTenant
<1>6. CASE FailSync \/ Publish \/ Restart
  BY <1>1, <1>6, IdleTyped DEF FailSync, Publish, Restart
<1>7. CASE Stamp \/ LoadIndex \/ ZpaStep \/ StreamStep \/ UNCHANGED vars
  BY <1>1, <1>7 DEF Stamp, LoadIndex, ZpaStep, Create, Rename, Delete, Change,
                    StreamStep, Connect, Disconnect, Access, vars
<1> QED
  BY <1>2, <1>3, <1>4, <1>5, <1>6, <1>7 DEF Next, BootStep, SyncStep

LEMMA StampInvariant == DSpec => []StampInv
  BY SystemUndisturbed, TypeInvariant, StampInit, StampStep, PTL DEF Spec

(***************************************************************************)
(* Usage is never taken back while a request runs, and every id with usage *)
(* has a config row, so the second statement already sees all of it.       *)
(* Between the two statements a row is only stamped later than the sync    *)
(* the request knows of: a row that is old to the request was so when it   *)
(* began, and one that is not up to date stays so.                         *)
(***************************************************************************)
RowsAreRight ==
  /\ \A o \in wasUsed : \E r \in report.rows : r.id = o
  /\ \A r \in report.rows : r.silent => r.id \notin wasUsed
  /\ \A o \in wasRetired : \E r \in report.rows : r.id = o /\ r.drift = "retired"
  /\ \A r \in report.rows : r.drift = "retired" => r.id \in wasRetired \cup news

OldRows ==
  /\ report.last <= lastSync
  /\ report.last = 0 => wasRetired = {}
  /\ wasRetired \subseteq used
  /\ \A o \in wasRetired : \E r \in config : r.id = o /\ r.seen # report.last
  /\ \A r \in config : r.seen < report.last /\ r.id \in wasUsed => r.id \in wasRetired

ReportInv ==
  /\ wasUsed \subseteq used
  /\ report.pc # "idle" => boot = "up"
  /\ report.pc = "objects" => OldRows
  /\ report.pc \in {"ghosts", "answered"} => RowsAreRight

LEMMA UsedGrows ==
  ASSUME [Next]_vars
  PROVE  used \subseteq used'
  BY DEF Next, BootStep, Migrate, Stamp, LoadIndex, Restart, ZpaStep, Create, Rename,
         Delete, Change, SyncStep, StartSync, PullTenant, FailSync, Commit, Publish,
         StreamStep, Connect, Disconnect, Access, vars, streamVars

SystemStep == BootStep \/ ZpaStep \/ SyncStep \/ StreamStep

\* Of what a report reads, only a commit changes the rows while it runs.
LEMMA OnlyCommits ==
  ASSUME SystemStep, boot = "up"
  PROVE  /\ boot' = "up"
         /\ Commit \/ UNCHANGED <<config, lastSync>>
  BY DEF SystemStep, BootStep, Migrate, Stamp, LoadIndex, ZpaStep, Create, Rename,
         Delete, Change, SyncStep, StartSync, PullTenant, FailSync, Commit, Publish,
         StreamStep, Connect, Disconnect, Access, procVars

LEMMA OldRowsStep ==
  ASSUME TypeInv, StampInv, ReportOK, OldRows, SystemStep, boot = "up",
         UNCHANGED reportVars
  PROVE  OldRows'
<1>t. /\ report.last \in Nat /\ syncs \in Nat /\ lastSync \in Nat
      /\ \A r \in config : r.seen \in Nat
  BY DEF ReportOK, TypeInv, TypeOK, Stored
<1>u. used \subseteq used'
  BY UsedGrows DEF SystemStep, Next
<1>1. CASE UNCHANGED <<config, lastSync>>
  BY <1>1, <1>u DEF OldRows, reportVars
<1>2. CASE Commit
  <2> DEFINE stamped(p) == [id |-> p.id, mt |-> p.mt, name |-> p.name, seen |-> syncs]
  <2>1. /\ lastSync' = syncs /\ lastSync < syncs /\ report.last < syncs
    BY <1>2, <1>t DEF Commit, StampInv, OldRows
  <2>2. /\ \A r \in config' : r \in config \/ r.seen = syncs
        /\ \A p \in sync.pulled : stamped(p) \in config'
        /\ \A r \in config : r \in config' \/ \E p \in sync.pulled : p.id = r.id
    BY <1>2 DEF Commit
  <2>3. \A p : stamped(p).id = p.id /\ stamped(p).seen = syncs
    OBVIOUS
  <2> HIDE DEF stamped
  <2>4. ASSUME NEW o \in wasRetired
        PROVE  \E r \in config' : r.id = o /\ r.seen # report.last
    <3>1. PICK r \in config : r.id = o /\ r.seen # report.last
      BY DEF OldRows
    <3>2. CASE r \in config'
      BY <3>1, <3>2
    <3>3. ASSUME NEW p \in sync.pulled, p.id = r.id
          PROVE  \E x \in config' : x.id = o /\ x.seen # report.last
      BY <1>t, <2>1, <2>2, <2>3, <3>1, <3>3
    <3> QED
      BY <2>2, <3>2, <3>3
  <2>5. ASSUME NEW r \in config', r.seen < report.last, r.id \in wasUsed
        PROVE  r.id \in wasRetired
    <3>1. r \in config
      BY <1>t, <2>1, <2>2, <2>5
    <3> QED
      BY <2>5, <3>1 DEF OldRows
  <2>6. report.last <= syncs
    BY <1>t, <2>1
  <2> QED
    BY <1>u, <2>1, <2>4, <2>5, <2>6 DEF OldRows, reportVars
<1> QED
  BY <1>1, <1>2, OnlyCommits

\* What the second statement calls retired.
LEMMA RetiredRows ==
  ASSUME TypeInv, StampInv, ReportOK, OldRows, wasUsed \subseteq used
  PROVE  /\ \A o \in wasRetired : \E r \in SummaryRows : r.id = o /\ r.drift = "retired"
         /\ \A r \in SummaryRows : r.drift = "retired" =>
              r.id \in wasRetired \cup (used \ wasUsed)
                       \cup {x.id : x \in {y \in config : y.seen > report.last}}
<1>t. report.last \in Nat /\ \A r \in config : r.seen \in Nat
  BY DEF ReportOK, TypeInv, TypeOK, Stored
<1>1. ASSUME NEW o \in wasRetired
      PROVE  \E r \in SummaryRows : r.id = o /\ r.drift = "retired"
  <2>1. PICK x \in config : x.id = o /\ x.seen # report.last
    BY DEF OldRows
  <2>2. Drift(x) = "retired"
    BY <2>1 DEF OldRows, Drift
  <2> DEFINE r == [id |-> x.id, silent |-> x.id \notin used, drift |-> Drift(x)]
  <2>3. r \in SummaryRows /\ r.id = o /\ r.drift = "retired"
    BY <2>1, <2>2 DEF SummaryRows
  <2> QED
    BY <2>3
<1>2. ASSUME NEW r \in SummaryRows, r.drift = "retired"
      PROVE  r.id \in wasRetired \cup (used \ wasUsed)
                      \cup {x.id : x \in {y \in config : y.seen > report.last}}
  <2>1. PICK x \in config : r.id = x.id /\ r.drift = Drift(x)
    BY SummaryRowsOfConfig
  <2>2. x.id \in used /\ x.seen # report.last
    BY <1>2, <2>1 DEF Drift
  <2>3. CASE x.seen > report.last
    BY <2>1, <2>3
  <2>4. CASE x.seen < report.last
    BY <2>1, <2>2, <2>4 DEF OldRows
  <2> QED
    BY <1>t, <2>2, <2>3, <2>4
<1> QED
  BY <1>1, <1>2

LEMMA ReportInvInit == DInit => ReportInv
  BY DEF DInit, ReportInv, NoReport

LEMMA ReportInvStep ==
  TypeInv /\ KnownInv /\ StampInv /\ ReportOK /\ ReportInv /\ [DNext]_dvars => ReportInv'
<1> SUFFICES ASSUME TypeInv, KnownInv, StampInv, ReportOK, ReportInv, [DNext]_dvars
             PROVE  ReportInv'
  OBVIOUS
<1>1. ASSUME UNCHANGED reportVars, SystemStep PROVE ReportInv'
  <2>1. wasUsed' \subseteq used'
    BY <1>1, UsedGrows DEF SystemStep, Next, reportVars, ReportInv
  <2>2. report'.pc # "idle" => boot' = "up"
    BY <1>1, OnlyCommits DEF reportVars, ReportInv
  <2>3. report.pc = "objects" => OldRows'
    BY <1>1, OldRowsStep DEF ReportInv
  <2>4. report.pc \in {"ghosts", "answered"} => RowsAreRight'
    BY <1>1 DEF reportVars, ReportInv, RowsAreRight
  <2> QED
    BY <1>1, <2>1, <2>2, <2>3, <2>4 DEF reportVars, ReportInv
<1>2. ASSUME Forgotten PROVE ReportInv'
  BY <1>2 DEF Forgotten, NoReport, ReportInv
<1>3. CASE BeginReport
  <2>1. /\ report'.pc = "objects" /\ report'.last = lastSync /\ boot = "up"
        /\ wasUsed' = used /\ wasRetired' = {o \in Objs : Retired(o)}
        /\ UNCHANGED <<used, config, lastSync, boot>>
    BY <1>3 DEF BeginReport, NoReport, vars, streamVars, procVars
  <2>2. ASSUME lastSync = 0 PROVE config = {}
    <3>1. \A r \in config : r.seen \in Nat
      BY DEF TypeInv, TypeOK, Stored
    <3>2. \A r \in config : 1 <= r.seen /\ r.seen <= 0
      BY <2>2 DEF StampInv
    <3> QED
      BY <3>1, <3>2
  <2>3. lastSync = 0 => wasRetired' = {}
    BY <2>1, <2>2 DEF Retired
  <2>4. \A r \in config : r.seen \in Nat /\ r.id \in Objs
    BY DEF TypeInv, TypeOK, Stored
  <2>5. lastSync \in Nat
    BY DEF TypeInv, TypeOK
  <2>6. \A r \in config : r.seen < lastSync /\ r.id \in used => r.id \in wasRetired'
    BY <2>1, <2>4, <2>5 DEF Retired
  <2>7. \A o \in wasRetired' : o \in used /\ \E r \in config : r.id = o /\ r.seen # lastSync
    BY <2>1 DEF Retired
  <2>8. OldRows'
    BY <2>1, <2>3, <2>5, <2>6, <2>7 DEF OldRows
  <2> QED
    BY <2>1, <2>8 DEF ReportInv
<1>4. CASE ReadObjects
  <2>1. /\ report'.rows = SummaryRows /\ report'.pc = "ghosts" /\ report.pc = "objects"
        /\ wasUsed' = wasUsed /\ used' = used /\ wasRetired' = wasRetired /\ boot' = boot
        /\ news' = (used \ wasUsed) \cup {r.id : r \in {x \in config : x.seen > report.last}}
    BY <1>4 DEF ReadObjects, ReportOK, vars, streamVars, procVars
  <2>2. ASSUME NEW o \in wasUsed PROVE \E r \in SummaryRows : r.id = o
    <3>1. o \in ConfigIds
      BY DEF ReportInv, KnownInv, NoGhosts
    <3> QED
      BY <3>1, SummaryRowsOfConfig DEF ConfigIds
  <2>3. ASSUME NEW r \in SummaryRows, r.silent PROVE r.id \notin wasUsed
    <3>1. PICK x \in config : r.id = x.id /\ r.silent = (x.id \notin used)
      BY SummaryRowsOfConfig
    <3> QED
      BY <2>3, <3>1 DEF ReportInv
  <2>4. /\ \A o \in wasRetired : \E r \in SummaryRows : r.id = o /\ r.drift = "retired"
        /\ \A r \in SummaryRows : r.drift = "retired" => r.id \in wasRetired \cup news'
    BY <2>1, RetiredRows DEF ReportInv
  <2>5. RowsAreRight'
    BY <2>1, <2>2, <2>3, <2>4 DEF RowsAreRight
  <2> QED
    BY <2>1, <2>5 DEF ReportInv
<1>5. CASE ReadGhosts
  <2>1. /\ report'.rows = report.rows \cup GhostRows
        /\ report.pc = "ghosts" /\ report'.pc = "answered" /\ boot' = boot
        /\ wasUsed' = wasUsed /\ used' = used /\ wasRetired' = wasRetired /\ news' = news
    BY <1>5 DEF ReadGhosts, GhostRows, ReportOK, vars, streamVars, procVars
  <2>2. \A r \in GhostRows : ~r.silent /\ r.drift = "ghost"
    BY DEF GhostRows
  <2> HIDE DEF GhostRows
  <2>3. RowsAreRight'
    BY <2>1, <2>2 DEF ReportInv, RowsAreRight
  <2> QED
    BY <2>1, <2>3 DEF ReportInv
<1>6. CASE (BootStep \/ ZpaStep \/ SyncStep \/ StreamStep) /\ UNCHANGED reportVars
  BY <1>1, <1>6 DEF SystemStep
<1>7. CASE UNCHANGED dvars
  <2>1. UNCHANGED <<reportVars, used, boot, config, lastSync>>
    BY <1>7 DEF dvars, vars, streamVars, procVars
  <2> QED
    BY <2>1 DEF reportVars, ReportInv, OldRows, RowsAreRight
<1> QED
  BY <1>2, <1>3, <1>4, <1>5, <1>6, <1>7 DEF DNext, RestartAll, ReportStep, EndReport

LEMMA ReportInvariant == DSpec => []ReportInv
  BY SystemInvariant, StampInvariant, ReportTyped, ReportInvInit, ReportInvStep, PTL DEF DSpec

\* Wherever the commits of a sync fall between the statements of a report, it
\* lists every object whose usage was stored when it was requested, and calls
\* none of them silent.
THEOREM UsedIsReportedUsedEver == DSpec => []UsedIsReportedUsed
<1>1. ReportInv => UsedIsReportedUsed
  BY DEF ReportInv, RowsAreRight, UsedIsReportedUsed, Answered
<1> QED
  BY <1>1, ReportInvariant, PTL

\* A report calls every object retired that was retired when it was requested, and
\* beyond them only objects first used, or refreshed by a sync, while it was read.
THEOREM RetiredOfItsTimeEver == DSpec => []RetiredOfItsTime
<1>1. ReportInv => RetiredOfItsTime
  BY DEF ReportInv, RowsAreRight, RetiredOfItsTime, Answered, RetiredIds
<1> QED
  BY <1>1, ReportInvariant, PTL

=============================================================================
