------------------------------ MODULE Dashboard ------------------------------
(***************************************************************************)
(* The report of collector/httpd.py beside the config sync and the log     *)
(* streams.  A request runs in its own thread on its own connection, and   *)
(* _classified_rows reads the database in three statements: the time of    *)
(* the last sync, the config objects joined to their usage, the usage      *)
(* without a config object.  Each statement sees what is committed when it *)
(* runs, and a sync may commit between two of them.                        *)
(*                                                                         *)
(* A row of the report is kept as far as it decides on retirement: its id, *)
(* whether it is silent, its drift.  Dates, bands and the allowlist are    *)
(* left out.                                                               *)
(***************************************************************************)
EXTENDS ConfigSync

VARIABLES
  report,     \* the request being answered
  wasUsed,    \* history: the ids with usage when the request began
  wasRetired, \* history: the objects retired then
  news        \* history: the ids first used, or refreshed by a sync, between then
              \* and the reading of the objects

reportVars == <<report, wasUsed, wasRetired, news>>
dvars == <<vars, reportVars>>

Drifts == {"", "retired", "ghost"}

NoReport == [pc |-> "idle", last |-> 0, rows |-> {}]

DInit == Init /\ report = NoReport /\ wasUsed = {} /\ wasRetired = {} /\ news = {}

\* get_meta("last_config_sync")
BeginReport ==
  /\ boot = "up" /\ report.pc = "idle"
  /\ report' = [NoReport EXCEPT !.pc = "objects", !.last = lastSync]
  /\ wasUsed' = used /\ wasRetired' = {o \in Objs : Retired(o)}
  /\ UNCHANGED <<vars, news>>

\* Mutant: an object without usage can be retired.
DriftUnused(r) ==
  IF report.last # 0 /\ r.seen # report.last THEN "retired" ELSE ""

\* Retired: used, but not refreshed by the sync the request knows of.
Drift(r) ==
  IF report.last # 0 /\ r.id \in used /\ r.seen # report.last THEN "retired" ELSE ""

\* Mutant: only the objects that the sync the request knows of has refreshed.
SummaryRowsCurrent ==
  {[id |-> r.id, silent |-> r.id \notin used, drift |-> Drift(r)] :
     r \in {x \in config : x.seen = report.last}}

\* One row per config row: config_object LEFT JOIN usage_counter.
SummaryRows ==
  {[id |-> r.id, silent |-> r.id \notin used, drift |-> Drift(r)] : r \in config}

\* _summary_rows.
ReadObjects ==
  /\ report.pc = "objects"
  /\ report' = [report EXCEPT !.pc = "ghosts", !.rows = SummaryRows]
  /\ news' = (used \ wasUsed) \cup {r.id : r \in {x \in config : x.seen > report.last}}
  /\ UNCHANGED <<vars, wasUsed, wasRetired>>

\* _ghost_rows, and the answer.
ReadGhosts ==
  /\ report.pc = "ghosts"
  /\ report' = [report EXCEPT !.pc = "answered",
       !.rows = @ \cup {[id |-> o, silent |-> FALSE, drift |-> "ghost"] :
                          o \in used \ ConfigIds}]
  /\ UNCHANGED <<vars, wasUsed, wasRetired, news>>

Forgotten == report' = NoReport /\ wasUsed' = {} /\ wasRetired' = {} /\ news' = {}

\* The answer is sent and the request's connection closed.
EndReport ==
  /\ report.pc = "answered"
  /\ Forgotten
  /\ UNCHANGED vars

\* The dashboard is part of the process: with it goes the request.
RestartAll == Restart /\ Forgotten

ReportStep == BeginReport \/ ReadObjects \/ ReadGhosts \/ EndReport

DNext == \/ (BootStep \/ ZpaStep \/ SyncStep \/ StreamStep) /\ UNCHANGED reportVars
         \/ RestartAll
         \/ ReportStep

DSpec == DInit /\ [][DNext]_dvars

-----------------------------------------------------------------------------
ReportRow == [id : Objs, silent : BOOLEAN, drift : Drifts]

\* The values a report and the system beside it take.
DTypeOK ==
  /\ TypeOK
  /\ report \in [pc : {"idle", "objects", "ghosts", "answered"}, last : Nat,
                 rows : SUBSET ReportRow]
  /\ wasUsed \subseteq Objs /\ wasRetired \subseteq Objs /\ news \subseteq Objs

Answered == report.pc = "answered"
RetiredIds == {r.id : r \in {x \in report.rows : x.drift = "retired"}}

\* A report never leaves out an object that was retired when it was requested, and
\* whoever else it calls retired was first used, or refreshed by a sync, between
\* its first two statements.  The latter is the price of reading the time of the
\* sync first: a report that a sync overtakes calls every object retired that the
\* sync has refreshed and that has usage, although ZPA lists it ("in config table
\* but not refreshed this sync").
RetiredOfItsTime ==
  Answered => /\ wasRetired \subseteq RetiredIds
              /\ RetiredIds \subseteq wasRetired \cup news

\* A report lists every object whose usage was stored when it was requested,
\* and none of their rows says "silent": the retire candidates of a report are
\* never used objects, however the statements fall between the commits.
UsedIsReportedUsed ==
  Answered => /\ wasUsed \subseteq {r.id : r \in report.rows}
              /\ \A r \in report.rows : r.silent => r.id \notin wasUsed

=============================================================================
