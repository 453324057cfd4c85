------------------------- MODULE CounterEngineProofs -------------------------
(***************************************************************************)
(* Proofs about CounterEngine for every set of keys, every set of time     *)
(* stamps, every bound on the hits and both places of cancellation: what   *)
(* the engine never claims, what it never loses, and that it implements    *)
(* DurableStore.                                                           *)
(***************************************************************************)
EXTENDS CounterEngine, TLAPS

USE NoKeyAssumption, StampsAssumption, MaxHitsAssumption, CancelAssumption

(***************************************************************************)
(* The order on rows.                                                      *)
(***************************************************************************)
LEMMA AbsentIsRow == Absent \in Row
  BY DEF Absent, Row, States

LEMMA AbsentIsLeast ==
  ASSUME NEW r \in Row
  PROVE  Leq(Absent, r)
  BY DEF Leq, Absent, Row, States

LEMMA LeqReflexive ==
  ASSUME NEW r \in Row
  PROVE  Leq(r, r)
  BY DEF Leq, Row, States

LEMMA LeqTransitive ==
  ASSUME NEW r \in Row, NEW s \in Row, NEW t \in Row, Leq(r, s), Leq(s, t)
  PROVE  Leq(r, t)
  BY DEF Leq, Row, States

LEMMA LaterIsLater ==
  ASSUME NEW old \in Nat, NEW ts \in Nat
  PROVE  /\ Later(old, ts) \in Nat
         /\ old <= Later(old, ts) /\ ts <= Later(old, ts)
         /\ \A n \in Nat : old <= n /\ ts <= n => Later(old, ts) <= n
  BY DEF Later

LEMMA CountedIsMore ==
  ASSUME NEW r \in Row
  PROVE  /\ Counted(r) \in Row /\ Leq(r, Counted(r))
         /\ \A s \in Row : Leq(r, s) => Leq(Counted(r), Counted(s))
  BY DEF Counted, Leq, Row

LEMMA DatedIsMore ==
  ASSUME NEW r \in Row, NEW ts \in Nat, NEW hit \in States
  PROVE  Dated(r, ts, hit) \in Row /\ Leq(r, Dated(r, ts, hit))
<1> DEFINE d == Dated(r, ts, hit)
<1>1. /\ d = [r EXCEPT !.last = Later(r.last, ts), !.state = Promoted(r.state, hit)]
      /\ r.count \in Nat /\ r.last \in Nat /\ r.state \in States
  BY DEF Dated, Row
<1>2. Later(r.last, ts) \in Nat /\ r.last <= Later(r.last, ts)
  BY <1>1, LaterIsLater
<1>3. /\ Promoted(r.state, hit) \in States
      /\ r.state = "active" => Promoted(r.state, hit) = "active"
  BY <1>1 DEF Promoted, States
<1>4. d.count = r.count /\ d.last = Later(r.last, ts) /\ d.state = Promoted(r.state, hit)
  BY <1>1 DEF Row
<1>5. d \in Row
  BY <1>1, <1>2, <1>3 DEF Row
<1> HIDE DEF d
<1>6. Leq(r, d)
  BY <1>1, <1>2, <1>3, <1>4 DEF Leq
<1> QED
  BY <1>5, <1>6 DEF d

LEMMA DatedIsMonotone ==
  ASSUME NEW r \in Row, NEW s \in Row, Leq(r, s),
         NEW ts \in Nat, NEW hit \in States
  PROVE  Leq(Dated(r, ts, hit), Dated(s, ts, hit))
<1>1. /\ r.last \in Nat /\ s.last \in Nat /\ r.last <= s.last
      /\ r.count <= s.count
      /\ r.state = "active" => s.state = "active"
  BY DEF Leq, Row
<1>2. Later(r.last, ts) <= Later(s.last, ts)
  BY <1>1 DEF Later
<1>3. Promoted(r.state, hit) = "active" => Promoted(s.state, hit) = "active"
  BY <1>1 DEF Promoted
<1>4. /\ Dated(r, ts, hit).count = r.count /\ Dated(s, ts, hit).count = s.count
      /\ Dated(r, ts, hit).last = Later(r.last, ts)
      /\ Dated(s, ts, hit).last = Later(s.last, ts)
      /\ Dated(r, ts, hit).state = Promoted(r.state, hit)
      /\ Dated(s, ts, hit).state = Promoted(s.state, hit)
  BY DEF Dated, Row
<1> QED
  BY <1>1, <1>2, <1>3, <1>4 DEF Leq

(***************************************************************************)
(* Type correctness.                                                       *)
(***************************************************************************)
LEMMA NoRowsIsTable == NoRows \in Table
  BY AbsentIsRow DEF NoRows, Table

LEMMA StampIsNat ==
  ASSUME NEW t \in Stamps \cup {0}
  PROVE  t \in Nat
  BY StampsAssumption

LEMMA RecTyped ==
  ASSUME TypeOK
  PROVE  /\ rec.todo \subseteq Keys /\ rec.cur \in Keys \cup {NoKey}
         /\ rec.ts \in Nat /\ rec.hit \in States
<1>1. rec \in RecSet
  BY DEF TypeOK, RecSet
<1>2. rec.ts \in Stamps \cup {0}
  BY <1>1 DEF RecSet
<1> QED
  BY <1>1, <1>2, StampIsNat DEF RecSet

LEMMA NoRecTyped == NoRec \in RecSet
  BY DEF NoRec, RecSet, States

LEMMA IdleJobTyped == IdleJob \in JobSet
  BY AbsentIsRow DEF IdleJob, JobSet, JobStates

LEMMA TypeInit == Init => TypeOK
<1> SUFFICES ASSUME Init PROVE TypeOK
  OBVIOUS
<1>1. rows \in Table /\ txn \in Table /\ db \in Table /\ truth \in Table /\ due \in Table
  BY NoRowsIsTable DEF Init
<1>2. rec \in RecSet /\ job \in [Jobs -> JobSet]
  BY NoRecTyped, IdleJobTyped DEF Init
<1> QED
  BY <1>1, <1>2 DEF Init, TypeOK, MainStates

LEMMA TypeStep == TypeOK /\ [Next]_vars => TypeOK'
<1> SUFFICES ASSUME TypeOK, [Next]_vars PROVE TypeOK'
  OBVIOUS
<1> USE DEF TypeOK, MainStates, memVars, dbVars
<1>0. \A f \in Jobs : job[f] \in JobSet
  OBVIOUS
<1>1. ASSUME NEW K \in SUBSET Keys, NEW ts \in Stamps, NEW hit \in States,
             Ingest(K, ts, hit)
      PROVE  TypeOK'
  BY <1>1 DEF Ingest, RecSet
<1>2. ASSUME NEW k \in Keys, TouchCount(k)
      PROVE  TypeOK'
  <2>1. rows[k] \in Row /\ truth[k] \in Row /\ rec.ts \in Nat /\ rec.hit \in States
    BY RecTyped DEF Table
  <2>2. rows' \in Table /\ truth' \in Table
    BY <1>2, <2>1, CountedIsMore, DatedIsMore DEF TouchCount, Table
  <2>3. [rec EXCEPT !.todo = @ \ {k}, !.cur = k] \in RecSet
    BY DEF RecSet
  <2> QED
    BY <1>2, <2>2, <2>3 DEF TouchCount
<1>3. ASSUME NEW k \in Keys, TouchRest(k)
      PROVE  TypeOK'
  <2>1. rows[k] \in Row /\ rec.ts \in Nat /\ rec.hit \in States
    BY RecTyped DEF Table
  <2>2. rows' \in Table
    BY <1>3, <2>1, DatedIsMore DEF TouchRest, Table
  <2>3. [rec EXCEPT !.cur = NoKey] \in RecSet
    BY DEF RecSet
  <2> QED
    BY <1>3, <2>2, <2>3, NoRecTyped DEF TouchRest
<1>4. CASE StartFlush
  BY <1>4 DEF StartFlush, Jobs, JobSet, JobStates
<1>5. CASE FlushReturns
  BY <1>5, IdleJobTyped DEF FlushReturns
<1>6. ASSUME NEW p \in CancelPoints, Cancel(p)
      PROVE  TypeOK'
  <2>1. DirtyRows \in Table
    BY AbsentIsRow DEF DirtyRows, Table
  <2> QED
    BY <1>6, <2>1, IdleJobTyped DEF Cancel, Jobs, JobSet, JobStates
<1>7. CASE Close
  BY <1>7, IdleJobTyped, NoRowsIsTable DEF Close
<1>8. CASE Crash
  BY <1>8, IdleJobTyped, NoRowsIsTable, NoRecTyped DEF Crash
<1>9. CASE Restart
  BY <1>9, NoRowsIsTable DEF Restart, Loaded
<1>10. ASSUME NEW f \in Jobs, BeginScan(f) PROVE TypeOK'
  <2>1. [job[f] EXCEPT !.pc = "scan", !.known = Known, !.picked = dirty] \in JobSet
    BY <1>0 DEF JobSet, JobStates, Known
  <2> QED
    BY <1>10, <2>1 DEF BeginScan
<1>11. ASSUME NEW f \in Jobs, EndScan(f) PROVE TypeOK'
  <2>1. [IdleJob EXCEPT !.pc = "failed"] \in JobSet
    BY IdleJobTyped DEF JobSet, JobStates
  <2>2. ASSUME NEW D \in SUBSET (job[f].picked \cup dirty)
        PROVE  [IdleJob EXCEPT !.pc = IF D = {} THEN "ok" ELSE "read",
                               !.picked = D, !.todo = D] \in JobSet
    BY <1>0, <2>2, IdleJobTyped DEF JobSet, JobStates
  <2>3. job' \in [Jobs -> JobSet] /\ raced' \subseteq Keys
    <3>1. CASE Known # job[f].known
      BY <1>11, <2>1, <3>1 DEF EndScan
    <3>2. CASE Known = job[f].known
      <4>1. PICK D \in SUBSET (job[f].picked \cup dirty) :
              /\ job' = [job EXCEPT
                   ![f] = [IdleJob EXCEPT !.pc = IF D = {} THEN "ok" ELSE "read",
                                          !.picked = D, !.todo = D]]
              /\ raced' = raced \ D
        BY <1>11, <3>2 DEF EndScan
      <4> QED
        BY <2>2, <4>1
    <3> QED
      BY <3>1, <3>2
  <2> QED
    BY <1>11, <2>3 DEF EndScan
<1>12. ASSUME NEW f \in Jobs, NEW k \in Keys, ReadHead(f, k) PROVE TypeOK'
  <2>1. [rows[k] EXCEPT !.last = 0] \in Row
    BY DEF Table, Row
  <2>2. [job[f] EXCEPT !.cur = k, !.head = [rows[k] EXCEPT !.last = 0]] \in JobSet
    BY <1>0, <2>1 DEF JobSet
  <2> QED
    BY <1>12, <2>2 DEF ReadHead
<1>13. ASSUME NEW f \in Jobs, WriteRow(f) PROVE TypeOK'
  <2>1. job[f].cur \in Keys /\ job[f].head \in Row
    BY <1>0, <1>13 DEF WriteRow, JobSet
  <2>2. [job[f].head EXCEPT !.last = rows[job[f].cur].last] \in Row
    BY <2>1 DEF Table, Row
  <2>3. txn' \in Table
    BY <1>13, <2>1, <2>2 DEF WriteRow, Table
  <2>4. Written(job[f]) \in JobSet
    BY <1>0, AbsentIsRow DEF Written, JobSet, JobStates
  <2> QED
    BY <1>13, <2>3, <2>4 DEF WriteRow
<1>14. ASSUME NEW f \in Jobs, Commit(f) PROVE TypeOK'
  <2>1. [job[f] EXCEPT !.pc = "clear"] \in JobSet
    BY <1>0 DEF JobSet, JobStates
  <2> QED
    BY <1>14, <2>1, NoRowsIsTable DEF Commit, Upserted, Table
<1>15. ASSUME NEW f \in Jobs, ClearDirty(f) PROVE TypeOK'
  <2>1. [IdleJob EXCEPT !.pc = "ok"] \in JobSet
    BY IdleJobTyped DEF JobSet, JobStates
  <2> QED
    BY <1>15, <2>1 DEF ClearDirty
<1>16. ASSUME NEW f \in Jobs, FailFlush(f) PROVE TypeOK'
  <2>1. [IdleJob EXCEPT !.pc = "failed"] \in JobSet
    BY IdleJobTyped DEF JobSet, JobStates
  <2> QED
    BY <1>16, <2>1, NoRowsIsTable DEF FailFlush
<1>17. CASE UNCHANGED vars
  BY <1>17 DEF vars
<1> QED
  BY <1>1, <1>2, <1>3, <1>4, <1>5, <1>6, <1>7, <1>8, <1>9, <1>10, <1>11,
     <1>12, <1>13, <1>14, <1>15, <1>16, <1>17
     DEF Next, Count, MainStep, FlushStep

\* Every variable keeps its type: in particular only resolved keys are ever
\* counted, picked by a flush or written to the table.
THEOREM TypeCorrect == Spec => []TypeOK
  BY TypeInit, TypeStep, PTL DEF Spec

(***************************************************************************)
(* Evidence.  Every copy of a row is below the one it was taken from: what *)
(* a flush has read is below the row in memory, so is what it has written, *)
(* so is the table, and memory is below what the records said.  A record   *)
(* in the middle of being counted keeps memory below the truth when its    *)
(* second half happens, and a process that is down has nothing in flight.  *)
(***************************************************************************)
DownIsQuiet == ~Up => /\ txn = NoRows /\ rec = NoRec
                      /\ job = [f \in Jobs |-> IdleJob]

TouchBelowTruth ==
  \A k \in Keys : rec.cur = k => Leq(Dated(rows[k], rec.ts, rec.hit), truth[k])

HeadBelowRow ==
  \A f \in Jobs, k \in Keys : job[f].cur = k => Leq(job[f].head, rows[k])

TxnBelowRows == \A k \in Keys : Leq(txn[k], rows[k])

EvidenceInv ==
  /\ TypeOK
  /\ DownIsQuiet /\ TouchBelowTruth /\ HeadBelowRow /\ TxnBelowRows
  /\ NoFalseEvidence /\ DbNeverAhead

LEMMA EvidenceInit == Init => EvidenceInv
<1> SUFFICES ASSUME Init PROVE EvidenceInv
  OBVIOUS
<1>1. TypeOK
  BY TypeInit
<1>2. Leq(Absent, Absent)
  BY AbsentIsRow, AbsentIsLeast
<1> QED
  BY <1>1, <1>2, NoKeyAssumption
     DEF Init, EvidenceInv, DownIsQuiet, Up, TouchBelowTruth, HeadBelowRow,
         TxnBelowRows, NoFalseEvidence, DbNeverAhead, NoRows, NoRec, IdleJob

LEMMA EvidenceStep == EvidenceInv /\ [Next]_vars => EvidenceInv'
<1> SUFFICES ASSUME EvidenceInv, [Next]_vars PROVE EvidenceInv'
  OBVIOUS
<1>0. TypeOK /\ TypeOK'
  BY TypeStep DEF EvidenceInv
<1>r. \A k \in Keys : /\ rows[k] \in Row /\ txn[k] \in Row
                      /\ db[k] \in Row /\ truth[k] \in Row
                      /\ rows'[k] \in Row /\ txn'[k] \in Row
                      /\ db'[k] \in Row /\ truth'[k] \in Row
  BY <1>0 DEF TypeOK, Table
<1>j. /\ \A f \in Jobs : job[f] \in JobSet /\ job'[f] \in JobSet
      /\ job \in [Jobs -> JobSet]
  BY <1>0 DEF TypeOK
<1>h. \A f \in Jobs : job[f].head \in Row /\ job'[f].head \in Row
  BY <1>j DEF JobSet
<1>t. rec.ts \in Nat /\ rec.hit \in States
  BY <1>0, RecTyped
<1> USE DEF EvidenceInv, memVars, dbVars
<1>1. ASSUME NEW K \in SUBSET Keys, NEW ts \in Stamps, NEW hit \in States,
             Ingest(K, ts, hit)
      PROVE  EvidenceInv'
  <2>1. TouchBelowTruth'
    BY <1>1, NoKeyAssumption DEF Ingest, TouchBelowTruth
  <2> QED
    BY <1>0, <1>1, <2>1
       DEF Ingest, LoopIsFree, Up, DownIsQuiet, HeadBelowRow, TxnBelowRows,
           NoFalseEvidence, DbNeverAhead
<1>2. ASSUME NEW k \in Keys, TouchCount(k)
      PROVE  EvidenceInv'
  <2>1. /\ rows'[k] = Counted(rows[k])
        /\ truth'[k] = Dated(Counted(truth[k]), rec.ts, rec.hit)
        /\ \A j \in Keys \ {k} : rows'[j] = rows[j] /\ truth'[j] = truth[j]
    BY <1>0, <1>2 DEF TouchCount, TypeOK, Table
  <2>2. /\ Leq(rows[k], rows'[k])
        /\ Leq(Counted(rows[k]), Counted(truth[k]))
        /\ Counted(rows[k]) \in Row /\ Counted(truth[k]) \in Row
        /\ Leq(truth[k], Counted(truth[k]))
    BY <1>r, <2>1, CountedIsMore DEF NoFalseEvidence
  <2>3. /\ Leq(Counted(truth[k]), truth'[k])
        /\ Leq(Dated(rows'[k], rec.ts, rec.hit), truth'[k])
    BY <1>t, <2>1, <2>2, DatedIsMore, DatedIsMonotone
  <2>4. Leq(rows'[k], truth'[k]) /\ Leq(truth[k], truth'[k])
    BY <1>r, <2>1, <2>2, <2>3, LeqTransitive
  <2>5. \A j \in Keys : Leq(rows[j], rows'[j]) /\ Leq(truth[j], truth'[j])
    BY <1>r, <2>1, <2>2, <2>4, LeqReflexive
  <2>6. NoFalseEvidence'
    BY <1>2, <1>r, <2>1, <2>4, <2>5, LeqTransitive DEF TouchCount, NoFalseEvidence
  <2>7. TxnBelowRows' /\ DbNeverAhead'
    BY <1>2, <1>r, <2>5, LeqTransitive DEF TouchCount, TxnBelowRows, DbNeverAhead
  <2>8. HeadBelowRow'
    BY <1>2, <1>r, <1>h, <2>5, LeqTransitive DEF TouchCount, HeadBelowRow
  <2>9. rec' = [rec EXCEPT !.todo = @ \ {k}, !.cur = k]
    BY <1>2 DEF TouchCount
  <2>10. rec'.cur = k /\ rec'.ts = rec.ts /\ rec'.hit = rec.hit
    BY <1>0, <2>9 DEF TypeOK, RecSet
  <2>11. TouchBelowTruth'
    BY <2>3, <2>10 DEF TouchBelowTruth
  <2>12. DownIsQuiet'
    BY <1>2 DEF TouchCount, DownIsQuiet, Up, NoRec
  <2> QED
    BY <1>0, <2>6, <2>7, <2>8, <2>11, <2>12
<1>3. ASSUME NEW k \in Keys, TouchRest(k)
      PROVE  EvidenceInv'
  <2>1. /\ rows'[k] = Dated(rows[k], rec.ts, rec.hit)
        /\ \A j \in Keys \ {k} : rows'[j] = rows[j]
        /\ truth' = truth
    BY <1>0, <1>3 DEF TouchRest, TypeOK, Table
  <2>2. Leq(rows[k], rows'[k]) /\ Leq(rows'[k], truth[k])
    BY <1>r, <1>t, <1>3, <2>1, DatedIsMore DEF TouchRest, TouchBelowTruth
  <2>3. \A j \in Keys : Leq(rows[j], rows'[j])
    BY <1>r, <2>1, <2>2, LeqReflexive
  <2>4. NoFalseEvidence'
    BY <1>3, <2>1, <2>2 DEF TouchRest, NoFalseEvidence
  <2>5. TxnBelowRows' /\ DbNeverAhead'
    BY <1>3, <1>r, <2>3, LeqTransitive DEF TouchRest, TxnBelowRows, DbNeverAhead
  <2>6. HeadBelowRow'
    BY <1>3, <1>r, <1>h, <2>3, LeqTransitive DEF TouchRest, HeadBelowRow
  <2>7. rec'.cur = NoKey
    BY <1>0, <1>3 DEF TouchRest, TypeOK, RecSet, NoRec
  <2>8. TouchBelowTruth'
    BY <2>7, NoKeyAssumption DEF TouchBelowTruth
  <2>9. DownIsQuiet'
    BY <1>3 DEF TouchRest, DownIsQuiet, Up, NoRec
  <2> QED
    BY <1>0, <2>4, <2>5, <2>6, <2>8, <2>9
<1>4. ASSUME Up, Up', UNCHANGED <<rows, rec, dbVars, truth>>,
             \A f \in Jobs : \/ job'[f].cur = NoKey
                             \/ job'[f].cur = job[f].cur /\ job'[f].head = job[f].head
      PROVE  EvidenceInv'
  <2>1. HeadBelowRow'
    BY <1>4, NoKeyAssumption DEF HeadBelowRow
  <2>2. TouchBelowTruth' /\ TxnBelowRows' /\ NoFalseEvidence' /\ DbNeverAhead'
    BY <1>4 DEF TouchBelowTruth, TxnBelowRows, NoFalseEvidence, DbNeverAhead, Up
  <2> QED
    BY <1>0, <1>4, <2>1, <2>2 DEF DownIsQuiet
<1>5. CASE StartFlush
  BY <1>4, <1>5, <1>j DEF StartFlush, LoopIsFree, Up, JobSet, Jobs
<1>6. CASE FlushReturns
  BY <1>4, <1>6, <1>j DEF FlushReturns, LoopIsFree, Up, IdleJob
<1>7. ASSUME NEW p \in CancelPoints, Cancel(p)
      PROVE  EvidenceInv'
  BY <1>4, <1>7, <1>j DEF Cancel, LoopIsFree, Up, IdleJob, JobSet, Jobs
<1>8. CASE Close
  <2>1. \A k \in Keys : txn'[k] = Absent
    BY <1>8 DEF Close, NoRows
  <2>2. TxnBelowRows'
    BY <1>r, <2>1, AbsentIsLeast DEF TxnBelowRows
  <2>3. HeadBelowRow'
    BY <1>8, NoKeyAssumption DEF Close, HeadBelowRow, IdleJob
  <2> QED
    BY <1>0, <1>8, <2>2, <2>3
       DEF Close, LoopIsFree, Up, DownIsQuiet, TouchBelowTruth,
           NoFalseEvidence, DbNeverAhead, NoRec
<1>9. CASE Crash
  <2>1. \A k \in Keys : txn'[k] = Absent /\ rows'[k] = Absent
    BY <1>9 DEF Crash, NoRows
  <2>2. TxnBelowRows' /\ \A k \in Keys : Leq(rows'[k], truth'[k])
    BY <1>r, <2>1, AbsentIsLeast DEF TxnBelowRows
  <2>3. HeadBelowRow' /\ TouchBelowTruth'
    BY <1>9, NoKeyAssumption DEF Crash, HeadBelowRow, IdleJob, TouchBelowTruth, NoRec
  <2> QED
    BY <1>0, <1>9, <2>2, <2>3 DEF Crash, DownIsQuiet, NoFalseEvidence, DbNeverAhead
<1>10. CASE Restart
  <2>1. txn = NoRows /\ rec = NoRec /\ job = [f \in Jobs |-> IdleJob]
    BY <1>10 DEF Restart, DownIsQuiet
  <2>2. TxnBelowRows'
    BY <1>10, <1>r, <2>1, AbsentIsLeast DEF Restart, Loaded, TxnBelowRows, NoRows
  <2>3. HeadBelowRow' /\ TouchBelowTruth'
    BY <1>10, <2>1, NoKeyAssumption
       DEF Restart, HeadBelowRow, IdleJob, TouchBelowTruth, NoRec
  <2>4. NoFalseEvidence' /\ DbNeverAhead'
    BY <1>10, <1>r, LeqReflexive DEF Restart, Loaded, NoFalseEvidence, DbNeverAhead
  <2> QED
    BY <1>0, <1>10, <2>2, <2>3, <2>4 DEF Restart, DownIsQuiet, Up
<1>11. ASSUME NEW f \in Jobs, FlushStep(f)
       PROVE  Up /\ (main' = main => Up')
  <2>1. job[f].pc # "idle"
    BY <1>11 DEF FlushStep, BeginScan, EndScan, ReadHead, WriteRow, Commit,
                 ClearDirty, FailFlush
  <2>2. Up
    BY <2>1 DEF DownIsQuiet, IdleJob
  <2> QED
    BY <2>2 DEF Up
<1>12. ASSUME NEW f \in Jobs, BeginScan(f) PROVE EvidenceInv'
  <2>1. Up /\ Up' /\ UNCHANGED <<rows, rec, dbVars, truth>>
    BY <1>11, <1>12 DEF BeginScan, FlushStep
  <2>2. ASSUME NEW g \in Jobs PROVE job'[g].cur = job[g].cur /\ job'[g].head = job[g].head
    BY <1>12, <1>j DEF BeginScan, JobSet
  <2> QED
    BY <1>4, <2>1, <2>2
<1>13. ASSUME NEW f \in Jobs, EndScan(f) PROVE EvidenceInv'
  <2> DEFINE e(p, D) == [IdleJob EXCEPT !.pc = p, !.picked = D, !.todo = D]
  <2>1. \/ job' = [job EXCEPT ![f] = [IdleJob EXCEPT !.pc = "failed"]]
        \/ \E p \in JobStates, D \in SUBSET Keys : job' = [job EXCEPT ![f] = e(p, D)]
    <3>1. CASE Known # job[f].known
      BY <1>13, <3>1 DEF EndScan
    <3>2. CASE Known = job[f].known
      <4>1. PICK D \in SUBSET (job[f].picked \cup dirty) :
              job' = [job EXCEPT ![f] = e(IF D = {} THEN "ok" ELSE "read", D)]
        BY <1>13, <3>2 DEF EndScan
      <4>2. D \in SUBSET Keys
        BY <1>0, <1>j DEF TypeOK, JobSet
      <4> QED
        BY <4>1, <4>2 DEF JobStates
    <3> QED
      BY <3>1, <3>2
  <2>2. /\ [IdleJob EXCEPT !.pc = "failed"].cur = NoKey
        /\ \A p, D : e(p, D).cur = NoKey
    BY DEF IdleJob
  <2>3. job'[f].cur = NoKey /\ \A g \in Jobs \ {f} : job'[g] = job[g]
    <3>1. PICK d : job' = [job EXCEPT ![f] = d] /\ d.cur = NoKey
      BY <2>1, <2>2
    <3> QED
      BY <1>j, <3>1
  <2> QED
    BY <1>4, <1>11, <1>13, <2>3 DEF EndScan, FlushStep
<1>14. ASSUME NEW f \in Jobs, NEW k \in Keys, ReadHead(f, k) PROVE EvidenceInv'
  <2>1. Up /\ Up'
    BY <1>11, <1>14 DEF FlushStep, ReadHead
  <2>2. Leq([rows[k] EXCEPT !.last = 0], rows[k])
    BY <1>r DEF Leq, Row
  <2>3. job'[f].cur = k /\ job'[f].head = [rows[k] EXCEPT !.last = 0]
    BY <1>14, <1>j DEF ReadHead, JobSet
  <2>4. \A g \in Jobs \ {f} : job'[g] = job[g]
    BY <1>14, <1>j DEF ReadHead
  <2>5. HeadBelowRow'
    BY <1>14, <2>2, <2>3, <2>4 DEF ReadHead, HeadBelowRow
  <2> QED
    BY <1>0, <1>14, <2>1, <2>5
       DEF ReadHead, DownIsQuiet, TouchBelowTruth, TxnBelowRows,
           NoFalseEvidence, DbNeverAhead
<1>15. ASSUME NEW f \in Jobs, WriteRow(f) PROVE EvidenceInv'
  <2>1. Up /\ Up'
    BY <1>11, <1>15 DEF FlushStep, WriteRow
  <2> DEFINE k == job[f].cur
             w == [job[f].head EXCEPT !.last = rows[k].last]
  <2>2. k \in Keys /\ Leq(job[f].head, rows[k])
    BY <1>j, <1>15 DEF WriteRow, JobSet, HeadBelowRow
  <2>3. Leq(w, rows[k])
    BY <1>r, <1>h, <2>2 DEF Leq, Row
  <2>4. txn' = [txn EXCEPT ![k] = w]
    BY <1>15 DEF WriteRow
  <2>5. TxnBelowRows'
    BY <1>0, <1>15, <2>2, <2>3, <2>4 DEF WriteRow, TxnBelowRows, TypeOK, Table
  <2>6. job'[f].cur = NoKey /\ \A g \in Jobs \ {f} : job'[g] = job[g]
    BY <1>15, <1>j DEF WriteRow, Written, JobSet
  <2>7. HeadBelowRow'
    BY <1>15, <2>6, NoKeyAssumption DEF WriteRow, HeadBelowRow
  <2> QED
    BY <1>0, <1>15, <2>1, <2>5, <2>7
       DEF WriteRow, DownIsQuiet, TouchBelowTruth, NoFalseEvidence, DbNeverAhead
<1>16. ASSUME NEW f \in Jobs, Commit(f) PROVE EvidenceInv'
  <2>1. Up /\ Up'
    BY <1>11, <1>16 DEF FlushStep, Commit
  <2>2. \A k \in Keys : db'[k] = txn[k] \/ db'[k] = db[k]
    BY <1>16 DEF Commit, Upserted
  <2>3. \A k \in Keys : Leq(db'[k], rows[k])
    BY <2>1, <2>2 DEF TxnBelowRows, DbNeverAhead, Up
  <2>4. NoFalseEvidence' /\ DbNeverAhead'
    BY <1>16, <1>r, <2>3, LeqTransitive DEF Commit, NoFalseEvidence, DbNeverAhead
  <2>5. TxnBelowRows'
    BY <1>16, <1>r, AbsentIsLeast DEF Commit, NoRows, TxnBelowRows
  <2>6. job'[f].cur = job[f].cur /\ job'[f].head = job[f].head
    BY <1>16, <1>j DEF Commit, JobSet
  <2>7. HeadBelowRow'
    BY <1>16, <1>j, <2>6 DEF Commit, HeadBelowRow
  <2> QED
    BY <1>0, <1>16, <2>1, <2>4, <2>5, <2>7 DEF Commit, DownIsQuiet, TouchBelowTruth
<1>17. ASSUME NEW f \in Jobs, ClearDirty(f) PROVE EvidenceInv'
  BY <1>4, <1>11, <1>17, <1>j DEF ClearDirty, FlushStep, IdleJob
<1>18. ASSUME NEW f \in Jobs, FailFlush(f) PROVE EvidenceInv'
  <2>1. Up /\ Up'
    BY <1>11, <1>18 DEF FlushStep, FailFlush
  <2>2. TxnBelowRows'
    BY <1>18, <1>r, AbsentIsLeast DEF FailFlush, NoRows, TxnBelowRows
  <2>3. HeadBelowRow'
    BY <1>18, <1>j, NoKeyAssumption DEF FailFlush, IdleJob, HeadBelowRow
  <2> QED
    BY <1>0, <1>18, <2>1, <2>2, <2>3
       DEF FailFlush, DownIsQuiet, TouchBelowTruth, NoFalseEvidence, DbNeverAhead
<1>19. CASE UNCHANGED vars
  BY <1>0, <1>19 DEF vars, DownIsQuiet, Up, TouchBelowTruth, HeadBelowRow,
                     TxnBelowRows, NoFalseEvidence, DbNeverAhead
<1> QED
  BY <1>1, <1>2, <1>3, <1>5, <1>6, <1>7, <1>8, <1>9, <1>10, <1>12, <1>13,
     <1>14, <1>15, <1>16, <1>17, <1>18, <1>19
     DEF Next, Count, MainStep, FlushStep

LEMMA EvidenceInvariant == Spec => []EvidenceInv
  BY EvidenceInit, EvidenceStep, PTL DEF Spec

\* Nothing is ever stored or held in memory that no record said, through torn
\* reads, overlapping flushes, rollbacks, crashes and restarts.
THEOREM NoFalseEvidenceEver == Spec => []NoFalseEvidence
  BY EvidenceInvariant, PTL DEF EvidenceInv

\* The table never knows more than the running engine.
THEOREM DbIsNeverAhead == Spec => []DbNeverAhead
  BY EvidenceInvariant, PTL DEF EvidenceInv

-----------------------------------------------------------------------------
(***************************************************************************)
(* What the engine never loses, and that it implements DurableStore.       *)
(***************************************************************************)
(***************************************************************************)
(* The schedule: what each job holds in each of its phases, and which jobs *)
(* there are at each place of the main task.  Only a cancelled flush ever  *)
(* runs beside another one.                                                *)
(***************************************************************************)
PhaseOK(f) ==
  /\ job[f].todo \subseteq job[f].picked
  /\ job[f].pc \in {"idle", "queued", "ok", "failed"} => job[f].picked = {}
  /\ job[f].pc # "read" => job[f].todo = {}
  /\ job[f].cur # NoKey => job[f].pc = "read" /\ job[f].cur \in job[f].todo

Schedule ==
  /\ \A f \in Jobs : PhaseOK(f)
  /\ main # "final" => job["final"] = IdleJob
  /\ main = "final" => job["final"].pc # "idle"
  /\ main = "flush" => job["periodic"].pc # "idle"
  /\ main # "flush" /\ ~Overlapped => job["periodic"] = IdleJob

LEMMA ScheduleInit == Init => Schedule
  BY DEF Init, Schedule, PhaseOK, IdleJob, Overlapped, Jobs

LEMMA ScheduleStep == EvidenceInv /\ Schedule /\ [Next]_vars => Schedule'
<1> SUFFICES ASSUME EvidenceInv, Schedule, [Next]_vars PROVE Schedule'
  OBVIOUS
<1>0. TypeOK /\ DownIsQuiet
  BY DEF EvidenceInv
<1>j. /\ job \in [Jobs -> JobSet]
      /\ \A f \in Jobs : job[f] \in JobSet
  BY <1>0 DEF TypeOK
<1>i. /\ IdleJob \in JobSet /\ IdleJob.pc = "idle" /\ IdleJob.picked = {}
      /\ IdleJob.todo = {} /\ IdleJob.cur = NoKey
  BY IdleJobTyped DEF IdleJob
<1>u. Up /\ ~Overlapped /\ main # "flush" => job["periodic"] = IdleJob
  BY DEF Schedule
<1> USE DEF memVars, dbVars
<1>1. ASSUME UNCHANGED <<main, job>> PROVE Schedule'
  BY <1>1 DEF Schedule, PhaseOK, Overlapped
\* A flush goes on: no other job and nothing of the main task changes.
<1>2. ASSUME NEW f \in Jobs, NEW d \in JobSet, job' = [job EXCEPT ![f] = d],
             main' = main, job[f].pc # "idle", d.pc # "idle",
             /\ d.todo \subseteq d.picked
             /\ d.pc \in {"idle", "queued", "ok", "failed"} => d.picked = {}
             /\ d.pc # "read" => d.todo = {}
             /\ d.cur # NoKey => d.pc = "read" /\ d.cur \in d.todo
      PROVE  Schedule'
  <2>1. job'[f] = d /\ \A g \in Jobs \ {f} : job'[g] = job[g]
    BY <1>2, <1>j
  <2>2. \A g \in Jobs : PhaseOK(g)'
    BY <1>2, <2>1 DEF Schedule, PhaseOK
  <2>3. CASE f = "periodic"
    BY <1>2, <1>i, <2>1, <2>2, <2>3 DEF Schedule, Overlapped, Jobs
  <2>4. CASE f = "final"
    BY <1>2, <1>i, <2>1, <2>2, <2>4 DEF Schedule, Overlapped, Jobs
  <2> QED
    BY <2>3, <2>4 DEF Jobs
<1>3. ASSUME NEW K \in SUBSET Keys, NEW ts \in Stamps, NEW hit \in States,
             Ingest(K, ts, hit)
      PROVE  Schedule'
  BY <1>1, <1>3 DEF Ingest
<1>4. ASSUME NEW k \in Keys, TouchCount(k) \/ TouchRest(k) PROVE Schedule'
  BY <1>1, <1>4 DEF TouchCount, TouchRest
<1>5. CASE StartFlush
  <2>1. main = "sleep" /\ main' = "flush" /\ ~Overlapped
    BY <1>5 DEF StartFlush, Overlapped
  <2>2. job["final"] = IdleJob /\ job["periodic"] = IdleJob
    BY <2>1 DEF Schedule
  <2>3. /\ job'["final"] = job["final"]
        /\ job'["periodic"] = [job["periodic"] EXCEPT !.pc = "queued"]
    BY <1>5, <1>j DEF StartFlush, Jobs
  <2> QED
    BY <1>i, <2>1, <2>2, <2>3 DEF Schedule, PhaseOK, Overlapped, Jobs, JobSet
<1>6. CASE FlushReturns
  <2>1. main = "flush" /\ main' = "sleep"
    BY <1>6 DEF FlushReturns
  <2>2. job'["final"] = IdleJob /\ job'["periodic"] = IdleJob
    BY <1>6, <1>j, <2>1 DEF FlushReturns, Schedule, Jobs
  <2> QED
    BY <1>i, <2>1, <2>2 DEF Schedule, PhaseOK, Overlapped, Jobs
<1>7. ASSUME NEW p \in CancelPoints, Cancel(p) PROVE Schedule'
  <2>1. main \in {"sleep", "flush"} /\ main' = "final"
    BY <1>7, CancelAssumption DEF Cancel
  <2>2. job["final"] = IdleJob
    BY <2>1 DEF Schedule
  <2>3. /\ job'["final"] = [job["final"] EXCEPT !.pc = "queued"]
        /\ job'["periodic"] = IF job["periodic"].pc = "queued" THEN IdleJob
                              ELSE job["periodic"]
    BY <1>7, <1>j DEF Cancel, Jobs
  <2>4. /\ job'["final"].pc = "queued" /\ job'["final"].cur = NoKey
        /\ job'["final"].todo = {} /\ job'["final"].picked = {}
    BY <1>i, <2>2, <2>3 DEF JobSet
  <2>5. job["periodic"].pc = "idle" => job["periodic"] = IdleJob
    BY <2>1 DEF Schedule, Overlapped, TypeOK
  <2> QED
    BY <1>i, <2>1, <2>3, <2>4 DEF Schedule, PhaseOK, Overlapped, Jobs
<1>8. CASE Close \/ Crash
  <2>1. main' \notin {"flush", "final"} /\ \A f \in Jobs : job'[f] = IdleJob
    BY <1>8 DEF Close, Crash
  <2> QED
    BY <1>i, <2>1 DEF Schedule, PhaseOK, Overlapped, Jobs
<1>9. CASE Restart
  <2>1. main' = "sleep" /\ \A f \in Jobs : job'[f] = IdleJob
    BY <1>0, <1>9 DEF Restart, DownIsQuiet
  <2> QED
    BY <1>i, <2>1 DEF Schedule, PhaseOK, Overlapped, Jobs
<1>10. ASSUME NEW f \in Jobs, BeginScan(f) PROVE Schedule'
  <2>1. job[f].picked = {} /\ job[f].todo = {} /\ job[f].cur = NoKey
    BY <1>10 DEF BeginScan, Schedule, PhaseOK
  <2> DEFINE d == [job[f] EXCEPT !.pc = "scan", !.known = Known, !.picked = dirty]
  <2>2. d \in JobSet /\ d.pc = "scan" /\ d.todo = {} /\ d.cur = NoKey
    BY <1>0, <1>j, <2>1 DEF TypeOK, JobSet, JobStates, Known
  <2> HIDE DEF d
  <2>3. job' = [job EXCEPT ![f] = d] /\ main' = main /\ job[f].pc # "idle"
    BY <1>10 DEF BeginScan, d
  <2> QED
    BY <1>2, <2>2, <2>3
<1>11. ASSUME NEW f \in Jobs, EndScan(f) PROVE Schedule'
  <2>1. main' = main /\ job[f].pc = "scan"
    BY <1>11 DEF EndScan
  <2>2. CASE Known # job[f].known
    <3> DEFINE d == [IdleJob EXCEPT !.pc = "failed"]
    <3>1. /\ d \in JobSet /\ d.pc = "failed" /\ d.todo = {} /\ d.picked = {}
          /\ d.cur = NoKey
      BY <1>i DEF JobSet, JobStates
    <3> HIDE DEF d
    <3>2. job' = [job EXCEPT ![f] = d]
      BY <1>11, <2>2 DEF EndScan, d
    <3> QED
      BY <1>2, <2>1, <3>1, <3>2
  <2>3. CASE Known = job[f].known
    <3>1. PICK D \in SUBSET (job[f].picked \cup dirty) :
            job' = [job EXCEPT
                 ![f] = [IdleJob EXCEPT !.pc = IF D = {} THEN "ok" ELSE "read",
                                        !.picked = D, !.todo = D]]
      BY <1>11, <2>3 DEF EndScan
    <3> DEFINE d == [IdleJob EXCEPT !.pc = IF D = {} THEN "ok" ELSE "read",
                                    !.picked = D, !.todo = D]
    <3>0. D \subseteq Keys
      BY <1>0, <1>j DEF JobSet, TypeOK
    <3>2. /\ d \in JobSet /\ d.pc = (IF D = {} THEN "ok" ELSE "read")
          /\ d.todo = D /\ d.picked = D /\ d.cur = NoKey
      BY <1>i, <3>0 DEF JobSet, JobStates
    <3> HIDE DEF d
    <3>3. job' = [job EXCEPT ![f] = d]
      BY <3>1 DEF d
    <3> QED
      BY <1>2, <2>1, <3>2, <3>3
  <2> QED
    BY <2>2, <2>3
<1>12. ASSUME NEW f \in Jobs, NEW k \in Keys, ReadHead(f, k) PROVE Schedule'
  <2> DEFINE d == [job[f] EXCEPT !.cur = k, !.head = [rows[k] EXCEPT !.last = 0]]
  <2>1. [rows[k] EXCEPT !.last = 0] \in Row
    BY <1>0 DEF TypeOK, Table, Row
  <2>2. /\ d \in JobSet /\ d.pc = "read" /\ d.todo = job[f].todo
        /\ d.picked = job[f].picked /\ d.cur = k /\ k \in d.todo
    BY <1>12, <1>j, <2>1 DEF ReadHead, JobSet
  <2> HIDE DEF d
  <2>3. job' = [job EXCEPT ![f] = d] /\ main' = main /\ job[f].pc # "idle"
    BY <1>12 DEF ReadHead, d
  <2>4. d.todo \subseteq d.picked
    BY <2>2 DEF Schedule, PhaseOK
  <2> QED
    BY <1>2, <2>2, <2>3, <2>4
<1>13. ASSUME NEW f \in Jobs, WriteRow(f) PROVE Schedule'
  <2> DEFINE d == Written(job[f])
  <2>1. /\ d \in JobSet /\ d.picked = job[f].picked /\ d.cur = NoKey
        /\ d.todo = job[f].todo \ {job[f].cur}
        /\ d.pc = (IF job[f].todo = {job[f].cur} THEN "tail" ELSE "read")
    <3> DEFINE t == job[f].todo \ {job[f].cur}
               s == IF job[f].todo = {job[f].cur} THEN "tail" ELSE "read"
    <3>1. job[f] \in JobSet /\ job[f].pc = "read"
      BY <1>13, <1>j DEF WriteRow
    <3>2. t \subseteq Keys /\ s \in JobStates
      BY <3>1 DEF JobSet, JobStates
    <3>3. d = [job[f] EXCEPT !.todo = t, !.cur = NoKey, !.head = Absent, !.pc = s]
      BY <3>1 DEF Written
    <3> HIDE DEF d, t, s
    <3>4. /\ d \in JobSet /\ d.picked = job[f].picked /\ d.cur = NoKey
          /\ d.todo = t /\ d.pc = s
      BY <3>1, <3>2, <3>3, AbsentIsRow DEF JobSet
    <3> QED
      BY <3>4 DEF t, s
  <2> HIDE DEF d
  <2>2. job' = [job EXCEPT ![f] = d] /\ main' = main /\ job[f].pc = "read"
    BY <1>13 DEF WriteRow, d
  <2>3. d.todo \subseteq d.picked
    BY <2>1 DEF Schedule, PhaseOK
  <2> QED
    BY <1>2, <2>1, <2>2, <2>3
<1>14. ASSUME NEW f \in Jobs, Commit(f) PROVE Schedule'
  <2> DEFINE d == [job[f] EXCEPT !.pc = "clear"]
  <2>1. /\ d \in JobSet /\ d.pc = "clear" /\ d.todo = job[f].todo
        /\ d.picked = job[f].picked /\ d.cur = job[f].cur
    BY <1>j DEF JobSet, JobStates
  <2> HIDE DEF d
  <2>2. job' = [job EXCEPT ![f] = d] /\ main' = main /\ job[f].pc = "tail"
    BY <1>14 DEF Commit, d
  <2>3. job[f].todo = {} /\ job[f].cur = NoKey
    BY <2>2 DEF Schedule, PhaseOK
  <2> QED
    BY <1>2, <2>1, <2>2, <2>3
<1>15. ASSUME NEW f \in Jobs, NEW p \in {"ok", "failed"}, job[f].pc # "idle",
              job' = [job EXCEPT ![f] = [IdleJob EXCEPT !.pc = p]], main' = main
       PROVE  Schedule'
  <2> DEFINE d == [IdleJob EXCEPT !.pc = p]
  <2>1. d \in JobSet /\ d.pc = p /\ d.todo = {} /\ d.picked = {} /\ d.cur = NoKey
    BY <1>i DEF JobSet, JobStates
  <2> HIDE DEF d
  <2>2. job' = [job EXCEPT ![f] = d]
    BY <1>15 DEF d
  <2> QED
    BY <1>2, <1>15, <2>1, <2>2
<1>16. ASSUME NEW f \in Jobs, ClearDirty(f) \/ FailFlush(f) PROVE Schedule'
  BY <1>15, <1>16 DEF ClearDirty, FailFlush
<1>17. CASE UNCHANGED vars
  BY <1>1, <1>17 DEF vars
<1> QED
  BY <1>3, <1>4, <1>5, <1>6, <1>7, <1>8, <1>9, <1>10, <1>11, <1>12, <1>13,
     <1>14, <1>16, <1>17 DEF Next, Count, MainStep, FlushStep

LEMMA JobsTyped ==
  ASSUME TypeOK
  PROVE  /\ job \in [Jobs -> JobSet] /\ \A f \in Jobs : job[f] \in JobSet
         /\ IdleJob \in JobSet /\ IdleJob.pc = "idle" /\ IdleJob.picked = {}
         /\ IdleJob.todo = {} /\ IdleJob.cur = NoKey
  BY IdleJobTyped DEF TypeOK, IdleJob

LEMMA UpToFlush ==
  ASSUME DownIsQuiet, NEW f \in Jobs, job[f].pc # "idle"
  PROVE  Up
  BY DEF DownIsQuiet, IdleJob

\* What a step of a flush makes of its job; no other job changes.
LEMMA FlushEffects ==
  ASSUME TypeOK, NEW f \in Jobs
  PROVE  /\ BeginScan(f) => job'[f].pc = "scan" /\ job'[f].picked = dirty
         /\ \A k \in Keys : ReadHead(f, k) =>
              /\ job'[f].pc = "read" /\ job'[f].picked = job[f].picked
              /\ job'[f].todo = job[f].todo /\ job'[f].cur = k
              /\ job'[f].head = [rows[k] EXCEPT !.last = 0]
         /\ WriteRow(f) =>
              /\ job'[f].pc \in {"read", "tail"} /\ job'[f].picked = job[f].picked
              /\ job'[f].todo = job[f].todo \ {job[f].cur} /\ job'[f].cur = NoKey
         /\ Commit(f) => job'[f].pc = "clear" /\ job'[f].picked = job[f].picked
         /\ ClearDirty(f) => job'[f].pc = "ok" /\ job'[f].picked = {}
         /\ FailFlush(f) => job'[f].pc = "failed" /\ job'[f].picked = {}
         /\ FlushStep(f) => /\ job[f].pc # "idle"
                            /\ \A g \in Jobs \ {f} : job'[g] = job[g]
<1>j. job \in [Jobs -> JobSet] /\ job[f] \in JobSet /\ IdleJob \in JobSet
  BY JobsTyped
<1>1. BeginScan(f) => job'[f].pc = "scan" /\ job'[f].picked = dirty
  BY <1>j DEF BeginScan, JobSet
<1>2. ASSUME NEW k \in Keys, ReadHead(f, k)
      PROVE  /\ job'[f].pc = "read" /\ job'[f].picked = job[f].picked
             /\ job'[f].todo = job[f].todo /\ job'[f].cur = k
             /\ job'[f].head = [rows[k] EXCEPT !.last = 0]
  BY <1>j, <1>2 DEF ReadHead, JobSet
<1>3. WriteRow(f) =>
        /\ job'[f].pc \in {"read", "tail"} /\ job'[f].picked = job[f].picked
        /\ job'[f].todo = job[f].todo \ {job[f].cur} /\ job'[f].cur = NoKey
  BY <1>j DEF WriteRow, Written, JobSet
<1>4. Commit(f) => job'[f].pc = "clear" /\ job'[f].picked = job[f].picked
  BY <1>j DEF Commit, JobSet
<1>5. ClearDirty(f) => job'[f].pc = "ok" /\ job'[f].picked = {}
  BY <1>j DEF ClearDirty, JobSet, IdleJob
<1>6. FailFlush(f) => job'[f].pc = "failed" /\ job'[f].picked = {}
  BY <1>j DEF FailFlush, JobSet, IdleJob
<1>7. FlushStep(f) => job[f].pc # "idle" /\ \A g \in Jobs \ {f} : job'[g] = job[g]
  <2>1. FlushStep(f) => job[f].pc # "idle"
    BY DEF FlushStep, BeginScan, EndScan, ReadHead, WriteRow, Commit, ClearDirty,
           FailFlush
  <2>2. ASSUME EndScan(f) PROVE \E d : job' = [job EXCEPT ![f] = d]
    BY <2>2 DEF EndScan
  <2>3. FlushStep(f) => \E d : job' = [job EXCEPT ![f] = d]
    BY <2>2, <1>j DEF FlushStep, BeginScan, ReadHead, WriteRow, Commit,
                      ClearDirty, FailFlush
  <2> QED
    BY <1>j, <2>1, <2>3
<1> QED
  BY <1>1, <1>2, <1>3, <1>4, <1>5, <1>6, <1>7

\* The scan fails, or picks some of the keys that were or are dirty, and all
\* those that were and are.
LEMMA EndScanEffects ==
  ASSUME TypeOK, NEW f \in Jobs, EndScan(f)
  PROVE  \/ job'[f].pc = "failed" /\ job'[f].picked = {} /\ raced' = raced
         \/ \E D \in SUBSET (job[f].picked \cup dirty) :
              /\ job[f].picked \cap dirty \subseteq D
              /\ job'[f].pc \in {"ok", "read"}
              /\ job'[f].picked = D /\ job'[f].todo = D /\ job'[f].cur = NoKey
              /\ raced' = raced \ D
<1>j. job \in [Jobs -> JobSet] /\ job[f] \in JobSet /\ IdleJob \in JobSet
  BY JobsTyped
<1>1. CASE Known # job[f].known
  BY <1>j, <1>1 DEF EndScan, JobSet, IdleJob
<1>2. CASE Known = job[f].known
  <2>1. PICK D \in SUBSET (job[f].picked \cup dirty) :
          /\ job[f].picked \cap dirty \subseteq D
          /\ job' = [job EXCEPT
               ![f] = [IdleJob EXCEPT !.pc = IF D = {} THEN "ok" ELSE "read",
                                      !.picked = D, !.todo = D]]
          /\ raced' = raced \ D
    BY <1>2 DEF EndScan
  <2>2. /\ job'[f].pc \in {"ok", "read"} /\ job'[f].picked = D
        /\ job'[f].todo = D /\ job'[f].cur = NoKey
    BY <1>j, <2>1 DEF JobSet, IdleJob
  <2> QED
    BY <2>1, <2>2
<1> QED
  BY <1>1, <1>2

(***************************************************************************)
(* Dates: a row has its date before anyone may pick it, so that whatever   *)
(* is stored has one.                                                      *)
(***************************************************************************)
HasDate(r) == Present(r) => r.last > 0

RecDated ==
  /\ rec.cur # NoKey \/ rec.todo # {} => rec.ts \in Stamps
  /\ \A k \in Keys : rec.cur = k => Present(rows[k])

RowsDated == \A k \in Keys : rec.cur # k => HasDate(rows[k])

StoredDated == \A k \in Keys : HasDate(txn[k]) /\ HasDate(db[k])

PickedDated ==
  \A k \in Keys : k \in dirty \/ Busy(k) => Present(rows[k]) /\ rows[k].last > 0

HeadPresent == \A f \in Jobs, k \in Keys : job[f].cur = k => Present(job[f].head)

DatedInv == RecDated /\ RowsDated /\ StoredDated /\ PickedDated /\ HeadPresent

LEMMA DatedInit == Init => DatedInv
<1> SUFFICES ASSUME Init PROVE DatedInv
  OBVIOUS
<1>1. /\ rec.cur = NoKey /\ rec.todo = {} /\ dirty = {}
      /\ \A f \in Jobs : job[f].cur = NoKey /\ job[f].picked = {}
      /\ \A k \in Keys : rows[k].count = 0 /\ txn[k].count = 0 /\ db[k].count = 0
  BY DEF Init, NoRows, NoRec, Absent, IdleJob
<1> QED
  BY <1>1 DEF DatedInv, RecDated, RowsDated, StoredDated, PickedDated, HeadPresent,
              HasDate, Present, Busy

\* Counting leaves a date behind.
LEMMA DatedHasDate ==
  ASSUME NEW r \in Row, NEW ts \in Stamps, NEW hit \in States
  PROVE  /\ Counted(r).count > 0 /\ Counted(r).last = r.last
         /\ Dated(r, ts, hit).count = r.count /\ Dated(r, ts, hit).last > 0
<1>1. /\ Counted(r).count = r.count + 1 /\ Counted(r).last = r.last
      /\ Dated(r, ts, hit).count = r.count
      /\ Dated(r, ts, hit).last = Later(r.last, ts)
      /\ r.last \in Nat /\ r.count \in Nat
  BY DEF Counted, Dated, Row
<1>2. ts \in Nat /\ ts > 0
  BY StampsAssumption
<1>3. Later(r.last, ts) > 0
  BY <1>1, <1>2 DEF Later
<1> QED
  BY <1>1, <1>3

LEMMA DatedStep == EvidenceInv /\ Schedule /\ DatedInv /\ [Next]_vars => DatedInv'
<1> SUFFICES ASSUME EvidenceInv, Schedule, DatedInv, [Next]_vars PROVE DatedInv'
  OBVIOUS
<1>0. TypeOK /\ DownIsQuiet /\ Schedule' /\ TypeOK'
  BY ScheduleStep, TypeStep DEF EvidenceInv
<1>r. /\ rows \in Table
      /\ \A k \in Keys : rows[k] \in Row /\ db[k] \in Row /\ txn[k] \in Row
  BY <1>0 DEF TypeOK, Table
<1>j. /\ job \in [Jobs -> JobSet] /\ job' \in [Jobs -> JobSet]
      /\ IdleJob.cur = NoKey /\ IdleJob.picked = {}
  BY <1>0, JobsTyped DEF TypeOK
<1>n. ~Present(Absent) /\ \A k \in Keys : NoRows[k] = Absent
  BY DEF Present, Absent, NoRows
<1> USE DEF memVars, dbVars, DatedInv
\* Neither the rows nor the record change, and nothing is picked that was not
\* dirty or picked.
<1>1. ASSUME UNCHANGED <<rows, rec>>, dirty' \subseteq dirty,
             \A f \in Jobs, k \in Keys : k \in job'[f].picked => k \in dirty \/ Busy(k),
             HeadPresent', StoredDated'
      PROVE  DatedInv'
  BY <1>1 DEF RecDated, RowsDated, PickedDated, Busy
<1>2. ASSUME UNCHANGED <<rows, rec, dirty, db>>, txn' = txn \/ txn' = NoRows,
             \A f \in Jobs : job'[f] = job[f] \/ (job'[f].picked = {} /\ job'[f].cur = NoKey)
      PROVE  DatedInv'
  <2>1. StoredDated'
    BY <1>2, <1>n DEF StoredDated, HasDate
  <2>2. HeadPresent' /\ \A f \in Jobs, k \in Keys : k \in job'[f].picked => Busy(k)
    BY <1>2 DEF HeadPresent, Busy
  <2> QED
    BY <1>1, <1>2, <2>1, <2>2
<1>3. ASSUME NEW K \in SUBSET Keys, NEW ts \in Stamps, NEW hit \in States,
             Ingest(K, ts, hit)
      PROVE  DatedInv'
  <2>1. rec.cur = NoKey /\ rec'.cur = NoKey /\ rec'.ts \in Stamps
    BY <1>3 DEF Ingest, LoopIsFree, NoRec
  <2> QED
    BY <1>3, <2>1 DEF Ingest, RecDated, RowsDated, StoredDated, PickedDated,
                     HeadPresent, Busy
<1>4. ASSUME NEW k \in Keys, TouchCount(k) PROVE DatedInv'
  <2>1. /\ rec.cur = NoKey /\ rec.ts \in Stamps
        /\ rec'.cur = k /\ rec'.ts = rec.ts
    BY <1>0, <1>4 DEF TouchCount, RecDated, TypeOK, RecSet
  <2>2. /\ rows'[k] = Counted(rows[k])
        /\ \A j \in Keys \ {k} : rows'[j] = rows[j]
    BY <1>4, <1>r DEF TouchCount, Table
  <2>3. Present(rows'[k]) /\ rows'[k].last = rows[k].last
    BY <1>r, <2>2, <2>1, RecTyped, <1>0, DatedHasDate DEF Present
  <2> QED
    BY <1>4, <2>1, <2>2, <2>3 DEF TouchCount, RecDated, RowsDated, StoredDated,
                                  PickedDated, HeadPresent, Busy
<1>5. ASSUME NEW k \in Keys, TouchRest(k) PROVE DatedInv'
  <2>1. rec.ts \in Stamps /\ rec.cur = k /\ rec.hit \in States /\ Present(rows[k])
    BY <1>0, <1>5, RecTyped DEF TouchRest, RecDated
  <2>2. rec'.cur = NoKey /\ (rec'.todo # {} => rec'.ts = rec.ts)
    BY <1>0, <1>5 DEF TouchRest, TypeOK, RecSet, NoRec
  <2>3. /\ rows'[k] = Dated(rows[k], rec.ts, rec.hit)
        /\ \A j \in Keys \ {k} : rows'[j] = rows[j]
    BY <1>5, <1>r DEF TouchRest, Table
  <2>4. Present(rows'[k]) /\ rows'[k].last > 0
    <3>1. rows[k] \in Row /\ rec.ts \in Stamps /\ rec.hit \in States
      BY <1>r, <2>1
    <3>2. /\ Dated(rows[k], rec.ts, rec.hit).count = rows[k].count
          /\ Dated(rows[k], rec.ts, rec.hit).last > 0
      BY <3>1, DatedHasDate
    <3> QED
      BY <2>1, <2>3, <3>2 DEF Present
  <2>5. UNCHANGED <<txn, db, job>> /\ dirty' = dirty \cup {k}
    BY <1>5 DEF TouchRest
  <2>6. \A j \in Keys : HasDate(rows'[j])
    BY <2>1, <2>3, <2>4 DEF RowsDated, HasDate
  <2>7. PickedDated'
    BY <2>3, <2>4, <2>5 DEF PickedDated, Busy
  <2> QED
    BY <2>1, <2>2, <2>5, <2>6, <2>7 DEF RecDated, RowsDated, StoredDated, HeadPresent
<1>6. CASE StartFlush
  <2>1. job'["periodic"].picked = job["periodic"].picked
    BY <1>6, <1>j DEF StartFlush, Jobs, JobSet
  <2>2. /\ job'["periodic"].cur = job["periodic"].cur
        /\ job'["periodic"].head = job["periodic"].head
        /\ job'["final"] = job["final"]
    BY <1>6, <1>j DEF StartFlush, Jobs, JobSet
  <2> QED
    BY <1>1, <1>6, <2>1, <2>2 DEF StartFlush, StoredDated, HeadPresent, Busy, Jobs
<1>7. CASE FlushReturns
  BY <1>2, <1>7, <1>j DEF FlushReturns
<1>8. ASSUME NEW p \in CancelPoints, Cancel(p) PROVE DatedInv'
  <2>1. /\ job'["final"].picked = job["final"].picked
        /\ job'["final"].cur = job["final"].cur
        /\ job'["final"].head = job["final"].head
    BY <1>8, <1>j DEF Cancel, Jobs, JobSet
  <2>2. job'["periodic"] \in {job["periodic"], IdleJob}
    BY <1>8, <1>j DEF Cancel, Jobs
  <2>3. HeadPresent'
    BY <1>j, <2>1, <2>2 DEF HeadPresent, Jobs
  <2>4. \A f \in Jobs, k \in Keys : k \in job'[f].picked => Busy(k)
    BY <1>j, <2>1, <2>2 DEF Busy, Jobs
  <2> QED
    BY <1>1, <1>8, <2>3, <2>4 DEF Cancel, StoredDated
<1>9. CASE Close
  BY <1>2, <1>9, <1>j DEF Close
<1>10. CASE Crash
  <2>1. /\ \A k \in Keys : rows'[k] = Absent /\ txn'[k] = Absent
        /\ dirty' = {} /\ rec' = NoRec /\ db' = db
        /\ \A f \in Jobs : job'[f] = IdleJob
    BY <1>10, <1>n DEF Crash
  <2> QED
    BY <1>j, <1>n, <2>1 DEF RecDated, RowsDated, StoredDated, PickedDated, HeadPresent,
                            HasDate, Busy, NoRec
<1>11. CASE Restart
  <2>1. /\ \A f \in Jobs : job'[f] = IdleJob
        /\ rec' = NoRec /\ dirty' = {} /\ rows' = db /\ UNCHANGED <<txn, db>>
    BY <1>0, <1>11 DEF Restart, Loaded, DownIsQuiet
  <2> QED
    BY <1>j, <2>1 DEF RecDated, RowsDated, StoredDated, PickedDated, HeadPresent,
                      Busy, NoRec
<1>12. ASSUME NEW f \in Jobs, FlushStep(f)
       PROVE  \A g \in Jobs \ {f} : job'[g] = job[g]
  BY <1>0, <1>12, FlushEffects
<1>13. ASSUME NEW f \in Jobs, BeginScan(f) PROVE DatedInv'
  <2>1. \A g \in Jobs \ {f} : job'[g] = job[g]
    BY <1>12, <1>13 DEF FlushStep
  <2>2. job'[f].picked = dirty /\ job'[f].cur = job[f].cur /\ job'[f].head = job[f].head
    BY <1>13, <1>j DEF BeginScan, JobSet
  <2> QED
    BY <1>1, <1>13, <2>1, <2>2 DEF BeginScan, StoredDated, HeadPresent, Busy
<1>14. ASSUME NEW f \in Jobs, EndScan(f) PROVE DatedInv'
  <2>1. \A g \in Jobs \ {f} : job'[g] = job[g]
    BY <1>12, <1>14 DEF FlushStep
  <2>2. /\ job'[f].picked \subseteq job[f].picked \cup dirty
        /\ job'[f].pc # "read" \/ job'[f].cur = NoKey
    BY <1>0, <1>14, EndScanEffects
  <2>3. job'[f].cur = NoKey
    BY <1>0, <2>2 DEF Schedule, PhaseOK
  <2> QED
    BY <1>1, <1>14, <2>1, <2>2, <2>3 DEF EndScan, StoredDated, HeadPresent, Busy
<1>15. ASSUME NEW f \in Jobs, NEW k \in Keys, ReadHead(f, k) PROVE DatedInv'
  <2>1. \A g \in Jobs \ {f} : job'[g] = job[g]
    BY <1>12, <1>15 DEF FlushStep
  <2>2. /\ job'[f].picked = job[f].picked /\ job'[f].cur = k
        /\ job'[f].head = [rows[k] EXCEPT !.last = 0]
    BY <1>0, <1>15, FlushEffects
  <2>3. Busy(k)
    BY <1>15 DEF ReadHead, Busy, Schedule, PhaseOK
  <2>4. Present(job'[f].head)
    BY <1>r, <2>2, <2>3 DEF PickedDated, Present, Row
  <2> QED
    BY <1>1, <1>15, <2>1, <2>2, <2>4 DEF ReadHead, StoredDated, HeadPresent, Busy
<1>16. ASSUME NEW f \in Jobs, WriteRow(f) PROVE DatedInv'
  <2>1. \A g \in Jobs \ {f} : job'[g] = job[g]
    BY <1>12, <1>16 DEF FlushStep
  <2>2. job'[f].picked = job[f].picked /\ job'[f].cur = NoKey
    BY <1>0, <1>16, FlushEffects
  <2> DEFINE k == job[f].cur
             w == [job[f].head EXCEPT !.last = rows[k].last]
  <2>3. k \in Keys /\ Busy(k) /\ job[f].head \in Row
    BY <1>16, <1>j DEF WriteRow, JobSet, Busy, Schedule, PhaseOK
  <2>4. HasDate(w)
    BY <1>r, <2>3 DEF PickedDated, HasDate, Present, Row
  <2>5. txn' = [txn EXCEPT ![k] = w] /\ db' = db
    BY <1>16 DEF WriteRow
  <2>6. StoredDated'
    BY <1>0, <2>3, <2>4, <2>5 DEF StoredDated, TypeOK, Table
  <2> QED
    BY <1>1, <1>16, <2>1, <2>2, <2>6 DEF WriteRow, HeadPresent, Busy
<1>17. ASSUME NEW f \in Jobs, Commit(f) PROVE DatedInv'
  <2>1. \A g \in Jobs \ {f} : job'[g] = job[g]
    BY <1>12, <1>17 DEF FlushStep
  <2>2. /\ job'[f].picked = job[f].picked /\ job'[f].cur = job[f].cur
        /\ job'[f].head = job[f].head
    BY <1>17, <1>j DEF Commit, JobSet
  <2>3. StoredDated'
    BY <1>17, <1>n DEF Commit, Upserted, StoredDated, HasDate
  <2> QED
    BY <1>1, <1>17, <2>1, <2>2, <2>3 DEF Commit, HeadPresent, Busy
<1>18. ASSUME NEW f \in Jobs, ClearDirty(f) PROVE DatedInv'
  <2>1. \A g \in Jobs \ {f} : job'[g] = job[g]
    BY <1>12, <1>18 DEF FlushStep
  <2>2. job'[f].picked = {} /\ job'[f].cur = NoKey
    BY <1>18, <1>j DEF ClearDirty, JobSet, IdleJob
  <2> QED
    BY <1>1, <1>18, <2>1, <2>2 DEF ClearDirty, StoredDated, HeadPresent, Busy
<1>19. ASSUME NEW f \in Jobs, FailFlush(f) PROVE DatedInv'
  <2>1. \A g \in Jobs \ {f} : job'[g] = job[g]
    BY <1>12, <1>19 DEF FlushStep
  <2>2. job'[f].picked = {} /\ job'[f].cur = NoKey
    BY <1>19, <1>j DEF FailFlush, JobSet, IdleJob
  <2> QED
    BY <1>2, <1>19, <2>1, <2>2 DEF FailFlush
<1>20. CASE UNCHANGED vars
  BY <1>2, <1>20 DEF vars
<1> QED
  BY <1>3, <1>4, <1>5, <1>6, <1>7, <1>8, <1>9, <1>10, <1>11, <1>13, <1>14,
     <1>15, <1>16, <1>17, <1>18, <1>19, <1>20 DEF Next, Count, MainStep, FlushStep

(***************************************************************************)
(* Durability: as long as no two flushes share a transaction.  A picked    *)
(* row keeps its flag until its image is committed, the image of a row     *)
(* that was not hit since is the row itself, and nothing else is in the    *)
(* transaction.                                                            *)
(***************************************************************************)
Alone == Up /\ ~Overlapped

WrittenBy(f) == IF job[f].pc \in {"read", "tail"} THEN job[f].picked \ job[f].todo ELSE {}

Calm(k) == k \notin raced /\ rec.cur # k

PickedIsDirty == \A f \in Jobs : job[f].picked \subseteq dirty

TxnIsWritten ==
  \A k \in Keys :
    IF \E f \in Jobs : k \in WrittenBy(f) THEN Present(txn[k]) ELSE txn[k] = Absent

CalmIsExact ==
  \A f \in Jobs, k \in Keys :
    k \in job[f].picked /\ Calm(k) =>
      /\ k \in WrittenBy(f) => txn[k] = rows[k]
      /\ job[f].cur = k => job[f].head = [rows[k] EXCEPT !.last = 0]
      /\ job[f].pc = "clear" => db[k] = rows[k]

ClearIsStored ==
  \A f \in Jobs, k \in Keys :
    job[f].pc = "clear" /\ k \in job[f].picked => db[k].last > 0

LastFlushTakesAll ==
  main = "final" /\ job["final"].pc \in {"scan", "read", "tail", "clear", "ok"} =>
    dirty \subseteq job["final"].picked \cup raced

CleanIsStored ==
  \A k \in Keys : k \notin dirty /\ rec.cur # k =>
    /\ Present(rows[k]) => db[k].last > 0
    /\ k \notin raced => db[k] = rows[k]

AloneInv ==
  /\ PickedIsDirty /\ TxnIsWritten /\ CalmIsExact /\ ClearIsStored
  /\ LastFlushTakesAll /\ CleanIsStored

\* While it is alone, at most one job is under way.
LEMMA OthersIdle ==
  ASSUME TypeOK, Schedule, Alone, NEW f \in Jobs, job[f].pc # "idle"
  PROVE  \A g \in Jobs \ {f} : job[g] = IdleJob
<1>1. IdleJob.pc = "idle"
  BY JobsTyped
<1>2. CASE f = "final"
  BY <1>1, <1>2 DEF Schedule, Alone, Overlapped, Jobs
<1>3. CASE f = "periodic"
  BY <1>1, <1>3 DEF Schedule, Alone, Overlapped, Jobs
<1> QED
  BY <1>2, <1>3 DEF Jobs

\* Two flushes that overlap do so until the process ends.
LEMMA AloneBefore ==
  ASSUME EvidenceInv, Schedule, [Next]_vars, Alone'
  PROVE  Alone \/ Restart
<1>0. TypeOK /\ DownIsQuiet
  BY DEF EvidenceInv
<1>j. job \in [Jobs -> JobSet] /\ rec \in RecSet
  BY <1>0 DEF TypeOK
<1> USE DEF memVars, dbVars
<1>1. ASSUME UNCHANGED <<main, job>> PROVE Alone
  BY <1>1 DEF Alone, Up, Overlapped
<1>2. ASSUME NEW f \in Jobs, FlushStep(f), main' = main PROVE Alone
  <2>1. job[f].pc # "idle" /\ \A g \in Jobs \ {f} : job'[g] = job[g]
    BY <1>0, <1>2, FlushEffects
  <2>2. CASE f = "periodic"
    <3>1. job'[f].pc # "idle"
      <4>1. CASE EndScan(f)
        BY <1>0, <4>1, EndScanEffects
      <4>2. CASE \E k \in Keys : ReadHead(f, k)
        BY <1>0, <4>2, FlushEffects
      <4>3. CASE BeginScan(f) \/ WriteRow(f) \/ Commit(f) \/ ClearDirty(f) \/ FailFlush(f)
        BY <1>0, <4>3, FlushEffects
      <4> QED
        BY <1>2, <4>1, <4>2, <4>3 DEF FlushStep
    <3> QED
      BY <1>2, <2>1, <2>2, <3>1 DEF Alone, Up, Overlapped
  <2>3. CASE f = "final"
    BY <1>2, <2>1, <2>3 DEF Alone, Up, Overlapped, Jobs
  <2> QED
    BY <2>2, <2>3 DEF Jobs
<1>3. CASE Count
  BY <1>1, <1>3 DEF Count, Ingest, TouchCount, TouchRest
<1>4. CASE StartFlush \/ FlushReturns
  BY <1>4 DEF StartFlush, FlushReturns, LoopIsFree, Alone, Up, Overlapped
<1>5. CASE Close \/ Crash
  BY <1>5 DEF Close, Crash, Alone, Up
<1>6. ASSUME NEW p \in CancelPoints, Cancel(p) PROVE Alone
  BY <1>6 DEF Cancel, LoopIsFree, Alone, Up, Overlapped
<1>7. ASSUME NEW f \in Jobs, FlushStep(f) PROVE Alone
  BY <1>2, <1>7 DEF FlushStep, BeginScan, EndScan, ReadHead, WriteRow, Commit,
                    ClearDirty, FailFlush
<1>8. CASE UNCHANGED vars
  BY <1>1, <1>8 DEF vars
<1> QED
  BY <1>3, <1>4, <1>5, <1>6, <1>7, <1>8 DEF Next, MainStep

\* A step of the process that is alone before and after it.
LEMMA AloneStep ==
  ASSUME EvidenceInv, Schedule, DatedInv, Alone, AloneInv, [Next]_vars, Alone'
  PROVE  AloneInv'
<1>0. TypeOK /\ Schedule' /\ Up
  BY ScheduleStep DEF EvidenceInv, Alone
<1>r. /\ rows \in Table /\ txn \in Table /\ db \in Table /\ dirty \subseteq Keys
      /\ \A k \in Keys : rows[k] \in Row /\ db[k] \in Row /\ txn[k] \in Row
  BY <1>0 DEF TypeOK, Table
<1>j. /\ job \in [Jobs -> JobSet] /\ \A f \in Jobs : job[f] \in JobSet
      /\ IdleJob.pc = "idle" /\ IdleJob.cur = NoKey
      /\ IdleJob.picked = {} /\ IdleJob.todo = {}
  BY <1>0, JobsTyped
<1>n. ~Present(Absent) /\ \A k \in Keys : NoRows[k] = Absent
  BY DEF Present, Absent, NoRows
<1>p. /\ PickedIsDirty /\ TxnIsWritten /\ CalmIsExact /\ ClearIsStored
      /\ LastFlushTakesAll /\ CleanIsStored
  BY DEF AloneInv
<1> USE DEF memVars, dbVars
\* No job has picked anything afterwards, and nothing is in the transaction.
<1>1. ASSUME \A f \in Jobs : job'[f].picked = {}, \A k \in Keys : txn'[k] = Absent,
             LastFlushTakesAll', CleanIsStored'
      PROVE  AloneInv'
  BY <1>1 DEF AloneInv, PickedIsDirty, TxnIsWritten, WrittenBy, CalmIsExact, ClearIsStored
<1>2. ASSUME UNCHANGED <<rows, db, dirty, rec, raced>> PROVE CleanIsStored'
  BY <1>2, <1>p DEF CleanIsStored
\* A flush at work: the other job is idle before and after the step.
<1>3. ASSUME NEW f \in Jobs, FlushStep(f)
      PROVE  /\ job[f].pc # "idle"
             /\ \A g \in Jobs \ {f} : job[g] = IdleJob /\ job'[g] = IdleJob
  BY <1>0, <1>3, FlushEffects, OthersIdle
\* When no job has written anything, the transaction is empty.
<1>4. ASSUME \A f \in Jobs : WrittenBy(f) = {} PROVE \A k \in Keys : txn[k] = Absent
  BY <1>4, <1>p DEF TxnIsWritten
<1>5. ASSUME NEW K \in SUBSET Keys, NEW ts \in Stamps, NEW hit \in States,
             Ingest(K, ts, hit)
      PROVE  AloneInv'
  <2>1. rec.cur = NoKey /\ rec'.cur = NoKey
    BY <1>5 DEF Ingest, LoopIsFree, NoRec
  <2> QED
    BY <1>5, <1>p, <2>1
       DEF Ingest, AloneInv, PickedIsDirty, TxnIsWritten, WrittenBy, CalmIsExact,
           Calm, ClearIsStored, LastFlushTakesAll, CleanIsStored
<1>6. ASSUME NEW k \in Keys, TouchCount(k) PROVE AloneInv'
  <2>1. rec.cur = NoKey /\ rec'.cur = k
    BY <1>0, <1>6 DEF TouchCount, TypeOK, RecSet
  <2>2. /\ \A j \in Keys \ {k} : rows'[j] = rows[j] /\ (Calm(j)' => Calm(j))
        /\ ~Calm(k)' /\ raced \subseteq raced'
        /\ UNCHANGED <<main, dirty, job, txn, db>>
    BY <1>6, <1>r, <2>1 DEF TouchCount, Table, Calm
  <2>3. PickedIsDirty' /\ TxnIsWritten' /\ ClearIsStored' /\ LastFlushTakesAll'
    BY <1>p, <2>2 DEF PickedIsDirty, TxnIsWritten, WrittenBy, ClearIsStored,
                      LastFlushTakesAll
  <2>4. CalmIsExact'
    BY <1>p, <2>2 DEF CalmIsExact, WrittenBy
  <2>5. CleanIsStored'
    BY <1>p, <2>1, <2>2 DEF CleanIsStored
  <2> QED
    BY <2>3, <2>4, <2>5 DEF AloneInv
<1>7. ASSUME NEW k \in Keys, TouchRest(k) PROVE AloneInv'
  <2>1. rec.cur = k /\ rec'.cur = NoKey /\ dirty' = dirty \cup {k}
    BY <1>0, <1>7 DEF TouchRest, TypeOK, RecSet, NoRec
  <2>2. /\ \A j \in Keys \ {k} : rows'[j] = rows[j] /\ (Calm(j)' => Calm(j))
        /\ raced \subseteq raced' /\ (Busy(k) \/ main = "final" => k \in raced')
        /\ UNCHANGED <<main, job, txn, db>>
    BY <1>7, <1>r, <2>1 DEF TouchRest, Table, Calm, Late
  <2>3. PickedIsDirty' /\ TxnIsWritten' /\ ClearIsStored' /\ LastFlushTakesAll'
    BY <1>p, <2>1, <2>2 DEF PickedIsDirty, TxnIsWritten, WrittenBy, ClearIsStored,
                            LastFlushTakesAll
  <2>4. CalmIsExact'
    BY <1>p, <2>2 DEF CalmIsExact, WrittenBy, Busy, Calm
  <2>5. CleanIsStored'
    BY <1>p, <2>1, <2>2 DEF CleanIsStored
  <2> QED
    BY <2>3, <2>4, <2>5 DEF AloneInv
<1>8. CASE StartFlush
  <2>1. \A f \in Jobs : job[f] = IdleJob
    BY <1>8, <1>0 DEF StartFlush, Schedule, Alone, Jobs
  <2>2. \A f \in Jobs : job'[f].picked = {}
    BY <1>8, <1>j, <2>1 DEF StartFlush, Jobs, JobSet
  <2>3. \A k \in Keys : txn[k] = Absent
    BY <1>4, <1>j, <2>1 DEF WrittenBy
  <2> QED
    BY <1>1, <1>2, <1>8, <2>2, <2>3 DEF StartFlush, LastFlushTakesAll
<1>9. CASE FlushReturns
  <2>1. /\ job'["periodic"] = IdleJob /\ job'["final"] = job["final"]
        /\ job["final"] = IdleJob /\ job["periodic"].pc \in {"ok", "failed"}
    BY <1>9, <1>j, <1>0 DEF FlushReturns, Schedule, Jobs
  <2>2. \A k \in Keys : txn[k] = Absent
    BY <1>4, <1>j, <2>1 DEF WrittenBy, Jobs
  <2> QED
    BY <1>1, <1>2, <1>9, <1>j, <2>1, <2>2 DEF FlushReturns, LastFlushTakesAll, Jobs
<1>10. ASSUME NEW p \in CancelPoints, Cancel(p) PROVE AloneInv'
  <2>1. main # "final" /\ main' = "final"
    BY <1>10, CancelAssumption DEF Cancel
  <2>2. job["final"] = IdleJob /\ job'["periodic"].pc = "idle"
    BY <2>1 DEF Schedule, Alone, Overlapped
  <2>3. /\ job'["periodic"] = IF job["periodic"].pc = "queued" THEN IdleJob
                              ELSE job["periodic"]
        /\ job'["final"] = [job["final"] EXCEPT !.pc = "queued"]
    BY <1>10, <1>j DEF Cancel, Jobs
  <2>4. /\ job["periodic"].pc \in {"idle", "queued"}
        /\ job'["periodic"].picked = {}
        /\ job'["final"].pc = "queued" /\ job'["final"].picked = {}
    BY <1>0, <1>j, <2>2, <2>3 DEF Schedule, PhaseOK, Jobs, JobSet
  <2>5. \A k \in Keys : txn[k] = Absent
    BY <1>4, <1>j, <2>2, <2>4 DEF WrittenBy, Jobs
  <2> QED
    BY <1>1, <1>2, <1>10, <2>4, <2>5 DEF Cancel, LastFlushTakesAll, Jobs
<1>11. CASE Close \/ Crash \/ Restart
  BY <1>0, <1>11 DEF Close, Crash, Restart, Alone, Up
<1>12. ASSUME NEW f \in Jobs, BeginScan(f) PROVE AloneInv'
  <2>1. /\ job[f].pc = "queued" /\ job'[f].pc = "scan" /\ job'[f].picked = dirty
        /\ UNCHANGED <<main, rows, dirty, rec, txn, db, raced>>
    BY <1>0, <1>12, FlushEffects DEF BeginScan
  <2>2. \A g \in Jobs \ {f} : job[g] = IdleJob /\ job'[g] = IdleJob
    BY <1>3, <1>12 DEF FlushStep
  <2>3. job'[f].cur = NoKey
    BY <1>0, <2>1 DEF Schedule, PhaseOK
  <2>4. \A k \in Keys : txn'[k] = Absent
    BY <1>4, <1>j, <2>1, <2>2 DEF WrittenBy
  <2>5. PickedIsDirty' /\ TxnIsWritten' /\ ClearIsStored' /\ CalmIsExact'
    BY <1>j, <2>1, <2>2, <2>3, <2>4
       DEF PickedIsDirty, TxnIsWritten, WrittenBy, ClearIsStored, CalmIsExact
  <2>6. LastFlushTakesAll'
    BY <1>p, <1>j, <2>1, <2>2 DEF LastFlushTakesAll, Jobs
  <2> QED
    BY <1>2, <2>1, <2>5, <2>6 DEF AloneInv
<1>13. ASSUME NEW f \in Jobs, EndScan(f) PROVE AloneInv'
  <2>1. job[f].pc = "scan" /\ UNCHANGED <<main, rows, dirty, rec, txn, db>>
    BY <1>13 DEF EndScan
  <2>2. \A g \in Jobs \ {f} : job[g] = IdleJob /\ job'[g] = IdleJob
    BY <1>3, <1>13 DEF FlushStep
  <2>3. \A k \in Keys : txn'[k] = Absent
    BY <1>4, <1>j, <2>1, <2>2 DEF WrittenBy
  <2>4. CASE job'[f].pc = "failed" /\ job'[f].picked = {} /\ raced' = raced
    <3>1. LastFlushTakesAll'
      BY <1>j, <2>2, <2>4 DEF LastFlushTakesAll, Jobs
    <3> QED
      BY <1>1, <1>2, <1>j, <2>1, <2>2, <2>3, <2>4, <3>1
  <2>5. ASSUME NEW D \in SUBSET (job[f].picked \cup dirty),
               /\ job[f].picked \cap dirty \subseteq D
               /\ job'[f].pc \in {"ok", "read"}
               /\ job'[f].picked = D /\ job'[f].todo = D /\ job'[f].cur = NoKey
               /\ raced' = raced \ D
        PROVE  AloneInv'
    <3>1. job[f].picked \subseteq D /\ D \subseteq dirty
      BY <1>p, <2>5 DEF PickedIsDirty
    <3>2. PickedIsDirty' /\ TxnIsWritten' /\ ClearIsStored' /\ CalmIsExact'
      BY <1>j, <2>1, <2>2, <2>3, <2>5, <3>1
         DEF PickedIsDirty, TxnIsWritten, WrittenBy, ClearIsStored, CalmIsExact
    <3>3. CleanIsStored'
      BY <1>p, <2>1, <2>5, <3>1 DEF CleanIsStored
    <3>4. ASSUME f = "final" PROVE LastFlushTakesAll'
      BY <1>p, <2>1, <2>5, <3>1, <3>4 DEF LastFlushTakesAll
    <3>5. ASSUME f # "final" PROVE LastFlushTakesAll'
      BY <1>j, <2>2, <3>5 DEF LastFlushTakesAll, Jobs
    <3> QED
      BY <3>2, <3>3, <3>4, <3>5 DEF AloneInv
  <2> QED
    BY <1>0, <1>13, <2>4, <2>5, EndScanEffects
<1>14. ASSUME NEW f \in Jobs, NEW k \in Keys, ReadHead(f, k) PROVE AloneInv'
  <2>1. /\ job[f].pc = "read" /\ job'[f].pc = "read" /\ job'[f].picked = job[f].picked
        /\ job'[f].todo = job[f].todo /\ job'[f].cur = k
        /\ job'[f].head = [rows[k] EXCEPT !.last = 0]
        /\ UNCHANGED <<main, rows, dirty, rec, txn, db, raced>>
    BY <1>0, <1>14, FlushEffects DEF ReadHead
  <2>2. \A g \in Jobs \ {f} : job[g] = IdleJob /\ job'[g] = IdleJob
    BY <1>3, <1>14 DEF FlushStep
  <2>3. \A g \in Jobs : WrittenBy(g)' = WrittenBy(g) /\ job'[g].picked = job[g].picked
    BY <2>1, <2>2 DEF WrittenBy
  <2>4. PickedIsDirty' /\ TxnIsWritten'
    BY <1>p, <2>1, <2>3 DEF PickedIsDirty, TxnIsWritten
  <2>5. ClearIsStored' /\ LastFlushTakesAll'
    BY <1>p, <1>j, <2>1, <2>2 DEF ClearIsStored, LastFlushTakesAll, Jobs
  <2>6. CalmIsExact'
    BY <1>p, <1>j, <2>1, <2>2, <2>3 DEF CalmIsExact, Calm
  <2> QED
    BY <1>2, <2>1, <2>4, <2>5, <2>6 DEF AloneInv
<1>15. ASSUME NEW f \in Jobs, WriteRow(f) PROVE AloneInv'
  <2> DEFINE k == job[f].cur
             w == [job[f].head EXCEPT !.last = rows[k].last]
  <2>1. /\ job[f].pc = "read" /\ job'[f].pc \in {"read", "tail"}
        /\ job'[f].picked = job[f].picked
        /\ job'[f].todo = job[f].todo \ {k} /\ job'[f].cur = NoKey
        /\ txn' = [txn EXCEPT ![k] = w]
        /\ UNCHANGED <<main, rows, dirty, rec, db, raced>>
    BY <1>0, <1>15, FlushEffects DEF WriteRow
  <2>2. \A g \in Jobs \ {f} : job[g] = IdleJob /\ job'[g] = IdleJob
    BY <1>3, <1>15 DEF FlushStep
  <2>3. /\ k \in Keys /\ k \in job[f].todo /\ k \in job[f].picked
        /\ job[f].head \in Row /\ Present(job[f].head)
    BY <1>15, <1>j DEF WriteRow, JobSet, Schedule, PhaseOK, DatedInv, HeadPresent
  <2>4. /\ txn'[k] = w /\ Present(w)
        /\ \A j \in Keys \ {k} : txn'[j] = txn[j]
    BY <1>r, <2>1, <2>3 DEF Table, Present, Row
  <2>5. /\ WrittenBy(f)' = WrittenBy(f) \cup {k}
        /\ \A g \in Jobs \ {f} : WrittenBy(g)' = WrittenBy(g)
    BY <2>1, <2>2, <2>3 DEF WrittenBy
  <2>6. PickedIsDirty' /\ TxnIsWritten'
    BY <1>p, <1>j, <2>1, <2>2, <2>4, <2>5 DEF PickedIsDirty, TxnIsWritten
  <2>7. ClearIsStored' /\ LastFlushTakesAll'
    BY <1>p, <1>j, <2>1, <2>2 DEF ClearIsStored, LastFlushTakesAll, Jobs
  <2>8. Calm(k) => w = rows[k]
    <3>1. Calm(k) => job[f].head = [rows[k] EXCEPT !.last = 0]
      BY <1>p, <2>3 DEF CalmIsExact
    <3> QED
      BY <1>r, <2>3, <3>1 DEF Row
  <2>9. CalmIsExact'
    <3> HIDE DEF k, w
    <3> QED
      BY <1>p, <1>j, <2>1, <2>2, <2>4, <2>5, <2>8 DEF CalmIsExact, Calm
  <2> QED
    BY <1>2, <2>1, <2>6, <2>7, <2>9 DEF AloneInv
<1>16. ASSUME NEW f \in Jobs, Commit(f) PROVE AloneInv'
  <2>1. /\ job[f].pc = "tail" /\ job'[f].pc = "clear" /\ job'[f].picked = job[f].picked
        /\ UNCHANGED <<main, rows, dirty, rec, raced>>
        /\ \A k \in Keys : txn'[k] = Absent
        /\ \A k \in Keys : db'[k] = IF Present(txn[k]) THEN txn[k] ELSE db[k]
    BY <1>0, <1>16, <1>n, FlushEffects DEF Commit, Upserted
  <2>2. \A g \in Jobs \ {f} : job[g] = IdleJob /\ job'[g] = IdleJob
    BY <1>3, <1>16 DEF FlushStep
  <2>3. WrittenBy(f) = job[f].picked /\ \A g \in Jobs \ {f} : WrittenBy(g) = {}
    BY <1>j, <2>1, <2>2 DEF WrittenBy, Schedule, PhaseOK
  <2>4. \A k \in Keys : Present(txn[k]) <=> k \in job[f].picked
    BY <1>p, <1>n, <2>3 DEF TxnIsWritten
  <2>5. \A k \in job[f].picked : db'[k] = txn[k] /\ db'[k].last > 0
    <3>1. job[f].picked \subseteq Keys
      BY <1>j DEF JobSet
    <3> QED
      BY <2>1, <2>4, <3>1 DEF DatedInv, StoredDated, HasDate
  <2>6. PickedIsDirty' /\ TxnIsWritten' /\ ClearIsStored'
    BY <1>p, <1>j, <2>1, <2>2, <2>5
       DEF PickedIsDirty, TxnIsWritten, WrittenBy, ClearIsStored
  <2>7. job'[f].cur = NoKey
    BY <1>0, <2>1 DEF Schedule, PhaseOK
  <2>8. CalmIsExact'
    BY <1>p, <1>j, <2>1, <2>2, <2>3, <2>5, <2>7 DEF CalmIsExact, Calm, WrittenBy
  <2>9. LastFlushTakesAll'
    BY <1>p, <1>j, <2>1, <2>2 DEF LastFlushTakesAll, Jobs
  <2>10. \A k \in Keys \ dirty : db'[k] = db[k]
    BY <1>p, <2>1, <2>4 DEF PickedIsDirty
  <2>11. CleanIsStored'
    BY <1>p, <2>1, <2>10 DEF CleanIsStored
  <2> QED
    BY <2>6, <2>8, <2>9, <2>11 DEF AloneInv
<1>17. ASSUME NEW f \in Jobs, ClearDirty(f) PROVE AloneInv'
  <2>1. /\ job[f].pc = "clear" /\ job'[f].pc = "ok" /\ job'[f].picked = {}
        /\ dirty' = dirty \ job[f].picked
        /\ UNCHANGED <<main, rows, rec, txn, db, raced>>
    BY <1>0, <1>17, FlushEffects DEF ClearDirty
  <2>2. \A g \in Jobs \ {f} : job[g] = IdleJob /\ job'[g] = IdleJob
    BY <1>3, <1>17 DEF FlushStep
  <2>3. \A k \in Keys : txn'[k] = Absent
    BY <1>4, <1>j, <2>1, <2>2 DEF WrittenBy
  <2>4. CleanIsStored'
    BY <1>p, <2>1 DEF CleanIsStored, CalmIsExact, Calm, ClearIsStored
  <2>5. LastFlushTakesAll'
    BY <1>p, <1>j, <2>1, <2>2 DEF LastFlushTakesAll, Jobs
  <2> QED
    BY <1>1, <1>j, <2>1, <2>2, <2>3, <2>4, <2>5
<1>18. ASSUME NEW f \in Jobs, FailFlush(f) PROVE AloneInv'
  <2>1. /\ job'[f].pc = "failed" /\ job'[f].picked = {}
        /\ UNCHANGED <<main, rows, dirty, rec, db, raced>>
        /\ \A k \in Keys : txn'[k] = Absent
    BY <1>0, <1>18, <1>n, FlushEffects DEF FailFlush
  <2>2. \A g \in Jobs \ {f} : job[g] = IdleJob /\ job'[g] = IdleJob
    BY <1>3, <1>18 DEF FlushStep
  <2>3. LastFlushTakesAll'
    BY <1>j, <2>1, <2>2 DEF LastFlushTakesAll, Jobs
  <2> QED
    BY <1>1, <1>2, <1>j, <2>1, <2>2, <2>3
<1>19. CASE UNCHANGED vars
  BY <1>19, <1>p
     DEF vars, AloneInv, PickedIsDirty, TxnIsWritten, WrittenBy, CalmIsExact, Calm,
         ClearIsStored, LastFlushTakesAll, CleanIsStored
<1> QED
  BY <1>5, <1>6, <1>7, <1>8, <1>9, <1>10, <1>11, <1>12, <1>13, <1>14, <1>15,
     <1>16, <1>17, <1>18, <1>19 DEF Next, Count, MainStep, FlushStep

(***************************************************************************)
(* What was dirty when the main task was cancelled: it stays dirty until   *)
(* the shutdown flush, which picks it, reads it no older than it was and   *)
(* commits it, as long as no other flush shares the transaction.           *)
(***************************************************************************)
OnItsWay(k) ==
  /\ Leq(due[k], rows[k])
  /\ job["final"].pc = "queued" => k \in dirty
  /\ job["final"].pc = "scan" => k \in dirty /\ k \in job["final"].picked
  /\ job["final"].pc \in {"read", "tail"} => k \in job["final"].todo \/ Leq(due[k], txn[k])
  /\ job["final"].cur = k => Leq([due[k] EXCEPT !.last = 0], job["final"].head)
  /\ job["final"].pc \in {"clear", "ok"} => Leq(due[k], db[k])

DueInv ==
  /\ \A k \in Keys : Present(due[k]) \/ due[k] = Absent
  /\ main = "final" /\ ~Overlapped => \A k \in Keys : Present(due[k]) => OnItsWay(k)

LEMMA DueInit == Init => DueInv
  BY DEF Init, DueInv, NoRows

\* A step of the shutdown flush while it is alone.
LEMMA OnItsWayStep ==
  ASSUME TypeOK, Schedule, FlushStep("final"), NEW k \in Keys, Present(due[k]),
         OnItsWay(k), due' = due
  PROVE  OnItsWay(k)'
<1> DEFINE f == "final"
<1>j. /\ job \in [Jobs -> JobSet] /\ job[f] \in JobSet /\ f \in Jobs
      /\ rows[k] \in Row /\ txn[k] \in Row /\ db[k] \in Row /\ due[k] \in Row
      /\ txn \in Table
      /\ PhaseOK(f)
  BY DEF TypeOK, Table, JobSet, Schedule, Jobs
<1>c. /\ job[f].cur # NoKey => job[f].pc = "read" /\ job[f].cur \in job[f].todo
      /\ job[f].pc # "read" => job[f].todo = {}
  BY <1>j DEF PhaseOK
<1>k. k # NoKey
  BY NoKeyAssumption
<1> USE DEF memVars, dbVars
<1>1. CASE BeginScan(f)
  <2>1. job'[f].pc = "scan" /\ job'[f].picked = dirty /\ job'[f].cur = job[f].cur
        /\ job[f].pc = "queued" /\ UNCHANGED <<rows, dirty, txn, db>>
    BY <1>1, <1>j DEF BeginScan, JobSet
  <2> QED
    BY <1>c, <1>k, <2>1 DEF OnItsWay
<1>2. CASE EndScan(f)
  <2>1. job[f].pc = "scan" /\ UNCHANGED <<rows, dirty, txn, db>>
    BY <1>2 DEF EndScan
  <2>2. CASE Known # job[f].known
    <3>1. job'[f] = [IdleJob EXCEPT !.pc = "failed"]
      BY <1>2, <1>j, <2>2 DEF EndScan
    <3>2. job'[f].pc = "failed" /\ job'[f].cur = NoKey
      BY <3>1 DEF IdleJob
    <3> QED
      BY <1>k, <2>1, <3>2 DEF OnItsWay
  <2>3. CASE Known = job[f].known
    <3>1. PICK D \in SUBSET (job[f].picked \cup dirty) :
            /\ job[f].picked \cap dirty \subseteq D
            /\ job' = [job EXCEPT
                 ![f] = [IdleJob EXCEPT !.pc = IF D = {} THEN "ok" ELSE "read",
                                        !.picked = D, !.todo = D]]
      BY <1>2, <2>3 DEF EndScan
    <3>2. k \in D
      BY <2>1, <3>1 DEF OnItsWay
    <3>3. job'[f] = [IdleJob EXCEPT !.pc = "read", !.picked = D, !.todo = D]
      BY <1>j, <3>1, <3>2
    <3>4. job'[f].pc = "read" /\ job'[f].todo = D /\ job'[f].cur = NoKey
      BY <3>3 DEF IdleJob
    <3> QED
      BY <1>k, <2>1, <3>2, <3>4 DEF OnItsWay
  <2> QED
    BY <2>2, <2>3
<1>3. ASSUME NEW i \in Keys, ReadHead(f, i) PROVE OnItsWay(k)'
  <2>1. /\ job[f].pc = "read" /\ job'[f].pc = "read"
        /\ job'[f].todo = job[f].todo /\ job'[f].cur = i
        /\ job'[f].head = [rows[i] EXCEPT !.last = 0]
        /\ UNCHANGED <<rows, dirty, txn, db>>
    BY <1>3, <1>j DEF ReadHead, JobSet
  <2>2. Leq(due[k], rows[k]) => Leq([due[k] EXCEPT !.last = 0], [rows[k] EXCEPT !.last = 0])
    BY <1>j DEF Leq, Row
  <2> QED
    BY <2>1, <2>2 DEF OnItsWay
<1>4. CASE WriteRow(f)
  <2> DEFINE c == job[f].cur
             w == [job[f].head EXCEPT !.last = rows[c].last]
  <2>1. /\ job[f].pc = "read" /\ job'[f].pc \in {"read", "tail"}
        /\ job'[f].todo = job[f].todo \ {c} /\ job'[f].cur = NoKey
        /\ txn' = [txn EXCEPT ![c] = w]
        /\ UNCHANGED <<rows, dirty, db>>
    BY <1>4, <1>j, FlushEffects DEF WriteRow
  <2>2. c \in Keys /\ job[f].head \in Row
    BY <1>4, <1>j DEF WriteRow, JobSet
  <2>3. ASSUME c = k PROVE Leq(due[k], txn'[k])
    <3>1. txn'[k] = w
      BY <1>j, <2>1, <2>3 DEF Table
    <3>2. Leq(due[k], rows[k]) /\ Leq([due[k] EXCEPT !.last = 0], job[f].head)
      BY <2>3 DEF OnItsWay
    <3>3. Leq(due[k], w)
      BY <1>j, <2>2, <2>3, <3>2 DEF Leq, Row
    <3> QED
      BY <3>1, <3>3
  <2>4. ASSUME c # k PROVE txn'[k] = txn[k]
    BY <1>j, <2>1, <2>4 DEF Table
  <2> HIDE DEF c, w
  <2> QED
    BY <1>k, <2>1, <2>3, <2>4 DEF OnItsWay
<1>5. CASE Commit(f)
  <2>1. /\ job[f].pc = "tail" /\ job'[f].pc = "clear" /\ job'[f].cur = job[f].cur
        /\ UNCHANGED <<rows, dirty>>
        /\ db'[k] = IF Present(txn[k]) THEN txn[k] ELSE db[k]
    BY <1>5, <1>j, FlushEffects DEF Commit, JobSet, Upserted
  <2>2. Leq(due[k], txn[k])
    BY <1>c, <2>1 DEF OnItsWay
  <2>3. Present(txn[k])
    BY <1>j, <2>2 DEF Leq, Present, Row
  <2> QED
    BY <1>c, <1>k, <2>1, <2>2, <2>3 DEF OnItsWay
<1>6. CASE ClearDirty(f)
  <2>1. /\ job[f].pc = "clear" /\ job'[f].pc = "ok" /\ job'[f].cur = NoKey
        /\ UNCHANGED <<rows, txn, db>>
    BY <1>6, <1>j, FlushEffects DEF ClearDirty, IdleJob
  <2> QED
    BY <1>k, <2>1 DEF OnItsWay
<1>7. CASE FailFlush(f)
  <2>1. job'[f].pc = "failed" /\ job'[f].cur = NoKey /\ UNCHANGED <<rows, dirty, db>>
    BY <1>7, <1>j, FlushEffects DEF FailFlush, IdleJob
  <2> QED
    BY <1>k, <2>1 DEF OnItsWay
<1> QED
  BY <1>1, <1>2, <1>3, <1>4, <1>5, <1>6, <1>7 DEF FlushStep

LEMMA DueStep == EvidenceInv /\ Schedule /\ DatedInv /\ DueInv /\ [Next]_vars => DueInv'
<1> SUFFICES ASSUME EvidenceInv, Schedule, DatedInv, DueInv, [Next]_vars PROVE DueInv'
  OBVIOUS
<1>t. TypeOK
  BY DEF EvidenceInv
<1>r. /\ rows \in Table /\ \A k \in Keys : rows[k] \in Row /\ due[k] \in Row /\ dirty \subseteq Keys
      /\ job \in [Jobs -> JobSet] /\ "final" \in Jobs /\ "periodic" \in Jobs
  BY <1>t DEF TypeOK, Table, Jobs
<1> USE DEF memVars, dbVars
<1>0. due' \in {due, NoRows, DirtyRows}
  BY DEF Next, Count, Ingest, TouchCount, TouchRest, MainStep, StartFlush, FlushReturns,
         Cancel, Close, Crash, Restart, FlushStep, BeginScan, EndScan, ReadHead, WriteRow,
         Commit, ClearDirty, FailFlush, vars
<1>1. \A k \in Keys : Present(due'[k]) \/ due'[k] = Absent
  <2>1. \A k \in Keys : Present(DirtyRows[k]) \/ DirtyRows[k] = Absent
    BY DEF DirtyRows, DatedInv, PickedDated
  <2> QED
    BY <1>0, <2>1 DEF DueInv, NoRows
<1>2. ASSUME NEW p \in CancelPoints, Cancel(p), NEW k \in Keys, Present(due'[k])
      PROVE  OnItsWay(k)'
  <2>1. due'[k] = (IF k \in dirty THEN rows[k] ELSE Absent) /\ UNCHANGED <<rows, dirty>>
    BY <1>2 DEF Cancel, DirtyRows
  <2>2. k \in dirty /\ due'[k] = rows[k]
    BY <1>2, <2>1 DEF Present, Absent
  <2>3. main # "final" /\ job["final"] = IdleJob
    BY <1>2 DEF Cancel, LoopIsFree, Schedule
  <2>4. job'["final"].pc = "queued" /\ job'["final"].cur = NoKey
    BY <1>2, <1>r, <2>3, IdleJobTyped DEF Cancel, Jobs, JobSet, IdleJob
  <2>5. Leq(rows[k], rows[k]) /\ k # NoKey
    BY <1>r, LeqReflexive, NoKeyAssumption
  <2> QED
    BY <2>1, <2>2, <2>4, <2>5 DEF OnItsWay
<1>3. ASSUME main' = "final", ~Overlapped', ~(\E p \in CancelPoints : Cancel(p)),
             NEW k \in Keys, Present(due'[k])
      PROVE  OnItsWay(k)'
  <2>1. main = "final" /\ due' = due
    BY <1>3 DEF Next, Count, Ingest, TouchCount, TouchRest, MainStep, StartFlush,
         FlushReturns, Close, Crash, Restart, FlushStep, BeginScan, EndScan, ReadHead,
         WriteRow, Commit, ClearDirty, FailFlush, vars
  <2>2. ~Overlapped
    <3>1. Alone'
      BY <1>3 DEF Alone, Up
    <3>2. ~Restart
      BY <1>3 DEF Restart
    <3> QED
      BY <3>1, <3>2, AloneBefore DEF Alone
  <2>3. OnItsWay(k)
    BY <1>3, <2>1, <2>2 DEF DueInv
  <2>4. job["periodic"].pc = "idle"
    BY <2>1, <2>2 DEF Overlapped
  <2>5. ASSUME Leq(rows[k], rows'[k]), rows'[k] \in Row, k \in dirty => k \in dirty',
               UNCHANGED <<job, txn, db>>
        PROVE  OnItsWay(k)'
    <3>1. Leq(due[k], rows'[k])
      BY <1>r, <2>3, <2>5, LeqTransitive DEF OnItsWay
    <3> QED
      BY <2>1, <2>3, <2>5, <3>1 DEF OnItsWay
  <2>6. CASE UNCHANGED <<rows, dirty, job, txn, db>>
    BY <1>r, <2>5, <2>6, LeqReflexive
  <2>7. ASSUME NEW i \in Keys, TouchCount(i) PROVE OnItsWay(k)'
    <3>1. rows'[k] = IF k = i THEN Counted(rows[k]) ELSE rows[k]
      BY <1>r, <2>7 DEF TouchCount, Table
    <3>2. Leq(rows[k], rows'[k]) /\ rows'[k] \in Row
      BY <1>r, <3>1, CountedIsMore, LeqReflexive
    <3> QED
      BY <2>5, <2>7, <3>2 DEF TouchCount
  <2>8. ASSUME NEW i \in Keys, TouchRest(i) PROVE OnItsWay(k)'
    <3>1. rows'[k] = IF k = i THEN Dated(rows[k], rec.ts, rec.hit) ELSE rows[k]
      BY <1>r, <2>8 DEF TouchRest, Table
    <3>2. Leq(rows[k], rows'[k]) /\ rows'[k] \in Row
      BY <1>t, <1>r, <3>1, RecTyped, DatedIsMore, LeqReflexive
    <3> QED
      BY <2>5, <2>8, <3>2 DEF TouchRest
  <2>9. CASE FlushStep("final")
    BY <1>3, <1>t, <2>1, <2>3, <2>9, OnItsWayStep
  <2>10. ~FlushStep("periodic")
    BY <1>t, <1>r, <2>4, FlushEffects
  <2>11. CASE Count
    BY <2>6, <2>7, <2>8, <2>11 DEF Count, Ingest
  <2>12. ~StartFlush /\ ~FlushReturns /\ ~Close /\ ~Crash /\ ~Restart
    BY <1>3, <2>1 DEF StartFlush, FlushReturns, Close, Crash, Restart, Up
  <2>13. CASE UNCHANGED vars
    BY <2>6, <2>13 DEF vars
  <2> QED
    BY <1>3, <2>9, <2>10, <2>11, <2>12, <2>13 DEF Next, MainStep, Jobs
<1> QED
  BY <1>1, <1>2, <1>3 DEF DueInv

DurableInv ==
  /\ EvidenceInv /\ Schedule /\ DatedInv /\ DueInv
  /\ Alone => AloneInv
  /\ CleanStopIsComplete

LEMMA DurableInit == Init => DurableInv
<1> SUFFICES ASSUME Init PROVE DurableInv
  OBVIOUS
<1>1. EvidenceInv /\ Schedule /\ DatedInv /\ DueInv
  BY EvidenceInit, ScheduleInit, DatedInit, DueInit
<1>2. /\ rec.cur = NoKey /\ dirty = {} /\ main = "sleep"
      /\ \A f \in Jobs : job[f].pc = "idle" /\ job[f].picked = {}
      /\ \A k \in Keys : rows[k] = Absent /\ txn[k] = Absent /\ db[k] = Absent
      /\ ~Present(Absent)
  BY DEF Init, NoRows, NoRec, IdleJob, Absent, Present
<1>3. AloneInv
  BY <1>2 DEF AloneInv, PickedIsDirty, TxnIsWritten, WrittenBy, CalmIsExact,
              ClearIsStored, LastFlushTakesAll, CleanIsStored
<1> QED
  BY <1>1, <1>2, <1>3 DEF DurableInv, CleanStopIsComplete

LEMMA DurableStep == DurableInv /\ [Next]_vars => DurableInv'
<1> SUFFICES ASSUME DurableInv, [Next]_vars PROVE DurableInv'
  OBVIOUS
<1>1. /\ EvidenceInv /\ Schedule /\ DatedInv
      /\ EvidenceInv' /\ Schedule' /\ DatedInv' /\ DueInv'
  BY EvidenceStep, ScheduleStep, DatedStep, DueStep DEF DurableInv
<1>0. TypeOK /\ DownIsQuiet
  BY <1>1 DEF EvidenceInv
<1>j. /\ IdleJob.pc = "idle" /\ IdleJob.cur = NoKey
      /\ IdleJob.picked = {} /\ IdleJob.todo = {}
  BY <1>0, JobsTyped
<1> USE DEF memVars, dbVars
<1>2. ASSUME Restart PROVE AloneInv'
  <2>1. /\ \A f \in Jobs : job'[f] = IdleJob
        /\ \A k \in Keys : txn'[k] = Absent
        /\ rows' = db /\ db' = db /\ dirty' = {} /\ main' = "sleep"
    BY <1>0, <1>2 DEF Restart, Loaded, DownIsQuiet, NoRows
  <2>2. CleanIsStored'
    BY <1>1, <2>1 DEF CleanIsStored, DatedInv, StoredDated, HasDate
  <2> QED
    BY <1>j, <2>1, <2>2 DEF AloneInv, PickedIsDirty, TxnIsWritten, WrittenBy,
                            CalmIsExact, ClearIsStored, LastFlushTakesAll
<1>3. Alone' => AloneInv'
  BY <1>1, <1>2, AloneBefore, AloneStep DEF DurableInv
<1>4. ASSUME main' = "stopped" /\ main # "stopped" PROVE CleanStopIsComplete'
  <2>1. Close /\ LoopIsFree /\ ~Overlapped /\ main = "final" /\ job["final"].pc = "ok"
    BY <1>4 DEF Next, Count, Ingest, TouchCount, TouchRest, MainStep, StartFlush,
                FlushReturns, Cancel, Close, Crash, Restart, FlushStep, BeginScan,
                EndScan, ReadHead, WriteRow, Commit, ClearDirty, FailFlush, vars
  <2>2. Alone /\ rec.cur = NoKey
    BY <2>1 DEF LoopIsFree, Alone, NoRec
  <2>3. dirty \subseteq raced
    BY <1>1, <2>1, <2>2 DEF DurableInv, AloneInv, LastFlushTakesAll, Schedule, PhaseOK, Jobs
  <2>4. \A k \in Keys \ raced : db[k] = rows[k]
    BY <2>2, <2>3 DEF DurableInv, AloneInv, CleanIsStored
  <2>5. \A k \in Keys : Present(due[k]) => Leq(due[k], db[k])
    BY <2>1 DEF DurableInv, DueInv, OnItsWay
  <2>6. \A k \in Keys : ~Present(due[k]) => Leq(due[k], db[k])
    <3>1. \A k \in Keys : db[k] \in Row
      BY <1>0 DEF TypeOK, Table
    <3> QED
      BY <3>1, AbsentIsLeast DEF DurableInv, DueInv
  <2> QED
    BY <2>1, <2>4, <2>5, <2>6 DEF Close, CleanStopIsComplete
<1>5. ASSUME main' = "stopped" /\ main = "stopped" PROVE CleanStopIsComplete'
  <2>1. ~Up /\ rec = NoRec /\ \A f \in Jobs : job[f].pc = "idle"
    BY <1>0, <1>5, <1>j DEF Up, DownIsQuiet
  <2>2. UNCHANGED vars
    BY <1>5, <2>1
       DEF Next, Count, Ingest, LoopIsFree, TouchCount, TouchRest, MainStep,
           StartFlush, FlushReturns, Cancel, Close, Crash, Restart, FlushStep,
           BeginScan, EndScan, ReadHead, WriteRow, Commit, ClearDirty, FailFlush, NoRec
  <2> QED
    BY <2>2 DEF vars, DurableInv, CleanStopIsComplete
<1>6. CleanStopIsComplete'
  BY <1>4, <1>5 DEF CleanStopIsComplete
<1> QED
  BY <1>1, <1>3, <1>6 DEF DurableInv

LEMMA DurableInvariant == Spec => []DurableInv
  BY DurableInit, DurableStep, PTL DEF Spec

LEMMA WhatIsDurable ==
  DurableInv => PresenceDurable /\ OnlyRacesLoseHits /\ CleanStopIsComplete
  BY DEF DurableInv, Alone, AloneInv, CleanIsStored, PresenceDurable, OnlyRacesLoseHits

\* A clean row is stored with a date, whatever races with the flushes, as long
\* as no two of them share a transaction.
THEOREM PresenceIsDurable == Spec => []PresenceDurable
  BY DurableInvariant, WhatIsDurable, PTL

\* A hit is missing from the table only if it landed on its row while a flush
\* that had picked the row was running.
THEOREM OnlyRacesLoseHitsEver == Spec => []OnlyRacesLoseHits
  BY DurableInvariant, WhatIsDurable, PTL

\* After a shutdown whose flush succeeded the table holds at least what was dirty
\* when it began, and all that memory knows but for the keys hit during it or
\* during an earlier flush that marked them clean.
THEOREM CleanStopStoresWhatIsDirty == Spec => []CleanStopIsComplete
  BY DurableInvariant, WhatIsDurable, PTL

(***************************************************************************)
(* The engine implements DurableStore.  A commit never takes evidence back *)
(* from the table, because what a flush has read is no older than what is  *)
(* stored: another flush would have to commit in between.                  *)
(***************************************************************************)
DbBelowTxn ==
  /\ \A k \in Keys : Present(txn[k]) => Leq(db[k], txn[k])
  /\ \A f \in Jobs, k \in Keys :
       job[f].cur = k => Leq([db[k] EXCEPT !.last = 0], job[f].head)

PromiseInv == DurableInv /\ (Alone => DbBelowTxn)

LEMMA DbBelowTxnStep ==
  ASSUME DurableInv, Alone, DbBelowTxn, [Next]_vars, Alone'
  PROVE  DbBelowTxn'
<1>0. /\ EvidenceInv /\ Schedule /\ DatedInv /\ AloneInv
      /\ TypeOK /\ Schedule' /\ Up
  BY ScheduleStep DEF DurableInv, EvidenceInv, Alone
<1>r. /\ txn \in Table
      /\ \A k \in Keys : rows[k] \in Row /\ db[k] \in Row /\ txn[k] \in Row
  BY <1>0 DEF TypeOK, Table
<1>j. job \in [Jobs -> JobSet] /\ IdleJob.cur = NoKey
  BY <1>0, JobsTyped
<1>n. ~Present(Absent) /\ \A k \in Keys : NoRows[k] = Absent
  BY DEF Present, Absent, NoRows
<1> USE DEF memVars, dbVars
<1>1. ASSUME db' = db, \A k \in Keys : txn'[k] = txn[k] \/ txn'[k] = Absent,
             \A f \in Jobs : \/ job'[f].cur = NoKey
                             \/ job'[f].cur = job[f].cur /\ job'[f].head = job[f].head
      PROVE  DbBelowTxn'
  BY <1>1, <1>n DEF DbBelowTxn
<1>3. CASE Count
  BY <1>1, <1>3 DEF Count, Ingest, TouchCount, TouchRest
<1>4. CASE StartFlush
  BY <1>1, <1>4, <1>j DEF StartFlush, Jobs, JobSet
<1>5. CASE FlushReturns
  BY <1>1, <1>5, <1>j DEF FlushReturns
<1>6. ASSUME NEW p \in CancelPoints, Cancel(p) PROVE DbBelowTxn'
  BY <1>1, <1>6, <1>j DEF Cancel, Jobs, JobSet
<1>7. CASE Close \/ Crash \/ Restart
  BY <1>0, <1>7 DEF Close, Crash, Restart, Alone, Up
<1>8. ASSUME NEW f \in Jobs, FlushStep(f)
      PROVE  \A g \in Jobs \ {f} : job'[g] = job[g] /\ job'[g].cur = NoKey
  BY <1>0, <1>8, <1>j, FlushEffects, OthersIdle
<1>9. ASSUME NEW f \in Jobs, BeginScan(f) \/ EndScan(f) \/ ClearDirty(f) \/ FailFlush(f)
      PROVE  DbBelowTxn'
  <2>1. job'[f].pc # "read" \/ job'[f].cur = NoKey
    BY <1>0, <1>9, FlushEffects, EndScanEffects
  <2>2. job'[f].cur = NoKey
    BY <1>0, <2>1 DEF Schedule, PhaseOK
  <2>3. db' = db /\ \A k \in Keys : txn'[k] = txn[k] \/ txn'[k] = Absent
    BY <1>9, <1>n DEF BeginScan, EndScan, ClearDirty, FailFlush
  <2> QED
    BY <1>1, <1>8, <1>9, <2>2, <2>3 DEF FlushStep
<1>10. ASSUME NEW f \in Jobs, NEW k \in Keys, ReadHead(f, k) PROVE DbBelowTxn'
  <2>1. /\ job'[f].cur = k /\ job'[f].head = [rows[k] EXCEPT !.last = 0]
        /\ UNCHANGED <<txn, db>>
    BY <1>0, <1>10, FlushEffects DEF ReadHead
  <2>2. Leq(db[k], rows[k])
    BY <1>0 DEF EvidenceInv, DbNeverAhead, Up
  <2>3. Leq([db[k] EXCEPT !.last = 0], [rows[k] EXCEPT !.last = 0])
    BY <1>r, <2>2 DEF Leq, Row
  <2> QED
    BY <1>8, <1>10, <2>1, <2>3 DEF DbBelowTxn, FlushStep
<1>11. ASSUME NEW f \in Jobs, WriteRow(f) PROVE DbBelowTxn'
  <2> DEFINE k == job[f].cur
             w == [job[f].head EXCEPT !.last = rows[k].last]
  <2>1. /\ job'[f].cur = NoKey /\ txn' = [txn EXCEPT ![k] = w] /\ db' = db
    BY <1>0, <1>11, FlushEffects DEF WriteRow
  <2>2. k \in Keys /\ job[f].head \in Row
    BY <1>11, <1>j DEF WriteRow, JobSet
  <2>3. Leq(db[k], rows[k]) /\ Leq([db[k] EXCEPT !.last = 0], job[f].head)
    BY <1>0, <2>2 DEF EvidenceInv, DbNeverAhead, Up, DbBelowTxn
  <2>4. Leq(db[k], w)
    BY <1>r, <2>2, <2>3 DEF Leq, Row
  <2>5. txn'[k] = w /\ \A j \in Keys \ {k} : txn'[j] = txn[j]
    BY <1>r, <2>1, <2>2 DEF Table
  <2> QED
    BY <1>8, <1>11, <2>1, <2>2, <2>4, <2>5 DEF DbBelowTxn, FlushStep
<1>12. ASSUME NEW f \in Jobs, Commit(f) PROVE DbBelowTxn'
  <2>1. job'[f].pc = "clear" /\ \A k \in Keys : txn'[k] = Absent
    BY <1>0, <1>12, <1>n, FlushEffects DEF Commit
  <2>2. job'[f].cur = NoKey
    BY <1>0, <2>1 DEF Schedule, PhaseOK
  <2> QED
    BY <1>8, <1>12, <1>n, <2>1, <2>2 DEF DbBelowTxn, FlushStep
<1>13. CASE UNCHANGED vars
  BY <1>1, <1>13 DEF vars
<1> QED
  BY <1>3, <1>4, <1>5, <1>6, <1>7, <1>9, <1>10, <1>11, <1>12, <1>13
     DEF Next, MainStep, FlushStep

LEMMA PromiseInvariant == Spec => []PromiseInv
<1>1. Init => PromiseInv
  <2>1. Init => DbBelowTxn
    BY DEF Init, DbBelowTxn, NoRows, IdleJob, Absent, Present
  <2> QED
    BY <2>1, DurableInit DEF PromiseInv
<1>2. PromiseInv /\ [Next]_vars => PromiseInv'
  <2> SUFFICES ASSUME PromiseInv, [Next]_vars PROVE PromiseInv'
    OBVIOUS
  <2>1. DurableInv /\ DurableInv' /\ EvidenceInv /\ Schedule
    BY DurableStep DEF PromiseInv, DurableInv
  <2>2. ASSUME Restart PROVE DbBelowTxn'
    <3>1. /\ \A f \in Jobs : job'[f] = IdleJob
          /\ \A k \in Keys : txn'[k] = Absent
      BY <2>1, <2>2 DEF EvidenceInv, DownIsQuiet, Restart, dbVars, NoRows
    <3> QED
      BY <3>1 DEF DbBelowTxn, IdleJob, Absent, Present
  <2>3. Alone' => DbBelowTxn'
    BY <2>1, <2>2, AloneBefore, DbBelowTxnStep DEF PromiseInv
  <2> QED
    BY <2>1, <2>3 DEF PromiseInv
<1> QED
  BY <1>1, <1>2, PTL DEF Spec

LEMMA SameOrder == \A r, s : Abstract!Leq(r, s) <=> Leq(r, s)
  BY DEF Abstract!Leq, Leq

LEMMA PromiseInit == Init => Abstract!SInit
  BY DEF Init, Abstract!SInit, Abstract!Absent, Up, NoRows, Absent

\* A half of _touch is an Observe, a commit a Persist, a close or a crash a
\* FallBack, and everything else, a restart included, changes nothing.
LEMMA PromiseStep ==
  ASSUME PromiseInv, ~Overlapped, [Next]_vars
  PROVE  [Abstract!SNext]_(Abstract!svars)
<1>0. DurableInv /\ EvidenceInv /\ TypeOK /\ DownIsQuiet /\ Schedule
  BY DEF PromiseInv, DurableInv, EvidenceInv
<1>r. /\ rows \in Table
      /\ \A k \in Keys : rows[k] \in Row /\ db[k] \in Row /\ txn[k] \in Row
  BY <1>0 DEF TypeOK, Table
<1>t. rec.ts \in Nat /\ rec.hit \in States
  BY <1>0, RecTyped
<1> USE DEF memVars, dbVars, Abstract!svars
<1>1. ASSUME UNCHANGED <<main, rows, db>> PROVE UNCHANGED Abstract!svars
  BY <1>1 DEF Up
<1>2. ASSUME NEW k \in Keys, Up, main' = main, db' = db,
             Leq(rows[k], rows'[k]), \A j \in Keys \ {k} : rows'[j] = rows[j]
      PROVE  Abstract!SNext
  <2>1. Abstract!Observe(k)
    BY <1>2, SameOrder DEF Abstract!Observe, Up
  <2> QED
    BY <2>1 DEF Abstract!SNext
<1>3. ASSUME NEW K \in SUBSET Keys, NEW ts \in Stamps, NEW hit \in States,
             Ingest(K, ts, hit)
      PROVE  UNCHANGED Abstract!svars
  BY <1>1, <1>3 DEF Ingest
<1>4. ASSUME NEW k \in Keys, TouchCount(k) PROVE Abstract!SNext
  <2>1. Up
    BY <1>0, <1>4 DEF TouchCount, DownIsQuiet, NoRec
  <2>2. /\ rows'[k] = Counted(rows[k])
        /\ \A j \in Keys \ {k} : rows'[j] = rows[j]
    BY <1>4, <1>r DEF TouchCount, Table
  <2>3. Leq(rows[k], rows'[k])
    BY <1>r, <2>2, CountedIsMore
  <2> QED
    BY <1>2, <1>4, <2>1, <2>2, <2>3 DEF TouchCount
<1>5. ASSUME NEW k \in Keys, TouchRest(k) PROVE Abstract!SNext
  <2>1. Up
    BY <1>0, <1>5 DEF TouchRest, DownIsQuiet, NoRec
  <2>2. /\ rows'[k] = Dated(rows[k], rec.ts, rec.hit)
        /\ \A j \in Keys \ {k} : rows'[j] = rows[j]
    BY <1>5, <1>r DEF TouchRest, Table
  <2>3. Leq(rows[k], rows'[k])
    BY <1>r, <1>t, <2>2, DatedIsMore
  <2> QED
    BY <1>2, <1>5, <2>1, <2>2, <2>3 DEF TouchRest
<1>6. CASE StartFlush \/ FlushReturns
  BY <1>6 DEF StartFlush, FlushReturns, LoopIsFree, Up
<1>7. ASSUME NEW p \in CancelPoints, Cancel(p) PROVE UNCHANGED Abstract!svars
  BY <1>7 DEF Cancel, LoopIsFree, Up
<1>8. CASE Close \/ Crash
  <2>1. Abstract!FallBack
    BY <1>8 DEF Close, Crash, Up, Abstract!FallBack
  <2> QED
    BY <2>1 DEF Abstract!SNext
<1>9. CASE Restart
  BY <1>9 DEF Restart, Loaded, Up
<1>10. ASSUME NEW f \in Jobs, BeginScan(f) \/ EndScan(f) \/ WriteRow(f) \/ ClearDirty(f)
                              \/ FailFlush(f) \/ \E k \in Keys : ReadHead(f, k)
       PROVE  UNCHANGED Abstract!svars
  BY <1>1, <1>10 DEF BeginScan, EndScan, ReadHead, WriteRow, ClearDirty, FailFlush
<1>11. ASSUME NEW f \in Jobs, Commit(f) PROVE Abstract!SNext
  <2>1. Up /\ Alone
    BY <1>0, <1>11, UpToFlush DEF Commit, Alone
  <2>2. DbBelowTxn
    BY <2>1 DEF PromiseInv
  <2>3. /\ UNCHANGED <<main, rows>>
        /\ \A k \in Keys : db'[k] = IF Present(txn[k]) THEN txn[k] ELSE db[k]
    BY <1>11 DEF Commit, Upserted
  <2>4. \A k \in Keys : Leq(txn[k], rows[k]) /\ Leq(db[k], rows[k])
    BY <1>0, <2>1 DEF EvidenceInv, TxnBelowRows, DbNeverAhead, Up
  <2>5. \A k \in Keys : Leq(db[k], db'[k]) /\ Leq(db'[k], rows[k])
    BY <1>r, <2>2, <2>3, <2>4, LeqReflexive DEF DbBelowTxn
  <2>6. Abstract!Persist
    BY <2>1, <2>3, <2>5, SameOrder DEF Abstract!Persist, Up
  <2> QED
    BY <2>6 DEF Abstract!SNext
<1>12. CASE UNCHANGED vars
  BY <1>1, <1>12 DEF vars
<1> QED
  BY <1>3, <1>4, <1>5, <1>6, <1>7, <1>8, <1>9, <1>10, <1>11, <1>12
     DEF Next, Count, MainStep, FlushStep

\* As long as no two flushes overlap the engine implements DurableStore: the
\* evidence on disk only grows, never claims more than memory, and a restart
\* starts from it.
THEOREM KeepsPromiseAlone == Spec /\ []~Overlapped => KeepsPromise
<1>1. PromiseInv /\ ~Overlapped /\ [Next]_vars => [Abstract!SNext]_(Abstract!svars)
  BY PromiseStep
<1> QED
  BY <1>1, PromiseInvariant, PromiseInit, PTL DEF Spec, KeepsPromise, Abstract!SSpec

LEMMA NoOverlapInvariant ==
  ASSUME CancelPoints \subseteq {"sleep"}
  PROVE  Spec => []~Overlapped
<1>1. Init => ~Overlapped
  BY DEF Init, Overlapped
<1>2. DurableInv /\ ~Overlapped /\ [Next]_vars => ~Overlapped'
  <2> SUFFICES ASSUME DurableInv, ~Overlapped, [Next]_vars, main' = "final"
               PROVE  job'["periodic"].pc = "idle"
    BY DEF Overlapped
  <2>1. EvidenceInv /\ Schedule /\ TypeOK
    BY DEF DurableInv, EvidenceInv
  <2>j. job \in [Jobs -> JobSet] /\ IdleJob.pc = "idle"
    BY <2>1, JobsTyped
  <2>2. ASSUME main' = main PROVE job["periodic"] = IdleJob
    BY <2>2 DEF Overlapped, Schedule, DurableInv
  <2>3. ASSUME NEW f \in Jobs, FlushStep(f), main' = main
        PROVE  job'["periodic"].pc = "idle"
    BY <2>1, <2>2, <2>3, <2>j, FlushEffects DEF Jobs
  <2>4. ASSUME NEW p \in CancelPoints, Cancel(p) PROVE job'["periodic"].pc = "idle"
    <3>1. job["periodic"] = IdleJob
      BY <2>1, <2>4 DEF Cancel, Schedule, Overlapped
    <3> QED
      BY <2>4, <2>j, <3>1 DEF Cancel, Jobs
  <2> QED
    BY <2>2, <2>3, <2>4, <2>j
       DEF Next, Count, Ingest, TouchCount, TouchRest, MainStep, StartFlush,
           FlushReturns, Close, Crash, Restart, FlushStep, BeginScan, EndScan,
           ReadHead, WriteRow, Commit, ClearDirty, FailFlush, vars, memVars, dbVars
<1> QED
  BY <1>1, <1>2, DurableInvariant, PTL DEF Spec

\* A process that is only ever cancelled while it sleeps keeps the promise.
THEOREM KeepsPromiseWhenCancelledAsleep ==
  ASSUME CancelPoints \subseteq {"sleep"}
  PROVE  Spec => KeepsPromise
  BY KeepsPromiseAlone, NoOverlapInvariant, PTL

=============================================================================
