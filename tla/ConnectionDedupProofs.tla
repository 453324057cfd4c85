------------------------ MODULE ConnectionDedupProofs ------------------------
(***************************************************************************)
(* Proofs about ConnectionDedup for every set of connections, every TTL,   *)
(* and any number of losses, replays, reorderings and restarts.            *)
(***************************************************************************)
EXTENDS ConnectionDedup, TLAPS

LEMMA TypeInit == Init => TypeOK
  BY DEF Init, TypeOK

\* What an eviction leaves of a slot.
LEMMA EvictedSlot ==
  ASSUME TypeOK, NEW c \in Conns
  PROVE  /\ Evicted[c] \in Nat
         /\ Evicted[c] # 0 => Evicted[c] = inflight[c] /\ mono - inflight[c] < TTL
         /\ Evicted[c] = 0 => inflight[c] = 0 \/ inflight[c] + TTL <= mono
  BY TTLAssumption DEF TypeOK, Evicted

\* What a record does to the slots and the counts.
LEMMA IngestEffect ==
  ASSUME TypeOK, NEW r \in Record, NEW names \in SUBSET Dims, Ingest(r, names)
  PROVE  /\ checked' = mono
         /\ inflight' \in [Conns -> Nat] /\ counted' \in [Conns -> Nat]
         /\ lastCount' \in [Conns -> Nat]
         /\ present' \in [Conns -> SUBSET Dims] /\ freed' \subseteq Conns
         /\ seen' \in [Conns -> SUBSET Dims] /\ shadowed' \in [Conns -> SUBSET Dims]
         /\ \A c \in Conns \ {r.conn} :
              /\ inflight'[c] = Evicted[c]
              /\ counted'[c] = counted[c] /\ lastCount'[c] = lastCount[c]
              /\ c \in freed' <=> c \in freed
              /\ present'[c] = present[c] /\ seen'[c] = seen[c]
              /\ shadowed'[c] = shadowed[c]
<1>1. r.conn \in Conns
  BY DEF Record
<1>2. Evicted \in [Conns -> Nat]
  BY EvictedSlot DEF Evicted
<1>3. CASE Duplicate(r)
  BY <1>1, <1>2, <1>3 DEF Ingest, Duplicate, TypeOK, counts
<1>4. CASE FirstSighting(r, names)
  BY <1>1, <1>2, <1>4 DEF Ingest, FirstSighting, TypeOK, counts
<1> QED
  BY <1>3, <1>4 DEF Ingest

LEMMA RecordTyped ==
  ASSUME NEW c \in Conns, NEW b \in BOOLEAN
  PROVE  [conn |-> c, close |-> b] \in Record
  BY Zenon DEF Record

LEMMA TypeStep == TypeOK /\ [Next]_vars => TypeOK'
<1> SUFFICES ASSUME TypeOK, [Next]_vars PROVE TypeOK'
  OBVIOUS
<1> USE DEF TypeOK, envVars, counts, history
<1>1. CASE Deliver
  BY <1>1, IngestEffect, ResolvesAssumption DEF Deliver
<1>2. CASE DeliverAgain
  BY <1>2, IngestEffect, ResolvesAssumption DEF DeliverAgain, Emitted
<1>3. CASE IngestAnonymous
  BY <1>3, EvictedSlot DEF IngestAnonymous, Evicted
<1>4. CASE Lose
  BY <1>4 DEF Lose
<1>5. ASSUME NEW c \in Conns, OpenConn(c) PROVE TypeOK'
  <2>1. [conn |-> c, close |-> FALSE] \in Record
    BY RecordTyped
  <2> QED
    BY <1>5, <2>1 DEF OpenConn
<1>6. ASSUME NEW c \in Conns, CloseConn(c) PROVE TypeOK'
  <2>1. [conn |-> c, close |-> TRUE] \in Record
    BY RecordTyped
  <2> QED
    BY <1>6, <2>1 DEF CloseConn
<1>7. CASE Tick
  BY <1>7 DEF Tick
<1>8. CASE Restart
  BY <1>8 DEF Restart
<1>9. CASE UNCHANGED vars
  BY <1>9 DEF vars
<1> QED
  BY <1>1, <1>2, <1>3, <1>4, <1>5, <1>6, <1>7, <1>8, <1>9 DEF Next

(***************************************************************************)
(* The inductive invariant.  A slot is never older than the last eviction  *)
(* allows, and a connection that was counted and not freed since either    *)
(* still holds a slot at least as young as the count, or was counted a     *)
(* full TTL ago.                                                           *)
(***************************************************************************)
CheckedInPast == checked <= mono /\ \A c \in Conns : inflight[c] <= checked

CountHoldsSlot ==
  \A c \in Conns :
    counted[c] > 0 /\ c \notin freed =>
      \/ inflight[c] # 0 /\ lastCount[c] <= inflight[c]
      \/ lastCount[c] + TTL <= mono

DedupInv == TypeOK /\ CheckedInPast /\ NoExpiredSlot /\ CountHoldsSlot

LEMMA DedupInit == Init => DedupInv
  BY TypeInit DEF Init, DedupInv, CheckedInPast, NoExpiredSlot, CountHoldsSlot

LEMMA IngestKeepsInv ==
  ASSUME DedupInv, NEW r \in Record, NEW names \in SUBSET Dims,
         Ingest(r, names), mono' = mono
  PROVE  CheckedInPast' /\ NoExpiredSlot' /\ CountHoldsSlot'
<1>0. TypeOK /\ r.conn \in Conns
  BY DEF DedupInv, Record
<1>t. /\ mono \in Nat \ {0} /\ TTL \in Nat \ {0}
      /\ \A c \in Conns : /\ inflight[c] \in Nat /\ Evicted[c] \in Nat
                          /\ lastCount[c] \in Nat /\ counted[c] \in Nat
  BY <1>0, EvictedSlot, TTLAssumption DEF TypeOK
<1>1. \A c \in Conns \ {r.conn} :
        /\ inflight'[c] = Evicted[c] /\ counted'[c] = counted[c]
        /\ lastCount'[c] = lastCount[c]
        /\ c \in freed' <=> c \in freed
  BY <1>0, IngestEffect
<1>2. checked' = mono
  BY DEF Ingest
<1>3. \/ inflight'[r.conn] = 0 /\ r.conn \in freed'
      \/ /\ inflight'[r.conn] = Evicted[r.conn] /\ Evicted[r.conn] # 0
         /\ counted'[r.conn] = counted[r.conn]
         /\ lastCount'[r.conn] = lastCount[r.conn]
         /\ freed' = freed
      \/ /\ inflight'[r.conn] = mono
         /\ lastCount'[r.conn] \in {mono, lastCount[r.conn]}
         /\ counted'[r.conn] > 0 /\ r.conn \notin freed' =>
              \/ lastCount'[r.conn] = mono
              \/ /\ counted[r.conn] > 0 /\ r.conn \notin freed
                 /\ lastCount'[r.conn] = lastCount[r.conn]
  <2>1. CASE Duplicate(r)
    BY <1>0, <1>t, <2>1 DEF Duplicate, Evicted, counts
  <2>2. CASE FirstSighting(r, names)
    BY <1>0, <1>t, <2>2 DEF FirstSighting, Evicted, TypeOK, counts
  <2> QED
    BY <2>1, <2>2 DEF Ingest
<1>4. \A c \in Conns : lastCount[c] <= mono \/ ~(counted[c] > 0 /\ c \notin freed)
  BY <1>t DEF DedupInv, CountHoldsSlot, CheckedInPast, TypeOK
<1>5. CheckedInPast'
  BY <1>0, <1>t, <1>1, <1>2, <1>3, EvictedSlot DEF DedupInv, CheckedInPast, TypeOK
<1>6. NoExpiredSlot'
  BY <1>0, <1>t, <1>1, <1>2, <1>3, EvictedSlot DEF NoExpiredSlot
<1>7. CountHoldsSlot'
  <2> SUFFICES ASSUME NEW c \in Conns, counted'[c] > 0, c \notin freed'
               PROVE  \/ inflight'[c] # 0 /\ lastCount'[c] <= inflight'[c]
                      \/ lastCount'[c] + TTL <= mono
    BY DEF CountHoldsSlot
  <2>1. counted[c] > 0 /\ c \notin freed =>
          \/ inflight[c] # 0 /\ lastCount[c] <= inflight[c]
          \/ lastCount[c] + TTL <= mono
    BY DEF DedupInv, CountHoldsSlot
  <2>2. CASE c # r.conn
    BY <1>0, <1>t, <1>1, <2>1, <2>2, EvictedSlot
  <2>3. CASE c = r.conn
    BY <1>0, <1>t, <1>3, <1>4, <2>1, <2>3, EvictedSlot
  <2> QED
    BY <2>2, <2>3
<1> QED
  BY <1>5, <1>6, <1>7

LEMMA DedupStep == DedupInv /\ [Next]_vars => DedupInv'
<1> SUFFICES ASSUME DedupInv, [Next]_vars PROVE DedupInv'
  OBVIOUS
<1>0. TypeOK /\ TypeOK'
  BY TypeStep DEF DedupInv
<1> USE DEF DedupInv, envVars, counts, history
<1>1. CASE Deliver
  BY <1>0, <1>1, IngestKeepsInv, ResolvesAssumption DEF Deliver, TypeOK
<1>2. CASE DeliverAgain
  BY <1>0, <1>2, IngestKeepsInv, ResolvesAssumption DEF DeliverAgain, Emitted
<1>3. CASE IngestAnonymous
  <2>1. \A c \in Conns : inflight'[c] = Evicted[c]
    BY <1>3 DEF IngestAnonymous
  <2>2. CheckedInPast' /\ NoExpiredSlot'
    BY <1>0, <1>3, <2>1, EvictedSlot, TTLAssumption
       DEF IngestAnonymous, CheckedInPast, NoExpiredSlot, TypeOK
  <2>3. CountHoldsSlot'
    BY <1>0, <1>3, <2>1, EvictedSlot, TTLAssumption
       DEF IngestAnonymous, CountHoldsSlot, TypeOK
  <2> QED
    BY <1>0, <2>2, <2>3
<1>4. CASE Lose
  BY <1>0, <1>4 DEF Lose, CheckedInPast, NoExpiredSlot, CountHoldsSlot
<1>5. ASSUME NEW c \in Conns, OpenConn(c) \/ CloseConn(c) PROVE DedupInv'
  BY <1>0, <1>5 DEF OpenConn, CloseConn, CheckedInPast, NoExpiredSlot, CountHoldsSlot
<1>6. CASE Tick
  BY <1>0, <1>6, TTLAssumption
     DEF Tick, CheckedInPast, NoExpiredSlot, CountHoldsSlot, TypeOK
<1>7. CASE Restart
  BY <1>0, <1>7 DEF Restart, CheckedInPast, NoExpiredSlot, CountHoldsSlot, TypeOK
<1>8. CASE UNCHANGED vars
  BY <1>0, <1>8 DEF vars, CheckedInPast, NoExpiredSlot, CountHoldsSlot
<1> QED
  BY <1>1, <1>2, <1>3, <1>4, <1>5, <1>6, <1>7, <1>8 DEF Next

LEMMA DedupInvariant == Spec => []DedupInv
  BY DedupInit, DedupStep, PTL DEF Spec

\* After every record that went through the dedup, all slots are younger than
\* the TTL, at the exact cutoff.
THEOREM SlotsExpire == Spec => []NoExpiredSlot
  BY DedupInvariant, PTL DEF DedupInv

\* A connection is counted twice only a full TTL later, or after its close,
\* or after a restart.
THEOREM RecountsHaveCause == Spec => RecountNeedsCause
<1> DEFINE Cause(c) == counted'[c] > counted[c] /\ counted[c] > 0 =>
                         c \in freed \/ mono - lastCount[c] >= TTL
           Step == [\A c \in Conns : Cause(c)]_vars
<1>1. ASSUME DedupInv, NEW r \in Record, NEW names \in SUBSET Dims,
             Ingest(r, names), NEW c \in Conns
      PROVE  Cause(c)
  <2>1. TypeOK /\ mono \in Nat /\ TTL \in Nat \ {0} /\ lastCount[c] \in Nat
    BY <1>1, TTLAssumption DEF DedupInv, TypeOK
  <2>2. SUFFICES ASSUME counted'[c] > counted[c], counted[c] > 0, c \notin freed
                 PROVE  lastCount[c] + TTL <= mono
    BY <2>1
  <2>3. c = r.conn /\ Evicted[c] = 0
    <3>1. c = r.conn
      BY <1>1, <2>1, <2>2, IngestEffect DEF TypeOK
    <3>2. counted' # counted
      BY <2>1, <2>2 DEF TypeOK
    <3>3. ~Duplicate(r)
      BY <3>2 DEF Duplicate, counts
    <3> QED
      BY <1>1, <3>1, <3>3 DEF Ingest, FirstSighting
  <2>4. \/ inflight[c] # 0 /\ lastCount[c] <= inflight[c]
        \/ lastCount[c] + TTL <= mono
    BY <1>1, <2>2 DEF DedupInv, CountHoldsSlot
  <2> QED
    BY <2>1, <2>3, <2>4, EvictedSlot DEF TypeOK
<1>2. DedupInv /\ [Next]_vars => Step
  <2> SUFFICES ASSUME DedupInv, Next, NEW c \in Conns PROVE Cause(c)
    BY DEF Step
  <2>1. CASE Deliver
    BY <1>1, <2>1, ResolvesAssumption DEF Deliver, DedupInv, TypeOK
  <2>2. CASE DeliverAgain
    BY <1>1, <2>2, ResolvesAssumption DEF DeliverAgain, Emitted
  <2>3. CASE UNCHANGED counted
    BY <2>3 DEF DedupInv, TypeOK
  <2> QED
    BY <2>1, <2>2, <2>3
       DEF Next, IngestAnonymous, Lose, OpenConn, CloseConn, Tick, Restart, counts
<1>3. Spec => [][\A c \in Conns : Cause(c)]_vars
  BY <1>2, DedupInvariant, PTL DEF Spec
<1> QED
  BY <1>3 DEF RecountNeedsCause

\* Dedup drops an object altogether only behind a record in which its name did
\* not resolve: a connection has been counted for every other object that a
\* record of it delivered so far resolved to.
THEOREM SeenIsAlwaysCounted == Spec => []SeenIsCounted
<1> DEFINE Held == \A c \in Conns : inflight[c] # 0 => Dims \ shadowed[c] \subseteq present[c]
           I == TypeOK /\ Held /\ SeenIsCounted
<1> USE DEF counts, history
<1>1. Init => I
  BY TypeInit DEF Init, SeenIsCounted
<1>2. I /\ [Next]_vars => I'
  <2> SUFFICES ASSUME I, [Next]_vars PROVE Held' /\ SeenIsCounted'
    BY TypeStep
  <2>e. \A c \in Conns : Evicted[c] # 0 => inflight[c] # 0
    BY EvictedSlot DEF TypeOK
  <2>1. ASSUME NEW r \in Record, NEW names \in SUBSET Dims, Ingest(r, names)
        PROVE  Held' /\ SeenIsCounted'
    <3>0. r.conn \in Conns
      BY DEF Record
    <3>1. \A c \in Conns \ {r.conn} :
            /\ inflight'[c] = Evicted[c] /\ present'[c] = present[c]
            /\ seen'[c] = seen[c] /\ shadowed'[c] = shadowed[c]
      BY <2>1, IngestEffect
    <3>2. Dims \ shadowed'[r.conn] \subseteq present'[r.conn]
      <4>1. CASE Duplicate(r)
        BY <2>e, <3>0, <4>1 DEF Duplicate
      <4>2. CASE FirstSighting(r, names)
        <5>1. shadowed'[r.conn] = Dims \ names
          BY <3>0, <4>2 DEF FirstSighting, TypeOK
        <5>2. names \subseteq present'[r.conn]
          BY <3>0, <4>2 DEF FirstSighting, TypeOK
        <5> QED
          BY <5>1, <5>2
      <4> QED
        BY <2>1, <4>1, <4>2 DEF Ingest
    <3>3. seen'[r.conn] \subseteq Dims
      BY <2>1, <3>0, IngestEffect
    <3> QED
      BY <2>e, <3>0, <3>1, <3>2, <3>3 DEF SeenIsCounted
  <2>2. CASE Deliver
    BY <2>1, <2>2, ResolvesAssumption DEF Deliver, TypeOK
  <2>3. CASE DeliverAgain
    BY <2>1, <2>3, ResolvesAssumption DEF DeliverAgain, Emitted
  <2>4. CASE IngestAnonymous
    BY <2>4, <2>e DEF IngestAnonymous, SeenIsCounted
  <2>5. CASE Restart
    BY <2>5 DEF Restart, SeenIsCounted
  <2>6. CASE UNCHANGED <<inflight, present, seen, shadowed>>
    BY <2>6 DEF SeenIsCounted
  <2> QED
    BY <2>2, <2>3, <2>4, <2>5, <2>6
       DEF Next, Lose, OpenConn, CloseConn, Tick, vars
<1> QED
  BY <1>1, <1>2, PTL DEF Spec

=============================================================================
