--------------------------- MODULE ConnectionDedup ---------------------------
(***************************************************************************)
(* Deduplication by ConnectionID: CounterEngine._is_duplicate and          *)
(* _evict_expired in collector/counters.py, fed by the log stream.         *)
(*                                                                         *)
(* A connection emits one record when it opens and one when it closes.     *)
(* Records may be lost, delivered again and overtake each other.  The      *)
(* first sighting of a ConnectionID takes a slot in _inflight and is       *)
(* counted for each object that one of its names resolves to; every later  *)
(* record is dropped until the slot is freed by a close or by its age.     *)
(* The slots live in memory only, the counts survive a restart.            *)
(*                                                                         *)
(* The names of one connection stay the same, but whether one resolves     *)
(* depends on the index of the stream, which is taken when it connects.    *)
(*                                                                         *)
(* Time is the monotonic clock, read once per chunk of bytes.  It starts   *)
(* at 1, so that 0 stands for "no slot" and "not yet".                     *)
(***************************************************************************)
EXTENDS Integers

CONSTANTS
  Conns,        \* ConnectionIDs
  TTL,          \* dedup_ttl_seconds; load_settings keeps it positive
  Dims,         \* the dimensions of a record, each naming one object
  Resolves,     \* the sets of them that may resolve to an object
  Overtaking,   \* whether a close may be delivered before its open
  MaxTime,      \* bound: ticks of the clock
  MaxLosses,    \* bound: records lost
  MaxReplays,   \* bound: records delivered again
  MaxRestarts   \* bound: restarts of the process

ASSUME TTLAssumption == TTL \in Nat \ {0}
ASSUME OvertakingAssumption == Overtaking \in BOOLEAN
ASSUME ResolvesAssumption == Resolves \subseteq SUBSET Dims

VARIABLES
  mono,      \* the monotonic clock
  life,      \* the connection itself: "new", "open" or "closed"
  wire,      \* records emitted and not yet delivered or lost
  inflight,  \* _inflight: when the slot was taken, 0 if there is none
  counted,   \* how often the connection was counted, for whatever objects
  present,   \* the dimensions whose object it was counted for
  losses, replays, restarts,
  checked,   \* history: the time of the last eviction
  lastCount, \* history: when the connection was last counted
  freed,     \* history: connections with a close delivered, or a restart,
             \*          since they were last counted
  seen,      \* history: the dimensions that resolved in a record delivered
  shadowed   \* history: the dimensions that did not resolve in the record
             \*          that took the connection's last slot

envVars == <<life, wire>>
counts  == <<counted, present>>
history == <<lastCount, freed, seen, shadowed>>
vars == <<mono, envVars, inflight, counts, losses, replays, restarts, checked, history>>

Record == [conn : Conns, close : BOOLEAN]

Emitted == {r \in Record : life[r.conn] = "closed" \/
                           (life[r.conn] = "open" /\ ~r.close)}

Init ==
  /\ mono = 1
  /\ life = [c \in Conns |-> "new"] /\ wire = {}
  /\ inflight = [c \in Conns |-> 0]
  /\ counted = [c \in Conns |-> 0] /\ present = [c \in Conns |-> {}]
  /\ losses = 0 /\ replays = 0 /\ restarts = 0
  /\ checked = 1 /\ lastCount = [c \in Conns |-> 0]
  /\ freed = {}
  /\ seen = [c \in Conns |-> {}] /\ shadowed = [c \in Conns |-> {}]

-----------------------------------------------------------------------------
(* The code.                                                               *)

\* Mutant: the entries at the cutoff itself go one unit too early.
EvictedEarly == [c \in Conns |-> IF inflight[c] <= mono - TTL + 1 THEN 0
                                 ELSE inflight[c]]

\* Mutant: the entries at the cutoff itself stay.
EvictedLate == [c \in Conns |-> IF inflight[c] < mono - TTL THEN 0
                                ELSE inflight[c]]

\* _evict_expired
Evicted == [c \in Conns |-> IF inflight[c] <= mono - TTL THEN 0
                            ELSE inflight[c]]

\* The slot of r.conn is taken: the record is dropped, a close frees the slot.
Duplicate(r) ==
  /\ Evicted[r.conn] # 0
  /\ inflight' = [Evicted EXCEPT ![r.conn] = IF r.close THEN 0 ELSE @]
  /\ freed' = IF r.close THEN freed \cup {r.conn} ELSE freed
  /\ UNCHANGED <<counts, lastCount, shadowed>>

\* Mutant: a record of which some name does not resolve is not counted at all.
FirstSightingAllOrNone(r, names) ==
  /\ Evicted[r.conn] = 0
  /\ inflight' = [Evicted EXCEPT ![r.conn] = mono]
  /\ IF names = Dims
     THEN /\ counted' = [counted EXCEPT ![r.conn] = @ + 1]
          /\ present' = [present EXCEPT ![r.conn] = Dims]
          /\ lastCount' = [lastCount EXCEPT ![r.conn] = mono]
          /\ freed' = freed \ {r.conn}
     ELSE /\ freed' = IF r.close THEN freed \cup {r.conn} ELSE freed
          /\ UNCHANGED <<counts, lastCount>>
  /\ shadowed' = [shadowed EXCEPT ![r.conn] = Dims \ names]

\* The slot is free: the record takes it, even if it is a close, and counts
\* for the object of each dimension that resolves, if there is any.
FirstSighting(r, names) ==
  /\ Evicted[r.conn] = 0
  /\ inflight' = [Evicted EXCEPT ![r.conn] = mono]
  /\ IF names # {}
     THEN /\ counted' = [counted EXCEPT ![r.conn] = @ + 1]
          /\ present' = [present EXCEPT ![r.conn] = @ \cup names]
          /\ lastCount' = [lastCount EXCEPT ![r.conn] = mono]
          /\ freed' = freed \ {r.conn}
     ELSE /\ freed' = IF r.close THEN freed \cup {r.conn} ELSE freed
          /\ UNCHANGED <<counts, lastCount>>
  /\ shadowed' = [shadowed EXCEPT ![r.conn] = Dims \ names]

\* ingest, for a record with a ConnectionID.
Ingest(r, names) ==
  /\ Duplicate(r) \/ FirstSighting(r, names)
  /\ checked' = mono
  /\ seen' = [seen EXCEPT ![r.conn] = @ \cup names]

-----------------------------------------------------------------------------
(* The stream, the clock and the process.                                  *)

Deliver ==
  \E r \in wire, names \in Resolves :
    /\ Overtaking \/ ~r.close \/ [r EXCEPT !.close = FALSE] \notin wire
    /\ Ingest(r, names)
    /\ wire' = wire \ {r}
    /\ UNCHANGED <<mono, life, losses, replays, restarts>>

DeliverAgain ==
  /\ replays < MaxReplays
  /\ \E r \in Emitted \ wire, names \in Resolves : Ingest(r, names)
  /\ replays' = replays + 1
  /\ UNCHANGED <<mono, envVars, losses, restarts>>

\* A record without a ConnectionID is counted elsewhere; here it only evicts.
IngestAnonymous ==
  /\ inflight' = Evicted
  /\ checked' = mono
  /\ UNCHANGED <<mono, envVars, counts, losses, replays, restarts, history>>

Lose ==
  /\ losses < MaxLosses
  /\ losses' = losses + 1
  /\ \E r \in wire : wire' = wire \ {r}
  /\ UNCHANGED <<mono, life, inflight, counts, replays, restarts, checked, history>>

OpenConn(c) ==
  /\ life[c] = "new"
  /\ life' = [life EXCEPT ![c] = "open"]
  /\ wire' = wire \cup {[conn |-> c, close |-> FALSE]}
  /\ UNCHANGED <<mono, inflight, counts, losses, replays, restarts, checked, history>>

CloseConn(c) ==
  /\ life[c] = "open"
  /\ life' = [life EXCEPT ![c] = "closed"]
  /\ wire' = wire \cup {[conn |-> c, close |-> TRUE]}
  /\ UNCHANGED <<mono, inflight, counts, losses, replays, restarts, checked, history>>

Tick ==
  /\ mono < MaxTime
  /\ mono' = mono + 1
  /\ UNCHANGED <<envVars, inflight, counts, losses, replays, restarts, checked, history>>

\* A new CounterEngine starts with an empty _inflight; the counts are loaded.
Restart ==
  /\ restarts < MaxRestarts
  /\ restarts' = restarts + 1
  /\ inflight' = [c \in Conns |-> 0]
  /\ freed' = Conns
  /\ UNCHANGED <<mono, envVars, counts, losses, replays, checked, lastCount, seen, shadowed>>

Next == \/ Deliver \/ DeliverAgain \/ IngestAnonymous \/ Lose
        \/ \E c \in Conns : OpenConn(c) \/ CloseConn(c)
        \/ Tick \/ Restart

Spec == Init /\ [][Next]_vars

-----------------------------------------------------------------------------
\* The values the slots, the counts and the clock take.
TypeOK ==
  /\ mono \in Nat \ {0} /\ checked \in Nat
  /\ life \in [Conns -> {"new", "open", "closed"}] /\ wire \subseteq Record
  /\ inflight \in [Conns -> Nat] /\ lastCount \in [Conns -> Nat]
  /\ counted \in [Conns -> Nat] /\ present \in [Conns -> SUBSET Dims]
  /\ losses \in Nat /\ replays \in Nat /\ restarts \in Nat
  /\ freed \subseteq Conns
  /\ seen \in [Conns -> SUBSET Dims] /\ shadowed \in [Conns -> SUBSET Dims]

\* Whenever a record has been through the dedup, no slot is as old as the
\* TTL: the set is bounded by the connections of one TTL, at the exact cutoff.
NoExpiredSlot == \A c \in Conns : inflight[c] # 0 => checked - inflight[c] < TTL

\* A connection is counted again only when a full TTL has passed since it
\* was last counted, or its close was delivered since, or the process restarted.
\* A record replayed or overtaken adds to a count only behind one of these.
RecountNeedsCause ==
  [][\A c \in Conns :
       counted'[c] > counted[c] /\ counted[c] > 0 =>
         c \in freed \/ mono - lastCount[c] >= TTL]_vars

\* Dropping duplicates never drops an object: once a record that resolves its
\* name was delivered, the connection has been counted for it, whatever was lost,
\* replayed or reordered.  The exception is made for each object on its own: the
\* last slot of the connection was taken by a record in which its name did not
\* resolve, be it that others did, and that record hides the ones behind it.  So
\* "presence/last_seen stay correct" is true only of names that resolve, or do
\* not, in all records of a connection.
SeenIsCounted == \A c \in Conns : seen[c] \ shadowed[c] \subseteq present[c]

=============================================================================
