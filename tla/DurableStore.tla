---------------------------- MODULE DurableStore ----------------------------
(***************************************************************************)
(* What the counter engine promises about usage evidence, with no flush    *)
(* thread, transaction or record in sight: evidence in memory only grows,  *)
(* the evidence on disk only grows and never claims more than memory does, *)
(* and a restart falls back to exactly what is on disk.                    *)
(***************************************************************************)
EXTENDS UsageRow

CONSTANT Keys

VARIABLES mem, disk

svars == <<mem, disk>>

SInit ==
  /\ mem = [k \in Keys |-> Absent]
  /\ disk = [k \in Keys |-> Absent]

\* One object gains evidence.
Observe(k) ==
  /\ Leq(mem[k], mem'[k])
  /\ \A j \in Keys \ {k} : mem'[j] = mem[j]
  /\ UNCHANGED disk

\* Any number of objects become more durable, up to what memory knows.
Persist ==
  /\ \A k \in Keys : Leq(disk[k], disk'[k]) /\ Leq(disk'[k], mem[k])
  /\ UNCHANGED mem

\* The process is gone; the next one starts from disk.
FallBack ==
  /\ mem' = disk
  /\ UNCHANGED disk

SNext == (\E k \in Keys : Observe(k)) \/ Persist \/ FallBack

SSpec == SInit /\ [][SNext]_svars

=============================================================================
