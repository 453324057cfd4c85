------------------------------ MODULE UsageRow ------------------------------
(***************************************************************************)
(* The evidence kept per (object_type, object_id): CounterRow in           *)
(* collector/counters.py and one row of the usage_counter table.           *)
(*                                                                         *)
(* Of the columns, three carry the verdict and are kept: access_count,     *)
(* last_seen_ts (a natural number, 0 for the empty string) and state.  The *)
(* label, the first sighting, the daily histogram and the user sample are  *)
(* left out.                                                               *)
(***************************************************************************)
EXTENDS Integers

States == {"attempted", "active"}

Row == [count : Nat, last : Nat, state : States]

\* No row stored: a stored row has been hit at least once.
Absent == [count |-> 0, last |-> 0, state |-> "attempted"]

Present(r) == r.count > 0

\* r carries no evidence that s does not carry as well.
Leq(r, s) ==
  /\ r.count <= s.count
  /\ r.last <= s.last
  /\ r.state = "active" => s.state = "active"

\* Mutant: the latest record's date wins, even when it is older.
LatestWins(old, ts) == ts

\* last_seen only moves forward, whatever order the records arrive in.
Later(old, ts) == IF ts > old THEN ts ELSE old

\* A brokered hit promotes the row, nothing demotes it.
Promoted(old, hit) == IF hit = "active" THEN "active" ELSE old

\* The two halves of _touch: the count goes up first, the rest follows.
Counted(r) == [r EXCEPT !.count = @ + 1]
Dated(r, ts, hit) == [r EXCEPT !.last = Later(@, ts), !.state = Promoted(@, hit)]

\* Mutant: the upsert adds the row's count to the stored one.
UpsertedAdds(stored, written) ==
  IF Present(written) THEN [written EXCEPT !.count = @ + stored.count] ELSE stored

\* Mutant: the upsert resets the state to its default.
UpsertedDemotes(stored, written) ==
  CASE ~Present(written) -> stored
    [] Present(written) /\ Present(stored) -> [written EXCEPT !.state = "attempted"]
    [] OTHER -> written

\* ON CONFLICT DO UPDATE: a row that was written replaces the stored one.
Upserted(stored, written) == IF Present(written) THEN written ELSE stored

=============================================================================
