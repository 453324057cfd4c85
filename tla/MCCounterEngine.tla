--------------------------- MODULE MCCounterEngine ---------------------------
(***************************************************************************)
(* Instances of CounterEngine for TLC.  No action tells one key from       *)
(* another, so the keys of a safety run may be permuted.                   *)
(***************************************************************************)
EXTENDS CounterEngine, TLC

KeySymmetry == Permutations(Keys)

=============================================================================
