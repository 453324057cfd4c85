------------------------------ MODULE MCVerdict ------------------------------
(***************************************************************************)
(* Instances of Verdict for TLC: users may be permuted.                    *)
(***************************************************************************)
EXTENDS Verdict, TLC

UserSymmetry == Permutations(Users)

=============================================================================
