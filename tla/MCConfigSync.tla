---------------------------- MODULE MCConfigSync ----------------------------
(***************************************************************************)
(* Instances of ConfigSync for TLC: two microtenants, the default one      *)
(* listed first.  Objects, names and streams may be permuted.              *)
(***************************************************************************)
EXTENDS ConfigSync, TLC

CONSTANTS default, branch

TwoTenants == <<default, branch>>

OneEach == {{default}, {branch}}
Both    == {{default, branch}}
AnyOf   == OneEach \cup Both

Symmetries == Permutations(Objs) \cup Permutations(Names) \cup Permutations(Streams)

=============================================================================
