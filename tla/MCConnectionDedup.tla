-------------------------- MODULE MCConnectionDedup --------------------------
EXTENDS ConnectionDedup, TLC

CONSTANTS app, server

AnyDims == SUBSET Dims

Symmetries == Permutations(Conns) \cup Permutations(Dims)

=============================================================================
