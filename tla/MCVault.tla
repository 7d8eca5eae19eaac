------------------------------ MODULE MCVault ------------------------------
(* Three blocks, two levels, a cache of two keys and sessions of two blocks:   *)
(* cache and session run over, and a batch overruns a session.                 *)
EXTENDS Vault, TLC

CONSTANTS d1, d2, d3

DataSymmetry == Permutations({d1, d2, d3})

=============================================================================
