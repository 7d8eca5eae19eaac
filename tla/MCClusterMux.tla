---------------------------- MODULE MCClusterMux ----------------------------
(***************************************************************************)
(* Instances of the transport to RAM B for TLC.                            *)
(***************************************************************************)
EXTENDS ClusterMux

NoBatches == {}

\* Two blocks in one burst; the first may be missing, the second not.
PairBatch == {<<1, 2>>}
=============================================================================
