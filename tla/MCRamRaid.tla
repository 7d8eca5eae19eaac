----------------------------- MODULE MCRamRaid -----------------------------
(***************************************************************************)
(* Instances of the RAM RAID controller for TLC.                           *)
(***************************************************************************)
EXTENDS RamRaid

NoBatches == {}

\* More blocks than may be resident, one of each stripe; and an index beyond
\* the arena.
DistinctBatches == {<<0, 1>>, <<1, 2>>}
=============================================================================
