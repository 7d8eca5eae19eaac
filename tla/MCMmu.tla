------------------------------- MODULE MCMmu -------------------------------
(* Two threads and three pages, two of them sealed, with sessions and a cache *)
(* of one block, so that the two sealed pages have different sessions.        *)
EXTENDS Mmu
=============================================================================
