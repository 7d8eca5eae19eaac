------------------------------- MODULE MCRamB -------------------------------
(***************************************************************************)
(* Instances of RAM B and its two transports for TLC.                      *)
(***************************************************************************)
EXTENDS RamB

CONSTANTS b1, c1, c2, t1, q1, q2

Fetch(b, h) == [op |-> "fetch", block |-> b, hash |-> h]
Store(b, d, h, fits) ==
    [op |-> "store", block |-> b, data |-> d, hash |-> h, seal_fits |-> fits]

\* Stores that race, one with a wrong hash and a seal that is too long, a fetch
\* with a hash (those of a batch have none), a ping.  c2 is too large for TCP.
OverQuic ==
    {Store(b1, c2, c2, TRUE), Store(b1, c1, c2, FALSE), Fetch(b1, c1), [op |-> "ping"]}
OverTcp == OverQuic \cup {Store(b1, c1, c1, TRUE), Fetch(b1, c2)}

PairBatch == {<<q1, q2>>}
=============================================================================
