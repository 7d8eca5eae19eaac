---------------------------- MODULE MCOverlayMux ----------------------------
(***************************************************************************)
(* Instances of the overlay for TLC.                                       *)
(***************************************************************************)
EXTENDS OverlayMux

CONSTANTS pixel, jispixel, hub, e1, e2

\* "pixel" is completed to "jis:pixel".
Completed == [n \in Names |-> IF n = pixel THEN jispixel ELSE n]

\* The API knows full names only.
ApiKnows == [n \in Names |-> IF n = pixel THEN None ELSE IF n = hub THEN e2 ELSE e1]
=============================================================================
