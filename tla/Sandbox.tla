------------------------------ MODULE Sandbox ------------------------------
(***************************************************************************)
(* A request's life beside the kernel: memory from a Zandbak region, a     *)
(* snapshot of what is allocated there, its registration and commit, and   *)
(* recovery.  The two parts meet in capture_region (snapshot.rs:328),      *)
(* which reads allocated_bytes of the region.                              *)
(***************************************************************************)
EXTENDS Zandbak, Recovery

CONSTANT RegionIntent   \* the intent the region was made for

ASSUME RegionAssumption == RegionIntent \in Intents

vars == <<allocated, count, clean, thread, live, index, commits, held, seq, clock, recoveries>>

Init == RegionInit /\ RecoveryInit

Next == \/ RegionNext /\ UNCHANGED recoveryVars
        \/ RecoveryNext /\ UNCHANGED regionVars
        \/ capture_region(RegionIntent, allocated) /\ UNCHANGED regionVars

Spec == Init /\ [][Next]_vars

\* Region, index, commits and counters keep their types.
TypeOK == /\ allocated \in Nat /\ count \in Nat /\ clean \in BOOLEAN
          /\ \A t \in Threads : thread[t].size \in Sizes \cup {0} /\ thread[t].offset \in Nat
          /\ index \in Seq([intent : Intents, seq : 0..MaxSnapshots, at : 0..MaxTime,
                            sig : BOOLEAN, hash : BOOLEAN])
          /\ commits \in Seq([intent : Intents, seq : 0..MaxSnapshots, pushed : BOOLEAN])
          /\ seq \in 0..MaxSnapshots /\ clock \in 0..MaxTime
          /\ recoveries.attempted = recoveries.succeeded + recoveries.failed
=============================================================================
