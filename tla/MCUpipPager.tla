----------------------------- MODULE MCUpipPager -----------------------------
(***************************************************************************)
(* Instances of the pager for TLC.                                         *)
(***************************************************************************)
EXTENDS UpipPager, TLC

TaskSymmetry == Permutations(Tasks)

\* Budgets and allocations around the thresholds of 80, 95 and 100 per cent.
AroundThresholds == {0, 1, 5} \cup 13 .. 27

\* Pressure depends on no state of the pager: TLC evaluates this once, before
\* the first state.
ASSUME PressureIsRelievedHere == PressureIsRelieved
==============================================================================
