----------------------------- MODULE MCSandbox -----------------------------
(* Two threads on a region of three pages; two intents, one the prefix of the *)
(* other; three snapshots on a clock of two instants.                         *)
EXTENDS Sandbox, TLC

CONSTANTS t1, t2, code, code_py

MCPrefix == {<<code, code>>, <<code_py, code_py>>, <<code, code_py>>}

ThreadSymmetry == Permutations({t1, t2})

=============================================================================
