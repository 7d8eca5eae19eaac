----------------------------- MODULE MCAirlock -----------------------------
(***************************************************************************)
(* Instances of the airlock for TLC.                                       *)
(***************************************************************************)
EXTENDS Airlock, TLC

CodeExecute == [name |-> "code:execute", exact |-> TRUE]
Video       == [name |-> "call:video", exact |-> TRUE]
NoSuch      == [name |-> UnknownIntent, exact |-> TRUE]

MCFrame(i, ps, id, n) == [intent |-> i, patterns |-> ps, from_aint |-> id, size |-> n]

\* One frame per outcome: passed, killed in every profile, killed only by the
\* full dry-run, rejected, and passed but too large for the bus.
GateFrames ==
    { MCFrame(CodeExecute, {}, TRUE, 1),
      MCFrame(CodeExecute, {"eval"}, TRUE, 1),
      MCFrame(Video, {"mmap", "curl"}, TRUE, 1),
      MCFrame(NoSuch, {}, TRUE, 1),
      MCFrame(CodeExecute, {}, TRUE, 2) }

\* Three tasks at once: one frame for each way Kernel A treats the watchdog,
\* and one without an agent identity.
CoreFrames ==
    { MCFrame(CodeExecute, {}, TRUE, 1),
      MCFrame(CodeExecute, {}, TRUE, 2),
      MCFrame(NoSuch, {}, TRUE, 1),
      MCFrame(CodeExecute, {}, FALSE, 1) }

Symmetry == Permutations(Tasks)
=============================================================================
