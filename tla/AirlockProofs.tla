--------------------------- MODULE AirlockProofs ---------------------------
(***************************************************************************)
(* Theorems about the airlock, for every set of tasks, frames and profiles *)
(* and every watchdog setting, with and without an operator; and about the *)
(* layers that judge a connection, for all ports, first bytes, intents and *)
(* sets of patterns.                                                       *)
(***************************************************************************)
EXTENDS Airlock, Layers, FiniteSetTheorems, SequenceTheorems, WellFoundedInduction, TLAPS

(***************************************************************************)
(* The inductive invariant.  TypeOK alone says nothing about which task    *)
(* owns which sequence number, and NoGapNoLoss alone is not inductive: the *)
(* task that stores next_expected_seq loaded it some steps earlier.        *)
(***************************************************************************)

\* The task holds a sequence number that Kernel B has not received yet.
Carrying(t) ==
    \/ pc[t] \in {"receive", "load", "store"}
    \/ pc[t] \in {"respond", "clear"} /\ VerdictOn(frame[t]) = "Pass"

\* Numbers in flight are stamped, not yet received, and nobody else's.
SeqInv ==
    /\ \A t \in Tasks : Carrying(t) => seq[t] < seq_counter /\ seq[t] \notin delivered
    /\ \A t, u \in Tasks : Carrying(t) /\ Carrying(u) /\ seq[t] = seq[u] => t = u
    /\ delivered \subseteq 0 .. seq_counter - 1

\* While no gap was counted, a task about to store the number it expected is
\* the one the bus is waiting for.
GapInv ==
    sequence_gaps_detected = 0 =>
        /\ delivered = 0 .. next_expected_seq - 1
        /\ \A t \in Tasks : pc[t] = "store" /\ seq[t] = expected[t]
                                => seq[t] = next_expected_seq

\* What a task's position says about its frame and its answer.
FrameInv ==
    \A t \in Tasks :
        /\ (pc[t] \in {"new", "reading", "dropped"}) <=> (frame[t] = NoFrame)
        /\ (pc[t] = "done") <=> (status[t] # "none")
        /\ pc[t] \in {"respond", "clear"} => VerdictOn(frame[t]) \in {"Kill", "Pass"}
        /\ pc[t] \in {"receive", "load", "store", "archive", "reply"}
              => VerdictOn(frame[t]) = "Pass"
        /\ pc[t] \in {"load", "store", "archive", "reply"}
              => frame[t].size <= MaxPayload
        /\ pc[t] = "reply" => JisAccepts(frame[t])

CountInv == IsFiniteSet(delivered) /\ payloads_passed = Cardinality(delivered)

\* Whoever is about to shut the bus has seen the watchdog trigger.
KillInv == ~Operator => \A t \in Tasks : pc[t] = "shutdown" => triggered

AirlockInv ==
    /\ TypeOK /\ FrameInv /\ SeqInv /\ GapInv /\ CountInv
    /\ KillReachesBus /\ KillInv

-----------------------------------------------------------------------------
USE DEF PC, Status, Goto, Answer, busVars, dogVars, taskVars

(***************************************************************************)
(* Type correctness.  The Boolean variables are kept apart from the rest.  *)
(***************************************************************************)
\* Every step keeps the flags of bus, watchdog and tasks Boolean.
LEMMA FlagsStep == FlagsOK /\ [Next]_vars => FlagsOK'
<1> SUFFICES ASSUME FlagsOK, [Next]_vars PROVE FlagsOK'
  OBVIOUS
<1> USE DEF FlagsOK
<1>1. CASE Tick
  BY <1>1 DEF Tick
<1>2. CASE Maintenance
  BY <1>2 DEF Maintenance, Reset, Pause, Resume, OperatorStore, OperatorClear, Reopen
<1>3. ASSUME NEW t \in Tasks, Arrive(t) PROVE FlagsOK'
  BY <1>3 DEF Arrive, Connect, ReadFrame, ReadFails
<1>4. ASSUME NEW t \in Tasks, Check(t) PROVE FlagsOK'
  BY <1>4 DEF Check, CheckLoad, CheckMiss, Shutdown
<1>5. ASSUME NEW t \in Tasks, KernelA(t) PROVE FlagsOK'
  BY <1>5 DEF KernelA, Reject, Kill, Pass, RespondStore, RespondClear
<1>6. ASSUME NEW t \in Tasks, KernelB(t) PROVE FlagsOK'
  BY <1>6 DEF KernelB, BusClosed, PayloadTooLarge, ReceiveOpen, ReceiveLoad,
              ReceiveStore, Archive, Reply
<1>7. CASE UNCHANGED vars
  BY <1>7 DEF vars
<1> QED
  BY <1>1, <1>2, <1>3, <1>4, <1>5, <1>6, <1>7 DEF Next, Serve

\* Every step keeps the other variables, the counters above all, in their types.
LEMMA DataStep == DataOK /\ [Next]_vars => DataOK'
<1> SUFFICES ASSUME DataOK, [Next]_vars PROVE DataOK'
  OBVIOUS
<1> USE TimeAssumption DEF TimeAssumption, DataOK
<1>1. CASE Tick
  BY <1>1 DEF Tick
<1>2. CASE Maintenance
  <2>1. CASE Reset
    BY <2>1 DEF Reset
  <2>2. CASE Pause \/ Resume
    BY <2>2 DEF Pause, Resume
  <2>3. CASE OperatorStore
    BY <2>3 DEF OperatorStore
  <2>4. CASE OperatorClear
    BY <2>4 DEF OperatorClear
  <2>5. CASE Reopen
    BY <2>5 DEF Reopen
  <2> QED
    BY <1>2, <2>1, <2>2, <2>3, <2>4, <2>5 DEF Maintenance
<1>3. ASSUME NEW t \in Tasks, Arrive(t) PROVE DataOK'
  BY <1>3 DEF Arrive, Connect, ReadFrame, ReadFails
<1>4. ASSUME NEW t \in Tasks, Check(t) PROVE DataOK'
  <2>1. CASE CheckLoad(t)
    BY <2>1 DEF CheckLoad
  <2>2. CASE CheckMiss(t)
    BY <2>2 DEF CheckMiss
  <2>3. CASE Shutdown(t)
    BY <2>3 DEF Shutdown
  <2> QED
    BY <1>4, <2>1, <2>2, <2>3 DEF Check
<1>5. ASSUME NEW t \in Tasks, KernelA(t) PROVE DataOK'
  <2>1. CASE Reject(t) \/ Kill(t)
    BY <2>1 DEF Reject, Kill
  <2>2. CASE Pass(t)
    BY <2>2 DEF Pass
  <2>3. CASE RespondStore(t)
    BY <2>3 DEF RespondStore
  <2>4. CASE RespondClear(t)
    BY <2>4 DEF RespondClear
  <2> QED
    BY <1>5, <2>1, <2>2, <2>3, <2>4 DEF KernelA
<1>6. ASSUME NEW t \in Tasks, KernelB(t) PROVE DataOK'
  <2>1. CASE BusClosed(t) \/ PayloadTooLarge(t) \/ ReceiveOpen(t)
    BY <2>1 DEF BusClosed, PayloadTooLarge, ReceiveOpen
  <2>2. CASE ReceiveLoad(t)
    BY <2>2 DEF ReceiveLoad
  <2>3. CASE ReceiveStore(t)
    <3>1. delivered' \subseteq Nat
      BY <2>3 DEF ReceiveStore
    <3>2. /\ sequence_gaps_detected' \in Nat /\ payloads_passed' \in Nat
          /\ next_expected_seq' \in Nat
      BY <2>3 DEF ReceiveStore
    <3> QED
      BY <2>3, <3>1, <3>2 DEF ReceiveStore
  <2>4. CASE Archive(t)
    BY <2>4 DEF Archive
  <2>5. CASE Reply(t)
    BY <2>5 DEF Reply
  <2> QED
    BY <1>6, <2>1, <2>2, <2>3, <2>4, <2>5 DEF KernelB
<1>7. CASE UNCHANGED vars
  BY <1>7 DEF vars
<1> QED
  BY <1>1, <1>2, <1>3, <1>4, <1>5, <1>6, <1>7 DEF Next, Serve

\* Every variable of the airlock keeps its type, whatever the tasks, the clock
\* and the operator do.
THEOREM TypeCorrect == Spec => []TypeOK
<1>1. Init => FlagsOK
  BY DEF Init, FlagsOK
<1>2. Init => DataOK
  BY TimeAssumption DEF TimeAssumption, Init, DataOK
<1> QED
  BY <1>1, <1>2, FlagsStep, DataStep, PTL DEF Spec, TypeOK

-----------------------------------------------------------------------------
(***************************************************************************)
(* The parts of the inductive invariant, one lemma each.                   *)
(***************************************************************************)
\* A task's position keeps telling what Kernel A decided about its frame.
LEMMA FrameStep ==
    ASSUME DataOK, FrameInv, [Next]_vars PROVE FrameInv'
<1> USE FramesAssumption DEF FramesAssumption, DataOK, FrameInv, VerdictOn, JisAccepts
<1>1. CASE Tick
  BY <1>1 DEF Tick
<1>2. CASE Maintenance
  BY <1>2 DEF Maintenance, Reset, Pause, Resume, OperatorStore, OperatorClear, Reopen
<1>3. ASSUME NEW t \in Tasks, Arrive(t) PROVE FrameInv'
  BY <1>3 DEF Arrive, Connect, ReadFrame, ReadFails
<1>4. ASSUME NEW t \in Tasks, Check(t) PROVE FrameInv'
  BY <1>4 DEF Check, CheckLoad, CheckMiss, Shutdown
<1>5. ASSUME NEW t \in Tasks, KernelA(t) PROVE FrameInv'
  BY <1>5 DEF KernelA, Reject, Kill, Pass, RespondStore, RespondClear
<1>6. ASSUME NEW t \in Tasks, KernelB(t) PROVE FrameInv'
  BY <1>6 DEF KernelB, BusClosed, PayloadTooLarge, ReceiveOpen, ReceiveLoad,
              ReceiveStore, Archive, Reply
<1>7. CASE UNCHANGED vars
  BY <1>7 DEF vars
<1> QED
  BY <1>1, <1>2, <1>3, <1>4, <1>5, <1>6, <1>7 DEF Next, Serve

\* A step that hands out and receives no number keeps the numbers in order.
LEMMA SeqKept ==
    ASSUME SeqInv, UNCHANGED <<seq, seq_counter, delivered>>,
           \A u \in Tasks : Carrying(u)' => Carrying(u)
    PROVE  SeqInv'
BY DEF SeqInv

\* stamp_payload hands out a number once, and `receive' takes it once.
LEMMA SeqStep ==
    ASSUME DataOK, FrameInv, SeqInv, [Next]_vars PROVE SeqInv'
<1> USE DEF DataOK
<1>1. CASE Tick \/ Maintenance \/ UNCHANGED vars
  <2>1. UNCHANGED <<pc, frame, profile, seq, seq_counter, delivered>>
    BY <1>1 DEF Tick, Maintenance, Reset, Pause, Resume, OperatorStore,
                OperatorClear, Reopen, vars
  <2> QED
    BY <2>1, SeqKept DEF Carrying, VerdictOn
<1>2. ASSUME NEW t \in Tasks, Arrive(t) \/ Check(t) PROVE SeqInv'
  <2>1. /\ UNCHANGED <<profile, seq, seq_counter, delivered>>
        /\ \A u \in Tasks \ {t} : pc'[u] = pc[u] /\ frame'[u] = frame[u]
        /\ pc'[t] \in {"reading", "check", "dropped", "miss", "evaluate", "shutdown", "done"}
    BY <1>2 DEF Arrive, Connect, ReadFrame, ReadFails, Check, CheckLoad,
                CheckMiss, Shutdown
  <2> QED
    BY <2>1, SeqKept DEF Carrying, VerdictOn
<1>3. ASSUME NEW t \in Tasks, Reject(t) \/ Kill(t) \/ RespondStore(t) \/ RespondClear(t)
      PROVE  SeqInv'
  <2>1. UNCHANGED <<profile, frame, seq, seq_counter, delivered>>
    BY <1>3 DEF Reject, Kill, RespondStore, RespondClear
  <2>2. \A u \in Tasks : Carrying(u)' => Carrying(u)
    BY <1>3 DEF Reject, Kill, RespondStore, RespondClear, Carrying, VerdictOn, FrameInv
  <2> QED
    BY <2>1, <2>2, SeqKept
<1>4. ASSUME NEW t \in Tasks, Pass(t) PROVE SeqInv'
  BY <1>4 DEF Pass, SeqInv, Carrying, VerdictOn
<1>5. ASSUME NEW t \in Tasks,
             BusClosed(t) \/ PayloadTooLarge(t) \/ ReceiveOpen(t) \/ ReceiveLoad(t)
             \/ Archive(t) \/ Reply(t)
      PROVE  SeqInv'
  <2>1. UNCHANGED <<profile, frame, seq, seq_counter, delivered>>
    BY <1>5 DEF BusClosed, PayloadTooLarge, ReceiveOpen, ReceiveLoad, Archive, Reply
  <2>2. \A u \in Tasks : Carrying(u)' => Carrying(u)
    BY <1>5 DEF BusClosed, PayloadTooLarge, ReceiveOpen, ReceiveLoad, Archive,
                Reply, Carrying, VerdictOn
  <2> QED
    BY <2>1, <2>2, SeqKept
<1>6. ASSUME NEW t \in Tasks, ReceiveStore(t) PROVE SeqInv'
  <2>1. /\ seq' = seq /\ seq_counter' = seq_counter
        /\ delivered' = delivered \cup {seq[t]} /\ seq[t] \in Nat
        /\ Carrying(t)
    BY <1>6 DEF Carrying, ReceiveStore
  <2>2. \A u \in Tasks : Carrying(u)' => Carrying(u) /\ u # t
    BY <1>6 DEF Carrying, VerdictOn, ReceiveStore
  <2>3. seq[t] \in 0 .. seq_counter - 1 /\ delivered \subseteq 0 .. seq_counter - 1
    BY <2>1 DEF SeqInv
  <2>4. delivered' \subseteq 0 .. seq_counter' - 1
    <3> HIDE DEF DataOK
    <3> QED BY <2>1, <2>3
  <2>5. \A u \in Tasks : Carrying(u)' => seq'[u] < seq_counter' /\ seq'[u] \notin delivered'
    BY <2>1, <2>2 DEF SeqInv
  <2> QED
    BY <2>1, <2>2, <2>4, <2>5 DEF SeqInv
<1> QED
  BY <1>1, <1>2, <1>3, <1>4, <1>5, <1>6 DEF Next, Serve, KernelA, KernelB

\* While no gap is counted, `receive' advances by the number it was waiting for.
LEMMA GapStep ==
    ASSUME DataOK, FrameInv, SeqInv, GapInv, [Next]_vars PROVE GapInv'
<1> USE DEF DataOK, GapInv
<1>1. CASE Tick \/ Maintenance \/ UNCHANGED vars
  BY <1>1 DEF Tick, Maintenance, Reset, Pause, Resume, OperatorStore,
              OperatorClear, Reopen, vars
<1>2. ASSUME NEW t \in Tasks, Arrive(t) PROVE GapInv'
  BY <1>2 DEF Arrive, Connect, ReadFrame, ReadFails
<1>3. ASSUME NEW t \in Tasks, Check(t) PROVE GapInv'
  BY <1>3 DEF Check, CheckLoad, CheckMiss, Shutdown
<1>4. ASSUME NEW t \in Tasks, KernelA(t) PROVE GapInv'
  BY <1>4 DEF KernelA, Reject, Kill, Pass, RespondStore, RespondClear
<1>5. ASSUME NEW t \in Tasks,
             BusClosed(t) \/ PayloadTooLarge(t) \/ ReceiveOpen(t) \/ Archive(t) \/ Reply(t)
      PROVE  GapInv'
  BY <1>5 DEF BusClosed, PayloadTooLarge, ReceiveOpen, Archive, Reply
<1>6. ASSUME NEW t \in Tasks, ReceiveLoad(t) PROVE GapInv'
  BY <1>6 DEF ReceiveLoad
\* No other task can be about to store the same number: numbers are unique.
<1>7. ASSUME NEW t \in Tasks, ReceiveStore(t) PROVE GapInv'
  BY <1>7 DEF ReceiveStore, SeqInv, Carrying
<1> QED
  BY <1>1, <1>2, <1>3, <1>4, <1>5, <1>6, <1>7 DEF Next, Serve, KernelB

\* payloads_passed grows by one exactly when a new number is received.
LEMMA CountStep ==
    ASSUME DataOK, SeqInv, CountInv, [Next]_vars PROVE CountInv'
<1>1. CASE \E t \in Tasks : ReceiveStore(t)
  <2>1. PICK t \in Tasks : ReceiveStore(t)
    BY <1>1
  <2>2. /\ seq[t] \notin delivered
        /\ delivered' = delivered \cup {seq[t]}
        /\ payloads_passed' = payloads_passed + 1
    BY <2>1 DEF SeqInv, Carrying, ReceiveStore
  <2> QED
    BY <2>2, FS_AddElement DEF CountInv
<1>2. CASE ~ \E t \in Tasks : ReceiveStore(t)
  <2>1. UNCHANGED <<delivered, payloads_passed>>
    BY <1>2 DEF Next, Tick, Maintenance, Reset, Pause, Resume, OperatorStore,
         OperatorClear, Reopen, Arrive, Connect, ReadFrame, ReadFails, Serve,
         Check, CheckLoad, CheckMiss, Shutdown, KernelA, Reject, Kill, Pass,
         RespondStore, RespondClear, KernelB, BusClosed, PayloadTooLarge,
         ReceiveOpen, ReceiveLoad, Archive, Reply, vars
  <2> QED
    BY <2>1 DEF CountInv
<1> QED
  BY <1>1, <1>2

\* Only the task that saw the watchdog trigger shuts the bus.
LEMMA KillStep ==
    ASSUME TypeOK, KillReachesBus, KillInv, [Next]_vars
    PROVE  KillReachesBus' /\ KillInv'
<1> USE DEF TypeOK, FlagsOK, DataOK, KillReachesBus, KillInv
<1>1. CASE Tick
  BY <1>1 DEF Tick
<1>2. CASE Maintenance
  BY <1>2 DEF Maintenance, Reset, Pause, Resume, OperatorStore, OperatorClear, Reopen
<1>3. ASSUME NEW t \in Tasks, Arrive(t) PROVE KillReachesBus' /\ KillInv'
  BY <1>3 DEF Arrive, Connect, ReadFrame, ReadFails
<1>4. ASSUME NEW t \in Tasks, Check(t) PROVE KillReachesBus' /\ KillInv'
  BY <1>4 DEF Check, CheckLoad, CheckMiss, Shutdown
<1>5. ASSUME NEW t \in Tasks, KernelA(t) PROVE KillReachesBus' /\ KillInv'
  BY <1>5 DEF KernelA, Reject, Kill, Pass, RespondStore, RespondClear
<1>6. ASSUME NEW t \in Tasks, KernelB(t) PROVE KillReachesBus' /\ KillInv'
  BY <1>6 DEF KernelB, BusClosed, PayloadTooLarge, ReceiveOpen, ReceiveLoad,
              ReceiveStore, Archive, Reply
<1>7. CASE UNCHANGED vars
  BY <1>7 DEF vars
<1> QED
  BY <1>1, <1>2, <1>3, <1>4, <1>5, <1>6, <1>7 DEF Next, Serve

\* The invariant holds when main.rs has set up bus and watchdog.
LEMMA InvInit == Init => AirlockInv
<1> SUFFICES ASSUME Init PROVE AirlockInv
  OBVIOUS
<1>1. FlagsOK
  BY DEF Init, FlagsOK
<1>2. DataOK
  BY TimeAssumption DEF TimeAssumption, Init, DataOK
<1>3. FrameInv
  BY DEF Init, FrameInv
<1>4. SeqInv /\ GapInv
  BY DEF Init, SeqInv, GapInv, Carrying
<1>5. CountInv
  BY FS_EmptySet DEF Init, CountInv
<1>6. KillReachesBus /\ KillInv
  BY DEF Init, KillReachesBus, KillInv
<1> QED
  BY <1>1, <1>2, <1>3, <1>4, <1>5, <1>6 DEF AirlockInv, TypeOK

\* Every step of tasks, clock and operator keeps the invariant.
LEMMA InvStep == AirlockInv /\ [Next]_vars => AirlockInv'
BY FlagsStep, DataStep, FrameStep, SeqStep, GapStep, CountStep, KillStep
   DEF AirlockInv, TypeOK

\* The inductive invariant of the airlock holds.
THEOREM Invariance == Spec => []AirlockInv
BY InvInit, InvStep, PTL DEF Spec

\* For any number of tasks: a payload lost on the bus shows up as a counted
\* gap, although `receive' is not atomic.
THEOREM NoLossUnnoticed == Spec => []NoGapNoLoss
<1>1. AirlockInv => NoGapNoLoss
  BY DEF AirlockInv, GapInv, NoGapNoLoss
<1> QED
  BY <1>1, Invariance, PTL

\* Kernel B receives every stamped payload at most once, and its counter says
\* how many it received.
THEOREM NoDoubleDelivery == Spec => []DeliveredOnce
<1>1. AirlockInv => DeliveredOnce
  BY DEF AirlockInv, CountInv, SeqInv, DeliveredOnce
<1> QED
  BY <1>1, Invariance, PTL

\* In main.rs, which has no operator, only the watchdog shuts the bus, and a
\* triggered watchdog always has a task that is shutting it.
THEOREM KillIsDelivered == Spec => []KillReachesBus
<1>1. AirlockInv => KillReachesBus
  BY DEF AirlockInv
<1> QED
  BY <1>1, Invariance, PTL

-----------------------------------------------------------------------------
(***************************************************************************)
(* The airlock implements the gate.                                        *)
(***************************************************************************)
gAnswer     == [t \in Tasks |-> AnswerOf(t)]
gAcceptable == [t \in Tasks |-> frame[t] # NoFrame /\ Clean(frame[t])]

\* Content does not change once a frame is read.
LEMMA SameContent ==
    ASSUME UNCHANGED <<profile, frame>> PROVE UNCHANGED gAcceptable
BY DEF gAcceptable, Clean, VerdictOn, JisAccepts

\* A step of task t changes the gate's view of t alone.
LEMMA OneAnswer ==
    ASSUME NEW t \in Tasks, DataOK, UNCHANGED profile,
           \A u \in Tasks \ {t} : /\ pc'[u] = pc[u] /\ frame'[u] = frame[u]
                                  /\ status'[u] = status[u]
    PROVE  gAnswer' = [gAnswer EXCEPT ![t] = AnswerOf(t)']
BY DEF gAnswer, AnswerOf, JisAccepts

\* What the steps of a task look like from the gate.
Refused(t) ==
    /\ gAnswer[t] = "waiting" /\ \E code \in Gate!Refusals : gAnswer' = [gAnswer EXCEPT ![t] = code]
    /\ (open' = open \/ open' = FALSE) /\ UNCHANGED gAcceptable
Admitted(t) ==
    /\ gAnswer[t] = "waiting" /\ open /\ gAcceptable[t]
    /\ gAnswer' = [gAnswer EXCEPT ![t] = "admitted"]
    /\ UNCHANGED <<open, gAcceptable>>
Granted(t) ==
    /\ gAnswer[t] = "admitted" /\ gAnswer' = [gAnswer EXCEPT ![t] = "200"]
    /\ UNCHANGED <<open, gAcceptable>>
Hidden == UNCHANGED <<open, gAnswer, gAcceptable>>

\* The four things a step can do to the gate's view are steps of the gate.
LEMMA ViewIsGateStep ==
    ASSUME NEW t \in Tasks, Refused(t) \/ Admitted(t) \/ Granted(t) \/ Hidden
    PROVE  [Gate!GateNext]_(Gate!gateVars)
BY DEF Refused, Admitted, Granted, Hidden, gAnswer, gAcceptable, Gate!GateNext,
       Gate!Refuse, Gate!Admit, Gate!Grant, Gate!gateVars

\* Every step of the airlock is a step of the gate, or is invisible to it.
LEMMA GateStep ==
    ASSUME TypeOK, FrameInv, FrameInv', [Next]_vars
    PROVE  [Gate!GateNext]_(Gate!gateVars)
<1> USE DEF TypeOK
<1>1. CASE Tick \/ UNCHANGED vars
  <2>1. UNCHANGED <<open, profile, pc, frame, status>>
    BY <1>1 DEF Tick, vars
  <2> QED
    BY <2>1, SameContent DEF Gate!gateVars, gAnswer, gAcceptable, AnswerOf, JisAccepts
<1>2. CASE Maintenance
  <2>1. UNCHANGED <<profile, pc, frame, status>> /\ (open' = TRUE \/ UNCHANGED open)
    BY <1>2 DEF Maintenance, Reset, Pause, Resume, OperatorStore, OperatorClear, Reopen
  <2>2. UNCHANGED gAnswer
    BY <2>1 DEF gAnswer, AnswerOf, JisAccepts
  <2> QED
    BY <2>1, <2>2, SameContent
       DEF Gate!gateVars, Gate!GateNext, Gate!OpenGate, gAnswer, gAcceptable
<1>3. ASSUME NEW t \in Tasks, Connect(t) \/ ReadFails(t)
      PROVE  [Gate!GateNext]_(Gate!gateVars)
  <2>1. Hidden
    BY <1>3, SameContent
       DEF Connect, ReadFails, Hidden, gAnswer, AnswerOf, JisAccepts, DataOK
  <2> QED
    BY <2>1, ViewIsGateStep
<1>4. ASSUME NEW t \in Tasks, CheckLoad(t) \/ CheckMiss(t) \/ Kill(t) \/ Pass(t) \/ RespondStore(t)
      PROVE  [Gate!GateNext]_(Gate!gateVars)
  <2>1. Hidden
    BY <1>4, SameContent
       DEF CheckLoad, CheckMiss, Kill, Pass, RespondStore, Hidden, gAnswer,
           AnswerOf, JisAccepts, DataOK
  <2> QED
    BY <2>1, ViewIsGateStep
<1>5. ASSUME NEW t \in Tasks, ReceiveLoad(t) \/ ReceiveStore(t)
      PROVE  [Gate!GateNext]_(Gate!gateVars)
  <2>1. Hidden
    BY <1>5, SameContent
       DEF ReceiveLoad, ReceiveStore, Hidden, gAnswer, AnswerOf, JisAccepts, DataOK
  <2> QED
    BY <2>1, ViewIsGateStep
<1>6. ASSUME NEW t \in Tasks, Shutdown(t) \/ Reject(t) \/ BusClosed(t) \/ PayloadTooLarge(t)
      PROVE  [Gate!GateNext]_(Gate!gateVars)
  <2>1. /\ UNCHANGED <<profile, frame>>
        /\ \A u \in Tasks \ {t} : pc'[u] = pc[u] /\ status'[u] = status[u]
        /\ pc[t] \in {"shutdown", "evaluate", "receive"}
        /\ status'[t] \in Gate!Refusals /\ (open' = open \/ open' = FALSE)
    BY <1>6 DEF Shutdown, Reject, BusClosed, PayloadTooLarge, DataOK, Gate!Refusals
  <2>2. gAnswer[t] = "waiting" /\ AnswerOf(t)' = status'[t]
    BY <2>1 DEF FrameInv, gAnswer, AnswerOf, Gate!Refusals
  <2>3. Refused(t)
    BY <2>1, <2>2, SameContent, OneAnswer DEF Refused
  <2> QED
    BY <2>3, ViewIsGateStep
<1>7. ASSUME NEW t \in Tasks, RespondClear(t)
      PROVE  [Gate!GateNext]_(Gate!gateVars)
  <2>0. /\ UNCHANGED <<profile, frame, open>>
        /\ \A u \in Tasks \ {t} : pc'[u] = pc[u] /\ status'[u] = status[u]
    BY <1>7 DEF RespondClear, DataOK
  <2>1. CASE VerdictOn(frame[t]) = "Kill"
    <3>1. gAnswer[t] = "waiting" /\ AnswerOf(t)' = "403"
      BY <1>7, <2>1 DEF RespondClear, FrameInv, gAnswer, AnswerOf, DataOK
    <3>2. Refused(t)
      BY <2>0, <3>1, SameContent, OneAnswer DEF Refused, Gate!Refusals
    <3> QED
      BY <3>2, ViewIsGateStep
  <2>2. CASE VerdictOn(frame[t]) # "Kill"
    <3>1. Hidden
      BY <1>7, <2>2, SameContent
         DEF RespondClear, Hidden, gAnswer, AnswerOf, JisAccepts, DataOK
    <3> QED
      BY <3>1, ViewIsGateStep
  <2> QED
    BY <2>1, <2>2
<1>8. ASSUME NEW t \in Tasks, ReadFrame(t)
      PROVE  [Gate!GateNext]_(Gate!gateVars)
  <2>1. /\ UNCHANGED <<profile, open, status>>
        /\ \A u \in Tasks \ {t} : pc'[u] = pc[u] /\ frame'[u] = frame[u]
        /\ pc[t] = "reading" /\ pc'[t] = "check"
    BY <1>8 DEF ReadFrame, DataOK
  <2>2. gAnswer[t] = "absent" /\ AnswerOf(t)' = "waiting"
    BY <2>1 DEF FrameInv, gAnswer, AnswerOf
  <2>3. gAnswer' = [gAnswer EXCEPT ![t] = "waiting"]
    BY <2>1, <2>2, OneAnswer
  <2>4. \E b \in BOOLEAN : gAcceptable' = [gAcceptable EXCEPT ![t] = b]
    <3> DEFINE b == (frame[t] # NoFrame /\ Clean(frame[t]))'
    <3>1. gAcceptable' = [gAcceptable EXCEPT ![t] = b]
      BY <2>1 DEF gAcceptable, Clean, VerdictOn, JisAccepts
    <3>2. b \in BOOLEAN
      OBVIOUS
    <3> QED
      BY <3>1, <3>2
  <2>5. Gate!Submit(t)
    BY <2>1, <2>2, <2>3, <2>4 DEF Gate!Submit, gAnswer, gAcceptable
  <2> QED
    BY <2>5 DEF Gate!GateNext
<1>9. ASSUME NEW t \in Tasks, ReceiveOpen(t)
      PROVE  [Gate!GateNext]_(Gate!gateVars)
  <2>0. /\ UNCHANGED <<profile, frame, open, status>> /\ open
        /\ \A u \in Tasks \ {t} : pc'[u] = pc[u]
        /\ pc[t] = "receive" /\ pc'[t] = "load"
    BY <1>9 DEF ReceiveOpen, DataOK
  <2>1. CASE JisAccepts(frame[t])
    <3>1. gAnswer[t] = "waiting" /\ AnswerOf(t)' = "admitted"
      BY <2>0, <2>1 DEF FrameInv, gAnswer, AnswerOf, JisAccepts
    <3>2. gAcceptable[t]
      BY <1>9, <2>0, <2>1 DEF ReceiveOpen, FrameInv, gAcceptable, Clean
    <3>3. Admitted(t)
      BY <2>0, <3>1, <3>2, SameContent, OneAnswer DEF Admitted
    <3> QED
      BY <3>3, ViewIsGateStep
  <2>2. CASE ~JisAccepts(frame[t])
    <3>1. Hidden
      BY <2>0, <2>2, SameContent DEF Hidden, gAnswer, AnswerOf, JisAccepts
    <3> QED
      BY <3>1, ViewIsGateStep
  <2> QED
    BY <2>1, <2>2
<1>10. ASSUME NEW t \in Tasks, Archive(t)
       PROVE  [Gate!GateNext]_(Gate!gateVars)
  <2>0. /\ UNCHANGED <<profile, frame, open>>
        /\ \A u \in Tasks \ {t} : pc'[u] = pc[u] /\ status'[u] = status[u]
    BY <1>10 DEF Archive, DataOK
  <2>1. CASE JisAccepts(frame[t])
    <3>1. Hidden
      BY <1>10, <2>1, SameContent
         DEF Archive, Hidden, gAnswer, AnswerOf, JisAccepts, DataOK
    <3> QED
      BY <3>1, ViewIsGateStep
  <2>2. CASE ~JisAccepts(frame[t])
    <3>1. gAnswer[t] = "waiting" /\ AnswerOf(t)' = "403"
      BY <1>10, <2>2 DEF Archive, FrameInv, gAnswer, AnswerOf, DataOK
    <3>2. Refused(t)
      BY <2>0, <3>1, SameContent, OneAnswer DEF Refused, Gate!Refusals
    <3> QED
      BY <3>2, ViewIsGateStep
  <2> QED
    BY <2>1, <2>2
<1>11. ASSUME NEW t \in Tasks, Reply(t)
       PROVE  [Gate!GateNext]_(Gate!gateVars)
  <2>1. /\ UNCHANGED <<profile, frame, open>>
        /\ \A u \in Tasks \ {t} : pc'[u] = pc[u] /\ status'[u] = status[u]
        /\ pc[t] = "reply" /\ status'[t] = "200"
    BY <1>11 DEF Reply, DataOK
  <2>2. gAnswer[t] = "admitted" /\ AnswerOf(t)' = "200"
    BY <2>1 DEF FrameInv, gAnswer, AnswerOf
  <2>3. Granted(t)
    BY <2>1, <2>2, SameContent, OneAnswer DEF Granted
  <2> QED
    BY <2>3, ViewIsGateStep
<1> QED
  BY <1>1, <1>2, <1>3, <1>4, <1>5, <1>6, <1>7, <1>8, <1>9, <1>10, <1>11
     DEF Next, Arrive, Serve, Check, KernelA, KernelB

\* Refinement: whatever the tasks' interleaving, the answers clients get are
\* those of a gate that grants only acceptable requests admitted while it was
\* open.
THEOREM Implementation == Spec => ImplementsGate
<1>1. Init => Gate!GateInit
  BY DEF Init, Gate!GateInit, AnswerOf
<1>2. AirlockInv /\ AirlockInv' /\ [Next]_vars => [Gate!GateNext]_(Gate!gateVars)
  BY GateStep DEF AirlockInv
<1> QED
  BY <1>1, <1>2, Invariance, PTL DEF Spec, ImplementsGate, Gate!GateSpec

-----------------------------------------------------------------------------
(***************************************************************************)
(* The layers that judge a connection.  Their tables are finite, so the    *)
(* theorems are facts about operators, for all first bytes and payloads,   *)
(* carried to the states of a connection by a small invariant.             *)
(***************************************************************************)
LEMMA WholeType == ASSUME NEW name PROVE Whole(name) \in Intents
<1>1. NoIntent \in Intents
  BY DEF NoIntent, Intents
<1>2. name \in KnownIntents => [name |-> name, exact |-> TRUE] \in Intents
  BY DEF Intents
<1> QED
  BY <1>1, <1>2 DEF Whole

LEMMA ContinuedType == ASSUME NEW name \in KnownIntents PROVE Continued(name) \in Intents
  BY DEF Continued, Intents

LEMMA DefaultType == ASSUME NEW port PROVE default_intent(port) \in Intents
<1>1. NoIntent \in Intents
  BY DEF NoIntent, Intents
<1> QED
  BY <1>1, WholeType DEF default_intent

LEMMA MethodKnown == ASSUME NEW m \in Methods PROVE MethodIntent[m] \in KnownIntents
  BY DEF Methods, MethodIntent, KnownIntents, HttpIntents

LEMMA DefaultKnown ==
    ASSUME NEW port \in protected_ports
    PROVE  default_intent(port).name \in KnownIntents <=> port \notin WebPorts
<1>1. port \in DOMAIN default_port_map
  BY DEF default_port_map, protected_ports, WebPorts, ShellPorts, HttpPorts, DbPorts
<1>2. CASE port \in WebPorts
  <2>1. default_port_map[port] = "http:request"
    BY <1>1, <1>2 DEF default_port_map, WebPorts, ShellPorts, HttpPorts, DbPorts
  <2>2. default_intent(port) = NoIntent
    BY <1>1, <2>1 DEF default_intent, Whole, KnownIntents, ShellIntents, HttpIntents, DbIntents,
                      DnsIntents
  <2> QED
    BY <2>2, <1>2 DEF NoIntent, UnknownIntent, KnownIntents, ShellIntents, HttpIntents, DbIntents,
                      DnsIntents
<1>3. CASE port \notin WebPorts
  <2>1. default_port_map[port] \in {"shell:command", "db:query", "mux:native", "ai:inference"}
    BY <1>1, <1>3 DEF default_port_map, protected_ports, WebPorts, ShellPorts, HttpPorts, DbPorts
  <2>2. default_port_map[port] \in KnownIntents
    BY <2>1 DEF KnownIntents, ShellIntents, HttpIntents, DbIntents, DnsIntents
  <2> QED
    BY <1>1, <1>3, <2>2 DEF default_intent, Whole
<1> QED
  BY <1>2, <1>3

LEMMA NotKnown == UnknownIntent \notin KnownIntents
  BY DEF UnknownIntent, KnownIntents, ShellIntents, HttpIntents, DbIntents, DnsIntents

\* An HTTP request gets an intent that Kernel A knows, whatever its path.
LEMMA HttpKnown ==
    ASSUME NEW port, NEW d \in Bytes, d.start \in Methods
    PROVE  HttpIntent(port, d) \in Intents /\ HttpIntent(port, d).name \in KnownIntents
<1>1. MethodIntent[d.start] \in KnownIntents
  BY MethodKnown
<1>2. {"http:api", "http:admin", "http:auth", "http:upload", "http:webhook"} \subseteq KnownIntents
  BY DEF KnownIntents, HttpIntents
<1>3. ASSUME NEW name \in KnownIntents
      PROVE  /\ Continued(name) \in Intents /\ Continued(name).name = name
             /\ Whole(name) \in Intents /\ Whole(name).name = name
  BY ContinuedType, WholeType DEF Continued, Whole
<1> QED
  BY <1>1, <1>2, <1>3 DEF HttpIntent

\* The arms of infer_intent that look at the bytes.
LEMMA BytesDecide ==
    ASSUME NEW port, NEW d \in Bytes, NEW i, i = infer_intent(port, d)
    PROVE  /\ i \in Intents
           /\ Recognised(d) => i.name \in KnownIntents
           /\ ~Recognised(d) /\ port # 53 => i = default_intent(port)
<1>1. {"shell:session", "tls:handshake", "db:connect", "db:redis", "dns:query"} \subseteq KnownIntents
  BY DEF KnownIntents, ShellIntents, DbIntents, DnsIntents
<1>2. ASSUME NEW name \in KnownIntents
      PROVE  /\ Continued(name) \in Intents /\ Continued(name).name = name
             /\ Whole(name) \in Intents /\ Whole(name).name = name
  BY ContinuedType, WholeType DEF Continued, Whole
<1>3. default_intent(port) \in Intents
  BY DefaultType
<1>4. d.start \in Methods => HttpIntent(port, d) \in Intents /\ HttpIntent(port, d).name \in KnownIntents
  BY HttpKnown
<1>5. \/ d.start = "SSH" /\ i = Whole("shell:session")
      \/ d.start \in Methods /\ i = HttpIntent(port, d)
      \/ Hello(d) /\ i = Whole("tls:handshake")
      \/ Startup(d) /\ i = Whole("db:connect")
      \/ d.start \in RespStarts /\ i = Continued("db:redis")
      \/ "lf" \in d.word /\ i = Whole("db:connect")
      \/ ~Recognised(d) /\ port = 53 /\ i = Whole("dns:query")
      \/ ~Recognised(d) /\ i = default_intent(port)
  BY DEF infer_intent, Recognised
<1>6. ~Recognised(d) => /\ d.start \notin Methods \cup RespStarts \cup {"SSH"}
                        /\ ~Hello(d) /\ ~Startup(d) /\ "lf" \notin d.word
  BY DEF Recognised
<1> QED
  BY <1>1, <1>2, <1>3, <1>4, <1>5, <1>6

\* The recognisers of filter and PortMux, and the table of Kernel A.
LEMMA MarkerRoutes ==
    ASSUME NEW port \in protected_ports, NEW d \in Bytes, has_intent_marker(d, port),
           d.start = "CONNECT" => d.word = {}
    PROVE  is_known_intent(infer_intent(port, d)) <=> ~(port \in WebPorts /\ OnlyMarked(d))
<1>1. PICK i : i = infer_intent(port, d)
  OBVIOUS
<1>2. port # 53
  BY DEF protected_ports
<1>3. /\ Recognised(d) => i.name \in KnownIntents
      /\ ~Recognised(d) => i = default_intent(port)
  BY <1>1, <1>2, BytesDecide
<1>4. ~Recognised(d) => (i.name \in KnownIntents <=> port \notin WebPorts)
  BY <1>3, DefaultKnown
<1>5. port \in WebPorts /\ ~Recognised(d) => OnlyMarked(d)
  <2>1. port \in WebPorts => d.start \in Methods \cup {"CONNECT", "tls"}
    BY DEF has_intent_marker, WebPorts
  <2> QED
    BY <2>1 DEF Recognised, Hello, OnlyMarked
<1>6. OnlyMarked(d) => ~Recognised(d)
  BY DEF OnlyMarked, Recognised, Hello, Startup, Methods, RespStarts
<1> QED
  BY <1>1, <1>3, <1>4, <1>5, <1>6 DEF is_known_intent

-----------------------------------------------------------------------------
(* The verdict of Kernel A. *)
LEMMA PatternTypes ==
    /\ Patterns = {"os_system", "subprocess", "curl", "wget", "bash", "bin_sh", "eval", "exec",
                   "ptrace", "mmap", "dlopen", "ld_preload", "fork", "clone", "mount", "reboot",
                   "kexec", "import_socket", "import_os", "dunder_import"}
    /\ PatternCall["mmap"] = "sys_mmap"
    /\ \A p \in Patterns \ {"mmap"} : PatternCall[p] \in ALWAYS_DANGEROUS
<1>1. Patterns = {"os_system", "subprocess", "curl", "wget", "bash", "bin_sh", "eval", "exec",
                  "ptrace", "mmap", "dlopen", "ld_preload", "fork", "clone", "mount", "reboot",
                  "kexec", "import_socket", "import_os", "dunder_import"}
  BY DEF Patterns, PatternCall
<1>2. PatternCall["mmap"] = "sys_mmap"
  BY DEF PatternCall
<1>3. ASSUME NEW p \in Patterns \ {"mmap"} PROVE PatternCall[p] \in ALWAYS_DANGEROUS
  BY <1>1 DEF PatternCall, ALWAYS_DANGEROUS
<1> QED
  BY <1>1, <1>2, <1>3

\* A clean run is allowed to every intent, mapped memory to two.
LEMMA AllowsCleanRun ==
    ASSUME NEW i \in Intents
    PROVE  /\ Violations(i, {"sys_execve"} \cup CleanRun) = {}
           /\ "sys_mmap" \notin ALWAYS_DANGEROUS
           /\ "sys_mmap" \in intent_allowlist(i) <=> i.name \in {"call:video", "ai:inference"}
<1>1. Violations(i, {"sys_execve"} \cup CleanRun) = {}
  BY DEF Violations, CleanRun, intent_allowlist, BaseAllowlist, ALWAYS_DANGEROUS
<1>2. "sys_mmap" \notin ALWAYS_DANGEROUS
  BY DEF ALWAYS_DANGEROUS
<1>3. "sys_mmap" \notin ExactExtra(i.name)
  BY DEF ExactExtra, FileCalls
<1>4. "sys_mmap" \in PrefixExtra(i.name) <=> i.name \in {"call:video", "ai:inference"}
  BY DEF PrefixExtra, FileCalls, NetCalls, ShellIntents, HttpIntents, DbIntents, DnsIntents
<1>5. "sys_mmap" \notin BaseAllowlist
  BY DEF BaseAllowlist
<1> QED
  BY <1>1, <1>2, <1>3, <1>4, <1>5 DEF intent_allowlist

LEMMA ViolationsGrow ==
    ASSUME NEW i, NEW S, NEW T
    PROVE  /\ Violations(i, S \cup T) = {} <=> Violations(i, S) = {} /\ Violations(i, T) = {}
           /\ S \subseteq T /\ Violations(i, T) = {} => Violations(i, S) = {}
  BY DEF Violations

\* The dry-run kills for what its scan finds.
LEMMA ScanDecides ==
    ASSUME NEW i \in Intents, NEW found \in SUBSET Patterns
    PROVE  Violations(i, dry_run_syscalls(i, found)) # {}
              <=> Violations(i, {PatternCall[p] : p \in found}) # {}
<1> DEFINE calls == {PatternCall[p] : p \in found}
<1> DEFINE scanned == {"sys_execve"} \cup calls
<1> HIDE DEF calls
<1>1. Violations(i, {"sys_execve"} \cup CleanRun) = {}
  BY AllowsCleanRun
<1>2. Violations(i, {"sys_execve"}) = {} /\ Violations(i, CleanRun) = {}
  BY <1>1, ViolationsGrow
<1>3. Violations(i, scanned) = {} <=> Violations(i, calls) = {}
  BY <1>2, ViolationsGrow
<1> HIDE DEF scanned
<1>4. dry_run_syscalls(i, found) = IF Violations(i, scanned) = {} THEN scanned \cup CleanRun ELSE scanned
  BY DEF dry_run_syscalls, scanned, calls
<1>5. Violations(i, scanned \cup CleanRun) = {} <=> Violations(i, scanned) = {}
  BY <1>2, ViolationsGrow
<1> QED
  BY <1>3, <1>4, <1>5 DEF calls

LEMMA CallsViolate ==
    ASSUME NEW i \in Intents, NEW found \in SUBSET Patterns
    PROVE  Violations(i, {PatternCall[p] : p \in found}) # {}
              <=> \E p \in found : p # "mmap" \/ i.name \notin {"call:video", "ai:inference"}
<1>1. ASSUME NEW p \in found
      PROVE  (PatternCall[p] \in ALWAYS_DANGEROUS \/ PatternCall[p] \notin intent_allowlist(i))
                <=> p # "mmap" \/ i.name \notin {"call:video", "ai:inference"}
  <2>1. CASE p = "mmap"
    BY <2>1, PatternTypes, AllowsCleanRun
  <2>2. CASE p # "mmap"
    BY <2>2, PatternTypes
  <2> QED
    BY <2>1, <2>2
<1>2. Violations(i, {PatternCall[p] : p \in found}) # {}
        <=> \E p \in found : PatternCall[p] \in ALWAYS_DANGEROUS \/ PatternCall[p] \notin intent_allowlist(i)
  BY Zenon DEF Violations
<1> QED
  BY <1>1, <1>2

LEMMA DryRunKills ==
    ASSUME NEW i \in Intents, NEW found \in SUBSET Patterns, is_known_intent(i)
    PROVE  Verdict(TRUE, i, found) = "Kill"
              <=> \E p \in found : p # "mmap" \/ i.name \notin {"call:video", "ai:inference"}
<1>1. Verdict(TRUE, i, found) = "Kill" <=> Violations(i, dry_run_syscalls(i, found)) # {}
  BY DEF Verdict, Observed
<1> QED
  BY <1>1, ScanDecides, CallsViolate

LEMMA FastKills ==
    ASSUME NEW i \in Intents, NEW found \in SUBSET Patterns, Verdict(FALSE, i, found) = "Kill"
    PROVE  Verdict(TRUE, i, found) = "Kill"
<1>1. is_known_intent(i) /\ Violations(i, pattern_check_only(found)) # {}
  BY DEF Verdict, Observed
<1> DEFINE critical == {PatternCall[p] : p \in found \cap CriticalPatterns}
<1> DEFINE calls == {PatternCall[p] : p \in found}
<1>2. pattern_check_only(found) = {"sys_execve"} \cup critical
  BY DEF pattern_check_only
<1>3. critical \subseteq calls
  OBVIOUS
<1>4. Violations(i, {"sys_execve"} \cup CleanRun) = {}
  BY AllowsCleanRun
<1>5. Violations(i, dry_run_syscalls(i, found)) # {} <=> Violations(i, calls) # {}
  BY ScanDecides
<1> HIDE DEF critical, calls
<1>6. Violations(i, calls) # {}
  <2>1. Violations(i, {"sys_execve"}) = {}
    BY <1>4, ViolationsGrow
  <2>2. Violations(i, {"sys_execve"} \cup critical) # {}
    BY <1>1, <1>2
  <2>3. Violations(i, critical) # {}
    BY <2>1, <2>2, ViolationsGrow
  <2> QED
    BY <2>3, <1>3 DEF Violations
<1> QED
  BY <1>1, <1>5, <1>6 DEF Verdict, Observed

-----------------------------------------------------------------------------
\* What is known of a connection when it is judged.
LayersInv ==
    /\ data \in Bytes /\ intent \in Intents /\ payload \in SUBSET Patterns
    /\ data.start = "CONNECT" => data.word = {}
    /\ marked => packet.port \in protected_ports /\ has_intent_marker(data, packet.port)
    /\ stage = "judged" => intent = infer_intent(packet.port, data)

LEMMA LayersInitInv == LayersInit => LayersInv
<1>1. NoIntent \in Intents
  BY DEF NoIntent, Intents
<1>2. ASSUME IngressInit PROVE LayersInv
  <2>1. data \in Bytes /\ (data.start = "CONNECT" => data.word = {})
    BY <1>2, BytesAssumption DEF IngressInit
  <2> QED
    BY <2>1, <1>1, <1>2 DEF IngressInit, LayersInv
<1>3. ASSUME InitNative PROVE LayersInv
  <2>1. PICK size \in {3, 4, 12} : size = 12
    OBVIOUS
  <2>2. "json" \in Starts
    BY DEF Starts
  <2>3. data = [start |-> "json", word |-> {}, size |-> size, path |-> {}, patterns |-> {},
                whole |-> TRUE, exploit |-> FALSE]
    BY <2>1, <1>3 DEF InitNative, Plain
  <2>4. data \in Bytes /\ data.word = {}
    BY <2>2, <2>3 DEF Bytes, Words
  <2> QED
    BY <2>4, <1>3 DEF InitNative, LayersInv
<1> QED
  BY <1>2, <1>3 DEF LayersInit

LEMMA LayersNextInv == LayersInv /\ [LayersNext]_ingressVars => LayersInv'
<1> SUFFICES ASSUME LayersInv, [LayersNext]_ingressVars PROVE LayersInv'
  OBVIOUS
<1>1. CASE Classify
  <2>1. UNCHANGED <<packet, data, intent, payload>> /\ stage' # "judged"
    BY <1>1 DEF Classify
  <2>2. ASSUME marked' PROVE packet.port \in protected_ports /\ has_intent_marker(data, packet.port)
    <3>1. classify = "Pass" /\ AsksForMarker /\ "allow" \notin packet.lists
      BY <1>1, <2>2 DEF Classify
    <3> QED
      BY <3>1 DEF classify
  <2> QED
    BY <2>1, <2>2 DEF LayersInv
<1>2. CASE \/ Retransmit \/ PeekFails \/ PeekPanics \/ Process \/ Finish
           \/ \E dryrun \in BOOLEAN : Evaluate(dryrun)
  <2>1. UNCHANGED <<packet, data, marked, intent, payload>> /\ stage' # "judged"
    BY <1>2 DEF Retransmit, PeekFails, PeekPanics, Process, Finish, Evaluate
  <2> QED
    BY <2>1 DEF LayersInv
<1>3. CASE Forward
  <2>1. UNCHANGED <<packet, data, marked, intent, payload>> /\ stage' # "judged"
    BY <1>3 DEF Forward
  <2> QED
    BY <2>1 DEF LayersInv
<1>4. CASE SwitchFilter \/ shutdown \/ UNCHANGED ingressVars
  <2>1. UNCHANGED <<packet, data, marked, intent, payload, stage>>
    BY <1>4 DEF SwitchFilter, shutdown, ingressVars
  <2> QED
    BY <2>1 DEF LayersInv
<1>5. CASE Peek
  <2>1. /\ UNCHANGED <<packet, data, marked>> /\ intent' = infer_intent(packet.port, data)
        /\ payload' = preview(data)
    BY <1>5 DEF Peek
  <2>2. data \in Bytes
    BY DEF LayersInv
  <2>3. infer_intent(packet.port, data) \in Intents
    BY <2>2, BytesDecide
  <2>4. preview(data) \in SUBSET Patterns
    BY <2>2 DEF Bytes, preview
  <2> QED
    BY <2>1, <2>3, <2>4 DEF LayersInv
<1>6. ASSUME NEW p \in Patterns \ payload, Grow(p) PROVE LayersInv'
  <2>1. /\ UNCHANGED <<packet, data, marked, intent, stage>> /\ stage # "judged"
        /\ payload' = payload \cup {p}
    BY <1>6 DEF Grow
  <2>2. payload' \in SUBSET Patterns
    BY <2>1 DEF LayersInv
  <2> QED
    BY <2>1, <2>2 DEF LayersInv
<1> QED
  BY <1>1, <1>2, <1>3, <1>4, <1>5, <1>6 DEF LayersNext, IngressNext

\* A connection keeps what was found out about it: its marker was found in its
\* own bytes on a protected port, its intent was inferred from these bytes.
THEOREM LayersInvariance == LayersSpec => []LayersInv
  BY LayersInitInv, LayersNextInv, PTL DEF LayersSpec

\* For every port and all first bytes: what the filter lets in for its marker
\* is known to Kernel A, but on the web ports for CONNECT and for TLS records
\* that are neither a ClientHello nor taken for a greeting of MySQL (xdp.rs:342, portmux.rs:66, voorproever.rs:207).
THEOREM MarkersAreRouted == LayersSpec => []MarkedIsRouted
<1>1. ASSUME LayersInv PROVE MarkedIsRouted
  <2>1. SUFFICES ASSUME marked, stage = "judged"
                 PROVE  Verdict(TRUE, intent, payload) = "Reject"
                           <=> packet.port \in WebPorts /\ OnlyMarked(data)
    BY DEF MarkedIsRouted
  <2>2. PICK port, d : port = packet.port /\ d = data
    OBVIOUS
  <2>3. /\ port \in protected_ports /\ d \in Bytes /\ has_intent_marker(d, port)
        /\ d.start = "CONNECT" => d.word = {}
        /\ intent = infer_intent(port, d)
    BY <1>1, <2>1, <2>2 DEF LayersInv
  <2>4. is_known_intent(infer_intent(port, d))
           <=> ~(port \in WebPorts /\ OnlyMarked(d))
    BY <2>3, MarkerRoutes
  <2>5. Verdict(TRUE, intent, payload) = "Reject" <=> ~is_known_intent(intent)
    BY DEF Verdict
  <2> QED
    BY <2>2, <2>3, <2>4, <2>5
<1> QED
  BY <1>1, LayersInvariance, PTL

\* For every intent and every payload: the full dry-run kills a frame exactly
\* for a pattern other than mmap, or for mmap under an intent that does not
\* allow it; the simulated clean run never counts (voorproever.rs:176).
THEOREM DryRunKillsForPatterns == LayersSpec => []DryRunReference
<1>1. ASSUME LayersInv PROVE DryRunReference
  <2>1. intent \in Intents /\ payload \in SUBSET Patterns
    BY <1>1 DEF LayersInv
  <2> QED
    BY <2>1, DryRunKills DEF DryRunReference
<1> QED
  BY <1>1, LayersInvariance, PTL

\* For every intent and every payload: what fast mode kills, the full dry-run
\* kills (voorproever.rs:148, 278).
THEOREM FastModeKillsLess == LayersSpec => []DryRunIsStricter
<1>1. ASSUME LayersInv PROVE DryRunIsStricter
  <2>1. intent \in Intents /\ payload \in SUBSET Patterns
    BY <1>1 DEF LayersInv
  <2> QED
    BY <2>1, FastKills DEF DryRunIsStricter
<1> QED
  BY <1>1, LayersInvariance, PTL

-----------------------------------------------------------------------------
(***************************************************************************)
(* The filter: what the kernel does with the program of any list that fits *)
(* the jumps, which are bytes.                                             *)
(***************************************************************************)
LEMMA Minimum ==
    ASSUME NEW T \in SUBSET Nat, T # {} PROVE \E x \in T : \A y \in T : x <= y
<1> DEFINE Less == OpToRel(<, Nat)
<1>1. IsWellFoundedOn(Less, Nat)
  BY NatLessThanWellFounded
<1> HIDE DEF Less
<1>2. PICK x \in T : \A y \in T : ~(<<y, x>> \in Less)
  BY <1>1, T \subseteq Nat, WFMin, Zenon
<1>3. \A m, n \in Nat : m < n => <<m, n>> \in Less
  <2>1. Less = {ss \in Nat \X Nat : ss[1] < ss[2]}
    BY DEF OpToRel, Less
  <2> QED
    BY <2>1
<1>4. ASSUME NEW y \in T PROVE x <= y
  <2>1. x \in Nat /\ y \in Nat /\ ~(<<y, x>> \in Less)
    BY <1>2
  <2> QED
    BY <1>3, <2>1
<1> QED
  BY <1>4

\* Three instructions, a list of n, and two.
SplicedOf(s, a, b, c, n, f, x, y) ==
    /\ Len(s) = n + 5 /\ s[1] = a /\ s[2] = b /\ s[3] = c
    /\ \A i \in 1 .. n : s[i + 3] = f[i]
    /\ s[n + 4] = x /\ s[n + 5] = y

LEMMA Spliced ==
    ASSUME NEW S, NEW a \in S, NEW b \in S, NEW c \in S, NEW x \in S, NEW y \in S,
           NEW n \in Nat, NEW f \in [1 .. n -> S], NEW s, s = <<a, b, c>> \o f \o <<x, y>>
    PROVE  SplicedOf(s, a, b, c, n, f, x, y)
<1>1. f \in Seq(S) /\ Len(f) = n
  <2>1. f \in Seq(S)
    BY SeqDef
  <2>2. DOMAIN f = 1 .. n /\ DOMAIN f = 1 .. Len(f) /\ Len(f) \in Nat
    BY <2>1, LenProperties
  <2>3. (n \in 1 .. n \/ n = 0) /\ (Len(f) \in 1 .. Len(f) \/ Len(f) = 0)
    BY <2>2
  <2> QED
    BY <2>1, <2>2, <2>3
<1>2. <<a, b, c>> \in Seq(S) /\ <<x, y>> \in Seq(S)
  OBVIOUS
<1>3. PICK h \in Seq(S) : h = <<a, b, c>> /\ Len(h) = 3 /\ h[1] = a /\ h[2] = b /\ h[3] = c
  BY <1>2
<1>4. PICK u \in Seq(S) : u = <<x, y>> /\ Len(u) = 2 /\ u[1] = x /\ u[2] = y
  BY <1>2
<1>5. Len(u) = 2 /\ u[1] = x /\ u[2] = y
  BY <1>4
<1>6. PICK g \in Seq(S) : g = h \o f
  BY <1>1, ConcatProperties
<1>7. Len(g) = n + 3 /\ \A i \in 1 .. (n + 3) : g[i] = IF i <= 3 THEN h[i] ELSE f[i - 3]
  <2>1. /\ Len(g) = Len(h) + Len(f)
        /\ \A i \in 1 .. Len(h) + Len(f) : g[i] = IF i <= Len(h) THEN h[i] ELSE f[i - Len(h)]
    BY <1>1, <1>6, ConcatProperties
  <2>2. Len(h) + Len(f) = n + 3
    BY <1>1, <1>3
  <2>3. Len(g) = n + 3
    BY <2>1, <2>2
  <2>4. ASSUME NEW i \in 1 .. (n + 3) PROVE g[i] = IF i <= 3 THEN h[i] ELSE f[i - 3]
    <3>1. g[i] = IF i <= Len(h) THEN h[i] ELSE f[i - Len(h)]
      BY <2>1, <2>2
    <3> QED
      BY <3>1, <1>3
  <2> QED
    BY <2>3, <2>4
<1>8. s = g \o u
  BY <1>3, <1>4, <1>6
<1>9. Len(s) = n + 5 /\ \A i \in 1 .. (n + 5) : s[i] = IF i <= n + 3 THEN g[i] ELSE u[i - (n + 3)]
  <2>1. /\ Len(s) = Len(g) + Len(u)
        /\ \A i \in 1 .. Len(g) + Len(u) : s[i] = IF i <= Len(g) THEN g[i] ELSE u[i - Len(g)]
    <3>1. g \in Seq(S) /\ u \in Seq(S)
      OBVIOUS
    <3> QED
      BY ONLY <3>1, <1>8, ConcatProperties
  <2>2. Len(g) + Len(u) = n + 5
    BY <1>5, <1>7
  <2>3. Len(s) = n + 5
    BY <2>1, <2>2
  <2>4. ASSUME NEW i \in 1 .. (n + 5) PROVE s[i] = IF i <= n + 3 THEN g[i] ELSE u[i - (n + 3)]
    <3>1. s[i] = IF i <= Len(g) THEN g[i] ELSE u[i - Len(g)]
      BY <2>1, <2>2
    <3> QED
      BY <3>1, <1>7
  <2> QED
    BY <2>3, <2>4
<1>10. s[1] = a /\ s[2] = b /\ s[3] = c
  BY <1>3, <1>7, <1>9
<1>11. ASSUME NEW i \in 1 .. n PROVE s[i + 3] = f[i]
  <2>1. i + 3 \in 1 .. (n + 3) /\ i + 3 \in 1 .. (n + 5) /\ i + 3 <= n + 3 /\ ~(i + 3 <= 3)
        /\ (i + 3) - 3 = i
    OBVIOUS
  <2> QED
    BY <2>1, <1>7, <1>9
<1>12. s[n + 4] = x /\ s[n + 5] = y
  <2>1. /\ n + 4 \in 1 .. (n + 5) /\ ~(n + 4 <= n + 3) /\ (n + 4) - (n + 3) = 1
        /\ n + 5 \in 1 .. (n + 5) /\ ~(n + 5 <= n + 3) /\ (n + 5) - (n + 3) = 2
    OBVIOUS
  <2> QED
    BY <2>1, <1>5, <1>9
<1> QED
  BY <1>9, <1>10, <1>11, <1>12 DEF SplicedOf

\* The program, instruction by instruction.
IsProgram(program, allowed, n) ==
    /\ Len(program) = n + 5
    /\ program[1] = Load("arch") /\ program[2] = Jeq("x86_64", 0, n + 1) /\ program[3] = Load("nr")
    /\ \A i \in 1 .. n : program[i + 3] = Jeq(allowed[i], n - i + 1, 0)
    /\ program[n + 4] = Ret("kill") /\ program[n + 5] = Ret("allow")

LEMMA SmallJump == ASSUME NEW k \in Nat, k < 256 PROVE k % 256 = k
  OBVIOUS

LEMMA ProgramParts ==
    ASSUME NEW allowed, NEW n \in Nat, Len(allowed) = n, n < 255
    PROVE  IsProgram(generate_bpf(allowed), allowed, n)
<1> DEFINE J(i) == Jeq(allowed[i], (n - i + 1) % 256, 0)
<1> DEFINE f == [i \in 1 .. n |-> J(i)]
<1> DEFINE jump == Jeq("x86_64", 0, (n + 1) % 256)
<1> DEFINE S == {Load("arch"), jump, Load("nr"), Ret("kill"), Ret("allow")} \cup {J(i) : i \in 1 .. n}
<1>1. generate_bpf(allowed) = <<Load("arch"), jump, Load("nr")>> \o f \o <<Ret("kill"), Ret("allow")>>
  BY DEF generate_bpf
<1>2. f \in [1 .. n -> S]
  <2> HIDE DEF J
  <2> QED
    OBVIOUS
<1>3. Load("arch") \in S /\ jump \in S /\ Load("nr") \in S /\ Ret("kill") \in S /\ Ret("allow") \in S
  OBVIOUS
<1>4. jump = Jeq("x86_64", 0, n + 1)
  <2>1. (n + 1) % 256 = n + 1
    BY SmallJump
  <2> QED
    BY <2>1
<1>5. ASSUME NEW i \in 1 .. n PROVE f[i] = Jeq(allowed[i], n - i + 1, 0)
  <2>1. n - i + 1 \in Nat /\ n - i + 1 < 256
    OBVIOUS
  <2>2. (n - i + 1) % 256 = n - i + 1
    BY <2>1, SmallJump
  <2> QED
    BY <2>2
<1> HIDE DEF f, jump, S, J
<1>6. PICK program : program = generate_bpf(allowed)
  OBVIOUS
<1>7. /\ Len(program) = n + 5 /\ program[1] = Load("arch") /\ program[2] = jump
      /\ program[3] = Load("nr") /\ (\A i \in 1 .. n : program[i + 3] = f[i])
      /\ program[n + 4] = Ret("kill") /\ program[n + 5] = Ret("allow")
  <2>1. SplicedOf(program, Load("arch"), jump, Load("nr"), n, f, Ret("kill"), Ret("allow"))
    <3>1. program = <<Load("arch"), jump, Load("nr")>> \o f \o <<Ret("kill"), Ret("allow")>>
      BY <1>1, <1>6, Zenon
    <3>2. n \in Nat
      OBVIOUS
    <3> QED
      BY ONLY <1>2, <1>3, <3>1, <3>2, Spliced, Zenon
  <2> QED
    BY <2>1, Zenon DEF SplicedOf
<1> QED
  BY <1>4, <1>5, <1>6, <1>7 DEF IsProgram

\* g answers from each place of the program as the machine does.
Runs(program, arch, nr, g) ==
    g = [place \in 1 .. Len(program) |->
            [field \in Fields |-> Instruction(g, program[place], place, field, arch, nr)]]

LEMMA ExecutedRuns ==
    ASSUME NEW program, NEW arch, NEW nr
    PROVE  Executed(program, arch, nr) = (CHOOSE g : Runs(program, arch, nr, g))[1]["none"]
  BY Zenon DEF Executed, Runs

LEMMA RetStep ==
    ASSUME NEW g, NEW place, NEW field, NEW arch, NEW nr, NEW k
    PROVE  Instruction(g, Ret(k), place, field, arch, nr) = k
  BY DEF Instruction, Ret

LEMMA LoadStep ==
    ASSUME NEW g, NEW place, NEW field, NEW arch, NEW nr, NEW k
    PROVE  Instruction(g, Load(k), place, field, arch, nr) = g[place + 1][k]
  BY DEF Instruction, Load

LEMMA JeqStep ==
    ASSUME NEW g, NEW place, NEW field, NEW arch, NEW nr, NEW k, NEW jt, NEW jf
    PROVE  Instruction(g, Jeq(k, jt, jf), place, field, arch, nr)
              = g[place + 1 + IF Loaded(field, arch, nr) = k THEN jt ELSE jf][field]
  BY DEF Instruction, Jeq

\* The step from each kind of place.
LEMMA StepFrom ==
    ASSUME NEW program, NEW allowed, NEW n \in Nat, IsProgram(program, allowed, n),
           NEW g, NEW field, NEW arch, NEW nr,
           NEW St, \A place \in 1 .. (n + 5) :
                      St[place] = Instruction(g, program[place], place, field, arch, nr)
    PROVE  /\ St[1] = g[2]["arch"] /\ St[3] = g[4]["nr"]
           /\ St[2] = IF Loaded(field, arch, nr) = "x86_64" THEN g[3][field] ELSE g[n + 4][field]
           /\ \A i \in 1 .. n : St[i + 3] = IF Loaded(field, arch, nr) = allowed[i]
                                            THEN g[n + 5][field] ELSE g[i + 4][field]
           /\ St[n + 4] = "kill" /\ St[n + 5] = "allow"
<1>1. 1 \in 1 .. (n + 5) /\ 2 \in 1 .. (n + 5) /\ 3 \in 1 .. (n + 5)
      /\ n + 4 \in 1 .. (n + 5) /\ n + 5 \in 1 .. (n + 5)
  OBVIOUS
<1>2. /\ program[1] = Load("arch") /\ program[2] = Jeq("x86_64", 0, n + 1) /\ program[3] = Load("nr")
      /\ program[n + 4] = Ret("kill") /\ program[n + 5] = Ret("allow")
  BY DEF IsProgram
<1>3. St[1] = g[1 + 1]["arch"] /\ St[3] = g[3 + 1]["nr"]
  <2>1. Instruction(g, Load("arch"), 1, field, arch, nr) = g[1 + 1]["arch"]
    BY LoadStep
  <2>2. Instruction(g, Load("nr"), 3, field, arch, nr) = g[3 + 1]["nr"]
    BY LoadStep
  <2> QED
    BY <2>1, <2>2, <1>1, <1>2
<1>4. St[n + 4] = "kill" /\ St[n + 5] = "allow"
  <2>1. Instruction(g, Ret("kill"), n + 4, field, arch, nr) = "kill"
    BY RetStep
  <2>2. Instruction(g, Ret("allow"), n + 5, field, arch, nr) = "allow"
    BY RetStep
  <2> QED
    BY <2>1, <2>2, <1>1, <1>2
<1>5. St[2] = g[2 + 1 + IF Loaded(field, arch, nr) = "x86_64" THEN 0 ELSE n + 1][field]
  <2>1. Instruction(g, Jeq("x86_64", 0, n + 1), 2, field, arch, nr)
           = g[2 + 1 + IF Loaded(field, arch, nr) = "x86_64" THEN 0 ELSE n + 1][field]
    BY JeqStep
  <2> QED
    BY <2>1, <1>1, <1>2
<1>6. St[2] = IF Loaded(field, arch, nr) = "x86_64" THEN g[3][field] ELSE g[n + 4][field]
  <2>1. 2 + 1 + 0 = 3 /\ 2 + 1 + (n + 1) = n + 4
    OBVIOUS
  <2> QED
    BY <1>5, <2>1
<1>7. ASSUME NEW i \in 1 .. n
      PROVE  St[i + 3] = IF Loaded(field, arch, nr) = allowed[i]
                         THEN g[n + 5][field] ELSE g[i + 4][field]
  <2>1. i + 3 \in 1 .. (n + 5) /\ program[i + 3] = Jeq(allowed[i], n - i + 1, 0)
    BY DEF IsProgram
  <2>2. St[i + 3] = g[(i + 3) + 1 + IF Loaded(field, arch, nr) = allowed[i] THEN n - i + 1 ELSE 0][field]
    <3>1. Instruction(g, Jeq(allowed[i], n - i + 1, 0), i + 3, field, arch, nr)
            = g[(i + 3) + 1 + IF Loaded(field, arch, nr) = allowed[i] THEN n - i + 1 ELSE 0][field]
      BY JeqStep
    <3> QED
      BY <3>1, <2>1
  <2>3. (i + 3) + 1 + (n - i + 1) = n + 5 /\ (i + 3) + 1 + 0 = i + 4
    OBVIOUS
  <2> QED
    BY <2>2, <2>3
<1>8. 1 + 1 = 2 /\ 3 + 1 = 4
  OBVIOUS
<1> QED
  BY <1>3, <1>4, <1>6, <1>7, <1>8

\* What the program answers from its i-th comparison on, for a loaded value x.
From(allowed, i, n, x) == IF \E j \in i .. n : allowed[j] = x THEN "allow" ELSE "kill"

LEMMA FromNext ==
    ASSUME NEW allowed, NEW n \in Nat, NEW x
    PROVE  /\ From(allowed, n + 1, n, x) = "kill"
           /\ \A i \in 1 .. n : From(allowed, i, n, x)
                = IF x = allowed[i] THEN "allow" ELSE From(allowed, i + 1, n, x)
<1>1. \A j \in (n + 1) .. n : FALSE
  OBVIOUS
<1>2. From(allowed, n + 1, n, x) = "kill"
  BY <1>1 DEF From
<1>3. ASSUME NEW i \in 1 .. n
      PROVE  From(allowed, i, n, x) = IF x = allowed[i] THEN "allow" ELSE From(allowed, i + 1, n, x)
  <2>1. i \in i .. n /\ \A j : j \in i .. n <=> j = i \/ j \in (i + 1) .. n
    OBVIOUS
  <2> QED
    BY <2>1 DEF From
<1> QED
  BY <1>2, <1>3

\* The answer of the whole program.
Answered(allowed, n, arch, nr) == IF arch = "x86_64" THEN From(allowed, 1, n, nr) ELSE "kill"

\* A machine that answers as the program says does nothing else: by induction
\* from the last comparison back to the first.
LEMMA RunAnswers ==
    ASSUME NEW program, NEW allowed, NEW n \in Nat, IsProgram(program, allowed, n),
           NEW arch, NEW nr, NEW g, Runs(program, arch, nr, g)
    PROVE  g[1]["none"] = Answered(allowed, n, arch, nr)
<1>1. Len(program) = n + 5
  BY DEF IsProgram
<1>2. ASSUME NEW place \in 1 .. (n + 5), NEW field \in Fields
      PROVE  g[place][field] = Instruction(g, program[place], place, field, arch, nr)
  <2>1. place \in 1 .. Len(program)
    BY <1>1
  <2>2. g[place] = [f \in Fields |-> Instruction(g, program[place], place, f, arch, nr)]
    BY <2>1, Zenon DEF Runs
  <2> QED
    BY <2>2, Zenon
<1>3. ASSUME NEW field \in Fields
      PROVE  /\ g[1][field] = g[2]["arch"] /\ g[3][field] = g[4]["nr"]
             /\ g[2][field] = IF Loaded(field, arch, nr) = "x86_64" THEN g[3][field] ELSE g[n + 4][field]
             /\ \A i \in 1 .. n : g[i + 3][field] = IF Loaded(field, arch, nr) = allowed[i]
                                                    THEN g[n + 5][field] ELSE g[i + 4][field]
             /\ g[n + 4][field] = "kill" /\ g[n + 5][field] = "allow"
  <2> DEFINE St == [place \in 1 .. (n + 5) |-> g[place][field]]
  <2>1. \A place \in 1 .. (n + 5) : St[place] = g[place][field]
    OBVIOUS
  <2>2. 1 \in 1 .. (n + 5) /\ 2 \in 1 .. (n + 5) /\ 3 \in 1 .. (n + 5)
        /\ n + 4 \in 1 .. (n + 5) /\ n + 5 \in 1 .. (n + 5) /\ \A i \in 1 .. n : i + 3 \in 1 .. (n + 5)
    OBVIOUS
  <2> HIDE DEF St
  <2>3. \A place \in 1 .. (n + 5) :
           St[place] = Instruction(g, program[place], place, field, arch, nr)
    BY <1>2, <2>1
  <2>4. /\ St[1] = g[2]["arch"] /\ St[3] = g[4]["nr"]
        /\ St[2] = IF Loaded(field, arch, nr) = "x86_64" THEN g[3][field] ELSE g[n + 4][field]
        /\ \A i \in 1 .. n : St[i + 3] = IF Loaded(field, arch, nr) = allowed[i]
                                         THEN g[n + 5][field] ELSE g[i + 4][field]
        /\ St[n + 4] = "kill" /\ St[n + 5] = "allow"
    BY <2>3, StepFrom
  <2> QED
    BY <2>1, <2>2, <2>4
<1>4. {"none", "arch", "nr"} \subseteq Fields
  BY DEF Fields
<1> DEFINE T == {m \in 0 .. n : g[(n + 1 - m) + 3]["nr"] # From(allowed, n + 1 - m, n, nr)}
<1>5. T = {}
  <2>1. SUFFICES ASSUME T # {} PROVE FALSE
    OBVIOUS
  <2>2. T \in SUBSET Nat
    OBVIOUS
  <2>3. PICK m \in T : \A y \in T : m <= y
    BY <2>1, <2>2, Minimum
  <2>4. m \in 0 .. n /\ g[(n + 1 - m) + 3]["nr"] # From(allowed, n + 1 - m, n, nr)
    BY <2>3
  <2>5. \A y \in 0 .. n : y < m => g[(n + 1 - y) + 3]["nr"] = From(allowed, n + 1 - y, n, nr)
    BY <2>3
  <2> HIDE DEF T
  <2>6. m # 0
    <3>1. (n + 1 - 0) + 3 = n + 4 /\ n + 1 - 0 = n + 1
      OBVIOUS
    <3>2. "nr" \in Fields
      BY <1>4
    <3>3. g[n + 4]["nr"] = "kill"
      BY <3>2, <1>3
    <3>4. From(allowed, n + 1, n, nr) = "kill"
      BY FromNext
    <3> QED
      BY <3>1, <3>3, <3>4, <2>4
  <2>7. PICK i \in 1 .. n : i = n + 1 - m
    BY <2>4, <2>6
  <2>8. m - 1 \in 0 .. n /\ m - 1 < m /\ n + 1 - (m - 1) = i + 1 /\ (i + 1) + 3 = i + 4
    BY <2>4, <2>6, <2>7
  <2>9. g[i + 4]["nr"] = From(allowed, i + 1, n, nr)
    BY <2>5, <2>8
  <2>10. g[i + 3]["nr"] = IF nr = allowed[i] THEN "allow" ELSE g[i + 4]["nr"]
    BY <1>3, <1>4 DEF Loaded
  <2>11. From(allowed, i, n, nr) = IF nr = allowed[i] THEN "allow" ELSE From(allowed, i + 1, n, nr)
    BY FromNext
  <2> QED
    BY <2>4, <2>7, <2>9, <2>10, <2>11
<1>6. g[4]["nr"] = From(allowed, 1, n, nr)
  <2>1. n \in 0 .. n /\ (n + 1 - n) + 3 = 4 /\ n + 1 - n = 1
    OBVIOUS
  <2> QED
    BY <1>5, <2>1
<1> HIDE DEF T
<1>7. Loaded("arch", arch, nr) = arch
  BY DEF Loaded
<1>8. g[2]["arch"] = IF arch = "x86_64" THEN g[3]["arch"] ELSE g[n + 4]["arch"]
  BY <1>3, <1>4, <1>7
<1>9. g[3]["arch"] = g[4]["nr"] /\ g[n + 4]["arch"] = "kill" /\ g[1]["none"] = g[2]["arch"]
  BY <1>3, <1>4
<1> QED
  BY <1>6, <1>8, <1>9 DEF Answered

\* The answer from a place of the program, written out.
AnswerAt(allowed, n, arch, nr, place, field) ==
    CASE place = 1 -> Answered(allowed, n, arch, nr)
      [] place = 2 -> Answered(allowed, n, Loaded(field, arch, nr), nr)
      [] place = 3 -> From(allowed, 1, n, nr)
      [] place = n + 5 -> "allow"
      [] OTHER -> From(allowed, place - 3, n, Loaded(field, arch, nr))

LEMMA AnswerCases ==
    ASSUME NEW allowed, NEW n \in Nat, NEW arch, NEW nr, NEW field
    PROVE  /\ AnswerAt(allowed, n, arch, nr, 1, field) = Answered(allowed, n, arch, nr)
           /\ AnswerAt(allowed, n, arch, nr, 2, field)
                = Answered(allowed, n, Loaded(field, arch, nr), nr)
           /\ AnswerAt(allowed, n, arch, nr, 3, field) = From(allowed, 1, n, nr)
           /\ AnswerAt(allowed, n, arch, nr, n + 5, field) = "allow"
           /\ AnswerAt(allowed, n, arch, nr, n + 4, field) = "kill"
           /\ \A i \in 1 .. (n + 1) : AnswerAt(allowed, n, arch, nr, i + 3, field)
                                        = From(allowed, i, n, Loaded(field, arch, nr))
<1>1. ASSUME NEW i \in 1 .. (n + 1)
      PROVE  AnswerAt(allowed, n, arch, nr, i + 3, field) = From(allowed, i, n, Loaded(field, arch, nr))
  <2>1. i + 3 # 1 /\ i + 3 # 2 /\ i + 3 # 3 /\ i + 3 # n + 5 /\ (i + 3) - 3 = i
    OBVIOUS
  <2> QED
    BY <2>1 DEF AnswerAt
<1>2. AnswerAt(allowed, n, arch, nr, n + 4, field) = "kill"
  <2>1. n + 1 \in 1 .. (n + 1) /\ (n + 1) + 3 = n + 4
    OBVIOUS
  <2>2. From(allowed, n + 1, n, Loaded(field, arch, nr)) = "kill"
    BY FromNext
  <2> QED
    BY <1>1, <2>1, <2>2
<1>3. n + 5 # 1 /\ n + 5 # 2 /\ n + 5 # 3
  OBVIOUS
<1>4. /\ AnswerAt(allowed, n, arch, nr, 1, field) = Answered(allowed, n, arch, nr)
      /\ AnswerAt(allowed, n, arch, nr, 2, field) = Answered(allowed, n, Loaded(field, arch, nr), nr)
      /\ AnswerAt(allowed, n, arch, nr, 3, field) = From(allowed, 1, n, nr)
      /\ AnswerAt(allowed, n, arch, nr, n + 5, field) = "allow"
  BY <1>3 DEF AnswerAt
<1> QED
  BY <1>1, <1>2, <1>4

\* The places of a program, and what is known of each.
LEMMA Places ==
    ASSUME NEW n \in Nat, NEW place \in 1 .. (n + 5)
    PROVE  place = 1 \/ place = 2 \/ place = 3 \/ (\E i \in 1 .. n : place = i + 3)
           \/ place = n + 4 \/ place = n + 5
<1>1. CASE place > 3 /\ place < n + 4
  <2>1. place - 3 \in 1 .. n /\ place = (place - 3) + 3
    BY <1>1
  <2> QED
    BY <2>1
<1>2. CASE ~(place > 3 /\ place < n + 4)
  BY <1>2
<1> QED
  BY <1>1, <1>2

LEMMA RunExists ==
    ASSUME NEW program, NEW allowed, NEW n \in Nat, IsProgram(program, allowed, n),
           NEW arch, NEW nr
    PROVE  \E g : Runs(program, arch, nr, g)
<1> DEFINE A(place, field) == AnswerAt(allowed, n, arch, nr, place, field)
<1> DEFINE h == [place \in 1 .. (n + 5) |-> [field \in Fields |-> A(place, field)]]
<1>1. Len(program) = n + 5
  BY DEF IsProgram
<1>2. ASSUME NEW place \in 1 .. (n + 5), NEW field \in Fields
      PROVE  h[place][field] = A(place, field)
  <2> HIDE DEF A
  <2> QED
    OBVIOUS
<1> HIDE DEF h, A
<1>3. 2 \in 1 .. (n + 5) /\ 3 \in 1 .. (n + 5) /\ 4 \in 1 .. (n + 5)
      /\ n + 4 \in 1 .. (n + 5) /\ n + 5 \in 1 .. (n + 5)
      /\ \A i \in 1 .. n : i + 4 \in 1 .. (n + 5)
  OBVIOUS
<1>4. {"none", "arch", "nr"} \subseteq Fields
  BY DEF Fields
<1>5. ASSUME NEW place \in 1 .. (n + 5), NEW field \in Fields
      PROVE  A(place, field) = Instruction(h, program[place], place, field, arch, nr)
  <2> DEFINE I(p) == Instruction(h, program[p], p, field, arch, nr)
  <2> DEFINE St == [p \in 1 .. (n + 5) |-> I(p)]
  <2>1. \A p \in 1 .. (n + 5) : St[p] = I(p)
    <3> HIDE DEF I
    <3> QED
      OBVIOUS
  <2> HIDE DEF St
  <2>2. /\ St[1] = h[2]["arch"] /\ St[3] = h[4]["nr"]
        /\ St[2] = IF Loaded(field, arch, nr) = "x86_64" THEN h[3][field] ELSE h[n + 4][field]
        /\ \A i \in 1 .. n : St[i + 3] = IF Loaded(field, arch, nr) = allowed[i]
                                         THEN h[n + 5][field] ELSE h[i + 4][field]
        /\ St[n + 4] = "kill" /\ St[n + 5] = "allow"
    BY <2>1, StepFrom
  <2>3. SUFFICES A(place, field) = St[place]
    BY <2>1
  <2> HIDE DEF I
  <2>4. /\ A(1, field) = Answered(allowed, n, arch, nr)
        /\ A(2, field) = Answered(allowed, n, Loaded(field, arch, nr), nr)
        /\ A(3, field) = From(allowed, 1, n, nr)
        /\ A(n + 5, field) = "allow" /\ A(n + 4, field) = "kill"
        /\ \A i \in 1 .. (n + 1) : A(i + 3, field) = From(allowed, i, n, Loaded(field, arch, nr))
    BY AnswerCases DEF A
  <2>5. CASE place = 1
    <3>1. h[2]["arch"] = A(2, "arch")
      BY <1>2, <1>3, <1>4
    <3>2. A(2, "arch") = Answered(allowed, n, Loaded("arch", arch, nr), nr)
      BY AnswerCases DEF A
    <3>3. Loaded("arch", arch, nr) = arch
      BY DEF Loaded
    <3> QED
      BY <3>1, <3>2, <3>3, <2>2, <2>4, <2>5
  <2>6. CASE place = 2
    <3>1. h[3][field] = A(3, field) /\ h[n + 4][field] = A(n + 4, field)
      BY <1>2, <1>3
    <3> QED
      BY <3>1, <2>2, <2>4, <2>6 DEF Answered
  <2>7. CASE place = 3
    <3>1. h[4]["nr"] = A(4, "nr")
      BY <1>2, <1>3, <1>4
    <3>2. 1 \in 1 .. (n + 1) /\ 1 + 3 = 4
      OBVIOUS
    <3>3. \A i \in 1 .. (n + 1) : A(i + 3, "nr") = From(allowed, i, n, Loaded("nr", arch, nr))
      BY AnswerCases DEF A
    <3>4. A(4, "nr") = From(allowed, 1, n, Loaded("nr", arch, nr))
      BY <3>2, <3>3
    <3>5. Loaded("nr", arch, nr) = nr
      BY DEF Loaded
    <3> QED
      BY <3>1, <3>4, <3>5, <2>2, <2>4, <2>7
  <2>8. ASSUME NEW i \in 1 .. n, place = i + 3 PROVE A(place, field) = St[place]
    <3>1. h[n + 5][field] = A(n + 5, field) /\ h[i + 4][field] = A(i + 4, field)
      BY <1>2, <1>3
    <3>2. i \in 1 .. (n + 1) /\ i + 1 \in 1 .. (n + 1) /\ (i + 1) + 3 = i + 4
      OBVIOUS
    <3>3. A(i + 4, field) = From(allowed, i + 1, n, Loaded(field, arch, nr))
          /\ A(i + 3, field) = From(allowed, i, n, Loaded(field, arch, nr))
      BY <3>2, <2>4
    <3>4. From(allowed, i, n, Loaded(field, arch, nr))
            = IF Loaded(field, arch, nr) = allowed[i] THEN "allow"
              ELSE From(allowed, i + 1, n, Loaded(field, arch, nr))
      BY FromNext
    <3> QED
      BY <3>1, <3>3, <3>4, <2>2, <2>4, <2>8
  <2>9. CASE place = n + 4 \/ place = n + 5
    BY <2>2, <2>4, <2>9
  <2> QED
    BY <2>5, <2>6, <2>7, <2>8, <2>9, Places
<1>6. h = [place \in 1 .. Len(program) |->
              [field \in Fields |-> Instruction(h, program[place], place, field, arch, nr)]]
  <2>1. ASSUME NEW place \in 1 .. (n + 5)
        PROVE  [field \in Fields |-> A(place, field)]
                 = [field \in Fields |-> Instruction(h, program[place], place, field, arch, nr)]
    BY <1>5, Zenon
  <2>2. h = [place \in 1 .. (n + 5) |->
                [field \in Fields |-> Instruction(h, program[place], place, field, arch, nr)]]
    <3>1. h = [place \in 1 .. (n + 5) |-> [field \in Fields |-> A(place, field)]]
      BY Zenon DEF h
    <3> QED
      BY <3>1, <2>1, Zenon
  <2> QED
    BY <1>1, <2>2
<1> QED
  BY <1>6, Zenon DEF Runs

\* What the kernel answers for the program.
LEMMA ProgramAnswers ==
    ASSUME NEW program, NEW allowed, NEW n \in Nat, IsProgram(program, allowed, n),
           NEW arch, NEW nr
    PROVE  Executed(program, arch, nr) = Answered(allowed, n, arch, nr)
<1>1. PICK g : g = CHOOSE f : Runs(program, arch, nr, f)
  OBVIOUS
<1>2. \E f : Runs(program, arch, nr, f)
  BY RunExists
<1>3. Runs(program, arch, nr, g)
  BY <1>1, <1>2, Zenon
<1>4. g[1]["none"] = Answered(allowed, n, arch, nr)
  BY <1>3, RunAnswers
<1>5. Executed(program, arch, nr) = g[1]["none"]
  BY <1>1, ExecutedRuns, Zenon
<1> QED
  BY <1>4, <1>5

-----------------------------------------------------------------------------
(* The list of allowed calls. *)
LEMMA InRange ==
    ASSUME NEW S, NEW s \in Seq(S), NEW x
    PROVE  x \in Range(s) <=> \E i \in 1 .. Len(s) : s[i] = x
<1>1. Range(s) = {s[i] : i \in 1 .. Len(s)}
  BY RangeEquality
<1> QED
  BY <1>1

PushNext(s, c) == IF c \in Range(s) THEN s ELSE Append(s, c)

LEMMA PushKeeps ==
    ASSUME NEW S, NEW s \in Seq(S), NEW c \in S
    PROVE  /\ PushNext(s, c) \in Seq(S) /\ Len(PushNext(s, c)) <= Len(s) + 1
           /\ Range(PushNext(s, c)) = Range(s) \cup {c}
<1>1. CASE c \in Range(s)
  BY <1>1 DEF PushNext
<1>2. CASE c \notin Range(s)
  <2>1. PushNext(s, c) = Append(s, c)
    BY <1>2 DEF PushNext
  <2>2. PICK t \in Seq(S) : t = Append(s, c) /\ Len(t) = Len(s) + 1
                            /\ (\A i \in 1 .. Len(s) : t[i] = s[i]) /\ t[Len(s) + 1] = c
    BY AppendProperties
  <2>3. ASSUME NEW x PROVE x \in Range(t) <=> x \in Range(s) \cup {c}
    <3>1. x \in Range(t) <=> \E i \in 1 .. Len(t) : t[i] = x
      BY InRange
    <3>2. x \in Range(s) <=> \E i \in 1 .. Len(s) : s[i] = x
      BY InRange
    <3>3. Len(s) \in Nat /\ \A i : i \in 1 .. Len(t) <=> i \in 1 .. Len(s) \/ i = Len(s) + 1
      BY <2>2
    <3> QED
      BY <3>1, <3>2, <3>3, <2>2
  <2> QED
    BY <2>1, <2>2, <2>3
<1> QED
  BY <1>1, <1>2

\* g is the list after each of the first k pushes.
Pushing(extra, k, g) ==
    g = [n \in 0 .. k |->
            IF n = 0 THEN BASE_ALLOWED
            ELSE IF extra[n] \in Range(g[n - 1]) THEN g[n - 1]
            ELSE Append(g[n - 1], extra[n])]

LEMMA PushesAt ==
    ASSUME NEW extra, NEW k \in Nat, NEW g, Pushing(extra, k, g), NEW n \in 0 .. k
    PROVE  g[n] = IF n = 0 THEN BASE_ALLOWED ELSE PushNext(g[n - 1], extra[n])
<1>1. g[n] = IF n = 0 THEN BASE_ALLOWED
             ELSE IF extra[n] \in Range(g[n - 1]) THEN g[n - 1] ELSE Append(g[n - 1], extra[n])
  BY Zenon DEF Pushing
<1> QED
  BY <1>1, Zenon DEF PushNext

LEMMA PushesExist ==
    ASSUME NEW extra, NEW k \in Nat PROVE \E g : Pushing(extra, k, g)
<1> DEFINE T == {n \in Nat : ~\E g : Pushing(extra, n, g)}
<1>1. SUFFICES ASSUME T # {} PROVE FALSE
  OBVIOUS
<1>2. PICK m \in T : \A y \in T : m <= y
  <2>1. T \in SUBSET Nat
    OBVIOUS
  <2> QED
    BY <1>1, <2>1, Minimum
<1>3. m \in Nat /\ ~\E g : Pushing(extra, m, g)
  BY <1>2
<1>4. m # 0
  <2>1. SUFFICES ASSUME m = 0 PROVE FALSE
    OBVIOUS
  <2> DEFINE g0 == [n \in 0 .. 0 |-> BASE_ALLOWED]
  <2>2. Pushing(extra, 0, g0)
    <3>1. \A n \in 0 .. 0 : n = 0
      OBVIOUS
    <3>2. g0 = [n \in 0 .. 0 |-> IF n = 0 THEN BASE_ALLOWED
                  ELSE IF extra[n] \in Range(g0[n - 1]) THEN g0[n - 1]
                  ELSE Append(g0[n - 1], extra[n])]
      BY <3>1, Zenon
    <3> QED
      BY <3>2, Zenon DEF Pushing
  <2> QED
    BY <2>1, <2>2, <1>3
<1>5. PICK i \in Nat : m = i + 1
  BY <1>3, <1>4
<1>6. i \notin T
  BY <1>2, <1>5
<1>7. PICK g : Pushing(extra, i, g)
  BY <1>6
<1> DEFINE last == PushNext(g[i], extra[m])
<1> DEFINE h == [n \in 0 .. m |-> IF n = m THEN last ELSE g[n]]
<1>8. ASSUME NEW n \in 0 .. m
      PROVE  h[n] = IF n = 0 THEN BASE_ALLOWED ELSE PushNext(h[n - 1], extra[n])
  <2> HIDE DEF last
  <2>1. CASE n = m
    <3>1. h[n] = last
      BY <2>1
    <3>2. n # 0 /\ n - 1 = i /\ i \in 0 .. m /\ i # m
      BY <2>1, <1>5
    <3>3. h[n - 1] = g[i]
      BY <3>2
    <3> QED
      BY <3>1, <3>2, <3>3, <2>1 DEF last
  <2>2. CASE n # m
    <3>1. n \in 0 .. i /\ h[n] = g[n]
      BY <2>2, <1>5
    <3>2. g[n] = IF n = 0 THEN BASE_ALLOWED ELSE PushNext(g[n - 1], extra[n])
      BY <3>1, <1>7, PushesAt
    <3>3. n # 0 => h[n - 1] = g[n - 1]
      <4>1. n # 0 => n - 1 \in 0 .. m /\ n - 1 # m
        BY <2>2, <1>5
      <4> QED
        BY <4>1
    <3> QED
      BY <3>1, <3>2, <3>3
  <2> QED
    BY <2>1, <2>2
<1>9. Pushing(extra, m, h)
  <2>1. h = [n \in 0 .. m |-> h[n]]
    BY Zenon
  <2> HIDE DEF h
  <2>2. h = [n \in 0 .. m |-> IF n = 0 THEN BASE_ALLOWED
               ELSE IF extra[n] \in Range(h[n - 1]) THEN h[n - 1] ELSE Append(h[n - 1], extra[n])]
    BY <2>1, <1>8, Zenon DEF PushNext
  <2> QED
    BY <2>2, Zenon DEF Pushing
<1> QED
  BY <1>9, <1>3

\* A list made of the base and the first n of the extra calls.
ListOf(S, extra, n, s) ==
    /\ s \in Seq(S) /\ Len(s) <= 16 + n
    /\ \A x : x \in Range(s) <=> x \in Range(BASE_ALLOWED) \/ \E i \in 1 .. n : extra[i] = x

LEMMA PushesList ==
    ASSUME NEW S, BASE_ALLOWED \in Seq(S), Len(BASE_ALLOWED) = 16,
           NEW extra \in Seq(S), NEW g, Pushing(extra, Len(extra), g)
    PROVE  ListOf(S, extra, Len(extra), g[Len(extra)])
<1> DEFINE T == {n \in 0 .. Len(extra) : ~ListOf(S, extra, n, g[n])}
<1>0. Len(extra) \in Nat
  OBVIOUS
<1>1. SUFFICES ASSUME T # {} PROVE FALSE
  BY <1>0
<1>2. PICK m \in T : \A y \in T : m <= y
  <2>1. T \in SUBSET Nat
    OBVIOUS
  <2> QED
    BY <1>1, <2>1, Minimum
<1>3. m \in 0 .. Len(extra) /\ ~ListOf(S, extra, m, g[m])
  BY <1>2
<1>4. m # 0
  <2>1. SUFFICES ASSUME m = 0 PROVE FALSE
    OBVIOUS
  <2>2. g[0] = BASE_ALLOWED
    BY <1>0, <1>3, <2>1, PushesAt
  <2>3. \A i \in 1 .. 0 : FALSE
    OBVIOUS
  <2>4. ListOf(S, extra, 0, BASE_ALLOWED)
    BY <2>3 DEF ListOf
  <2> QED
    BY <2>1, <2>2, <2>4, <1>3
<1>5. PICK i \in 0 .. Len(extra) : m = i + 1
  BY <1>0, <1>3, <1>4
<1>6. ListOf(S, extra, i, g[i])
  BY <1>2, <1>5
<1> HIDE DEF T
<1>7. g[m] = PushNext(g[i], extra[m])
  <2>1. m - 1 = i
    BY <1>5
  <2> QED
    BY <1>0, <1>3, <1>4, <2>1, PushesAt
<1>8. PICK s \in Seq(S) : s = g[i]
  BY <1>6 DEF ListOf
<1>9. PICK c \in S : c = extra[m]
  BY <1>3, <1>4
<1>10. /\ PushNext(s, c) \in Seq(S) /\ Len(PushNext(s, c)) <= Len(s) + 1
       /\ Range(PushNext(s, c)) = Range(s) \cup {c}
  BY PushKeeps
<1>11. PICK t \in Seq(S) : t = g[m] /\ Len(t) <= Len(s) + 1 /\ Range(t) = Range(s) \cup {c}
  BY <1>7, <1>8, <1>9, <1>10
<1>12. Len(s) <= 16 + i
       /\ \A x : x \in Range(s) <=> x \in Range(BASE_ALLOWED) \/ \E j \in 1 .. i : extra[j] = x
  BY <1>6, <1>8 DEF ListOf
<1>13. Len(t) <= 16 + m
  BY <1>0, <1>5, <1>11, <1>12
<1>14. ASSUME NEW x
       PROVE  x \in Range(t) <=> x \in Range(BASE_ALLOWED) \/ \E j \in 1 .. m : extra[j] = x
  <2>1. \A j : j \in 1 .. m <=> j \in 1 .. i \/ j = m
    BY <1>5
  <2> QED
    BY <2>1, <1>9, <1>11, <1>12
<1> QED
  BY <1>3, <1>11, <1>13, <1>14 DEF ListOf

LEMMA FilterList ==
    ASSUME NEW S, BASE_ALLOWED \in Seq(S), Len(BASE_ALLOWED) = 16,
           NEW i, NEW extra \in Seq(S), extra = Extra(i)
    PROVE  ListOf(S, extra, Len(extra), compile_filter(i))
<1>1. PICK g : g = CHOOSE f : Pushing(extra, Len(extra), f)
  OBVIOUS
<1>2. \E f : Pushing(extra, Len(extra), f)
  <2>1. Len(extra) \in Nat
    OBVIOUS
  <2> QED
    BY <2>1, PushesExist
<1>3. Pushing(extra, Len(extra), g)
  BY <1>1, <1>2, Zenon
<1>4. compile_filter(i) = (CHOOSE f : Pushing(Extra(i), Len(Extra(i)), f))[Len(Extra(i))]
  BY Zenon DEF compile_filter, Pushing
<1> QED
  BY <1>1, <1>3, <1>4, PushesList

\* The calls of the lists.
Permitted ==
    {"read", "write", "close", "fstat", "brk", "mprotect", "exit", "exit_group", "getcwd",
     "access", "fcntl", "dup", "dup2", "sched_yield", "getuid", "getpid", "open", "openat",
     "stat", "mmap", "pipe", "select", "poll", "ioctl", "getdents", "socket", "connect",
     "accept", "bind", "listen", "sendto", "recvfrom"}

LEMMA PermittedNotDenied == \A x \in Permitted : x \notin ALWAYS_DENIED
  BY DEF Permitted, ALWAYS_DENIED

LEMMA BaseList == BASE_ALLOWED \in Seq(Permitted) /\ Len(BASE_ALLOWED) = 16
  BY DEF BASE_ALLOWED, Permitted

\* Lists of at most n of them.
Lists(n) == {s \in Seq(Permitted) : Len(s) <= n}

LEMMA Joined ==
    ASSUME NEW a \in Nat, NEW b \in Nat, NEW n \in Nat, a + b <= n,
           NEW s \in Lists(a), NEW t \in Lists(b)
    PROVE  s \o t \in Lists(n)
<1>1. s \in Seq(Permitted) /\ t \in Seq(Permitted) /\ Len(s) <= a /\ Len(t) <= b
  BY DEF Lists
<1>2. s \o t \in Seq(Permitted) /\ Len(s \o t) = Len(s) + Len(t) /\ Len(s) \in Nat /\ Len(t) \in Nat
  BY <1>1, ConcatProperties, LenProperties
<1> QED
  BY <1>1, <1>2 DEF Lists

LEMMA List0 == <<>> \in Lists(5)
  BY DEF Lists

LEMMA List1 == \A a \in Permitted : <<a>> \in Lists(5)
  BY DEF Lists

LEMMA List2 == \A a \in Permitted, b \in Permitted : <<a, b>> \in Lists(5)
  BY DEF Lists

LEMMA List3 == \A a \in Permitted, b \in Permitted, c \in Permitted : <<a, b, c>> \in Lists(5)
  BY DEF Lists

LEMMA List4 ==
    ASSUME NEW a \in Permitted, NEW b \in Permitted, NEW c \in Permitted, NEW d \in Permitted
    PROVE  <<a, b, c, d>> \in Lists(5)
  BY DEF Lists

LEMMA List5 ==
    ASSUME NEW a \in Permitted, NEW b \in Permitted, NEW c \in Permitted, NEW d \in Permitted,
           NEW e \in Permitted
    PROVE  <<a, b, c, d, e>> \in Lists(5)
  BY DEF Lists

LEMMA Joined10 == ASSUME NEW s \in Lists(5), NEW t \in Lists(5) PROVE s \o t \in Lists(10)
<1>1. 5 \in Nat /\ 10 \in Nat /\ 5 + 5 <= 10
  OBVIOUS
<1> QED
  BY <1>1, Joined

LEMMA Joined15 == ASSUME NEW s \in Lists(10), NEW t \in Lists(5) PROVE s \o t \in Lists(15)
<1>1. 10 \in Nat /\ 5 \in Nat /\ 15 \in Nat /\ 10 + 5 <= 15
  OBVIOUS
<1> QED
  BY <1>1, Joined

LEMMA Joined20 == ASSUME NEW s \in Lists(15), NEW t \in Lists(5) PROVE s \o t \in Lists(20)
<1>1. 15 \in Nat /\ 5 \in Nat /\ 20 \in Nat /\ 15 + 5 <= 20
  OBVIOUS
<1> QED
  BY <1>1, Joined

LEMMA Longer == Lists(5) \subseteq Lists(20) /\ Lists(10) \subseteq Lists(20) /\ Lists(15) \subseteq Lists(20)
  BY DEF Lists

\* The pieces the tables are put together from.
LEMMA Pieces ==
    /\ OpenCalls \in Lists(5) /\ Exchange \in Lists(5) /\ <<>> \in Lists(5)
    /\ <<"mmap", "pipe", "select">> \in Lists(5) /\ <<"getdents">> \in Lists(5)
    /\ <<"mmap">> \in Lists(5) /\ <<"socket">> \in Lists(5)
    /\ <<"ioctl", "pipe", "select", "poll">> \in Lists(5)
    /\ <<"socket", "connect", "bind", "listen", "accept">> \in Lists(5)
    /\ <<"mmap", "poll", "select">> \in Lists(5) /\ <<"socket", "connect">> \in Lists(5)
    /\ <<"poll", "select">> \in Lists(5) /\ <<"mmap", "poll">> \in Lists(5)
    /\ <<"socket", "connect", "bind">> \in Lists(5) /\ <<"ioctl", "mmap", "poll">> \in Lists(5)
    /\ <<"open", "stat", "socket", "sendto">> \in Lists(5)
<1>1. {"open", "openat", "stat", "mmap", "pipe", "select", "poll", "ioctl", "getdents", "socket",
       "connect", "accept", "bind", "listen", "sendto", "recvfrom"} \subseteq Permitted
  BY DEF Permitted
<1>2. OpenCalls \in Lists(5) /\ Exchange \in Lists(5) /\ <<>> \in Lists(5)
  BY <1>1, List0, List2, List3 DEF OpenCalls, Exchange
<1>3. <<"getdents">> \in Lists(5) /\ <<"mmap">> \in Lists(5) /\ <<"socket">> \in Lists(5)
  BY <1>1, List1
<1>4. /\ <<"socket", "connect">> \in Lists(5) /\ <<"poll", "select">> \in Lists(5)
      /\ <<"mmap", "poll">> \in Lists(5)
  BY <1>1, List2
<1>5. /\ <<"mmap", "pipe", "select">> \in Lists(5) /\ <<"mmap", "poll", "select">> \in Lists(5)
      /\ <<"socket", "connect", "bind">> \in Lists(5) /\ <<"ioctl", "mmap", "poll">> \in Lists(5)
  BY <1>1, List3
<1>6. /\ <<"ioctl", "pipe", "select", "poll">> \in Lists(5)
      /\ <<"open", "stat", "socket", "sendto">> \in Lists(5)
  BY <1>1, List4
<1>7. <<"socket", "connect", "bind", "listen", "accept">> \in Lists(5)
  BY <1>1, List5
<1> QED
  BY <1>2, <1>3, <1>4, <1>5, <1>6, <1>7

LEMMA ExactLists == ASSUME NEW name PROVE ExactSyscalls(name) \in Lists(20)
<1>1. OpenCalls \o <<"mmap", "pipe", "select">> \in Lists(20)
  BY Pieces, Joined10, Longer
<1>2. OpenCalls \o <<"getdents">> \in Lists(20)
  BY Pieces, Joined10, Longer
<1>3. <<"mmap">> \in Lists(20) /\ <<>> \in Lists(20)
  BY Pieces, Longer
<1>4. OpenCalls \o <<"socket">> \o Exchange \in Lists(20)
  BY Pieces, Joined10, Joined15, Longer
<1> QED
  BY <1>1, <1>2, <1>3, <1>4 DEF ExactSyscalls

LEMMA PrefixLists == ASSUME NEW name PROVE PrefixSyscalls(name) \in Lists(20)
<1>1. OpenCalls \o <<"ioctl", "pipe", "select", "poll">> \in Lists(20)
  BY Pieces, Joined10, Longer
<1>2. OpenCalls \o <<"socket", "connect", "bind", "listen", "accept">> \o Exchange
         \o <<"mmap", "poll", "select">> \in Lists(20)
  BY Pieces, Joined10, Joined15, Joined20
<1>3. OpenCalls \o <<"socket", "connect">> \o Exchange \in Lists(15)
  BY Pieces, Joined10, Joined15
<1>4. /\ OpenCalls \o <<"socket", "connect">> \o Exchange \o <<"mmap">> \in Lists(20)
      /\ OpenCalls \o <<"socket", "connect">> \o Exchange \o <<"poll", "select">> \in Lists(20)
      /\ OpenCalls \o <<"socket", "connect">> \o Exchange \o <<"mmap", "poll">> \in Lists(20)
  BY <1>3, Pieces, Joined20
<1>5. <<"socket">> \o Exchange \in Lists(20)
  BY Pieces, Joined10, Longer
<1>6. <<"socket", "connect", "bind">> \o Exchange \o <<"ioctl", "mmap", "poll">> \in Lists(20)
  BY Pieces, Joined10, Joined15, Longer
<1>7. OpenCalls \o <<"mmap">> \in Lists(20)
  BY Pieces, Joined10, Longer
<1>8. <<"open", "stat", "socket", "sendto">> \in Lists(20) /\ <<>> \in Lists(20)
  BY Pieces, Longer
<1> QED
  BY <1>1, <1>2, <1>4, <1>5, <1>6, <1>7, <1>8 DEF PrefixSyscalls

LEMMA ExtraList == ASSUME NEW i \in Intents PROVE Extra(i) \in Lists(40)
<1>1. <<>> \in Lists(20)
  BY Pieces, Longer
<1>2. PICK exact \in Lists(20) : exact = IF i.exact THEN ExactSyscalls(i.name) ELSE <<>>
  BY <1>1, ExactLists
<1>3. Extra(i) = PrefixSyscalls(i.name) \o exact
  BY <1>2 DEF Extra
<1>4. 20 \in Nat /\ 40 \in Nat /\ 20 + 20 <= 40
  OBVIOUS
<1>5. PICK prefix \in Lists(20) : prefix = PrefixSyscalls(i.name)
  BY PrefixLists
<1>6. prefix \o exact \in Lists(40)
  BY <1>4, Joined
<1> QED
  BY <1>3, <1>5, <1>6

\* What compile_filter returns: short enough for the byte a jump has, no denied
\* call, and exactly the base and the extra calls.
LEMMA FilterCalls ==
    ASSUME NEW i \in Intents
    PROVE  /\ compile_filter(i) \in Lists(56) /\ Extra(i) \in Seq(Permitted)
           /\ \A x : x \in Range(compile_filter(i))
                        <=> x \in Range(BASE_ALLOWED) \/ x \in Range(Extra(i))
<1>1. PICK extra \in Seq(Permitted) : extra = Extra(i) /\ Len(extra) <= 40
  BY ExtraList DEF Lists
<1>2. ListOf(Permitted, extra, Len(extra), compile_filter(i))
  BY <1>1, BaseList, FilterList
<1>3. PICK s \in Seq(Permitted) : s = compile_filter(i) /\ Len(s) <= 16 + Len(extra)
                                  /\ \A x : x \in Range(s) <=> x \in Range(BASE_ALLOWED)
                                               \/ \E j \in 1 .. Len(extra) : extra[j] = x
  BY <1>2 DEF ListOf
<1>4. Len(s) <= 56
  BY <1>1, <1>3
<1>5. s \in Lists(56)
  BY <1>4 DEF Lists
<1>6. \A x : x \in Range(extra) <=> \E j \in 1 .. Len(extra) : extra[j] = x
  BY InRange
<1>7. \A x : x \in Range(s) <=> x \in Range(BASE_ALLOWED) \/ x \in Range(extra)
  BY <1>3, <1>6
<1> QED
  BY <1>1, <1>3, <1>5, <1>7

LEMMA FilterRuns ==
    ASSUME NEW i \in Intents, NEW allowed, allowed = compile_filter(i), NEW nr
    PROVE  /\ Executed(generate_bpf(allowed), "x86_64", nr)
                = IF validate_syscall(allowed, nr) THEN "allow" ELSE "kill"
           /\ Executed(generate_bpf(allowed), "other", nr) = "kill"
<1>1. allowed \in Lists(56)
  BY FilterCalls
<1>2. PICK n \in Nat : n = Len(allowed) /\ n <= 56 /\ allowed \in Seq(Permitted)
  BY <1>1 DEF Lists
<1>3. IsProgram(generate_bpf(allowed), allowed, n)
  BY <1>2, ProgramParts
<1>4. nr \in Range(allowed) <=> \E j \in 1 .. n : allowed[j] = nr
  BY <1>2, InRange
<1>5. nr \in Range(allowed) => nr \in Permitted
  BY <1>2, RangeOfSeq
<1>6. validate_syscall(allowed, nr) <=> \E j \in 1 .. n : allowed[j] = nr
  BY <1>4, <1>5, PermittedNotDenied DEF validate_syscall
<1>7. Executed(generate_bpf(allowed), "x86_64", nr) = Answered(allowed, n, "x86_64", nr)
      /\ Executed(generate_bpf(allowed), "other", nr) = Answered(allowed, n, "other", nr)
  BY <1>3, ProgramAnswers
<1> QED
  BY <1>6, <1>7 DEF Answered, From

\* The program a filter is compiled to does what its list says, for every
\* intent and every call (seccomp.rs:321, 377): no jump wraps or misses by one.
THEOREM FilterIsItsList == LayersSpec => []FilterRunsAsListed
<1>1. LayersInv => FilterRunsAsListed
  <2>1. SUFFICES ASSUME intent \in Intents
                 PROVE  LET allowed == compile_filter(intent)
                            program == generate_bpf(allowed)
                        IN  \A nr \in Syscalls :
                               /\ Executed(program, "x86_64", nr)
                                    = IF validate_syscall(allowed, nr) THEN "allow" ELSE "kill"
                               /\ Executed(program, "other", nr) = "kill"
    BY Zenon DEF LayersInv, FilterRunsAsListed
  <2> QED
    BY <2>1, FilterRuns, Zenon
<1> QED
  BY <1>1, LayersInvariance, PTL

\* The calls a filter lets through whatever its intent, and the one that two
\* intents add.
LEMMA AlwaysServed ==
    ASSUME NEW i \in Intents, NEW call \in {"read", "write", "brk", "exit"}
    PROVE  validate_syscall(compile_filter(i), call)
<1>1. PICK s \in Seq(Permitted) : s = BASE_ALLOWED /\ Len(s) = 16
  BY BaseList
<1>2. s[1] = "read" /\ s[2] = "write" /\ s[5] = "brk" /\ s[7] = "exit"
  BY <1>1 DEF BASE_ALLOWED
<1>3. 1 \in 1 .. 16 /\ 2 \in 1 .. 16 /\ 5 \in 1 .. 16 /\ 7 \in 1 .. 16
  OBVIOUS
<1>4. call \in Range(s)
  BY <1>1, <1>2, <1>3, InRange
<1>5. call \in Range(compile_filter(i))
  BY <1>1, <1>4, FilterCalls
<1> QED
  BY <1>5 DEF validate_syscall, ALWAYS_DENIED

LEMMA RangeLast ==
    ASSUME NEW n \in Nat, NEW m \in Nat, NEW s \in Lists(n), NEW t \in Lists(m), NEW x,
           x \in Range(s) \/ x \in Range(t)
    PROVE  x \in Range(s \o t)
<1>1. s \in Seq(Permitted) /\ t \in Seq(Permitted)
  BY DEF Lists
<1>2. Range(s \o t) = Range(s) \cup Range(t)
  BY <1>1, RangeConcatenation
<1> QED
  BY <1>2

LEMMA MapsMemory ==
    ASSUME NEW i \in Intents, i.name \in {"call:video", "ai:inference"}
    PROVE  validate_syscall(compile_filter(i), "mmap")
<1> DEFINE common == OpenCalls \o <<"socket", "connect">> \o Exchange
<1> DEFINE front == <<"socket", "connect", "bind">> \o Exchange
<1>1. i.name = "ai:inference" => PrefixSyscalls(i.name) = common \o <<"mmap", "poll">>
  BY DEF PrefixSyscalls, ShellIntents, HttpIntents, DbIntents, DnsIntents
<1>2. i.name = "call:video" => PrefixSyscalls(i.name) = front \o <<"ioctl", "mmap", "poll">>
  BY DEF PrefixSyscalls, ShellIntents, HttpIntents, DbIntents, DnsIntents
<1>3. common \in Lists(15) /\ front \in Lists(10)
  BY Pieces, Joined10, Joined15
<1> HIDE DEF common, front
<1>4. "mmap" \in Range(<<"mmap", "poll">>) /\ "mmap" \in Range(<<"ioctl", "mmap", "poll">>)
  <2>1. PICK s \in Seq(Permitted) : s = <<"mmap", "poll">> /\ Len(s) = 2 /\ s[1] = "mmap"
    <3>1. <<"mmap", "poll">> \in Seq(Permitted)
      BY Pieces DEF Lists
    <3> QED
      BY <3>1
  <2>2. PICK t \in Seq(Permitted) : t = <<"ioctl", "mmap", "poll">> /\ Len(t) = 3 /\ t[2] = "mmap"
    <3>1. <<"ioctl", "mmap", "poll">> \in Seq(Permitted)
      BY Pieces DEF Lists
    <3> QED
      BY <3>1
  <2>3. 1 \in 1 .. 2 /\ 2 \in 1 .. 3
    OBVIOUS
  <2>4. "mmap" \in Range(s) /\ "mmap" \in Range(t)
    BY <2>1, <2>2, <2>3, InRange
  <2> QED
    BY <2>1, <2>2, <2>4
<1>5. 5 \in Nat /\ 10 \in Nat /\ 15 \in Nat /\ 20 \in Nat
  OBVIOUS
<1>6. "mmap" \in Range(PrefixSyscalls(i.name))
  <2>1. "mmap" \in Range(common \o <<"mmap", "poll">>)
    BY <1>3, <1>4, <1>5, Pieces, RangeLast
  <2>2. "mmap" \in Range(front \o <<"ioctl", "mmap", "poll">>)
    BY <1>3, <1>4, <1>5, Pieces, RangeLast
  <2> QED
    BY <2>1, <2>2, <1>1, <1>2
<1>7. "mmap" \in Range(Extra(i))
  <2>1. PICK exact \in Lists(20) : exact = IF i.exact THEN ExactSyscalls(i.name) ELSE <<>>
    <3>1. <<>> \in Lists(20)
      BY Pieces, Longer
    <3> QED
      BY <3>1, ExactLists
  <2>2. Extra(i) = PrefixSyscalls(i.name) \o exact
    BY <2>1 DEF Extra
  <2>3. PICK prefix \in Lists(20) : prefix = PrefixSyscalls(i.name)
    BY PrefixLists
  <2>4. "mmap" \in Range(prefix \o exact)
    BY <1>5, <1>6, <2>3, RangeLast
  <2> QED
    BY <2>2, <2>3, <2>4
<1>8. "mmap" \in Range(compile_filter(i))
  BY <1>7, FilterCalls
<1> QED
  BY <1>8 DEF validate_syscall, ALWAYS_DENIED

LEMMA PassedIsServed ==
    ASSUME NEW i \in Intents, NEW found \in SUBSET Patterns, Verdict(TRUE, i, found) = "Pass",
           NEW call \in Observed(TRUE, i, found) \ {"sys_execve"}
    PROVE  validate_syscall(compile_filter(i), SnaftName[call])
<1>1. is_known_intent(i) /\ Verdict(TRUE, i, found) # "Kill"
  BY DEF Verdict
<1>2. \A p \in found : p = "mmap" /\ i.name \in {"call:video", "ai:inference"}
  BY <1>1, DryRunKills
<1> DEFINE calls == {PatternCall[p] : p \in found}
<1>3. call \in calls \/ call \in CleanRun
  BY DEF Observed, dry_run_syscalls
<1>4. ASSUME call \in calls PROVE call = "sys_mmap" /\ i.name \in {"call:video", "ai:inference"}
  BY <1>2, <1>4, PatternTypes
<1>5. CASE call \in calls
  <2>1. SnaftName[call] = "mmap"
    BY <1>4, <1>5 DEF SnaftName
  <2> QED
    BY <1>4, <1>5, <2>1, MapsMemory
<1>6. CASE call \in CleanRun
  <2>1. SnaftName[call] \in {"read", "write", "brk", "exit"}
    BY <1>6 DEF SnaftName, CleanRun
  <2> QED
    BY <2>1, AlwaysServed
<1> QED
  BY <1>3, <1>5, <1>6

\* The filter of an intent lets through every call that Kernel A has seen in
\* the dry-run of a payload it passes (voorproever.rs:176, seccomp.rs:199).
THEOREM PassedRunsInItsFilter == LayersSpec => []FilterServesPassed
<1>1. LayersInv => FilterServesPassed
  <2>1. SUFFICES ASSUME intent \in Intents, payload \in SUBSET Patterns,
                        Verdict(TRUE, intent, payload) = "Pass"
                 PROVE  \A call \in Observed(TRUE, intent, payload) \ {"sys_execve"} :
                           validate_syscall(compile_filter(intent), SnaftName[call])
    BY Zenon DEF LayersInv, FilterServesPassed
  <2> QED
    BY <2>1, PassedIsServed, Zenon
<1> QED
  BY <1>1, LayersInvariance, PTL
=============================================================================
