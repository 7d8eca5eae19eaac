------------------------------ MODULE Airlock ------------------------------
(***************************************************************************)
(* The dual-kernel airlock (main.rs): one accept loop, one tokio task per  *)
(* frame, all tasks sharing the virtual bus (bus.rs) and the watchdog      *)
(* (watchdog.rs).  A task takes its frame through the watchdog check,      *)
(* Kernel A (voorproever.rs), the bus, and Kernel B (archivaris.rs), and   *)
(* answers its client.                                                     *)
(*                                                                         *)
(* The runtime is multi-threaded, so one step here is one access to a      *)
(* shared atomic: `check' loads and later adds, `kernel_a_responded' stores*)
(* twice, `receive' loads the open flag, loads the expected sequence       *)
(* number and stores it in three steps that other tasks may separate.      *)
(* Three things belong to the step next to them: a statistics counter,     *)
(* always updated under its mutex; a clock reading; and the write of       *)
(* `triggered', which no task ever reads.                                  *)
(*                                                                         *)
(* Time is the age of the last response, counted in ticks and capped one   *)
(* above Timeout: `elapsed > timeout' is all the code asks of it.          *)
(***************************************************************************)
EXTENDS Snaft, Integers, FiniteSets

CONSTANTS
    Tasks,        \* the connections, and the tasks that serve them
    Frames,       \* the frames a client may send
    Profiles,     \* the profiles the kernel may be started with
    Timeout,      \* watchdog.timeout_ms, in ticks
    MaxMissed,    \* watchdog.max_missed_heartbeats
    MaxPayload,   \* bus.max_payload_bytes
    Operator,     \* is there an embedding program that uses reset, pause,
                  \* resume and reopen?  main.rs calls none of them
    NoFrame

FrameType == [intent : Intents, patterns : SUBSET Patterns,
              from_aint : BOOLEAN,    \* is the agent identity non-empty?
              size : Nat]

ASSUME FramesAssumption  == Frames \subseteq FrameType /\ NoFrame \notin Frames
ASSUME ProfileAssumption == Profiles \subseteq {"paranoid", "balanced", "fast"}
ASSUME TimeAssumption    == Timeout \in Nat /\ MaxMissed \in Nat
ASSUME OtherAssumption   == MaxPayload \in Nat /\ Operator \in BOOLEAN

(***************************************************************************)
(* The switches of the three profiles (config.rs).  FIR/A scores are in    *)
(* hundredths.                                                             *)
(***************************************************************************)
voorproever_dryrun(p)     == p # "fast"
jis_signing_per_action(p) == p # "fast"
fira_score(p)             == IF p = "fast" THEN 50 ELSE 85
min_fira                  == 30

VARIABLES
    profile,            \* the configuration, fixed at start
    pc,                 \* where each task is
    frame,              \* the frame each task serves
    status,             \* the status code a client was sent, if any
    \* VirtualBus
    open, seq_counter, next_expected_seq,
    sequence_gaps_detected, payloads_passed, watchdog_kills,
    \* Watchdog
    active, missed_count, triggered,
    idle,               \* ticks since last_response_ns, at most Timeout + 1
    \* per task
    seq,                \* sequence number stamped on its payload
    expected,           \* next_expected_seq as this task loaded it
    archive,            \* does the task's own Archivaris hold an entry?
    \* history
    delivered,          \* sequence numbers that Kernel B received
    flagged,            \* tasks whose gap main.rs reported
    slow,               \* has time ever passed with a frame at Kernel A?
    maintenance         \* progress of an operator's reset or resume

busVars  == <<open, seq_counter, next_expected_seq, sequence_gaps_detected,
              payloads_passed, watchdog_kills, delivered>>
dogVars  == <<active, missed_count, triggered, idle>>
taskVars == <<seq, expected, archive, flagged>>
vars     == <<profile, pc, frame, status, busVars, dogVars, taskVars, slow,
              maintenance>>

Status == {"none", "200", "400", "403", "503"}
PC == {"new", "reading", "check", "miss", "shutdown", "evaluate", "respond",
       "clear", "receive", "load", "store", "archive",
       "reply", "done", "dropped"}

Init ==
    /\ profile \in Profiles
    /\ pc = [t \in Tasks |-> "new"]
    /\ frame = [t \in Tasks |-> NoFrame]
    /\ status = [t \in Tasks |-> "none"]
    /\ open = TRUE /\ seq_counter = 0 /\ next_expected_seq = 0
    /\ sequence_gaps_detected = 0 /\ payloads_passed = 0 /\ watchdog_kills = 0
    /\ active = TRUE /\ missed_count = 0 /\ triggered = FALSE
    /\ idle = 0         \* main.rs marks an initial heartbeat
    /\ seq = [t \in Tasks |-> 0] /\ expected = [t \in Tasks |-> 0]
    /\ archive = [t \in Tasks |-> FALSE]
    /\ delivered = {} /\ flagged = {} /\ slow = FALSE
    /\ maintenance = "none"

Goto(t, l) == pc' = [pc EXCEPT ![t] = l]

\* send_response; the task returns and its Archivaris is dropped with it.
Answer(t, code) == Goto(t, "done") /\ status' = [status EXCEPT ![t] = code]

-----------------------------------------------------------------------------
(***************************************************************************)
(* The accept loop.  accept_frame awaits the connection's first bytes, so  *)
(* the loop serves one connection at a time until a task is spawned.       *)
(***************************************************************************)
Connect(t) ==
    /\ pc[t] = "new"
    /\ \A u \in Tasks : pc[u] # "reading"
    /\ Goto(t, "reading")
    /\ UNCHANGED <<profile, frame, status, busVars, dogVars, taskVars, slow,
                   maintenance>>

ReadFrame(t) ==
    /\ pc[t] = "reading"
    /\ \E f \in Frames : frame' = [frame EXCEPT ![t] = f]
    /\ Goto(t, "check")
    /\ UNCHANGED <<profile, status, busVars, dogVars, taskVars, slow,
                   maintenance>>

\* Closed early, not JSON, or an empty intent: logged, and the loop goes on.
ReadFails(t) ==
    /\ pc[t] = "reading"
    /\ Goto(t, "dropped")
    /\ UNCHANGED <<profile, frame, status, busVars, dogVars, taskVars, slow,
                   maintenance>>

-----------------------------------------------------------------------------
(***************************************************************************)
(* Phase 1: Watchdog::check.                                               *)
(***************************************************************************)
CheckLoad(t) ==
    /\ pc[t] = "check"
    /\ Goto(t, IF active /\ idle > Timeout THEN "miss" ELSE "evaluate")
    /\ UNCHANGED <<profile, frame, status, busVars, dogVars, taskVars, slow,
                   maintenance>>

\* MUTANT: the watchdog triggers and the task carries on without closing the bus.
CheckMiss_NoShutdown(t) ==
    /\ pc[t] = "miss"
    /\ missed_count' = missed_count + 1
    /\ triggered' = (triggered \/ missed_count + 1 >= MaxMissed)
    /\ Goto(t, "evaluate")
    /\ UNCHANGED <<profile, frame, status, busVars, active, idle, taskVars,
                   slow, maintenance>>

CheckMiss(t) ==
    /\ pc[t] = "miss"
    /\ missed_count' = missed_count + 1
    /\ IF missed_count + 1 >= MaxMissed
       THEN triggered' = TRUE /\ Goto(t, "shutdown")
       ELSE triggered' = triggered /\ Goto(t, "evaluate")
    /\ UNCHANGED <<profile, frame, status, busVars, active, idle, taskVars, slow,
                   maintenance>>

\* WatchdogEvent::Triggered: close the bus and answer 503.
Shutdown(t) ==
    /\ pc[t] = "shutdown"
    /\ open' = FALSE
    /\ watchdog_kills' = watchdog_kills + 1
    /\ Answer(t, "503")
    /\ UNCHANGED <<profile, frame, seq_counter, next_expected_seq,
                   sequence_gaps_detected, payloads_passed, delivered,
                   dogVars, taskVars, slow,
                   maintenance>>

-----------------------------------------------------------------------------
(***************************************************************************)
(* Phase 2: Voorproever::evaluate.  A rejected frame returns before        *)
(* kernel_a_responded; a killed or passed one calls it.                    *)
(***************************************************************************)
VerdictOn(f) == Verdict(voorproever_dryrun(profile), f.intent, f.patterns)

Reject(t) ==
    /\ pc[t] = "evaluate" /\ VerdictOn(frame[t]) = "Reject"
    /\ Answer(t, "400")
    /\ UNCHANGED <<profile, frame, busVars, dogVars, taskVars, slow,
                   maintenance>>

Kill(t) ==
    /\ pc[t] = "evaluate" /\ VerdictOn(frame[t]) = "Kill"
    /\ Goto(t, "respond")
    /\ UNCHANGED <<profile, frame, status, busVars, dogVars, taskVars, slow,
                   maintenance>>

\* MUTANT: the sequence counter is read and not advanced.
Pass_NoIncrement(t) ==
    /\ pc[t] = "evaluate" /\ VerdictOn(frame[t]) = "Pass"
    /\ seq' = [seq EXCEPT ![t] = seq_counter]
    /\ Goto(t, "respond")
    /\ UNCHANGED <<profile, frame, status, busVars, dogVars, expected, archive,
                   flagged, slow, maintenance>>

\* Pass: stamp_payload takes the next sequence number.
Pass(t) ==
    /\ pc[t] = "evaluate" /\ VerdictOn(frame[t]) = "Pass"
    /\ seq' = [seq EXCEPT ![t] = seq_counter]
    /\ seq_counter' = seq_counter + 1
    /\ Goto(t, "respond")
    /\ UNCHANGED <<profile, frame, status, open, next_expected_seq,
                   sequence_gaps_detected, payloads_passed, watchdog_kills,
                   delivered, dogVars, expected, archive, flagged, slow,
                   maintenance>>

\* kernel_a_responded: first last_response_ns, then missed_count.
RespondStore(t) ==
    /\ pc[t] = "respond"
    /\ idle' = 0
    /\ Goto(t, "clear")
    /\ UNCHANGED <<profile, frame, status, busVars, active, missed_count,
                   triggered, taskVars, slow,
                   maintenance>>

\* MUTANT: a response takes one miss back instead of clearing the count.
RespondClear_Decrement(t) ==
    /\ pc[t] = "clear"
    /\ missed_count' = missed_count - 1
    /\ IF VerdictOn(frame[t]) = "Kill"
       THEN Answer(t, "403")
       ELSE Goto(t, "receive") /\ status' = status
    /\ UNCHANGED <<profile, frame, busVars, active, triggered, idle, taskVars,
                   slow, maintenance>>

RespondClear(t) ==
    /\ pc[t] = "clear"
    /\ missed_count' = 0
    /\ IF VerdictOn(frame[t]) = "Kill"
       THEN Answer(t, "403")
       ELSE Goto(t, "receive") /\ status' = status
    /\ UNCHANGED <<profile, frame, busVars, active, triggered, idle, taskVars,
                   slow,
                   maintenance>>

-----------------------------------------------------------------------------
(***************************************************************************)
(* Phases 3 and 4: Archivaris::process, which starts with                  *)
(* VirtualBus::receive.                                                    *)
(***************************************************************************)
\* MUTANT: the task returns without an answer when the bus is closed.
BusClosed_Silent(t) ==
    /\ pc[t] = "receive" /\ ~open
    /\ Goto(t, "dropped")
    /\ UNCHANGED <<profile, frame, status, busVars, dogVars, taskVars, slow,
                   maintenance>>

BusClosed(t) ==
    /\ pc[t] = "receive" /\ ~open
    /\ Answer(t, "503")
    /\ UNCHANGED <<profile, frame, busVars, dogVars, taskVars, slow,
                   maintenance>>

PayloadTooLarge(t) ==
    /\ pc[t] = "receive" /\ open /\ frame[t].size > MaxPayload
    /\ Answer(t, "403")
    /\ UNCHANGED <<profile, frame, busVars, dogVars, taskVars, slow,
                   maintenance>>

\* MUTANT: `receive' does not look at the open flag.
ReceiveOpen_Unguarded(t) ==
    /\ pc[t] = "receive" /\ frame[t].size <= MaxPayload
    /\ Goto(t, "load")
    /\ UNCHANGED <<profile, frame, status, busVars, dogVars, taskVars, slow,
                   maintenance>>

ReceiveOpen(t) ==
    /\ pc[t] = "receive" /\ open /\ frame[t].size <= MaxPayload
    /\ Goto(t, "load")
    /\ UNCHANGED <<profile, frame, status, busVars, dogVars, taskVars, slow,
                   maintenance>>

ReceiveLoad(t) ==
    /\ pc[t] = "load"
    /\ expected' = [expected EXCEPT ![t] = next_expected_seq]
    /\ Goto(t, "store")
    /\ UNCHANGED <<profile, frame, status, busVars, dogVars, seq, archive,
                   flagged, slow,
                   maintenance>>

\* MUTANT: only numbers below the expected one are taken for gaps.
ReceiveStore_OnlyOld(t) ==
    /\ pc[t] = "store"
    /\ next_expected_seq' = seq[t] + 1
    /\ sequence_gaps_detected' =
          IF seq[t] < expected[t] THEN sequence_gaps_detected + 1
                                  ELSE sequence_gaps_detected
    /\ payloads_passed' = payloads_passed + 1
    /\ delivered' = delivered \cup {seq[t]}
    /\ Goto(t, "archive")
    /\ UNCHANGED <<profile, frame, status, open, seq_counter, watchdog_kills,
                   dogVars, taskVars, slow, maintenance>>

\* A payload out of sequence is counted as a gap and accepted all the same.
ReceiveStore(t) ==
    /\ pc[t] = "store"
    /\ next_expected_seq' = seq[t] + 1
    /\ sequence_gaps_detected' =
          IF seq[t] # expected[t] THEN sequence_gaps_detected + 1
                                  ELSE sequence_gaps_detected
    /\ payloads_passed' = payloads_passed + 1
    /\ delivered' = delivered \cup {seq[t]}
    /\ Goto(t, "archive")
    /\ UNCHANGED <<profile, frame, status, open, seq_counter, watchdog_kills,
                   dogVars, taskVars, slow,
                   maintenance>>

\* jis_check of archivaris.rs, when the profile asks for it.
JisAccepts(f) ==
    jis_signing_per_action(profile) =>
        f.from_aint /\ fira_score(profile) >= min_fira

\* The seal stamp_payload writes always has the form that
\* verify_voorproever_seal asks for, so that only the JIS check can refuse.  A
\* JIS refusal is returned as such, without the gap.
Archive(t) ==
    /\ pc[t] = "archive"
    /\ IF JisAccepts(frame[t])
       THEN /\ archive' = [archive EXCEPT ![t] = TRUE]
            /\ flagged' = IF seq[t] # expected[t] THEN flagged \cup {t}
                                                  ELSE flagged
            /\ Goto(t, "reply") /\ status' = status
       ELSE /\ Answer(t, "403")
            /\ UNCHANGED <<archive, flagged>>
    /\ UNCHANGED <<profile, frame, busVars, dogVars, seq, expected, slow,
                   maintenance>>

\* The success token is sent; the task ends, and with it the Archivaris that
\* main.rs built for this one frame, archive and vault included.
Reply(t) ==
    /\ pc[t] = "reply"
    /\ Answer(t, "200")
    /\ archive' = [archive EXCEPT ![t] = FALSE]
    /\ UNCHANGED <<profile, frame, busVars, dogVars, seq, expected, flagged, slow,
                   maintenance>>

-----------------------------------------------------------------------------
\* The clock.
Tick ==
    /\ idle <= Timeout
    /\ idle' = idle + 1
    /\ slow' = (slow \/ \E t \in Tasks : pc[t] \in {"evaluate", "respond"})
    /\ UNCHANGED <<profile, pc, frame, status, busVars, active, missed_count,
                   triggered, taskVars, maintenance>>

(***************************************************************************)
(* What an embedding program may do beside the tasks: Watchdog::reset,     *)
(* pause and resume, VirtualBus::reopen.  reset and resume end with the    *)
(* two stores of kernel_a_responded.                                       *)
(***************************************************************************)
Reset ==
    /\ Operator /\ maintenance = "none"
    /\ triggered' = FALSE /\ missed_count' = 0
    /\ maintenance' = "respond"
    /\ UNCHANGED <<profile, pc, frame, status, busVars, active, idle, taskVars,
                   slow>>

Pause ==
    /\ Operator /\ maintenance = "none"
    /\ active' = FALSE
    /\ UNCHANGED <<profile, pc, frame, status, busVars, missed_count,
                   triggered, idle, taskVars, slow, maintenance>>

Resume ==
    /\ Operator /\ maintenance = "none"
    /\ active' = TRUE
    /\ maintenance' = "respond"
    /\ UNCHANGED <<profile, pc, frame, status, busVars, missed_count,
                   triggered, idle, taskVars, slow>>

OperatorStore ==
    /\ maintenance = "respond"
    /\ idle' = 0
    /\ maintenance' = "clear"
    /\ UNCHANGED <<profile, pc, frame, status, busVars, active, missed_count,
                   triggered, taskVars, slow>>

OperatorClear ==
    /\ maintenance = "clear"
    /\ missed_count' = 0
    /\ maintenance' = "none"
    /\ UNCHANGED <<profile, pc, frame, status, busVars, active, triggered,
                   idle, taskVars, slow>>

Reopen ==
    /\ Operator /\ maintenance = "none"
    /\ open' = TRUE
    /\ UNCHANGED <<profile, pc, frame, status, seq_counter, next_expected_seq,
                   sequence_gaps_detected, payloads_passed, watchdog_kills,
                   delivered, dogVars, taskVars, slow, maintenance>>

Maintenance == Reset \/ Pause \/ Resume \/ OperatorStore \/ OperatorClear \/ Reopen

-----------------------------------------------------------------------------
Arrive(t)  == Connect(t) \/ ReadFrame(t) \/ ReadFails(t)
Check(t)   == CheckLoad(t) \/ CheckMiss(t) \/ Shutdown(t)
KernelA(t) == Reject(t) \/ Kill(t) \/ Pass(t) \/ RespondStore(t) \/ RespondClear(t)
KernelB(t) == BusClosed(t) \/ PayloadTooLarge(t) \/ ReceiveOpen(t)
                \/ ReceiveLoad(t) \/ ReceiveStore(t) \/ Archive(t) \/ Reply(t)
Serve(t)   == Check(t) \/ KernelA(t) \/ KernelB(t)

Next ==
    \/ Tick
    \/ Maintenance
    \/ \E t \in Tasks : Arrive(t) \/ Serve(t)

Spec == Init /\ [][Next]_vars

\* A spawned task never awaits anything but its own socket, and the runtime
\* polls every task: each keeps running.  Clients, the clock and the operator
\* owe nothing.
FairSpec == Spec /\ \A t \in Tasks : WF_vars(Serve(t))

-----------------------------------------------------------------------------
(***************************************************************************)
(* Properties.                                                             *)
(***************************************************************************)
FlagsOK ==
    /\ open \in BOOLEAN /\ active \in BOOLEAN /\ triggered \in BOOLEAN
    /\ slow \in BOOLEAN
    /\ archive \in [Tasks -> BOOLEAN]

DataOK ==
    /\ profile \in Profiles
    /\ pc \in [Tasks -> PC]
    /\ frame \in [Tasks -> Frames \cup {NoFrame}]
    /\ status \in [Tasks -> Status]
    /\ seq_counter \in Nat /\ next_expected_seq \in Nat
    /\ sequence_gaps_detected \in Nat /\ payloads_passed \in Nat
    /\ watchdog_kills \in Nat /\ missed_count \in Nat
    /\ idle \in 0 .. Timeout + 1
    /\ seq \in [Tasks -> Nat] /\ expected \in [Tasks -> Nat]
    /\ delivered \subseteq Nat /\ flagged \subseteq Tasks
    /\ maintenance \in {"none", "respond", "clear"}

\* Every variable has the type its Rust declaration gives it; in particular
\* the counters of bus and watchdog, which are unsigned, stay natural numbers
\* although several tasks update and clear them.
TypeOK == FlagsOK /\ DataOK

\* A loss on the bus cannot go unnoticed: as long as `receive' has counted no
\* gap, Kernel B has received exactly the sequence numbers below the one it
\* expects next, although load and store of that number are not atomic.
NoGapNoLoss == sequence_gaps_detected = 0 => delivered = 0 .. next_expected_seq - 1

\* No payload is received twice and none is received without having been
\* stamped: the counter `receive' keeps agrees with the numbers received, all
\* of which stamp_payload handed out.
DeliveredOnce ==
    /\ payloads_passed = Cardinality(delivered)
    /\ delivered \subseteq 0 .. seq_counter - 1

\* Watchdog and bus agree (main.rs, phase 1): the bus is shut only after the
\* watchdog triggered, and while it stays open with the watchdog triggered,
\* some task is on its way to shut it.  Nothing else closes the bus.
KillReachesBus ==
    ~Operator => /\ (~open => triggered)
                 /\ (triggered /\ open => \E t \in Tasks : pc[t] = "shutdown")

\* Every spawned task answers its client, whatever the interleaving
\* (main.rs: every path of the task ends in send_response).
EveryFrameAnswered == \A t \in Tasks : (pc[t] = "check") ~> (status[t] # "none")

\* The answers of the airlock are those of a gate.  A request is admitted when
\* `receive' finds the bus open, unless Kernel B is going to deny it.
AnswerOf(t) ==
    IF status[t] # "none" THEN status[t]
    ELSE IF pc[t] \in {"new", "reading", "dropped"} THEN "absent"
    ELSE IF /\ pc[t] \in {"load", "store", "archive", "reply"}
            /\ JisAccepts(frame[t])
         THEN "admitted"
    ELSE "waiting"

Clean(f) == /\ VerdictOn(f) = "Pass"
            /\ JisAccepts(f)
            /\ f.size <= MaxPayload

Gate == INSTANCE AirlockGate
    WITH Requests   <- Tasks,
         gate       <- open,
         acceptable <- [t \in Tasks |-> frame[t] # NoFrame /\ Clean(frame[t])],
         answer     <- [t \in Tasks |-> AnswerOf(t)]

\* A frame is answered 200 only when Kernel A passed it, Kernel B accepts its
\* identity, and the bus was open when the payload crossed it; nothing that
\* crossed is refused afterwards; only an operator opens a closed bus.
ImplementsGate == Gate!GateSpec

-----------------------------------------------------------------------------
(***************************************************************************)
(* What comments of the repository say, and the code does not do.          *)
(***************************************************************************)
\* bus.rs:69 "Sequence gap detected -- missing payloads between expected and
\* received": a gap is only reported when there is room between the two.
GapMeansMissing ==
    \A t \in Tasks :
        pc[t] \in {"archive", "reply"} /\ seq[t] # expected[t] => expected[t] < seq[t]

\* archivaris.rs:106 "Accept but flag -- this is a TIBET event": every gap that
\* the bus counted is reported by the task that found it, at the latest when
\* that task has answered.
GapIsFlagged ==
    \A t \in Tasks :
        pc[t] = "done" /\ seq[t] \in delivered /\ seq[t] # expected[t] =>
            t \in flagged

\* watchdog.rs:7 "If Kernel A doesn't send a PASS or KILL within the timeout,
\* the watchdog auto-KILLs": it triggers only if time ever passed while a frame
\* was waiting for Kernel A.
TriggeredMeansUnresponsive == triggered => slow
=============================================================================
