---------------------------- MODULE AirlockGate ----------------------------
(***************************************************************************)
(* What the airlock promises its clients, without the two kernels, the bus *)
(* counters or the watchdog: a gate that is open or shut and, for every    *)
(* request, one answer.  A request is answered 200 only if it was admitted *)
(* while the gate was open, and only acceptable requests are admitted.     *)
(***************************************************************************)
CONSTANT Requests

VARIABLES gate,             \* is the gate open?
          acceptable,       \* is the content of a request acceptable?
          answer            \* the state of each request

gateVars == <<gate, acceptable, answer>>

Refusals == {"400", "403", "503"}

GateInit ==
    /\ gate = TRUE
    /\ acceptable = [r \in Requests |-> FALSE]
    /\ answer = [r \in Requests |-> "absent"]

Submit(r) ==
    /\ answer[r] = "absent"
    /\ answer' = [answer EXCEPT ![r] = "waiting"]
    /\ \E b \in BOOLEAN : acceptable' = [acceptable EXCEPT ![r] = b]
    /\ UNCHANGED gate

Admit(r) ==
    /\ answer[r] = "waiting" /\ gate /\ acceptable[r]
    /\ answer' = [answer EXCEPT ![r] = "admitted"]
    /\ UNCHANGED <<gate, acceptable>>

Grant(r) ==
    /\ answer[r] = "admitted"
    /\ answer' = [answer EXCEPT ![r] = "200"]
    /\ UNCHANGED <<gate, acceptable>>

\* An admitted request is no longer refused.  The step that refuses one may
\* shut the gate.
Refuse(r) ==
    /\ answer[r] = "waiting"
    /\ \E code \in Refusals : answer' = [answer EXCEPT ![r] = code]
    /\ gate' \in {gate, FALSE}
    /\ UNCHANGED acceptable

\* A shut gate is opened by an operator, never by a request.
OpenGate == gate' = TRUE /\ UNCHANGED <<acceptable, answer>>

GateNext ==
    \/ OpenGate
    \/ \E r \in Requests : Submit(r) \/ Admit(r) \/ Grant(r) \/ Refuse(r)

GateSpec == GateInit /\ [][GateNext]_gateVars
=============================================================================
