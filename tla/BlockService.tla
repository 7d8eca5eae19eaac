---------------------------- MODULE BlockService ----------------------------
(***************************************************************************)
(* What a transport to RAM B promises: each call takes effect on the       *)
(* stored blocks at most once, at one moment, and what a call returns is   *)
(* what it met at that moment, between its invocation and its return.  A   *)
(* call that ended in an error may have taken effect, or may yet.  A store *)
(* may be refused.  The blocks live in memory and may be lost.             *)
(***************************************************************************)
EXTENDS FiniteSets

CONSTANTS Calls, Blocks, Contents, Requests, None

VARIABLES
    blocks,   \* the content of each block
    op        \* of each call: its state, request, effect, answer and result

vars == <<blocks, op>>

NoOp == [state |-> "new", req |-> None, taken |-> FALSE, answer |-> None, value |-> None]

Init ==
    /\ blocks = [b \in Blocks |-> None]
    /\ op = [c \in Calls |-> NoOp]

Answer(status, data) == [status |-> status, data |-> data]

\* One call, or all those of a batch.
Call(cs) ==
    /\ \A c \in cs : op[c].state = "new"
    /\ \E r \in [cs -> Requests] :
          op' = [c \in Calls |-> IF c \in cs THEN [op[c] EXCEPT !.state = "open", !.req = r[c]]
                                ELSE op[c]]
    /\ UNCHANGED blocks

Take(c) ==
    LET r == op[c].req
        Answered(a) == op' = [op EXCEPT ![c].taken = TRUE, ![c].answer = a]
    IN  /\ op[c].state \in {"open", "error"} /\ ~op[c].taken
        /\ \/ r.op = "ping" /\ Answered(Answer(200, None)) /\ UNCHANGED blocks
           \/ /\ r.op = "fetch"
              /\ Answered(IF blocks[r.block] = None THEN Answer(404, None)
                          ELSE IF r.hash \notin {None, blocks[r.block]} THEN Answer(409, None)
                          ELSE Answer(200, blocks[r.block]))
              /\ UNCHANGED blocks
           \/ /\ r.op = "store" /\ r.data = r.hash
              /\ Answered(Answer(200, None))
              /\ blocks' = [blocks EXCEPT ![r.block] = r.data]
           \/ /\ r.op = "store"
              /\ \E status \in {409, 413} : Answered(Answer(status, None))
              /\ UNCHANGED blocks

Ok(c) ==
    /\ op[c].state = "open" /\ op[c].taken
    /\ op' = [op EXCEPT ![c].state = "ok", ![c].value = op[c].answer]
    /\ UNCHANGED blocks

Error(c) ==
    /\ op[c].state = "open"
    /\ op' = [op EXCEPT ![c].state = "error"]
    /\ UNCHANGED blocks

Lose ==
    /\ blocks' = [b \in Blocks |-> None]
    /\ UNCHANGED op

Next ==
    \/ \E cs \in SUBSET Calls : Call(cs)
    \/ \E c \in Calls : Take(c) \/ Ok(c) \/ Error(c)
    \/ Lose

Spec == Init /\ [][Next]_vars
=============================================================================
