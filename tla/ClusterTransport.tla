-------------------------- MODULE ClusterTransport --------------------------
(***************************************************************************)
(* The transport that opens a TCP connection for each request              *)
(* (cluster_transport.rs), and the BlockStore of RAM B that it serves.     *)
(*                                                                         *)
(* A call waits at most timeout_ms for the connection and as long as it    *)
(* takes for the answer.  SHA-256 has no collisions: the hash of a content *)
(* is that content.  Garbage is what is read after bytes were corrupted or *)
(* are out of place.                                                       *)
(***************************************************************************)
EXTENDS FiniteSets

CONSTANTS
    TcpCalls,   \* the calls that are made, each once
    Blocks,
    Contents,
    Oversized,  \* the contents of more than 64 MB
    Requests,   \* the requests the callers make
    None, Garbage

VARIABLES
    blocks,     \* BlockStore: the content of each block
    tcp         \* the calls

vars == <<blocks, tcp>>

\* link: of the socket.  inbox: the request is the server's to handle, and
\* payload the data of a store as the server will read it.
\* taken, answer: whether the server handled it, and how it answered.
NoCall == [state |-> "new", req |-> None, link |-> "none", inbox |-> FALSE, payload |-> None,
           taken |-> FALSE, answer |-> None, reply |-> None, value |-> None]

Init ==
    /\ blocks = [b \in Blocks |-> None]
    /\ tcp = [c \in TcpCalls |-> NoCall]

\* The header of a response with, after 200 to a fetch, the payload.
Response(status, hash, data) == [status |-> status, hash |-> hash, data |-> data]

\* What the answer tells: its status, and the data of a fetch.
Told(response) == [status |-> response.status, data |-> response.data]

-----------------------------------------------------------------------------
(***************************************************************************)
(* The client: fetch_block, store_block, ping                              *)
(***************************************************************************)
Invoke(c) ==
    /\ tcp[c].state = "new"
    /\ \E r \in Requests : tcp' = [tcp EXCEPT ![c].state = "open", ![c].req = r]
    /\ UNCHANGED blocks

\* The socket is dropped when the call returns.
Returns(c, state, value) ==
    /\ tcp' = [tcp EXCEPT ![c].state = state, ![c].value = value,
                          ![c].link = "down", ![c].reply = None]
    /\ UNCHANGED blocks

Fail(c) == Returns(c, "error", None)

\* Timeout, or Connect: refused.
ConnectFails(c) == tcp[c].state = "open" /\ tcp[c].link = "none" /\ Fail(c)

\* The data of a store.  The seal before it is padded to its 128 bytes and not
\* cut to them: behind a longer one the data is not in its place.
Payload(r) ==
    IF r.op # "store" THEN None ELSE IF r.seal_fits THEN r.data ELSE Garbage

\* Connect, write the request and, for a store, sizes, hash, seal and data.
Send(c) ==
    /\ tcp[c].state = "open" /\ tcp[c].link = "none"
    /\ tcp' = [tcp EXCEPT ![c].link = "up", ![c].inbox = TRUE, ![c].payload = Payload(tcp[c].req)]
    /\ UNCHANGED blocks

\* The status is looked at first, then the payload is read and verified.
Accepts(c) ==
    LET r == tcp[c].reply
    IN  r.data # None => r.data = r.hash

Receive(c) ==
    /\ tcp[c].state = "open" /\ tcp[c].reply # None
    /\ IF Accepts(c) THEN Returns(c, "ok", Told(tcp[c].reply))
                     ELSE Fail(c)                        \* IntegrityFailed

ReadFails(c) == tcp[c].state = "open" /\ tcp[c].link = "down" /\ Fail(c)

-----------------------------------------------------------------------------
(***************************************************************************)
(* The server: handle_connection, one request for each connection          *)
(***************************************************************************)
Reply(c, response) ==
    tcp' = [tcp EXCEPT ![c].inbox = FALSE, ![c].taken = TRUE, ![c].answer = Told(response),
                       ![c].reply = IF tcp[c].link = "up" THEN response ELSE None]

handle_fetch(c) ==
    LET r == tcp[c].req
        d == blocks[r.block]
    IN  /\ tcp[c].inbox /\ r.op = "fetch"
        /\ Reply(c, IF d = None THEN Response(404, None, None)
                    ELSE IF r.hash \notin {None, d} THEN Response(409, None, None)
                    ELSE Response(200, d, d))
        /\ UNCHANGED blocks

\* MUTANT: what was read is stored without a look at its hash.
handle_store_Unverified(c) ==
    LET r == tcp[c].req
    IN  /\ tcp[c].inbox /\ r.op = "store"
        /\ \/ /\ r.data \in Oversized
              /\ Reply(c, Response(413, None, None))
              /\ UNCHANGED blocks
           \/ /\ r.data \notin Oversized
              /\ Reply(c, Response(200, r.hash, None))
              /\ blocks' = [blocks EXCEPT ![r.block] = tcp[c].payload]

\* The size is looked at before the data is read, the hash after.
handle_store(c) ==
    LET r == tcp[c].req
        d == tcp[c].payload
    IN  /\ tcp[c].inbox /\ r.op = "store"
        /\ \/ /\ r.data \in Oversized
              /\ Reply(c, Response(413, None, None))
              /\ UNCHANGED blocks
           \/ /\ r.data \notin Oversized /\ d # r.hash
              /\ Reply(c, Response(409, None, None))
              /\ UNCHANGED blocks
           \/ /\ r.data \notin Oversized /\ d = r.hash
              /\ Reply(c, Response(200, r.hash, None))
              /\ blocks' = [blocks EXCEPT ![r.block] = d]

handle_ping(c) ==
    /\ tcp[c].inbox /\ tcp[c].req.op = "ping"
    /\ Reply(c, Response(200, None, None))
    /\ UNCHANGED blocks

Serve(c) == handle_fetch(c) \/ handle_store(c) \/ handle_ping(c)

-----------------------------------------------------------------------------
(***************************************************************************)
(* The network                                                             *)
(***************************************************************************)
\* A connection breaks; of the request, all or not enough has arrived.
Break(c) ==
    /\ tcp[c].link = "up"
    /\ \E arrived \in BOOLEAN :
          tcp' = [tcp EXCEPT ![c].link = "down", ![c].reply = None,
                             ![c].inbox = @ /\ arrived]
    /\ UNCHANGED blocks

\* "data corrupted in transit": the data of a block, on its way to the server or
\* back.  The hash covers nothing else.
Corrupt(c) ==
    /\ \/ /\ tcp[c].inbox /\ tcp[c].payload \in Contents
          /\ tcp' = [tcp EXCEPT ![c].payload = Garbage]
       \/ /\ tcp[c].reply # None /\ tcp[c].reply.data \in Contents
          /\ tcp' = [tcp EXCEPT ![c].reply.data = Garbage]
    /\ UNCHANGED blocks

\* The process that holds the BlockStore starts again.
Restart ==
    /\ blocks' = [b \in Blocks |-> None]
    /\ tcp' = [c \in TcpCalls |->
                 IF tcp[c].link = "up"
                 THEN [tcp[c] EXCEPT !.link = "down", !.inbox = FALSE, !.reply = None]
                 ELSE [tcp[c] EXCEPT !.inbox = FALSE]]

Client(c) == Invoke(c) \/ ConnectFails(c) \/ Send(c) \/ Receive(c) \/ ReadFails(c)

Steps  == \E c \in TcpCalls : Client(c) \/ Serve(c)
Faults == \E c \in TcpCalls : Break(c) \/ Corrupt(c)
=============================================================================
