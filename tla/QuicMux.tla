------------------------------- MODULE QuicMux -------------------------------
(***************************************************************************)
(* The QUIC transport (quic_mux.rs): one connection, shared by the calls   *)
(* of a client, a stream of its own for each request, a server task for    *)
(* each stream, and the cache of hashes that saves the client a            *)
(* verification.                                                           *)
(*                                                                         *)
(* The mutex on the connection is held while a new one is made, so         *)
(* ensure_connected is one step.  What travels is authenticated (TLS): it  *)
(* arrives as it was sent or not at all.                                   *)
(***************************************************************************)
EXTENDS Integers, Sequences, FiniteSets

CONSTANTS
    QuicCalls,   \* the calls that are made, each once
    Batches,     \* the lists of calls that may be made as one fetch_batch_parallel
    Blocks, Contents, Requests,
    MaxConn,     \* bound: connections ever made
    None

VARIABLES
    blocks,      \* BlockStore: the content of each block
    quic,        \* the calls and their streams
    connection,  \* the client's connection, or 0
    opened,      \* number of connections made
    alive,       \* the connections that have no close_reason
    hash_cache,  \* the hash each block was verified with
    batch        \* of each batch: its state and how many of its tasks were joined

client == <<connection, opened, alive, hash_cache, batch>>
vars   == <<blocks, quic, client>>

\* on: the connection it uses.  inbox: the stream is the server's to handle.
NoCall == [state |-> "new", req |-> None, on |-> 0, inbox |-> FALSE, sent |-> FALSE,
           taken |-> FALSE, answer |-> None, reply |-> None, value |-> None]

Init ==
    /\ blocks = [b \in Blocks |-> None]
    /\ quic = [c \in QuicCalls |-> NoCall]
    /\ connection = 0 /\ opened = 0 /\ alive = {}
    /\ hash_cache = [b \in Blocks |-> None]
    /\ batch = [q \in Batches |-> [state |-> "new", joined |-> 0]]

Members(q) == {q[i] : i \in DOMAIN q}
Batched    == UNION {Members(q) : q \in {p \in Batches : batch[p].state # "new"}}

Response(status, hash, data) == [status |-> status, hash |-> hash, data |-> data]

\* What the answer tells: its status, and the data of a fetch.
Told(response) == [status |-> response.status, data |-> response.data]

-----------------------------------------------------------------------------
(***************************************************************************)
(* The client                                                              *)
(***************************************************************************)
\* The connection kept if it lives, or else a new one; nothing on failure.
ensure_connected(conn) ==
    \/ /\ conn = connection /\ connection \in alive
       /\ UNCHANGED <<connection, opened, alive>>
    \/ /\ connection \notin alive
       /\ opened < MaxConn /\ opened' = opened + 1
       /\ conn = opened' /\ connection' = conn /\ alive' = alive \cup {conn}
    \/ /\ connection \notin alive /\ conn = 0
       /\ UNCHANGED <<connection, opened, alive>>

\* ping, fetch_block and store_block up to the stream that they open.
Invoke(c) ==
    /\ quic[c].state = "new"
    /\ \E r \in Requests : quic' = [quic EXCEPT ![c].state = "open", ![c].req = r]
    /\ UNCHANGED <<blocks, client>>

Connect(c) ==
    /\ quic[c].state = "open" /\ quic[c].on = 0
    /\ \E conn \in 0 .. MaxConn :
          /\ ensure_connected(conn)
          /\ quic' = IF conn = 0 THEN [quic EXCEPT ![c].state = "error"]
                     ELSE [quic EXCEPT ![c].on = conn]
    /\ UNCHANGED <<blocks, hash_cache, batch>>

\* open_bi, write the frame and finish, on the connection found before.
Send(c) ==
    /\ quic[c].state = "open" /\ quic[c].on # 0 /\ ~quic[c].sent
    /\ quic' = IF quic[c].on \in alive
               THEN [quic EXCEPT ![c].sent = TRUE, ![c].inbox = TRUE]
               ELSE [quic EXCEPT ![c].state = "error"]
    /\ UNCHANGED <<blocks, client>>

ReadFails(c) ==
    /\ quic[c].state = "open" /\ quic[c].sent /\ quic[c].on \notin alive
    /\ quic' = [quic EXCEPT ![c].state = "error"]
    /\ UNCHANGED <<blocks, client>>

\* MUTANT: the cache is asked whether it knows the block, not its hash.
Computed_ByBlock(c) ==
    LET r == quic[c].reply
    IN  IF r.data # None /\ hash_cache[quic[c].req.block] # None /\ c \notin Batched
        THEN hash_cache[quic[c].req.block] ELSE r.data

\* The hash of the payload, or the one that came with it when the cache holds
\* that; the tasks of a batch do without the cache.
Computed(c) ==
    LET r == quic[c].reply
    IN  IF r.data # None /\ hash_cache[quic[c].req.block] = r.hash /\ c \notin Batched
        THEN r.hash ELSE r.data

\* The status is looked at first; a payload is hashed and compared.
Integrity(c) == quic[c].reply.data = None \/ Computed(c) = quic[c].reply.hash

\* A fetch leaves in the cache the hash it computed, a store that was
\* acknowledged the hash it sent; a task of a batch leaves that to the join.
Receive(c) ==
    LET r == quic[c].req
        a == quic[c].reply
    IN  /\ quic[c].state = "open" /\ a # None
        /\ quic' = IF Integrity(c)
                   THEN [quic EXCEPT ![c].state = "ok", ![c].value = Told(a), ![c].reply = None]
                   ELSE [quic EXCEPT ![c].state = "error", ![c].reply = None]
        /\ hash_cache' =
             IF a.status = 200 /\ r.op # "ping" /\ c \notin Batched
             THEN [hash_cache EXCEPT ![r.block] = IF r.op = "fetch" THEN Computed(c) ELSE r.hash]
             ELSE hash_cache
        /\ UNCHANGED <<blocks, connection, opened, alive, batch>>

\* fetch_batch_parallel: one connection for all, a task for each block.
StartBatch(q) ==
    /\ batch[q].state = "new" /\ \A c \in Members(q) : quic[c].state = "new"
    /\ \E conn \in 0 .. MaxConn, bs \in [DOMAIN q -> Blocks] :
         /\ ensure_connected(conn)
         /\ batch' = [batch EXCEPT ![q].state = IF conn = 0 THEN "error" ELSE "open"]
         /\ quic' = IF conn = 0 THEN quic
                    ELSE [c \in QuicCalls |->
                           IF c \in Members(q)
                           THEN LET i == CHOOSE j \in DOMAIN q : q[j] = c
                                IN  [quic[c] EXCEPT !.state = "open", !.on = conn,
                                       !.req = [op |-> "fetch", block |-> bs[i], hash |-> None]]
                           ELSE quic[c]]
    /\ UNCHANGED <<blocks, hash_cache>>

\* MUTANT: a task that was answered with an error is joined like another.
Joinable_Any(c) == quic[c].state = "ok"

\* A task that fetched its block.
Joinable(c) == quic[c].state = "ok" /\ quic[c].value.status = 200

\* The tasks are joined in order; at the first that failed the call returns
\* and the tasks behind it go on by themselves.
Join(q) ==
    LET c == q[batch[q].joined + 1]
    IN  /\ batch[q].state = "open" /\ quic[c].state \in {"ok", "error"}
        /\ IF Joinable(c)
           THEN /\ hash_cache' = [hash_cache EXCEPT ![quic[c].req.block] = quic[c].value.data]
                /\ batch' = [batch EXCEPT ![q].joined = @ + 1,
                               ![q].state = IF batch[q].joined + 1 = Len(q) THEN "ok" ELSE @]
           ELSE /\ batch' = [batch EXCEPT ![q].state = "error"]
                /\ UNCHANGED hash_cache
        /\ UNCHANGED <<blocks, quic, connection, opened, alive>>

\* Every stream of the connection ends with it; what reached the server is
\* handled there, what did not is lost.
Closed(conn) ==
    /\ alive' = alive \ {conn}
    /\ \E arrived \in SUBSET {c \in QuicCalls : quic[c].on = conn /\ quic[c].inbox} :
          quic' = [c \in QuicCalls |->
                     IF quic[c].on = conn
                     THEN [quic[c] EXCEPT !.reply = None, !.inbox = c \in arrived]
                     ELSE quic[c]]

\* The connection is closed under the calls that use it.
disconnect ==
    /\ connection # 0 /\ connection' = 0
    /\ Closed(connection)
    /\ UNCHANGED <<blocks, opened, hash_cache, batch>>

-----------------------------------------------------------------------------
(***************************************************************************)
(* The server: handle_quic_stream, for each stream                         *)
(***************************************************************************)
Reply(c, response) ==
    quic' = [quic EXCEPT ![c].inbox = FALSE, ![c].taken = TRUE, ![c].answer = Told(response),
                         ![c].reply = IF quic[c].on \in alive THEN response ELSE None]

ServeFetch(c) ==
    LET r == quic[c].req
        d == blocks[r.block]
    IN  /\ quic[c].inbox /\ r.op = "fetch"
        /\ Reply(c, IF d = None THEN Response(404, None, None)
                    ELSE IF r.hash \notin {None, d} THEN Response(409, d, None)
                    ELSE Response(200, d, d))
        /\ UNCHANGED <<blocks, client>>

\* MUTANT: the stream is answered before the block is in the store.
ServeStore_Late(c) ==
    LET r == quic[c].req
    IN  /\ quic[c].inbox /\ r.op = "store"
        /\ \/ /\ ~quic[c].taken /\ UNCHANGED blocks
              /\ quic' = [quic EXCEPT ![c].taken = TRUE,
                            ![c].answer = Told(Response(200, r.hash, None)),
                            ![c].reply = Response(200, r.hash, None)]
           \/ /\ quic[c].taken
              /\ blocks' = [blocks EXCEPT ![r.block] = r.data]
              /\ quic' = [quic EXCEPT ![c].inbox = FALSE]
        /\ UNCHANGED client

ServeStore(c) ==
    LET r == quic[c].req
    IN  /\ quic[c].inbox /\ r.op = "store"
        /\ IF r.data = r.hash
           THEN /\ blocks' = [blocks EXCEPT ![r.block] = r.data]
                /\ Reply(c, Response(200, r.hash, None))
           ELSE /\ Reply(c, Response(409, r.data, None))
                /\ UNCHANGED blocks
        /\ UNCHANGED client

ServePing(c) ==
    /\ quic[c].inbox /\ quic[c].req.op = "ping"
    /\ Reply(c, Response(200, None, None))
    /\ UNCHANGED <<blocks, client>>

Serve(c) == ServeFetch(c) \/ ServeStore(c) \/ ServePing(c)

-----------------------------------------------------------------------------
\* The network: a connection is lost.
Break(conn) ==
    /\ conn \in alive /\ Closed(conn)
    /\ UNCHANGED <<blocks, connection, opened, hash_cache, batch>>

\* The process that holds the BlockStore starts again.
Restart ==
    /\ blocks' = [b \in Blocks |-> None]
    /\ alive' = {}
    /\ quic' = [c \in QuicCalls |-> [quic[c] EXCEPT !.inbox = FALSE, !.reply = None]]
    /\ UNCHANGED <<connection, opened, hash_cache, batch>>

Client(c) == Invoke(c) \/ Connect(c) \/ Send(c) \/ Receive(c) \/ ReadFails(c)

Steps ==
    \/ \E c \in QuicCalls : Client(c) \/ Serve(c)
    \/ \E q \in Batches : StartBatch(q) \/ Join(q)

Faults == disconnect \/ \E conn \in alive : Break(conn)

-----------------------------------------------------------------------------
(***************************************************************************)
(* Properties                                                              *)
(***************************************************************************)
\* A batch returns its blocks only when every one of its tasks fetched one,
\* in the order asked for, all over one connection, and what was joined of a
\* batch that failed is no more than the tasks before the one that failed.
BatchIsWhole ==
    \A q \in Batches :
        /\ batch[q].state = "ok" => batch[q].joined = Len(q)
        /\ \A i \in 1 .. batch[q].joined :
             /\ quic[q[i]].state = "ok" /\ quic[q[i]].value.data \in Contents
             /\ quic[q[i]].on = quic[q[1]].on

\* The cache never makes a call fail or answer for another content: a payload
\* that arrived whole passes, whether it was hashed or the cache vouched for
\* it, although calls fill the cache in another order than the blocks change.
CacheIsHarmless ==
    \A c \in QuicCalls :
        quic[c].state = "open" /\ quic[c].reply # None => Integrity(c)
==============================================================================
