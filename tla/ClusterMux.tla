----------------------------- MODULE ClusterMux -----------------------------
(***************************************************************************)
(* The transport to RAM B (cluster_mux.rs): a client that keeps one TCP    *)
(* connection, the server tasks at the other end, one per connection, and  *)
(* the BlockStore they share (cluster_transport.rs).                       *)
(*                                                                         *)
(* A call of the client holds the connection's mutex from its first byte   *)
(* to its last, so one call at a time is modelled; ensure_connected locks  *)
(* by itself before, and a disconnect may come between.  Responses are     *)
(* taken in the order they arrive.  A stream is a sequence of frames and,  *)
(* behind some of them, payloads: whoever leaves one unread leaves it to   *)
(* the next call.                                                          *)
(*                                                                         *)
(* SHA-256 has no collisions here: the hash of a content is that content.  *)
(***************************************************************************)
EXTENDS Integers, Sequences, FiniteSets, SequencesExt

CONSTANTS
    Blocks,      \* block indices
    Contents,    \* what a block may contain
    Batches,     \* the index lists given to fetch_batch
    MaxConn,     \* bound: connections the client ever opens
    MaxChannel,  \* bound: channel ids the client ever uses
    MaxLater,    \* bound: the same, once it has more than one connection behind it
    None

ASSUME BoundsAssumption ==
    MaxConn \in Nat /\ MaxChannel \in Nat /\ MaxLater \in 0 .. MaxChannel
ASSUME ListsAssumption  == Batches \subseteq Seq(Blocks) \ {<<>>}
ASSUME NoneAssumption   == None \notin Contents
ASSUME BlocksAssumption == Blocks # {}

VARIABLES
    \* RAM B
    store,        \* the content of each stored block
    requests,     \* of each connection: sent and not yet served
    \* the network
    up,           \* the connections that work
    silent,       \* those that do not, which neither end has noticed
    responses,    \* of each connection: frames and payloads not yet read
    \* the client
    connection,   \* its connection, or 0
    hash_cache,   \* the hash each block was verified with
    next_channel,
    phase,        \* of the call: "idle", "ensured", "header", "payload"
    call,         \* the call in progress
    left,         \* its requests that wait for a response
    header,       \* the response whose payload is to be read
    result,       \* what the last call returned
    \* history
    opened,       \* number of connections opened
    applied,      \* channel ids of the stores that RAM B carried out
    held,         \* what RAM B ever held for each block
    abandoned     \* connections on which a fetch_batch returned too early

ramB    == <<store, requests, applied, held>>
network == <<up, silent, responses>>
client  == <<connection, hash_cache, next_channel, phase, call, left, header,
             result, opened, abandoned>>
vars    == <<ramB, network, client>>

Connections == 1 .. MaxConn
NoCall      == [op |-> "none", blocks |-> <<>>, data |-> None, hash |-> None]
NoResult    == [call |-> NoCall, on |-> 0, ok |-> FALSE, answers |-> <<>>]

Init ==
    /\ store = [b \in Blocks |-> None] /\ held = [b \in Blocks |-> {}]
    /\ requests = [k \in Connections |-> <<>>] /\ applied = {}
    /\ up = {} /\ silent = {} /\ responses = [k \in Connections |-> <<>>]
    /\ connection = 0 /\ opened = 0 /\ abandoned = {}
    /\ hash_cache = [b \in Blocks |-> None] /\ next_channel = 1
    /\ phase = "idle" /\ call = NoCall /\ left = <<>> /\ header = None
    /\ result = NoResult

-----------------------------------------------------------------------------
(***************************************************************************)
(* The server: handle_mux_connection takes the frames of one connection in *)
(* turn.  What it writes to a connection that is down is lost.             *)
(***************************************************************************)
Response(r, status, hash, sized) ==
    [frame |-> TRUE, channel_id |-> r.channel_id, status |-> status,
     hash |-> hash, sized |-> sized]

Payload(d) == [frame |-> FALSE, data |-> d]

Respond(k, items) ==
    /\ requests' = [requests EXCEPT ![k] = Tail(@)]
    /\ responses' = IF k \in up THEN [responses EXCEPT ![k] = @ \o items]
                                ELSE responses
    /\ UNCHANGED <<up, silent, client>>

NextRequest(k, type) == requests[k] # <<>> /\ Head(requests[k]).type = type

\* MUTANT: the server leaves the comparison of the hash to the client.
ServeFetch_Unchecked(k) ==
    /\ NextRequest(k, "Fetch")
    /\ LET r == Head(requests[k])
           d == store[r.block_index]
       IN  Respond(k, IF d = None THEN <<Response(r, 404, None, FALSE)>>
                      ELSE <<Response(r, 200, d, TRUE), Payload(d)>>)
    /\ UNCHANGED <<store, applied, held>>

ServeFetch(k) ==
    /\ NextRequest(k, "Fetch")
    /\ LET r == Head(requests[k])
           d == store[r.block_index]
       IN  Respond(k, IF d = None THEN <<Response(r, 404, None, FALSE)>>
                      ELSE IF r.hash \notin {None, d}
                           THEN <<Response(r, 409, d, FALSE)>>
                           ELSE <<Response(r, 200, d, TRUE), Payload(d)>>)
    /\ UNCHANGED <<store, applied, held>>

\* MUTANT: the server acknowledges a block before it looks at its hash.
ServeStore_Unchecked(k) ==
    /\ NextRequest(k, "Store")
    /\ LET r == Head(requests[k])
       IN  /\ Respond(k, <<Response(r, 200, r.hash, TRUE)>>)
           /\ IF r.data = r.hash
              THEN /\ store' = [store EXCEPT ![r.block_index] = r.data]
                   /\ held' = [held EXCEPT ![r.block_index] = @ \cup {r.data}]
                   /\ applied' = applied \cup {r.channel_id}
              ELSE UNCHANGED <<store, applied, held>>

\* The acknowledgement names the size of the payload that came, and none follows.
ServeStore(k) ==
    /\ NextRequest(k, "Store")
    /\ LET r == Head(requests[k])
       IN  IF r.data # r.hash
           THEN /\ Respond(k, <<Response(r, 409, r.data, FALSE)>>)
                /\ UNCHANGED <<store, applied, held>>
           ELSE /\ Respond(k, <<Response(r, 200, r.hash, TRUE)>>)
                /\ store' = [store EXCEPT ![r.block_index] = r.data]
                /\ held' = [held EXCEPT ![r.block_index] = @ \cup {r.data}]
                /\ applied' = applied \cup {r.channel_id}

ServePing(k) ==
    /\ NextRequest(k, "Ping")
    /\ Respond(k, <<Response(Head(requests[k]), 200, None, FALSE)>>)
    /\ UNCHANGED <<store, applied, held>>

ServeConnection(k) == ServeFetch(k) \/ ServeStore(k) \/ ServePing(k)

-----------------------------------------------------------------------------
(***************************************************************************)
(* External: the network and the server's machine.                         *)
(***************************************************************************)
\* What was on its way arrives up to some point.
Cut(k) ==
    /\ up' = up \ {k}
    /\ \E s \in Prefixes(requests[k]) : requests' = [requests EXCEPT ![k] = s]
    /\ \E s \in Prefixes(responses[k]) : responses' = [responses EXCEPT ![k] = s]
    /\ UNCHANGED <<store, applied, held, client>>

\* A connection breaks, or is at last found to be dead.
Break(k) ==
    /\ k \in up \cup silent
    /\ Cut(k)
    /\ silent' = silent \ {k}

\* The other machine or the way to it is gone, and no packet says so.  Neither
\* end has a timeout or asks for keepalives.
Vanish(k) ==
    /\ k \in up
    /\ Cut(k)
    /\ silent' = silent \cup {k}

\* The server process starts again: the BlockStore is memory.
Restart ==
    /\ up' = {}
    /\ requests' = [k \in Connections |-> <<>>]
    /\ responses' = [k \in Connections |-> <<>>]
    /\ store' = [b \in Blocks |-> None]
    /\ UNCHANGED <<silent, applied, held, client>>

-----------------------------------------------------------------------------
(***************************************************************************)
(* The client: the start of a call.                                        *)
(***************************************************************************)
Return(ok) ==
    /\ phase' = "idle" /\ call' = NoCall /\ left' = <<>> /\ header' = None
    /\ result' = [result EXCEPT !.ok = ok]

\* ensure_connected: connects only if there never was a connection, or the
\* last one was disconnected.
Begin(c) ==
    /\ phase = "idle"
    /\ connection = 0 => opened < MaxConn
    /\ IF connection = 0
       THEN /\ connection' = opened + 1 /\ opened' = opened + 1
            /\ up' = up \cup {opened + 1}
       ELSE UNCHANGED <<connection, opened, up>>
    /\ next_channel + Len(c.blocks) <= 1 + (IF opened' = 1 THEN MaxChannel ELSE MaxLater)
    /\ phase' = "ensured" /\ call' = c
    /\ result' = [NoResult EXCEPT !.call = c, !.on = connection']
    /\ UNCHANGED <<ramB, silent, responses, hash_cache, next_channel, left, header,
                   abandoned>>

ConnectFails(c) ==
    /\ phase = "idle" /\ connection = 0
    /\ result' = [NoResult EXCEPT !.call = c]
    /\ UNCHANGED <<ramB, network, connection, hash_cache, next_channel, phase,
                   call, left, header, opened, abandoned>>

\* A ping is about no block in particular.
ping == [NoCall EXCEPT !.op = "Ping", !.blocks = <<CHOOSE b \in Blocks : TRUE>>]
fetch_block(b, h)    == [NoCall EXCEPT !.op = "Fetch", !.blocks = <<b>>, !.hash = h]
store_block(b, d, h) == [op |-> "Store", blocks |-> <<b>>, data |-> d, hash |-> h]
fetch_batch(s)       == [NoCall EXCEPT !.op = "Batch", !.blocks = s]

Calls ==
    {ping} \cup {fetch_batch(s) : s \in Batches}
    \cup {fetch_block(b, h) : b \in Blocks, h \in Contents \cup {None}}
    \cup {store_block(b, d, h) : b \in Blocks, d \in Contents, h \in Contents}

Frame(i) ==
    [type |-> IF call.op = "Batch" THEN "Fetch" ELSE call.op,
     channel_id |-> next_channel + i - 1, block_index |-> call.blocks[i],
     data |-> call.data, hash |-> call.hash]

\* MUTANT: the cache takes the hash of a block when it is sent.
Send_MarksCache ==
    /\ phase = "ensured" /\ connection \in up \cup silent
    /\ LET frames == [i \in DOMAIN call.blocks |-> Frame(i)]
       IN  /\ requests' = IF connection \in up
                          THEN [requests EXCEPT ![connection] = @ \o frames] ELSE requests
           /\ left' = frames
    /\ next_channel' = next_channel + Len(call.blocks)
    /\ hash_cache' = IF call.op = "Store"
                     THEN [hash_cache EXCEPT ![call.blocks[1]] = call.hash]
                     ELSE hash_cache
    /\ phase' = "header"
    /\ UNCHANGED <<store, applied, held, network, connection, call, header,
                   result, opened, abandoned>>

\* All requests of the call are written, then the responses are read.  A
\* connection that died without notice takes them all the same.
Send ==
    /\ phase = "ensured" /\ connection \in up \cup silent
    /\ LET frames == [i \in DOMAIN call.blocks |-> Frame(i)]
       IN  /\ requests' = IF connection \in up
                          THEN [requests EXCEPT ![connection] = @ \o frames] ELSE requests
           /\ left' = frames
    /\ next_channel' = next_channel + Len(call.blocks)
    /\ phase' = "header"
    /\ UNCHANGED <<store, applied, held, network, connection, hash_cache, call,
                   header, result, opened, abandoned>>

\* NotConnected, or an I/O error: either way nothing is sent, and the
\* connection is kept as it is.
SendFails ==
    /\ phase = "ensured" /\ connection \notin up \cup silent
    /\ Return(FALSE)
    /\ UNCHANGED <<ramB, network, connection, hash_cache, next_channel, opened,
                   abandoned>>

-----------------------------------------------------------------------------
(***************************************************************************)
(* The client: reading responses.                                          *)
(***************************************************************************)
Incoming == responses[connection]
Consume(s) == responses' = [responses EXCEPT ![connection] = s]

\* A call returns an error.  The responses a batch still waits for stay unread.
GiveUp ==
    /\ Return(FALSE)
    /\ abandoned' = IF Len(left) > 1 THEN abandoned \cup {connection} ELSE abandoned

Accepted(d) ==
    [asked |-> Head(left).channel_id, answered |-> d.channel_id,
     block |-> Head(left).block_index, data |-> d.data]

ReadsFrame ==
    /\ phase = "header" /\ Incoming # <<>> /\ Head(Incoming).frame
    /\ Consume(Tail(Incoming))
    /\ UNCHANGED <<ramB, up, silent, connection, next_channel, opened>>

ReadStatus ==
    /\ ReadsFrame /\ Head(Incoming).status # 200
    /\ GiveUp
    /\ UNCHANGED hash_cache

\* Whatever response comes first: its channel id is not looked at.
ReadFetched ==
    /\ ReadsFrame /\ Head(Incoming).status = 200 /\ call.op \in {"Fetch", "Batch"}
    /\ phase' = "payload" /\ header' = Head(Incoming)
    /\ UNCHANGED <<hash_cache, call, left, result, abandoned>>

\* A payload that follows is left in the stream.
ReadAcknowledged ==
    /\ ReadsFrame /\ Head(Incoming).status = 200 /\ call.op \in {"Store", "Ping"}
    /\ hash_cache' = IF call.op = "Store"
                     THEN [hash_cache EXCEPT ![call.blocks[1]] = call.hash]
                     ELSE hash_cache
    /\ phase' = "idle" /\ call' = NoCall /\ left' = <<>> /\ header' = None
    /\ result' = [result EXCEPT !.ok = TRUE, !.answers =
                     <<Accepted([channel_id |-> Head(Incoming).channel_id,
                                 data |-> call.data])>>]
    /\ UNCHANGED abandoned

\* Bytes of a payload taken for a frame: no frame, and four or more bytes gone.
ReadGarbage ==
    /\ phase = "header" /\ Incoming # <<>> /\ ~Head(Incoming).frame
    /\ Consume(Incoming) \/ Consume(Tail(Incoming))
    /\ GiveUp
    /\ UNCHANGED <<ramB, up, silent, connection, hash_cache, next_channel, opened>>

\* read_payload_cached: a claimed hash the block was verified with before is
\* believed, any other is computed and remembered.
Verified(d) ==
    IF header.hash # None /\ hash_cache[Head(left).block_index] = header.hash
    THEN header.hash ELSE d

TakePayload(d) ==
    /\ hash_cache' = [hash_cache EXCEPT ![Head(left).block_index] = Verified(d)]
    /\ IF Verified(d) # header.hash
       THEN GiveUp
       ELSE /\ result' = [result EXCEPT
                  !.ok = Len(left) = 1,
                  !.answers = Append(@, Accepted([channel_id |-> header.channel_id,
                                                  data |-> d]))]
            /\ left' = Tail(left) /\ header' = None
            /\ IF Len(left) = 1 THEN phase' = "idle" /\ call' = NoCall
                                ELSE phase' = "header" /\ call' = call
            /\ UNCHANGED abandoned
    /\ UNCHANGED <<ramB, up, silent, connection, next_channel, opened>>

ReadPayload ==
    /\ phase = "payload" /\ header.sized /\ Incoming # <<>> /\ ~Head(Incoming).frame
    /\ Consume(Tail(Incoming))
    /\ TakePayload(Head(Incoming).data)

\* A response without a payload: the data is empty.
ReadNothing ==
    /\ phase = "payload" /\ ~header.sized
    /\ TakePayload("empty")
    /\ UNCHANGED responses

\* A size without a payload: frames are read as if they were one, the last of
\* them perhaps in part.
ReadFrames ==
    /\ phase = "payload" /\ header.sized /\ Incoming # <<>> /\ Head(Incoming).frame
    /\ \E s \in Suffixes(Tail(Incoming)) : Consume(s) \/ Consume(<<Payload("junk")>> \o s)
    /\ TakePayload("junk")

\* MUTANT: a connection that breaks before a payload is not noticed.
ReadFails_HeaderOnly ==
    /\ phase = "header" /\ connection \notin up \cup silent /\ Incoming = <<>>
    /\ GiveUp
    /\ UNCHANGED <<ramB, network, connection, hash_cache, next_channel, opened>>

\* An I/O error; the broken connection is kept.  Without one, read_frame waits.
ReadFails ==
    /\ phase \in {"header", "payload"} /\ connection \notin up \cup silent /\ Incoming = <<>>
    /\ GiveUp
    /\ UNCHANGED <<ramB, network, connection, hash_cache, next_channel, opened>>

Read == \/ ReadStatus \/ ReadFetched \/ ReadAcknowledged \/ ReadGarbage
        \/ ReadPayload \/ ReadNothing \/ ReadFrames \/ ReadFails

\* disconnect waits for the mutex.  What was sent before still arrives.
disconnect ==
    /\ phase \in {"idle", "ensured"} /\ connection # 0
    /\ connection' = 0
    /\ up' = up \ {connection} /\ silent' = silent \ {connection}
    /\ responses' = [responses EXCEPT ![connection] = <<>>]
    /\ UNCHANGED <<ramB, hash_cache, next_channel, phase, call, left, header,
                   result, opened, abandoned>>

-----------------------------------------------------------------------------
Client == Send \/ SendFails \/ Read

Next ==
    \/ \E c \in Calls : Begin(c) \/ ConnectFails(c)
    \/ Client \/ disconnect \/ Restart
    \/ \E k \in Connections : ServeConnection(k) \/ Break(k) \/ Vanish(k)

Spec == Init /\ [][Next]_vars

\* The client and the server tasks keep running, and bytes on a connection
\* that is up arrive: the buffers of the sockets hold what is written.  Nobody
\* has to call, disconnect or break anything, or notice that it is broken.
FairSpec == /\ Spec
            /\ WF_vars(Client)
            /\ \A k \in Connections : WF_vars(ServeConnection(k))

-----------------------------------------------------------------------------
(***************************************************************************)
(* Properties.                                                             *)
(***************************************************************************)
Frames == [type : {"Fetch", "Store", "Ping"}, channel_id : 1 .. MaxChannel,
           block_index : Blocks, data : Contents \cup {None},
           hash : Contents \cup {None}]
Items  == [frame : {TRUE}, channel_id : 1 .. MaxChannel, status : {200, 404, 409},
           hash : Contents \cup {None}, sized : BOOLEAN]
          \cup [frame : {FALSE}, data : Contents \cup {"junk"}]

\* Every variable has its type; a call that reads has a connection and a
\* request that waits, or the index into either would fail.
TypeOK ==
    /\ store \in [Blocks -> Contents \cup {None}]
    /\ hash_cache \in [Blocks -> Contents \cup {None, "empty", "junk"}]
    /\ \A k \in Connections : /\ \A i \in DOMAIN requests[k] : requests[k][i] \in Frames
                              /\ \A i \in DOMAIN responses[k] : responses[k][i] \in Items
    /\ up \subseteq 1 .. opened /\ silent \subseteq 1 .. opened /\ opened \in 0 .. MaxConn
    /\ connection \in {0, opened} /\ next_channel \in 1 .. MaxChannel + 1
    /\ phase \in {"header", "payload"} => connection # 0 /\ left # <<>>
    /\ phase = "payload" => header \in Items
    /\ applied \subseteq 1 .. MaxChannel /\ abandoned \subseteq Connections

\* Responses are matched by their position alone, and that is enough as long as
\* no fetch_batch was given up half-way on the connection: whatever broke, was
\* refused or was sent before, a call that succeeds took the responses to its
\* own requests, and a fetch got a content RAM B really held for that block,
\* the expected one if it asked for one.
AnswersItsRequest ==
    result.ok /\ result.on \notin abandoned =>
        \A i \in DOMAIN result.answers :
            LET a == result.answers[i]
            IN  /\ a.answered = a.asked
                /\ result.call.op \in {"Fetch", "Batch"} =>
                       a.data \in held[a.block] /\ result.call.hash \in {None, a.data}

\* store_block returns Ok only for a block that RAM B has stored (the same
\* condition): what evict_coldest relies on when it drops the block.
AcknowledgedIsApplied ==
    result.ok /\ result.call.op = "Store" /\ result.on \notin abandoned =>
        result.answers[1].asked \in applied

\* The client's hash_cache, which lets a later fetch skip the computation, names
\* only contents that RAM B held for that very block.
CacheIsHonest ==
    abandoned = {} => \A b \in Blocks : hash_cache[b] \in held[b] \cup {None}

\* A call ends, although connections break and the server restarts at any point
\* of it.  It may hang with the connection's mutex held, and everyone behind it,
\* in two cases only: the connection died without notice, since read_frame has
\* no timeout (cluster_mux.rs:605), or it reads what a batch left behind.
EveryCallReturns ==
    (phase # "idle") ~> (phase = "idle" \/ connection \in silent \cup abandoned)

\* VIOLATED by the code.  "multiplex all block requests through it with channel
\* IDs": a call that succeeds was answered under its own channel ids.
AnsweredByChannel ==
    result.ok => \A i \in DOMAIN result.answers :
                     result.answers[i].answered = result.answers[i].asked

\* VIOLATED by the code.  "Ensure we have a live connection (lazy connect)": a
\* call that starts has a connection that works.
EnsuresLiveConnection ==
    [][phase = "idle" /\ phase' = "ensured" => connection' \in up']_vars

\* VIOLATED by the code.  The bus_seq of a request is an "ordering guarantee":
\* once a store has returned Ok, no earlier store of the block replaces it.
LastStoreWins ==
    result.ok /\ result.call.op = "Store" /\ result.on \notin abandoned =>
        store[result.call.blocks[1]] \in {result.call.data, None}
=============================================================================
