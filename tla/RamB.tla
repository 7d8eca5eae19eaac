-------------------------------- MODULE RamB --------------------------------
(***************************************************************************)
(* RAM B as its users see it: one BlockStore served over the TCP transport *)
(* and over the QUIC transport at the same time, and the promise that both *)
(* keep together (BlockService).                                           *)
(***************************************************************************)
EXTENDS Integers, Sequences, FiniteSets

CONSTANTS
    TcpCalls, QuicCalls, Batches,
    Blocks, Contents, Oversized,
    TcpRequests, QuicRequests,
    MaxConn,
    MaxFaults,      \* bound: connections that break or are closed, restarts
    None, Garbage

ASSUME ContentAssumption ==
    None \notin Contents /\ Garbage \notin Contents \cup {None} /\ Oversized \subseteq Contents

\* What a caller may ask: a hash is that of some content.
Request ==
    [op : {"ping"}]
    \cup [op : {"fetch"}, block : Blocks, hash : Contents \cup {None}]
    \cup [op : {"store"}, block : Blocks, data : Contents, hash : Contents, seal_fits : BOOLEAN]

ASSUME RequestAssumption == TcpRequests \cup QuicRequests \subseteq Request
ASSUME ConnAssumption  == MaxConn \in Nat
ASSUME BatchAssumption ==
    /\ Batches \subseteq Seq(QuicCalls) \ {<<>>}
    /\ \A p, q \in Batches : p # q =>
         {p[i] : i \in DOMAIN p} \cap {q[i] : i \in DOMAIN q} = {}
ASSUME FaultAssumption == MaxFaults \in Nat
ASSUME CallAssumption  == TcpCalls \cap QuicCalls = {}

VARIABLES
    blocks,                                                     \* shared
    tcp,                                                        \* ClusterTransport
    quic, connection, opened, alive, hash_cache, batch,         \* QuicMux
    faults                                                      \* counted for the bound

quicvars == <<quic, connection, opened, alive, hash_cache, batch>>
vars     == <<blocks, tcp, quicvars, faults>>

Tcp  == INSTANCE ClusterTransport WITH Requests <- TcpRequests
Quic == INSTANCE QuicMux WITH Requests <- QuicRequests

Init == Tcp!Init /\ Quic!Init /\ faults = 0

\* A connection breaks, is closed, corrupts what it carries, or the process
\* that holds the store starts again.
Fault ==
    /\ faults < MaxFaults /\ faults' = faults + 1
    /\ \/ Tcp!Faults /\ UNCHANGED quicvars
       \/ Quic!Faults /\ UNCHANGED tcp
       \/ Tcp!Restart /\ Quic!Restart

TcpStep(A)  == A /\ UNCHANGED <<quicvars, faults>>
QuicStep(A) == A /\ UNCHANGED <<tcp, faults>>

Next == TcpStep(Tcp!Steps) \/ QuicStep(Quic!Steps) \/ Fault

Spec == Init /\ [][Next]_vars

-----------------------------------------------------------------------------
(***************************************************************************)
(* Properties                                                              *)
(***************************************************************************)
Seen(call) == [state |-> call.state, req |-> call.req, taken |-> call.taken,
               answer |-> call.answer, value |-> call.value]

Service == INSTANCE BlockService WITH
    Calls    <- TcpCalls \cup QuicCalls,
    Requests <- TcpRequests \cup QuicRequests \cup
                {[op |-> "fetch", block |-> b, hash |-> None] : b \in Blocks},
    op       <- [c \in TcpCalls \cup QuicCalls |->
                   IF c \in TcpCalls THEN Seen(tcp[c]) ELSE Seen(quic[c])]

\* Both transports together implement the block service: every call takes
\* effect at most once, at one moment, and returns what it met then, whatever
\* connections break, whoever asks over the other transport, and however late
\* a request is handled whose caller has given up.
ImplementsService == Service!Spec

\* The batches of the QUIC transport are whole (QuicMux).
BatchIsWhole == Quic!BatchIsWhole

\* The hash cache of the QUIC transport is harmless (QuicMux).
CacheIsHarmless == Quic!CacheIsHarmless

\* Data of a block that was corrupted on its way over TCP, or is out of place
\* behind a seal that is too long, is neither stored by RAM B nor returned to a
\* caller: the hash is computed at both ends (handle_store, fetch_block).
NothingCorrupted ==
    /\ \A b \in Blocks : blocks[b] \in Contents \cup {None}
    /\ \A c \in TcpCalls : tcp[c].state = "ok" => tcp[c].value.data # Garbage
=============================================================================
