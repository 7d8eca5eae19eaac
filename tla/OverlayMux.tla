----------------------------- MODULE OverlayMux -----------------------------
(***************************************************************************)
(* The overlay (overlay_mux.rs): a peer is named by its identity; the      *)
(* resolver finds where the identity lives, in a registry, a cache or over *)
(* an API; one QUIC connection for each name is kept and reused.           *)
(*                                                                         *)
(* Registry, cache and peers have a lock each, held for one access, so     *)
(* each access is a step and calls interleave between them.  A name        *)
(* without a colon is completed by resolve and by nothing else (Norm).     *)
(* Trust scores, activity times and the wording of frames are left out; a  *)
(* connection nobody holds any more is closed (quinn).                     *)
(***************************************************************************)
EXTENDS Integers, FiniteSets

CONSTANTS
    Names,      \* what callers use as an identity
    Bare,       \* of them: without a colon and not .aint
    Norm,       \* what resolve makes of each name
    Endpoints,
    Api,        \* where the API finds each identity at first
    Calls,      \* the calls that are made, each once
    MaxConn,    \* bound: connections ever made
    MaxEvents,  \* bound: registrations, removals, moves and losses
    None

ASSUME NameAssumption ==
    /\ Norm \in [Names -> Names]
    /\ \A n \in Names : n \notin Bare => Norm[n] = n
ASSUME BoundAssumption == MaxConn \in Nat /\ MaxEvents \in Nat
ASSUME ApiAssumption   == Api \in [Names -> Endpoints \cup {None}] /\ None \notin Endpoints

VARIABLES
    local_registry,    \* endpoint of each registered name
    cache,             \* endpoint of each cached name
    expired,           \* cached names past their TTL
    peers,             \* the connection kept for each name
    conns,             \* every connection made
    api,               \* where the API says each identity is
    calls,
    migrations_total,
    \* history
    given,             \* the endpoints ever given for each identity
    events, disturbed  \* events so far; calls that another call or event met

resolver == <<local_registry, cache, expired>>
vars     == <<resolver, peers, conns, api, calls, migrations_total, given, events, disturbed>>

Connections == 1 .. MaxConn

\* known: history, whether registry or cache knew the name that migrates.
NoCall == [op |-> "none", pc |-> "new", idd |-> None, to |-> None, endpoint |-> None,
           conn |-> 0, known |-> FALSE]

Init ==
    /\ local_registry = [n \in Names |-> None]
    /\ cache = [n \in Names |-> None] /\ expired = {}
    /\ peers = [n \in Names |-> 0]
    /\ conns = [k \in Connections |-> [state |-> "unused", endpoint |-> None]]
    /\ api = Api /\ given = [n \in Names |-> {Api[n]}]
    /\ calls = [c \in Calls |-> NoCall]
    /\ migrations_total = 0 /\ events = 0 /\ disturbed = {}

Alive(k)   == k # 0 /\ conns[k].state = "up"
Active     == {c \in Calls : calls[c].pc \notin {"new", "ok", "error"}}
AtWork(n)  == {c \in Active : Norm[calls[c].idd] = Norm[n]}
At(c, pc)  == calls[c].pc = pc
GoTo(c, pc) == calls' = [calls EXCEPT ![c].pc = pc]

-----------------------------------------------------------------------------
(***************************************************************************)
(* send and migrate, up to establish                                       *)
(***************************************************************************)
\* Calls on one identity that overlap disturb each other.
Meets(c, n) == disturbed' = disturbed \cup
                  (IF AtWork(n) = {} THEN {} ELSE AtWork(n) \cup {c})

send(c, n) ==
    /\ At(c, "new")
    /\ calls' = [calls EXCEPT ![c].op = "send", ![c].pc = "look", ![c].idd = n]
    /\ Meets(c, n)
    /\ UNCHANGED <<resolver, peers, conns, api, migrations_total, given, events>>

\* update_endpoint: the registry first, if it has the name as it was given.
migrate(c, n, e) ==
    /\ At(c, "new")
    /\ calls' = [calls EXCEPT ![c].op = "migrate", ![c].pc = "recache", ![c].idd = n, ![c].to = e]
    /\ local_registry' = [local_registry EXCEPT ![n] = IF @ = None THEN None ELSE e]
    /\ given' = [given EXCEPT ![n] = @ \cup {e}]
    /\ Meets(c, n)
    /\ UNCHANGED <<cache, expired, peers, conns, api, migrations_total, events>>

Known(n) == local_registry[n] # None \/ cache[n] # None

\* MUTANT: the cached endpoint is replaced and its age kept.
UpdateCache_KeepsAge(c) ==
    LET n == calls[c].idd
    IN  /\ At(c, "recache")
        /\ calls' = [calls EXCEPT ![c].pc = "unpeer", ![c].known = Known(n)]
        /\ cache' = [cache EXCEPT ![n] = IF @ = None THEN None ELSE calls[c].to]
        /\ UNCHANGED <<local_registry, expired, peers, conns, api, migrations_total,
                       given, events, disturbed>>

\* update_endpoint: then the cache, where the entry is as good as new.
UpdateCache(c) ==
    LET n == calls[c].idd
    IN  /\ At(c, "recache")
        /\ calls' = [calls EXCEPT ![c].pc = "unpeer", ![c].known = Known(n)]
        /\ cache' = [cache EXCEPT ![n] = IF @ = None THEN None ELSE calls[c].to]
        /\ expired' = expired \ {n}
        /\ UNCHANGED <<local_registry, peers, conns, api, migrations_total, given, events, disturbed>>

RemovePeer(c) ==
    /\ At(c, "unpeer") /\ GoTo(c, "look")
    /\ peers' = [peers EXCEPT ![calls[c].idd] = 0]
    /\ migrations_total' = migrations_total + 1
    /\ UNCHANGED <<resolver, conns, api, given, events, disturbed>>

-----------------------------------------------------------------------------
(***************************************************************************)
(* establish                                                               *)
(***************************************************************************)
Look(c) ==
    LET k == peers[calls[c].idd]
    IN  /\ At(c, "look")
        /\ calls' = IF Alive(k) THEN [calls EXCEPT ![c].pc = "established", ![c].conn = k]
                    ELSE [calls EXCEPT ![c].pc = "local"]
        /\ UNCHANGED <<resolver, peers, conns, api, migrations_total, given, events, disturbed>>

Resolved(c, e) == calls' = [calls EXCEPT ![c].pc = "connect", ![c].endpoint = e]

ResolveLocal(c) ==
    LET e == local_registry[Norm[calls[c].idd]]
    IN  /\ At(c, "local")
        /\ IF e # None THEN Resolved(c, e) ELSE GoTo(c, "cache")
        /\ UNCHANGED <<resolver, peers, conns, api, migrations_total, given, events, disturbed>>

\* MUTANT: whatever was resolved last is taken for an answer.
ResolveCache_Any(c) ==
    /\ At(c, "cache")
    /\ \/ \E n \in Names \ expired : cache[n] # None /\ Resolved(c, cache[n])
       \/ (\A n \in Names \ expired : cache[n] = None) /\ GoTo(c, "api")
    /\ UNCHANGED <<resolver, peers, conns, api, migrations_total, given, events, disturbed>>

ResolveCache(c) ==
    LET n == Norm[calls[c].idd]
    IN  /\ At(c, "cache")
        /\ IF cache[n] # None /\ n \notin expired THEN Resolved(c, cache[n]) ELSE GoTo(c, "api")
        /\ UNCHANGED <<resolver, peers, conns, api, migrations_total, given, events, disturbed>>

\* The API answers, perhaps without knowing the identity, or the connection to
\* it is refused or breaks.
ResolveApi(c) ==
    LET e == api[Norm[calls[c].idd]]
    IN  /\ At(c, "api")
        /\ \/ e # None /\ calls' = [calls EXCEPT ![c].pc = "fill", ![c].endpoint = e]
           \/ GoTo(c, "error")
        /\ UNCHANGED <<resolver, peers, conns, api, migrations_total, given, events, disturbed>>

FillCache(c) ==
    LET n == Norm[calls[c].idd]
    IN  /\ At(c, "fill") /\ GoTo(c, "connect")
        /\ cache' = [cache EXCEPT ![n] = calls[c].endpoint]
        /\ expired' = expired \ {n}
        /\ UNCHANGED <<local_registry, peers, conns, api, migrations_total, given, events, disturbed>>

Connect(c) ==
    /\ At(c, "connect")
    /\ \/ \E k \in Connections :
            /\ conns[k].state = "unused" /\ \A j \in 1 .. k - 1 : conns[j].state # "unused"
            /\ conns' = [conns EXCEPT ![k] = [state |-> "up", endpoint |-> calls[c].endpoint]]
            /\ calls' = [calls EXCEPT ![c].pc = "insert", ![c].conn = k]
       \/ GoTo(c, "error") /\ UNCHANGED conns
    /\ UNCHANGED <<resolver, peers, api, migrations_total, given, events, disturbed>>

\* Whatever was there is replaced.
Insert(c) ==
    /\ At(c, "insert") /\ GoTo(c, "established")
    /\ peers' = [peers EXCEPT ![calls[c].idd] = calls[c].conn]
    /\ UNCHANGED <<resolver, conns, api, migrations_total, given, events, disturbed>>

-----------------------------------------------------------------------------
(***************************************************************************)
(* The intent itself, and the server's end of it                           *)
(***************************************************************************)
Established(c) ==
    /\ At(c, "established")
    /\ GoTo(c, IF calls[c].op = "migrate" THEN "ok"
               ELSE IF Alive(calls[c].conn) THEN "sent" ELSE "error")
    /\ UNCHANGED <<resolver, peers, conns, api, migrations_total, given, events, disturbed>>

\* handle_intent_stream answers what it read, by the handler or with 501.
Serve(c) ==
    /\ At(c, "sent") /\ Alive(calls[c].conn)
    /\ \E status \in {"answered", "refused"} : GoTo(c, status)
    /\ UNCHANGED <<resolver, peers, conns, api, migrations_total, given, events, disturbed>>

\* MUTANT: a stream whose connection is gone is waited for.
Receive_Waits(c) ==
    /\ \/ At(c, "answered") /\ Alive(calls[c].conn) /\ GoTo(c, "ok")
       \/ At(c, "refused") /\ GoTo(c, "error")
    /\ UNCHANGED <<resolver, peers, conns, api, migrations_total, given, events, disturbed>>

Receive(c) ==
    /\ \/ At(c, "answered") /\ Alive(calls[c].conn) /\ GoTo(c, "ok")
       \/ At(c, "refused") /\ GoTo(c, "error")
       \/ calls[c].pc \in {"sent", "answered"} /\ ~Alive(calls[c].conn) /\ GoTo(c, "error")
    /\ UNCHANGED <<resolver, peers, conns, api, migrations_total, given, events, disturbed>>

-----------------------------------------------------------------------------
(***************************************************************************)
(* Calls without a wait, and what happens outside                          *)
(***************************************************************************)
Event(n) ==
    /\ events < MaxEvents /\ events' = events + 1
    /\ disturbed' = disturbed \cup AtWork(n)
    /\ UNCHANGED <<calls, migrations_total>>

register(n, e) ==
    /\ Event(n)
    /\ local_registry' = [local_registry EXCEPT ![n] = e]
    /\ given' = [given EXCEPT ![n] = @ \cup {e}]
    /\ UNCHANGED <<cache, expired, peers, conns, api>>

invalidate(n) ==
    /\ Event(n) /\ cache[n] # None
    /\ cache' = [cache EXCEPT ![n] = None] /\ expired' = expired \ {n}
    /\ UNCHANGED <<local_registry, peers, conns, api, given>>

Close(ks) == conns' = [k \in Connections |->
                         IF k \in ks THEN [conns[k] EXCEPT !.state = "closed"] ELSE conns[k]]

disconnect(n) ==
    /\ Event(n) /\ peers[n] # 0
    /\ peers' = [peers EXCEPT ![n] = 0] /\ Close({peers[n]})
    /\ UNCHANGED <<resolver, api, given>>

disconnect_all ==
    /\ events < MaxEvents /\ events' = events + 1
    /\ \E n \in Names : peers[n] # 0
    /\ disturbed' = disturbed \cup Active
    /\ peers' = [n \in Names |-> 0] /\ Close({peers[n] : n \in Names})
    /\ UNCHANGED <<resolver, api, given, calls, migrations_total>>

Expire(n) ==
    /\ Event(n) /\ cache[n] # None /\ n \notin expired
    /\ expired' = expired \cup {n}
    /\ UNCHANGED <<local_registry, cache, peers, conns, api, given>>

\* The API learns that an identity has moved.
ApiMoves(n, e) ==
    /\ Event(n) /\ api[n] # e
    /\ api' = [api EXCEPT ![n] = e]
    /\ given' = [given EXCEPT ![n] = @ \cup {e}]
    /\ UNCHANGED <<resolver, peers, conns>>

Break(k) ==
    /\ Alive(k) /\ Close({k})
    /\ events < MaxEvents /\ events' = events + 1
    /\ disturbed' = disturbed \cup {c \in Active : calls[c].conn = k}
    /\ UNCHANGED <<resolver, peers, api, given, calls, migrations_total>>

establish(c) ==
    \/ Look(c) \/ ResolveLocal(c) \/ ResolveCache(c) \/ ResolveApi(c) \/ FillCache(c)
    \/ Connect(c) \/ Insert(c)

Continue(c) ==
    \/ UpdateCache(c) \/ RemovePeer(c)
    \/ establish(c) \/ Established(c) \/ Receive(c)

Next ==
    \/ \E c \in Calls, n \in Names : send(c, n) \/ \E e \in Endpoints : migrate(c, n, e)
    \/ \E c \in Calls : Continue(c) \/ Serve(c)
    \/ \E n \in Names : \/ \E e \in Endpoints : register(n, e) \/ ApiMoves(n, e)
                        \/ invalidate(n) \/ disconnect(n) \/ Expire(n)
    \/ disconnect_all
    \/ \E k \in Connections : Break(k)

\* The tasks of both ends are scheduled.  Nothing else has to happen: the API
\* need not answer, and resolve_via_api has no timeout.
Fairness ==
    \A c \in Calls : WF_vars(~At(c, "api") /\ Continue(c)) /\ WF_vars(Serve(c))

Spec == Init /\ [][Next]_vars /\ Fairness

-----------------------------------------------------------------------------
(***************************************************************************)
(* Properties                                                              *)
(***************************************************************************)
\* Every variable has its type, and a call has its connection once it needs one.
TypeOK ==
    /\ local_registry \in [Names -> Endpoints \cup {None}]
    /\ cache \in [Names -> Endpoints \cup {None}] /\ expired \subseteq Names
    /\ peers \in [Names -> 0 .. MaxConn]
    /\ \A k \in Connections : conns[k].state \in {"unused", "up", "closed"}
    /\ \A c \in Calls : calls[c].pc \in {"insert", "established", "sent", "answered"} =>
         conns[calls[c].conn].state # "unused"
    /\ \A n \in Names : peers[n] # 0 => conns[peers[n]].state # "unused"

\* A migration that nothing disturbed, of a name that is complete and that the
\* registry or the cache knows, has moved the peer: the connection kept goes to
\* the new endpoint, and so does whatever is resolved next.  An entry past its
\* TTL, or a connection to the old endpoint still alive, does not matter.
MigrationTakesHold ==
    [][\A c \in Calls :
        LET n == calls[c].idd
            e == calls[c].to
        IN  /\ calls[c].op = "migrate" /\ calls[c].pc # "ok" /\ calls'[c].pc = "ok"
            /\ c \notin disturbed /\ n \notin Bare
            /\ calls[c].known
            => /\ conns[peers[n]].endpoint = e
               /\ local_registry[n] # None => local_registry[n] = e
               /\ local_registry[n] = None => cache[n] = e /\ n \notin expired]_vars

\* Whoever calls a peer reaches a place that was given for that identity, by
\* the API, by register or by migrate, however calls on several identities and
\* changes of registry and cache interleave.
NoForeignEndpoint ==
    /\ \A n \in Names : peers[n] # 0 => conns[peers[n]].endpoint \in given[Norm[n]]
    /\ \A c \in Calls : calls[c].endpoint # None => calls[c].endpoint \in given[Norm[calls[c].idd]]

\* Every call comes to its end, although the connections it waits on are removed
\* or lost, unless it waits for the API, which it does without a timeout
\* (overlay_mux.rs:301) and with no lock held.
CallsReturn ==
    \A c \in Calls : calls[c].pc # "new" ~> calls[c].pc \in {"api", "ok", "error"}

\* "Migration complete: {} now at {}" (overlay_mux.rs:623): when migrate
\* returns Ok, the connection kept for the name goes to the new endpoint.
MigrationSticks ==
    [][\A c \in Calls :
        calls[c].op = "migrate" /\ calls[c].pc # "ok" /\ calls'[c].pc = "ok" =>
            conns[peers[calls[c].idd]].endpoint = calls[c].to]_vars
=============================================================================
