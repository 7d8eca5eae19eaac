-------------------------- MODULE OverlayMuxProofs --------------------------
(***************************************************************************)
(* Theorems about the overlay, for any names, endpoints, calls and events. *)
(***************************************************************************)
EXTENDS OverlayMux, TLAPS

Place == Endpoints \cup {None}

\* Where a call is that has no peer yet, and one that holds a connection.
Resolving == {"local", "cache", "api", "fill", "connect"}
Holding   == {"insert", "established", "sent", "answered", "refused"}

Pc        == {"new", "recache", "unpeer", "look", "ok", "error"} \cup Resolving \cup Holding

Call == [op : {"none", "send", "migrate"}, pc : Pc,
         idd : Names \cup {None}, to : Place, endpoint : Place,
         conn : 0 .. MaxConn, known : BOOLEAN]

TypeInv ==
    /\ local_registry \in [Names -> Place]
    /\ cache \in [Names -> Place] /\ expired \subseteq Names
    /\ peers \in [Names -> 0 .. MaxConn]
    /\ conns \in [Connections -> [state : {"unused", "up", "closed"}, endpoint : Place]]
    /\ api \in [Names -> Place]
    /\ calls \in [Calls -> Call]
    /\ \A c \in Calls : calls[c].pc # "new" => calls[c].idd \in Names
    /\ given \in [Names -> SUBSET Place]
    /\ disturbed \subseteq Calls

\* A connection that somebody refers to was made, so that its number is not
\* given to another one.
UsedInv ==
    /\ \A c \in Calls : calls[c].pc \in Holding =>
          calls[c].conn # 0 /\ conns[calls[c].conn].state # "unused"
    /\ \A n \in Names : peers[n] # 0 => conns[peers[n]].state # "unused"

(***************************************************************************)
(* NoForeignEndpoint is not inductive: what a call takes from registry,    *)
(* cache or API must have been given for the name it was found under, and  *)
(* a call that still has to insert its connection carries the endpoint of  *)
(* its own identity.                                                       *)
(***************************************************************************)
RegistryInv ==
    \A n \in Names : /\ local_registry[n] # None => local_registry[n] \in given[n]
                     /\ cache[n] # None => cache[n] \in given[n]
                     /\ api[n] # None => api[n] \in given[n]

CarriedInv ==
    \A c \in Calls :
        /\ calls[c].pc = "new" => calls[c].endpoint = None
        /\ calls[c].pc \in {"fill", "connect"} => calls[c].endpoint # None
        /\ calls[c].pc = "recache" => calls[c].to \in given[calls[c].idd]
        /\ calls[c].pc = "insert" => conns[calls[c].conn].endpoint \in given[Norm[calls[c].idd]]

GivenInv == RegistryInv /\ CarriedInv /\ NoForeignEndpoint

(***************************************************************************)
(* Why an undisturbed migration takes hold: no other call is at work on    *)
(* the identity, so that what the migration has written stays written      *)
(* until it has looked it up and replaced the peer.                        *)
(***************************************************************************)
AloneInv ==
    \A c, d \in Active : c \notin disturbed /\ Norm[calls[c].idd] = Norm[calls[d].idd] => c = d

Quiet(c) == c \in Active /\ c \notin disturbed /\ calls[c].op = "migrate" /\ calls[c].idd \notin Bare

\* Registry, or cache if the registry does not know n, has n at e.
LivesAt(n, e) ==
    IF local_registry[n] # None THEN local_registry[n] = e ELSE cache[n] = e /\ n \notin expired

HoldOf(c) ==
    LET n == calls[c].idd
        e == calls[c].to
    IN  /\ calls[c].op = "migrate" => calls[c].pc \notin {"new", "sent", "answered", "refused"}
        /\ calls[c].pc \in {"new", "recache"} => ~calls[c].known
        /\ Quiet(c) =>
             /\ e # None
             /\ calls[c].pc = "recache" => local_registry[n] \in {None, e}
             /\ calls[c].pc = "look" => peers[n] = 0
             /\ calls[c].known =>
                  /\ LivesAt(n, e)
                  /\ calls[c].pc = "cache" => local_registry[n] = None
                  /\ calls[c].pc \notin {"api", "fill"}
                  /\ calls[c].pc = "connect" => calls[c].endpoint = e
                  /\ calls[c].pc \in {"insert", "established"} => conns[calls[c].conn].endpoint = e
                  /\ calls[c].pc = "established" => peers[n] = calls[c].conn

HoldInv == \A c \in Calls : HoldOf(c)

OverlayInv == TypeInv /\ UsedInv /\ GivenInv /\ AloneInv /\ HoldInv

-----------------------------------------------------------------------------
(***************************************************************************)
(* What the steps of a call do to its record, field by field.              *)
(***************************************************************************)
USE NameAssumption, BoundAssumption, ApiAssumption DEF resolver, Place, Connections

\* Call c now has these fields, and no other call has changed.
Becomes(c, op, pc, idd, to, endpoint, conn, known) ==
    /\ calls' \in [Calls -> Call]
    /\ \A d \in Calls : d # c => calls'[d] = calls[d]
    /\ calls'[c].op = op /\ calls'[c].pc = pc /\ calls'[c].idd = idd /\ calls'[c].to = to
    /\ calls'[c].endpoint = endpoint /\ calls'[c].conn = conn /\ calls'[c].known = known

Goes(c, p) == Becomes(c, calls[c].op, p, calls[c].idd, calls[c].to,
                      calls[c].endpoint, calls[c].conn, calls[c].known)

Finds(c, p, e) == Becomes(c, calls[c].op, p, calls[c].idd, calls[c].to,
                          e, calls[c].conn, calls[c].known)

Takes(c, p, k) == Becomes(c, calls[c].op, p, calls[c].idd, calls[c].to,
                          calls[c].endpoint, k, calls[c].known)

LEMMA FieldTypes ==
    ASSUME calls \in [Calls -> Call], NEW c \in Calls
    PROVE  calls[c].to \in Place /\ calls[c].endpoint \in Place /\ calls[c].conn \in 0 .. MaxConn
  BY DEF Call

LEMMA GoToEffect ==
    ASSUME calls \in [Calls -> Call], NEW c \in Calls, NEW p \in Pc, GoTo(c, p)
    PROVE  Goes(c, p)
  BY DEF GoTo, Goes, Becomes, Call, Pc, Resolving, Holding

LEMMA ResolvedEffect ==
    ASSUME calls \in [Calls -> Call], NEW c \in Calls, NEW p \in Pc, NEW e \in Place,
           calls' = [calls EXCEPT ![c].pc = p, ![c].endpoint = e]
    PROVE  Finds(c, p, e)
<1> DEFINE r == [calls[c] EXCEPT !.pc = p, !.endpoint = e]
<1>1. calls' = [calls EXCEPT ![c] = r]
  OBVIOUS
<1>2. /\ r.op = calls[c].op /\ r.pc = p /\ r.idd = calls[c].idd /\ r.to = calls[c].to
      /\ r.endpoint = e /\ r.conn = calls[c].conn /\ r.known = calls[c].known
  BY DEF Call
<1>3. r \in Call
  BY DEF Call, Pc, Resolving, Holding
<1> QED
  BY <1>1, <1>2, <1>3 DEF Becomes, Finds

LEMMA ConnectedEffect ==
    ASSUME calls \in [Calls -> Call], NEW c \in Calls, NEW p \in Pc, NEW k \in 0 .. MaxConn,
           calls' = [calls EXCEPT ![c].pc = p, ![c].conn = k]
    PROVE  Takes(c, p, k)
<1> DEFINE r == [calls[c] EXCEPT !.pc = p, !.conn = k]
<1>1. calls' = [calls EXCEPT ![c] = r]
  OBVIOUS
<1>2. /\ r.op = calls[c].op /\ r.pc = p /\ r.idd = calls[c].idd /\ r.to = calls[c].to
      /\ r.endpoint = calls[c].endpoint /\ r.conn = k /\ r.known = calls[c].known
  BY DEF Call
<1>3. r \in Call
  BY DEF Call, Pc, Resolving, Holding
<1> QED
  BY <1>1, <1>2, <1>3 DEF Becomes, Takes

LEMMA KnownEffect ==
    ASSUME calls \in [Calls -> Call], NEW c \in Calls, NEW p \in Pc, NEW b \in BOOLEAN,
           calls' = [calls EXCEPT ![c].pc = p, ![c].known = b]
    PROVE  Becomes(c, calls[c].op, p, calls[c].idd, calls[c].to, calls[c].endpoint, calls[c].conn, b)
<1> DEFINE r == [calls[c] EXCEPT !.pc = p, !.known = b]
<1>1. calls' = [calls EXCEPT ![c] = r]
  OBVIOUS
<1>2. /\ r.op = calls[c].op /\ r.pc = p /\ r.idd = calls[c].idd /\ r.to = calls[c].to
      /\ r.endpoint = calls[c].endpoint /\ r.conn = calls[c].conn /\ r.known = b
  BY DEF Call
<1>3. r \in Call
  BY DEF Call, Pc, Resolving, Holding
<1> QED
  BY <1>1, <1>2, <1>3 DEF Becomes

LEMMA SendEffect ==
    ASSUME calls \in [Calls -> Call], NEW c \in Calls, NEW n \in Names, send(c, n)
    PROVE  Becomes(c, "send", "look", n, calls[c].to, calls[c].endpoint, calls[c].conn, calls[c].known)
<1> DEFINE r == [calls[c] EXCEPT !.op = "send", !.pc = "look", !.idd = n]
<1>1. calls' = [calls EXCEPT ![c] = r]
  BY DEF send
<1>2. /\ r.op = "send" /\ r.pc = "look" /\ r.idd = n /\ r.to = calls[c].to
      /\ r.endpoint = calls[c].endpoint /\ r.conn = calls[c].conn /\ r.known = calls[c].known
  BY DEF Call
<1>3. r \in Call
  BY DEF Call, Pc, Resolving, Holding
<1> QED
  BY <1>1, <1>2, <1>3 DEF Becomes

LEMMA MigrateEffect ==
    ASSUME calls \in [Calls -> Call], NEW c \in Calls, NEW n \in Names, NEW e \in Endpoints,
           migrate(c, n, e)
    PROVE  Becomes(c, "migrate", "recache", n, e, calls[c].endpoint, calls[c].conn, calls[c].known)
<1> DEFINE r == [calls[c] EXCEPT !.op = "migrate", !.pc = "recache", !.idd = n, !.to = e]
<1>1. calls' = [calls EXCEPT ![c] = r]
  BY DEF migrate
<1>2. /\ r.op = "migrate" /\ r.pc = "recache" /\ r.idd = n /\ r.to = e
      /\ r.endpoint = calls[c].endpoint /\ r.conn = calls[c].conn /\ r.known = calls[c].known
  BY DEF Call
<1>3. r \in Call
  BY DEF Call, Pc, Resolving, Holding
<1> QED
  BY <1>1, <1>2, <1>3 DEF Becomes

\* A connection that is closed keeps its endpoint, and its number stays taken.
Closed ==
    /\ conns' \in [Connections -> [state : {"unused", "up", "closed"}, endpoint : Place]]
    /\ \A k \in Connections : /\ conns'[k].endpoint = conns[k].endpoint
                               /\ conns'[k].state \in {conns[k].state, "closed"}

LEMMA CloseEffect ==
    ASSUME conns \in [Connections -> [state : {"unused", "up", "closed"}, endpoint : Place]],
           NEW ks, Close(ks)
    PROVE  Closed
  BY DEF Close, Closed

-----------------------------------------------------------------------------
(***************************************************************************)
(* The steps of a call, as changes of its fields.                          *)
(***************************************************************************)
CacheUpdated(c) ==
    /\ calls[c].pc = "recache" /\ calls[c].to \in Place
    /\ Becomes(c, calls[c].op, "unpeer", calls[c].idd, calls[c].to, calls[c].endpoint,
               calls[c].conn, Known(calls[c].idd))
    /\ cache' = [cache EXCEPT ![calls[c].idd] = IF @ = None THEN None ELSE calls[c].to]
    /\ expired' = expired \ {calls[c].idd}
    /\ UNCHANGED <<local_registry, peers, conns, api, given, disturbed>>

LEMMA UpdateCacheStep ==
    ASSUME TypeInv, NEW c \in Calls, UpdateCache(c) PROVE CacheUpdated(c)
<1>0. calls \in [Calls -> Call]
  BY DEF TypeInv
<1>1. Known(calls[c].idd) \in BOOLEAN
  BY DEF Known
<1>2. "unpeer" \in Pc
  BY DEF Pc
<1>3. PICK b \in BOOLEAN : b = Known(calls[c].idd)
  BY <1>1
<1>4. calls' = [calls EXCEPT ![c].pc = "unpeer", ![c].known = b]
  BY <1>3 DEF UpdateCache
<1>5. Becomes(c, calls[c].op, "unpeer", calls[c].idd, calls[c].to, calls[c].endpoint,
              calls[c].conn, b)
  BY <1>0, <1>2, <1>4, KnownEffect
<1> QED
  BY <1>0, <1>3, <1>5, FieldTypes DEF UpdateCache, At, CacheUpdated

PeerRemoved(c) ==
    /\ calls[c].pc = "unpeer" /\ Goes(c, "look")
    /\ peers' = [peers EXCEPT ![calls[c].idd] = 0]
    /\ UNCHANGED <<resolver, conns, api, given, disturbed>>

LEMMA RemovePeerStep ==
    ASSUME TypeInv, NEW c \in Calls, RemovePeer(c) PROVE PeerRemoved(c)
  BY "look" \in Pc, GoToEffect DEF Pc, RemovePeer, TypeInv, At, PeerRemoved

Looked(c) ==
    /\ calls[c].pc = "look"
    /\ LET k == peers[calls[c].idd]
       IN  IF Alive(k) THEN Takes(c, "established", k) ELSE Goes(c, "local")
    /\ UNCHANGED <<resolver, peers, conns, api, given, disturbed>>

LEMMA LookStep ==
    ASSUME TypeInv, NEW c \in Calls, Look(c) PROVE Looked(c)
<1>1. "established" \in Pc /\ "local" \in Pc
  BY DEF Pc, Holding, Resolving
<1>2. calls[c].pc = "look" /\ calls[c].idd \in Names
  BY DEF Look, At, TypeInv
<1>3. peers[calls[c].idd] \in 0 .. MaxConn
  BY <1>2 DEF TypeInv
<1>4. CASE Alive(peers[calls[c].idd])
  BY <1>1, <1>2, <1>3, <1>4, ConnectedEffect DEF Look, TypeInv, Looked
<1>5. CASE ~Alive(peers[calls[c].idd])
  <2>1. GoTo(c, "local")
    BY <1>5 DEF Look, GoTo
  <2> QED
    BY <1>1, <1>2, <1>5, <2>1, GoToEffect DEF Look, TypeInv, Looked
<1> QED
  BY <1>4, <1>5

LocalAsked(c) ==
    /\ calls[c].pc = "local"
    /\ LET e == local_registry[Norm[calls[c].idd]]
       IN  IF e # None THEN Finds(c, "connect", e) ELSE Goes(c, "cache")
    /\ UNCHANGED <<resolver, peers, conns, api, given, disturbed>>

LEMMA ResolveLocalStep ==
    ASSUME TypeInv, NEW c \in Calls, ResolveLocal(c) PROVE LocalAsked(c)
<1>1. "connect" \in Pc /\ "cache" \in Pc
  BY DEF Pc, Holding, Resolving
<1>2. calls[c].pc = "local" /\ calls[c].idd \in Names
  BY DEF ResolveLocal, At, TypeInv
<1>3. local_registry[Norm[calls[c].idd]] \in Place
  BY <1>2 DEF TypeInv
<1> QED
  BY <1>1, <1>2, <1>3, GoToEffect, ResolvedEffect DEF ResolveLocal, TypeInv, Resolved, LocalAsked

CacheAsked(c) ==
    /\ calls[c].pc = "cache"
    /\ LET n == Norm[calls[c].idd]
       IN  IF cache[n] # None /\ n \notin expired THEN Finds(c, "connect", cache[n])
           ELSE Goes(c, "api")
    /\ UNCHANGED <<resolver, peers, conns, api, given, disturbed>>

LEMMA ResolveCacheStep ==
    ASSUME TypeInv, NEW c \in Calls, ResolveCache(c) PROVE CacheAsked(c)
<1>1. "connect" \in Pc /\ "api" \in Pc
  BY DEF Pc, Holding, Resolving
<1>2. calls[c].pc = "cache" /\ calls[c].idd \in Names
  BY DEF ResolveCache, At, TypeInv
<1>3. cache[Norm[calls[c].idd]] \in Place
  BY <1>2 DEF TypeInv
<1> QED
  BY <1>1, <1>2, <1>3, GoToEffect, ResolvedEffect DEF ResolveCache, TypeInv, Resolved, CacheAsked

ApiAsked(c) ==
    /\ calls[c].pc = "api"
    /\ LET e == api[Norm[calls[c].idd]]
       IN  (e # None /\ Finds(c, "fill", e)) \/ Goes(c, "error")
    /\ UNCHANGED <<resolver, peers, conns, api, given, disturbed>>

LEMMA ResolveApiStep ==
    ASSUME TypeInv, NEW c \in Calls, ResolveApi(c) PROVE ApiAsked(c)
<1>1. "fill" \in Pc /\ "error" \in Pc
  BY DEF Pc, Holding, Resolving
<1>2. calls[c].pc = "api" /\ calls[c].idd \in Names
  BY DEF ResolveApi, At, TypeInv
<1>3. api[Norm[calls[c].idd]] \in Place
  BY <1>2 DEF TypeInv
<1> QED
  BY <1>1, <1>2, <1>3, GoToEffect, ResolvedEffect DEF ResolveApi, TypeInv, ApiAsked

CacheFilled(c) ==
    /\ calls[c].pc = "fill" /\ Goes(c, "connect") /\ calls[c].endpoint \in Place
    /\ cache' = [cache EXCEPT ![Norm[calls[c].idd]] = calls[c].endpoint]
    /\ expired' = expired \ {Norm[calls[c].idd]}
    /\ UNCHANGED <<local_registry, peers, conns, api, given, disturbed>>

LEMMA FillCacheStep ==
    ASSUME TypeInv, NEW c \in Calls, FillCache(c) PROVE CacheFilled(c)
  BY "connect" \in Pc, GoToEffect, FieldTypes DEF Pc, Resolving, FillCache, TypeInv, At, CacheFilled

\* A new connection takes a number that nobody has.
NewConnection(c, k) ==
    /\ conns[k].state = "unused"
    /\ conns' \in [Connections -> [state : {"unused", "up", "closed"}, endpoint : Place]]
    /\ conns'[k].state = "up" /\ conns'[k].endpoint = calls[c].endpoint
    /\ \A j \in Connections : j # k => conns'[j] = conns[j]

Connected(c) ==
    /\ calls[c].pc = "connect"
    /\ \/ \E k \in Connections : NewConnection(c, k) /\ Takes(c, "insert", k)
       \/ Goes(c, "error") /\ UNCHANGED conns
    /\ UNCHANGED <<resolver, peers, api, given, disturbed>>

LEMMA ConnectStep ==
    ASSUME TypeInv, NEW c \in Calls, Connect(c) PROVE Connected(c)
<1>1. "insert" \in Pc /\ "error" \in Pc
  BY DEF Pc, Holding
<1>2. ASSUME NEW k \in Connections, conns[k].state = "unused",
             conns' = [conns EXCEPT ![k] = [state |-> "up", endpoint |-> calls[c].endpoint]]
      PROVE  NewConnection(c, k)
  <2>1. calls[c].endpoint \in Place
    BY DEF TypeInv, Call
  <2> QED
    BY <1>2, <2>1 DEF NewConnection, TypeInv
<1>3. ASSUME NEW k \in Connections, calls' = [calls EXCEPT ![c].pc = "insert", ![c].conn = k]
      PROVE  Takes(c, "insert", k)
  BY <1>1, <1>3, k \in 0 .. MaxConn, ConnectedEffect DEF TypeInv
<1> QED
  BY <1>1, <1>2, <1>3, GoToEffect DEF Connect, At, TypeInv, Connected

Inserted(c) ==
    /\ calls[c].pc = "insert" /\ Goes(c, "established") /\ calls[c].conn \in 0 .. MaxConn
    /\ peers' = [peers EXCEPT ![calls[c].idd] = calls[c].conn]
    /\ UNCHANGED <<resolver, conns, api, given, disturbed>>

LEMMA InsertStep ==
    ASSUME TypeInv, NEW c \in Calls, Insert(c) PROVE Inserted(c)
  BY "established" \in Pc, GoToEffect, FieldTypes DEF Pc, Holding, Insert, TypeInv, At, Inserted

\* The intent is sent, answered and read, or the call fails.
IntentMoved(c) ==
    /\ \/ calls[c].pc = "established" /\ calls[c].op = "migrate" /\ Goes(c, "ok")
       \/ calls[c].pc = "established" /\ calls[c].op # "migrate" /\ Goes(c, "sent")
       \/ calls[c].pc = "sent" /\ (Goes(c, "answered") \/ Goes(c, "refused"))
       \/ calls[c].pc = "answered" /\ Goes(c, "ok")
       \/ calls[c].pc \in {"established", "sent", "answered", "refused"} /\ Goes(c, "error")
    /\ UNCHANGED <<resolver, peers, conns, api, given, disturbed>>

LEMMA IntentStep ==
    ASSUME TypeInv, NEW c \in Calls, Established(c) \/ Serve(c) \/ Receive(c) PROVE IntentMoved(c)
<1>1. {"ok", "error", "sent", "answered", "refused"} \subseteq Pc
  BY DEF Pc, Holding
<1> QED
  BY <1>1, GoToEffect DEF Established, Serve, Receive, At, TypeInv, IntentMoved

Sent(c, n) ==
    /\ calls[c].pc = "new" /\ Meets(c, n)
    /\ Becomes(c, "send", "look", n, calls[c].to, calls[c].endpoint, calls[c].conn, calls[c].known)
    /\ UNCHANGED <<resolver, peers, conns, api, given>>

Migrated(c, n, e) ==
    /\ calls[c].pc = "new" /\ Meets(c, n)
    /\ Becomes(c, "migrate", "recache", n, e, calls[c].endpoint, calls[c].conn, calls[c].known)
    /\ local_registry' = [local_registry EXCEPT ![n] = IF @ = None THEN None ELSE e]
    /\ given' = [given EXCEPT ![n] = @ \cup {e}]
    /\ UNCHANGED <<cache, expired, peers, conns, api>>

Disconnected(n) ==
    /\ Event(n) /\ Closed /\ peers' = [peers EXCEPT ![n] = 0]
    /\ UNCHANGED <<resolver, api, given>>

AllDisconnected ==
    /\ Closed /\ peers' = [n \in Names |-> 0] /\ disturbed' = disturbed \cup Active
    /\ UNCHANGED <<resolver, api, given, calls>>

Broken ==
    /\ Closed /\ disturbed \subseteq disturbed' /\ disturbed' \subseteq Calls
    /\ UNCHANGED <<resolver, peers, api, given, calls>>

Outside(n) ==
    \/ \E e \in Endpoints : register(n, e) \/ ApiMoves(n, e)
    \/ invalidate(n) \/ Disconnected(n) \/ Expire(n)

\* Every step is one of these.
Effect ==
    \/ \E c \in Calls, n \in Names : Sent(c, n) \/ \E e \in Endpoints : Migrated(c, n, e)
    \/ \E c \in Calls : \/ CacheUpdated(c) \/ PeerRemoved(c) \/ Looked(c) \/ LocalAsked(c)
                         \/ CacheAsked(c) \/ ApiAsked(c) \/ CacheFilled(c) \/ Connected(c)
                         \/ Inserted(c) \/ IntentMoved(c)
    \/ \E n \in Names : Outside(n)
    \/ AllDisconnected \/ Broken
    \/ UNCHANGED vars

LEMMA NextEffect ==
    ASSUME TypeInv, [Next]_vars PROVE Effect
<1>1. ASSUME NEW c \in Calls, NEW n \in Names, send(c, n) PROVE Sent(c, n)
  BY <1>1, SendEffect DEF TypeInv, send, Sent, At
<1>2. ASSUME NEW c \in Calls, NEW n \in Names, NEW e \in Endpoints, migrate(c, n, e)
      PROVE  Migrated(c, n, e)
  BY <1>2, MigrateEffect DEF TypeInv, migrate, Migrated, At
<1>3. ASSUME NEW n \in Names, disconnect(n) PROVE Disconnected(n)
  BY <1>3, CloseEffect DEF TypeInv, disconnect, Disconnected
<1>4. disconnect_all => AllDisconnected
  BY CloseEffect DEF TypeInv, disconnect_all, AllDisconnected
<1>5. ASSUME NEW k \in Connections, Break(k) PROVE Broken
  BY <1>5, CloseEffect DEF TypeInv, Break, Broken, Active
<1>6. CASE UNCHANGED vars
  BY <1>6 DEF Effect
<1>7. CASE \E c \in Calls, n \in Names : send(c, n) \/ \E e \in Endpoints : migrate(c, n, e)
  BY <1>1, <1>2, <1>7 DEF Effect
<1>8. ASSUME NEW c \in Calls, Continue(c) \/ Serve(c) PROVE Effect
  <2>1. \/ CacheUpdated(c) \/ PeerRemoved(c) \/ Looked(c) \/ LocalAsked(c) \/ CacheAsked(c)
        \/ ApiAsked(c) \/ CacheFilled(c) \/ Connected(c) \/ Inserted(c) \/ IntentMoved(c)
    BY <1>8, UpdateCacheStep, RemovePeerStep, LookStep, ResolveLocalStep, ResolveCacheStep,
       ResolveApiStep, FillCacheStep, ConnectStep, InsertStep, IntentStep DEF Continue, establish
  <2> QED
    BY <2>1 DEF Effect
<1>9. ASSUME NEW n \in Names, \/ \E e \in Endpoints : register(n, e) \/ ApiMoves(n, e)
                              \/ invalidate(n) \/ disconnect(n) \/ Expire(n)
      PROVE  Effect
  <2>1. Outside(n)
    BY <1>3, <1>9 DEF Outside
  <2> QED
    BY <2>1 DEF Effect
<1> QED
  BY <1>4, <1>5, <1>6, <1>7, <1>8, <1>9 DEF Next, Effect

-----------------------------------------------------------------------------
(***************************************************************************)
(* Each part of the invariant is kept by every step.                       *)
(***************************************************************************)
USE DEF Becomes, Goes, Finds, Takes
HIDE DEF Connections

\* The numbers that calls and peers refer to.
LEMMA NumberTypes ==
    ASSUME TypeInv
    PROVE  /\ \A c \in Calls : calls[c].conn # 0 => calls[c].conn \in Connections
           /\ \A n \in Names : peers[n] # 0 => peers[n] \in Connections
           /\ 0 \notin Connections
  BY FieldTypes DEF TypeInv, Connections

LEMMA TypeStep ==
    ASSUME TypeInv, [Next]_vars PROVE TypeInv'
<1> USE DEF TypeInv, Connections
<1>1. ASSUME NEW c \in Calls, NEW n \in Names, Sent(c, n) PROVE TypeInv'
  BY <1>1 DEF Sent, Meets, AtWork, Active
<1>2. ASSUME NEW c \in Calls, NEW n \in Names, NEW e \in Endpoints, Migrated(c, n, e) PROVE TypeInv'
  BY <1>2 DEF Migrated, Meets, AtWork, Active
<1>3. ASSUME NEW c \in Calls, CacheUpdated(c) PROVE TypeInv'
  BY <1>3 DEF CacheUpdated
<1>4. ASSUME NEW c \in Calls, PeerRemoved(c) PROVE TypeInv'
  <2>1. peers' \in [Names -> 0 .. MaxConn]
    BY <1>4 DEF PeerRemoved
  <2> QED
    BY <1>4, <2>1 DEF PeerRemoved
<1>5. ASSUME NEW c \in Calls, Looked(c) PROVE TypeInv'
  BY <1>5 DEF Looked
<1>6. ASSUME NEW c \in Calls, LocalAsked(c) PROVE TypeInv'
  BY <1>6 DEF LocalAsked
<1>7. ASSUME NEW c \in Calls, CacheAsked(c) PROVE TypeInv'
  BY <1>7 DEF CacheAsked
<1>8. ASSUME NEW c \in Calls, ApiAsked(c) PROVE TypeInv'
  BY <1>8 DEF ApiAsked
<1>9. ASSUME NEW c \in Calls, CacheFilled(c) PROVE TypeInv'
  BY <1>9 DEF CacheFilled
<1>10. ASSUME NEW c \in Calls, Connected(c) PROVE TypeInv'
  BY <1>10 DEF Connected, NewConnection
<1>11. ASSUME NEW c \in Calls, Inserted(c) PROVE TypeInv'
  BY <1>11 DEF Inserted
<1>12. ASSUME NEW c \in Calls, IntentMoved(c) PROVE TypeInv'
  BY <1>12 DEF IntentMoved
<1>13. ASSUME NEW n \in Names, NEW e \in Endpoints, register(n, e) PROVE TypeInv'
  BY <1>13 DEF register, Event, AtWork, Active
<1>14. ASSUME NEW n \in Names, NEW e \in Endpoints, ApiMoves(n, e) PROVE TypeInv'
  BY <1>14 DEF ApiMoves, Event, AtWork, Active
<1>15. ASSUME NEW n \in Names, invalidate(n) \/ Expire(n) PROVE TypeInv'
  BY <1>15 DEF invalidate, Expire, Event, AtWork, Active
<1>16. ASSUME NEW n \in Names, Disconnected(n) PROVE TypeInv'
  BY <1>16 DEF Disconnected, Closed, Event, AtWork, Active
<1>17. CASE AllDisconnected
  BY <1>17 DEF AllDisconnected, Closed, Active
<1>18. CASE Broken
  BY <1>18 DEF Broken, Closed
<1>19. CASE UNCHANGED vars
  BY <1>19 DEF vars
<1>20. Effect
  BY NextEffect
<1> QED
  BY <1>1, <1>2, <1>3, <1>4, <1>5, <1>6, <1>7, <1>8, <1>9, <1>10,
     <1>11, <1>12, <1>13, <1>14, <1>15, <1>16, <1>17, <1>18, <1>19, <1>20
     DEF Effect, Outside

LEMMA UsedStep ==
    ASSUME TypeInv, UsedInv, [Next]_vars PROVE UsedInv'
<1>a. \A d \in Calls : calls[d].pc # "new" => calls[d].idd \in Names
  BY DEF TypeInv
<1>b. \A d \in Calls : calls[d].conn # 0 => calls[d].conn \in Connections
  BY NumberTypes
<1>c. \A n \in Names : peers[n] # 0 => peers[n] \in Connections
  BY NumberTypes
<1>d. 0 \notin Connections
  BY NumberTypes
<1>e. DOMAIN peers = Names
  BY DEF TypeInv
<1> USE DEF UsedInv, Holding
<1>1. ASSUME NEW c \in Calls, NEW n \in Names, Sent(c, n) PROVE UsedInv'
  BY <1>b, <1>c, <1>1 DEF Sent
<1>2. ASSUME NEW c \in Calls, NEW n \in Names, NEW e \in Endpoints, Migrated(c, n, e) PROVE UsedInv'
  BY <1>b, <1>c, <1>2 DEF Migrated
<1>3. ASSUME NEW c \in Calls, CacheUpdated(c) PROVE UsedInv'
  BY <1>b, <1>c, <1>3 DEF CacheUpdated
<1>4. ASSUME NEW c \in Calls, PeerRemoved(c) PROVE UsedInv'
  BY <1>a, <1>b, <1>c, <1>e, <1>4 DEF PeerRemoved
<1>5. ASSUME NEW c \in Calls, Looked(c) PROVE UsedInv'
  BY <1>a, <1>b, <1>c, <1>5 DEF Looked, Alive
<1>6. ASSUME NEW c \in Calls, LocalAsked(c) PROVE UsedInv'
  BY <1>b, <1>c, <1>6 DEF LocalAsked
<1>7. ASSUME NEW c \in Calls, CacheAsked(c) PROVE UsedInv'
  BY <1>b, <1>c, <1>7 DEF CacheAsked
<1>8. ASSUME NEW c \in Calls, ApiAsked(c) PROVE UsedInv'
  BY <1>b, <1>c, <1>8 DEF ApiAsked
<1>9. ASSUME NEW c \in Calls, CacheFilled(c) PROVE UsedInv'
  BY <1>b, <1>c, <1>9 DEF CacheFilled
<1>10. ASSUME NEW c \in Calls, Connected(c) PROVE UsedInv'
  <2>1. ASSUME NEW k \in Connections, NewConnection(c, k), Takes(c, "insert", k), UNCHANGED peers
        PROVE  UsedInv'
    BY <1>b, <1>c, <1>d, <2>1 DEF NewConnection
  <2>2. ASSUME Goes(c, "error"), UNCHANGED <<conns, peers>> PROVE UsedInv'
    BY <2>2
  <2> QED
    BY <1>10, <2>1, <2>2 DEF Connected
<1>11. ASSUME NEW c \in Calls, Inserted(c) PROVE UsedInv'
  BY <1>a, <1>b, <1>c, <1>e, <1>11 DEF Inserted
<1>12. ASSUME NEW c \in Calls, IntentMoved(c) PROVE UsedInv'
  BY <1>b, <1>c, <1>12 DEF IntentMoved
<1>13. ASSUME NEW n \in Names, NEW e \in Endpoints, register(n, e) PROVE UsedInv'
  BY <1>b, <1>c, <1>13 DEF register, Event
<1>14. ASSUME NEW n \in Names, NEW e \in Endpoints, ApiMoves(n, e) PROVE UsedInv'
  BY <1>b, <1>c, <1>14 DEF ApiMoves, Event
<1>15. ASSUME NEW n \in Names, invalidate(n) \/ Expire(n) PROVE UsedInv'
  BY <1>b, <1>c, <1>15 DEF invalidate, Expire, Event
<1>16. ASSUME NEW n \in Names, Disconnected(n) PROVE UsedInv'
  BY <1>b, <1>c, <1>e, <1>16 DEF Disconnected, Closed, Event
<1>17. CASE AllDisconnected
  BY <1>b, <1>c, <1>17 DEF AllDisconnected, Closed
<1>18. CASE Broken
  BY <1>b, <1>c, <1>18 DEF Broken, Closed
<1>19. CASE UNCHANGED vars
  BY <1>b, <1>c, <1>19 DEF vars
<1>20. Effect
  BY NextEffect
<1> QED
  BY <1>1, <1>2, <1>3, <1>4, <1>5, <1>6, <1>7, <1>8, <1>9, <1>10,
     <1>11, <1>12, <1>13, <1>14, <1>15, <1>16, <1>17, <1>18, <1>19, <1>20
     DEF Effect, Outside

LEMMA RegistryStep ==
    ASSUME TypeInv, GivenInv, [Next]_vars PROVE RegistryInv'
<1>a. \A d \in Calls : calls[d].pc # "new" => calls[d].idd \in Names
  BY DEF TypeInv
<1>b. cache \in [Names -> Place]
  BY DEF TypeInv
<1>c. local_registry \in [Names -> Place]
  BY DEF TypeInv
<1>d. api \in [Names -> Place]
  BY DEF TypeInv
<1>e. given \in [Names -> SUBSET Place]
  BY DEF TypeInv
<1> USE DEF RegistryInv, GivenInv
<1>1. ASSUME NEW c \in Calls, NEW n \in Names, Sent(c, n) PROVE RegistryInv'
  BY <1>1 DEF Sent
<1>2. ASSUME NEW c \in Calls, NEW n \in Names, NEW e \in Endpoints, Migrated(c, n, e) PROVE RegistryInv'
  BY <1>c, <1>e, <1>2 DEF Migrated
<1>3. ASSUME NEW c \in Calls, CacheUpdated(c) PROVE RegistryInv'
  BY <1>a, <1>b, <1>3 DEF CacheUpdated, CarriedInv
<1>4. ASSUME NEW c \in Calls, PeerRemoved(c) PROVE RegistryInv'
  BY <1>4 DEF PeerRemoved
<1>5. ASSUME NEW c \in Calls, Looked(c) PROVE RegistryInv'
  BY <1>5 DEF Looked
<1>6. ASSUME NEW c \in Calls, LocalAsked(c) PROVE RegistryInv'
  BY <1>6 DEF LocalAsked
<1>7. ASSUME NEW c \in Calls, CacheAsked(c) PROVE RegistryInv'
  BY <1>7 DEF CacheAsked
<1>8. ASSUME NEW c \in Calls, ApiAsked(c) PROVE RegistryInv'
  BY <1>8 DEF ApiAsked
<1>9. ASSUME NEW c \in Calls, CacheFilled(c) PROVE RegistryInv'
  BY <1>a, <1>b, <1>9 DEF CacheFilled, CarriedInv, NoForeignEndpoint
<1>10. ASSUME NEW c \in Calls, Connected(c) PROVE RegistryInv'
  BY <1>10 DEF Connected
<1>11. ASSUME NEW c \in Calls, Inserted(c) PROVE RegistryInv'
  BY <1>11 DEF Inserted
<1>12. ASSUME NEW c \in Calls, IntentMoved(c) PROVE RegistryInv'
  BY <1>12 DEF IntentMoved
<1>13. ASSUME NEW n \in Names, NEW e \in Endpoints, register(n, e) PROVE RegistryInv'
  BY <1>c, <1>e, <1>13 DEF register, Event
<1>14. ASSUME NEW n \in Names, NEW e \in Endpoints, ApiMoves(n, e) PROVE RegistryInv'
  BY <1>d, <1>e, <1>14 DEF ApiMoves, Event
<1>15. ASSUME NEW n \in Names, invalidate(n) \/ Expire(n) PROVE RegistryInv'
  BY <1>b, <1>15 DEF invalidate, Expire, Event
<1>16. ASSUME NEW n \in Names, Disconnected(n) PROVE RegistryInv'
  BY <1>16 DEF Disconnected, Closed, Event
<1>17. CASE AllDisconnected
  BY <1>17 DEF AllDisconnected, Closed
<1>18. CASE Broken
  BY <1>18 DEF Broken, Closed
<1>19. CASE UNCHANGED vars
  BY <1>19 DEF vars
<1>20. Effect
  BY NextEffect
<1> QED
  BY <1>1, <1>2, <1>3, <1>4, <1>5, <1>6, <1>7, <1>8, <1>9, <1>10,
     <1>11, <1>12, <1>13, <1>14, <1>15, <1>16, <1>17, <1>18, <1>19, <1>20
     DEF Effect, Outside

LEMMA CarriedStep ==
    ASSUME TypeInv, UsedInv, GivenInv, [Next]_vars PROVE CarriedInv'
<1>a. \A d \in Calls : calls[d].pc # "new" => calls[d].idd \in Names
  BY DEF TypeInv
<1>b. \A d \in Calls : calls[d].conn # 0 => calls[d].conn \in Connections
  BY NumberTypes
<1>c. given \in [Names -> SUBSET Place]
  BY DEF TypeInv
<1> USE DEF CarriedInv, GivenInv
<1>1. ASSUME NEW c \in Calls, NEW n \in Names, Sent(c, n) PROVE CarriedInv'
  BY <1>a, <1>1 DEF Sent
<1>2. ASSUME NEW c \in Calls, NEW n \in Names, NEW e \in Endpoints, Migrated(c, n, e) PROVE CarriedInv'
  BY <1>a, <1>c, <1>2 DEF Migrated
<1>3. ASSUME NEW c \in Calls, CacheUpdated(c) PROVE CarriedInv'
  BY <1>a, <1>3 DEF CacheUpdated
<1>4. ASSUME NEW c \in Calls, PeerRemoved(c) PROVE CarriedInv'
  BY <1>a, <1>4 DEF PeerRemoved
<1>5. ASSUME NEW c \in Calls, Looked(c) PROVE CarriedInv'
  BY <1>a, <1>5 DEF Looked
<1>6. ASSUME NEW c \in Calls, LocalAsked(c) PROVE CarriedInv'
  BY <1>a, <1>6 DEF LocalAsked
<1>7. ASSUME NEW c \in Calls, CacheAsked(c) PROVE CarriedInv'
  BY <1>a, <1>7 DEF CacheAsked
<1>8. ASSUME NEW c \in Calls, ApiAsked(c) PROVE CarriedInv'
  BY <1>a, <1>8 DEF ApiAsked
<1>9. ASSUME NEW c \in Calls, CacheFilled(c) PROVE CarriedInv'
  BY <1>a, <1>9 DEF CacheFilled
<1>10. ASSUME NEW c \in Calls, Connected(c) PROVE CarriedInv'
  BY <1>a, <1>b, <1>10 DEF Connected, NewConnection, NoForeignEndpoint, UsedInv, Holding
<1>11. ASSUME NEW c \in Calls, Inserted(c) PROVE CarriedInv'
  BY <1>a, <1>11 DEF Inserted
<1>12. ASSUME NEW c \in Calls, IntentMoved(c) PROVE CarriedInv'
  BY <1>a, <1>12 DEF IntentMoved
<1>13. ASSUME NEW n \in Names, NEW e \in Endpoints, register(n, e) PROVE CarriedInv'
  BY <1>a, <1>c, <1>13 DEF register, Event
<1>14. ASSUME NEW n \in Names, NEW e \in Endpoints, ApiMoves(n, e) PROVE CarriedInv'
  BY <1>a, <1>c, <1>14 DEF ApiMoves, Event
<1>15. ASSUME NEW n \in Names, invalidate(n) \/ Expire(n) PROVE CarriedInv'
  BY <1>a, <1>15 DEF invalidate, Expire, Event
<1>16. ASSUME NEW n \in Names, Disconnected(n) PROVE CarriedInv'
  BY <1>a, <1>b, <1>16 DEF Disconnected, Closed, Event, UsedInv, Holding
<1>17. CASE AllDisconnected
  BY <1>a, <1>b, <1>17 DEF AllDisconnected, Closed, UsedInv, Holding
<1>18. CASE Broken
  BY <1>a, <1>b, <1>18 DEF Broken, Closed, UsedInv, Holding
<1>19. CASE UNCHANGED vars
  BY <1>a, <1>19 DEF vars
<1>20. Effect
  BY NextEffect
<1> QED
  BY <1>1, <1>2, <1>3, <1>4, <1>5, <1>6, <1>7, <1>8, <1>9, <1>10,
     <1>11, <1>12, <1>13, <1>14, <1>15, <1>16, <1>17, <1>18, <1>19, <1>20
     DEF Effect, Outside

LEMMA NoForeignStep ==
    ASSUME TypeInv, UsedInv, GivenInv, [Next]_vars PROVE NoForeignEndpoint'
<1>a. \A d \in Calls : calls[d].pc # "new" => calls[d].idd \in Names
  BY DEF TypeInv
<1>b. \A d \in Calls : calls[d].conn # 0 => calls[d].conn \in Connections
  BY NumberTypes
<1>c. \A n \in Names : peers[n] # 0 => peers[n] \in Connections
  BY NumberTypes
<1>d. DOMAIN peers = Names
  BY DEF TypeInv
<1>e. given \in [Names -> SUBSET Place]
  BY DEF TypeInv
<1> USE DEF NoForeignEndpoint, GivenInv
<1>1. ASSUME NEW c \in Calls, NEW n \in Names, Sent(c, n) PROVE NoForeignEndpoint'
  BY <1>a, <1>1 DEF Sent, CarriedInv
<1>2. ASSUME NEW c \in Calls, NEW n \in Names, NEW e \in Endpoints, Migrated(c, n, e) PROVE NoForeignEndpoint'
  BY <1>a, <1>e, <1>2 DEF Migrated, CarriedInv
<1>3. ASSUME NEW c \in Calls, CacheUpdated(c) PROVE NoForeignEndpoint'
  BY <1>a, <1>3 DEF CacheUpdated
<1>4. ASSUME NEW c \in Calls, PeerRemoved(c) PROVE NoForeignEndpoint'
  BY <1>a, <1>d, <1>4 DEF PeerRemoved
<1>5. ASSUME NEW c \in Calls, Looked(c) PROVE NoForeignEndpoint'
  BY <1>a, <1>5 DEF Looked, Alive
<1>6. ASSUME NEW c \in Calls, LocalAsked(c) PROVE NoForeignEndpoint'
  BY <1>a, <1>6 DEF LocalAsked, RegistryInv
<1>7. ASSUME NEW c \in Calls, CacheAsked(c) PROVE NoForeignEndpoint'
  BY <1>a, <1>7 DEF CacheAsked, RegistryInv
<1>8. ASSUME NEW c \in Calls, ApiAsked(c) PROVE NoForeignEndpoint'
  BY <1>a, <1>8 DEF ApiAsked, RegistryInv
<1>9. ASSUME NEW c \in Calls, CacheFilled(c) PROVE NoForeignEndpoint'
  BY <1>a, <1>9 DEF CacheFilled
<1>10. ASSUME NEW c \in Calls, Connected(c) PROVE NoForeignEndpoint'
  <2>1. ASSUME NEW k \in Connections, NewConnection(c, k), Takes(c, "insert", k),
               UNCHANGED <<peers, given>>
        PROVE  NoForeignEndpoint'
    BY <1>a, <1>c, <2>1 DEF NewConnection, UsedInv
  <2>2. ASSUME Goes(c, "error"), UNCHANGED <<conns, peers, given>> PROVE NoForeignEndpoint'
    BY <1>a, <2>2
  <2> QED
    BY <1>10, <2>1, <2>2 DEF Connected
<1>11. ASSUME NEW c \in Calls, Inserted(c) PROVE NoForeignEndpoint'
  BY <1>a, <1>d, <1>11 DEF Inserted, CarriedInv
<1>12. ASSUME NEW c \in Calls, IntentMoved(c) PROVE NoForeignEndpoint'
  BY <1>a, <1>12 DEF IntentMoved
<1>13. ASSUME NEW n \in Names, NEW e \in Endpoints, register(n, e) PROVE NoForeignEndpoint'
  BY <1>a, <1>e, <1>13 DEF register, Event
<1>14. ASSUME NEW n \in Names, NEW e \in Endpoints, ApiMoves(n, e) PROVE NoForeignEndpoint'
  BY <1>a, <1>e, <1>14 DEF ApiMoves, Event
<1>15. ASSUME NEW n \in Names, invalidate(n) \/ Expire(n) PROVE NoForeignEndpoint'
  BY <1>a, <1>15 DEF invalidate, Expire, Event
<1>16. ASSUME NEW n \in Names, Disconnected(n) PROVE NoForeignEndpoint'
  BY <1>a, <1>c, <1>d, <1>16 DEF Disconnected, Closed, Event, UsedInv
<1>17. CASE AllDisconnected
  BY <1>a, <1>17 DEF AllDisconnected, Closed
<1>18. CASE Broken
  BY <1>a, <1>c, <1>18 DEF Broken, Closed, UsedInv
<1>19. CASE UNCHANGED vars
  BY <1>a, <1>19 DEF vars
<1>20. Effect
  BY NextEffect
<1> QED
  BY <1>1, <1>2, <1>3, <1>4, <1>5, <1>6, <1>7, <1>8, <1>9, <1>10,
     <1>11, <1>12, <1>13, <1>14, <1>15, <1>16, <1>17, <1>18, <1>19, <1>20
     DEF Effect, Outside

LEMMA AloneStep ==
    ASSUME TypeInv, AloneInv, [Next]_vars PROVE AloneInv'
<1>a. \A d \in Calls : calls[d].pc # "new" => calls[d].idd \in Names
  BY DEF TypeInv
<1> USE DEF AloneInv, Active
<1>1. ASSUME NEW c \in Calls, NEW n \in Names, Sent(c, n) PROVE AloneInv'
  BY <1>1 DEF Sent, Meets, AtWork
<1>2. ASSUME NEW c \in Calls, NEW n \in Names, NEW e \in Endpoints, Migrated(c, n, e) PROVE AloneInv'
  BY <1>2 DEF Migrated, Meets, AtWork
<1>3. ASSUME NEW c \in Calls, CacheUpdated(c) PROVE AloneInv'
  BY <1>3 DEF CacheUpdated
<1>4. ASSUME NEW c \in Calls, PeerRemoved(c) PROVE AloneInv'
  BY <1>4 DEF PeerRemoved
<1>5. ASSUME NEW c \in Calls, Looked(c) PROVE AloneInv'
  BY <1>5 DEF Looked
<1>6. ASSUME NEW c \in Calls, LocalAsked(c) PROVE AloneInv'
  BY <1>6 DEF LocalAsked
<1>7. ASSUME NEW c \in Calls, CacheAsked(c) PROVE AloneInv'
  BY <1>7 DEF CacheAsked
<1>8. ASSUME NEW c \in Calls, ApiAsked(c) PROVE AloneInv'
  BY <1>8 DEF ApiAsked
<1>9. ASSUME NEW c \in Calls, CacheFilled(c) PROVE AloneInv'
  BY <1>9 DEF CacheFilled
<1>10. ASSUME NEW c \in Calls, Connected(c) PROVE AloneInv'
  BY <1>10 DEF Connected
<1>11. ASSUME NEW c \in Calls, Inserted(c) PROVE AloneInv'
  BY <1>11 DEF Inserted
<1>12. ASSUME NEW c \in Calls, IntentMoved(c) PROVE AloneInv'
  BY <1>12 DEF IntentMoved
<1>13. ASSUME NEW n \in Names, NEW e \in Endpoints, register(n, e) PROVE AloneInv'
  BY <1>13 DEF register, Event
<1>14. ASSUME NEW n \in Names, NEW e \in Endpoints, ApiMoves(n, e) PROVE AloneInv'
  BY <1>14 DEF ApiMoves, Event
<1>15. ASSUME NEW n \in Names, invalidate(n) \/ Expire(n) PROVE AloneInv'
  BY <1>15 DEF invalidate, Expire, Event
<1>16. ASSUME NEW n \in Names, Disconnected(n) PROVE AloneInv'
  BY <1>16 DEF Disconnected, Closed, Event
<1>17. CASE AllDisconnected
  BY <1>17 DEF AllDisconnected, Closed
<1>18. CASE Broken
  BY <1>18 DEF Broken, Closed
<1>19. CASE UNCHANGED vars
  BY <1>19 DEF vars
<1>20. Effect
  BY NextEffect
<1> QED
  BY <1>1, <1>2, <1>3, <1>4, <1>5, <1>6, <1>7, <1>8, <1>9, <1>10,
     <1>11, <1>12, <1>13, <1>14, <1>15, <1>16, <1>17, <1>18, <1>19, <1>20
     DEF Effect, Outside

LEMMA HoldStep ==
    ASSUME TypeInv, UsedInv, AloneInv, HoldInv, [Next]_vars PROVE HoldInv'
<1>a. \A d \in Calls : calls[d].pc # "new" => calls[d].idd \in Names
  BY DEF TypeInv
<1>b. \A d \in Calls : calls[d].conn # 0 => calls[d].conn \in Connections
  BY NumberTypes
<1>c. \A n \in Names : peers[n] # 0 => peers[n] \in Connections
  BY NumberTypes
<1>d. 0 \notin Connections
  BY NumberTypes
<1>e. DOMAIN peers = Names
  BY DEF TypeInv
<1>f. cache \in [Names -> Place]
  BY DEF TypeInv
<1>g. local_registry \in [Names -> Place]
  BY DEF TypeInv
<1> USE DEF HoldInv, HoldOf, LivesAt, Quiet
<1>1. ASSUME NEW c \in Calls, NEW n \in Names, Sent(c, n) PROVE HoldInv'
  BY <1>a, <1>1 DEF Sent, Meets, AtWork, Active
<1>2. ASSUME NEW c \in Calls, NEW n \in Names, NEW e \in Endpoints, Migrated(c, n, e) PROVE HoldInv'
  BY <1>a, <1>g, <1>2 DEF Migrated, Meets, AtWork, Active
<1>3. ASSUME NEW c \in Calls, CacheUpdated(c) PROVE HoldInv'
  <2>1. HoldOf(c)'
    BY <1>a, <1>f, <1>3 DEF CacheUpdated, Active, Known
  <2>2. ASSUME NEW d \in Calls, d # c PROVE HoldOf(d)'
    BY <1>a, <1>f, <1>3, <2>2 DEF CacheUpdated, AloneInv, Active
  <2> QED
    BY <2>1, <2>2
<1>4. ASSUME NEW c \in Calls, PeerRemoved(c) PROVE HoldInv'
  BY <1>a, <1>e, <1>4 DEF PeerRemoved, AloneInv, Active
<1>5. ASSUME NEW c \in Calls, Looked(c) PROVE HoldInv'
  BY <1>a, <1>5 DEF Looked, Alive, Active
<1>6. ASSUME NEW c \in Calls, LocalAsked(c) PROVE HoldInv'
  BY <1>a, <1>6 DEF LocalAsked, Active
<1>7. ASSUME NEW c \in Calls, CacheAsked(c) PROVE HoldInv'
  BY <1>a, <1>7 DEF CacheAsked, Active
<1>8. ASSUME NEW c \in Calls, ApiAsked(c) PROVE HoldInv'
  BY <1>a, <1>8 DEF ApiAsked, Active
<1>9. ASSUME NEW c \in Calls, CacheFilled(c) PROVE HoldInv'
  BY <1>a, <1>f, <1>9 DEF CacheFilled, AloneInv, Active
<1>10. ASSUME NEW c \in Calls, Connected(c) PROVE HoldInv'
  BY <1>a, <1>b, <1>10 DEF Connected, NewConnection, Active, UsedInv, Holding
<1>11. ASSUME NEW c \in Calls, Inserted(c) PROVE HoldInv'
  BY <1>a, <1>e, <1>11 DEF Inserted, AloneInv, Active
<1>12. ASSUME NEW c \in Calls, IntentMoved(c) PROVE HoldInv'
  BY <1>a, <1>12 DEF IntentMoved, Active
<1>13. ASSUME NEW n \in Names, NEW e \in Endpoints, register(n, e) PROVE HoldInv'
  BY <1>a, <1>g, <1>13 DEF register, Event, AtWork, Active
<1>14. ASSUME NEW n \in Names, NEW e \in Endpoints, ApiMoves(n, e) PROVE HoldInv'
  BY <1>a, <1>14 DEF ApiMoves, Event, AtWork, Active
<1>15. ASSUME NEW n \in Names, invalidate(n) \/ Expire(n) PROVE HoldInv'
  BY <1>a, <1>f, <1>15 DEF invalidate, Expire, Event, AtWork, Active
<1>16. ASSUME NEW n \in Names, Disconnected(n) PROVE HoldInv'
  BY <1>a, <1>b, <1>e, <1>16 DEF Disconnected, Closed, Event, AtWork, Active, UsedInv, Holding
<1>17. CASE AllDisconnected
  BY <1>a, <1>b, <1>17 DEF AllDisconnected, Closed, Active, UsedInv, Holding
<1>18. CASE Broken
  BY <1>a, <1>b, <1>18 DEF Broken, Closed, Active, UsedInv, Holding
<1>19. CASE UNCHANGED vars
  BY <1>a, <1>19 DEF vars, Active
<1>20. Effect
  BY NextEffect
<1> QED
  BY <1>1, <1>2, <1>3, <1>4, <1>5, <1>6, <1>7, <1>8, <1>9, <1>10,
     <1>11, <1>12, <1>13, <1>14, <1>15, <1>16, <1>17, <1>18, <1>19, <1>20
     DEF Effect, Outside

-----------------------------------------------------------------------------
(***************************************************************************)
(* The theorems.                                                           *)
(***************************************************************************)
LEMMA InitInv == Init => OverlayInv
<1> SUFFICES ASSUME Init PROVE OverlayInv
  OBVIOUS
<1> USE DEF Init, NoCall
<1>1. TypeInv
  <2>1. NoCall \in Call
    BY DEF Call, Pc
  <2> QED
    BY <2>1 DEF TypeInv
<1>2. UsedInv /\ GivenInv
  BY DEF UsedInv, Holding, GivenInv, RegistryInv, CarriedInv, NoForeignEndpoint
<1>3. AloneInv /\ HoldInv
  BY DEF AloneInv, Active, HoldInv, HoldOf, Quiet
<1> QED
  BY <1>1, <1>2, <1>3 DEF OverlayInv

LEMMA NextInv ==
    ASSUME OverlayInv, [Next]_vars PROVE OverlayInv'
<1>1. GivenInv'
  BY RegistryStep, CarriedStep, NoForeignStep DEF OverlayInv, GivenInv
<1> QED
  BY <1>1, TypeStep, UsedStep, AloneStep, HoldStep DEF OverlayInv

\* The inductive invariant holds in every reachable state of the overlay.
THEOREM OverlayInvariance == Spec => []OverlayInv
  BY InitInv, NextInv, PTL DEF Spec

\* Registry, cache, peers and the connections that calls refer to keep their
\* types, and every number in use is that of a connection that was made.
THEOREM OverlayTypeCorrect == Spec => []TypeOK
<1>1. OverlayInv => TypeOK
  <2> SUFFICES ASSUME OverlayInv PROVE TypeOK
    OBVIOUS
  <2>1. TypeInv /\ UsedInv
    BY DEF OverlayInv
  <2> QED
    BY <2>1 DEF TypeInv, UsedInv, Holding, TypeOK
<1> QED
  BY <1>1, OverlayInvariance, PTL

\* Whoever calls a peer reaches a place that was given for that identity,
\* whatever registrations, migrations, moves and calls of overlay_mux.rs
\* interleave.
THEOREM OnlyGivenEndpoints == Spec => []NoForeignEndpoint
<1>1. OverlayInv => NoForeignEndpoint
  BY DEF OverlayInv, GivenInv
<1> QED
  BY <1>1, OverlayInvariance, PTL

\* A step that ends a migration without an error leaves, unless another call
\* or an event met it, peer, registry and cache at the new endpoint.
LEMMA MigrationStep ==
    ASSUME OverlayInv, [Next]_vars, NEW c \in Calls,
           calls[c].op = "migrate", calls[c].pc # "ok", calls'[c].pc = "ok",
           c \notin disturbed, calls[c].idd \notin Bare, calls[c].known
    PROVE  /\ conns[peers[calls[c].idd]].endpoint = calls[c].to
           /\ LivesAt(calls[c].idd, calls[c].to)
<1>1. Effect
  BY NextEffect DEF OverlayInv
<1>2. calls[c].pc \notin {"new", "sent", "answered", "refused"}
  BY DEF OverlayInv, HoldInv, HoldOf
<1>3. calls[c].pc = "established"
  <2>1. ASSUME NEW d \in Calls, NEW n \in Names, Sent(d, n) PROVE FALSE
    BY <2>1 DEF Sent
  <2>2. ASSUME NEW d \in Calls, NEW n \in Names, NEW e \in Endpoints, Migrated(d, n, e) PROVE FALSE
    BY <2>2 DEF Migrated
  <2>3. ASSUME NEW d \in Calls, CacheUpdated(d) \/ PeerRemoved(d) \/ Looked(d) PROVE FALSE
    BY <2>3 DEF CacheUpdated, PeerRemoved, Looked
  <2>4. ASSUME NEW d \in Calls, LocalAsked(d) \/ CacheAsked(d) \/ ApiAsked(d) PROVE FALSE
    BY <2>4 DEF LocalAsked, CacheAsked, ApiAsked
  <2>5. ASSUME NEW d \in Calls, CacheFilled(d) \/ Connected(d) \/ Inserted(d) PROVE FALSE
    BY <2>5 DEF CacheFilled, Connected, Inserted
  <2>6. ASSUME NEW d \in Calls, IntentMoved(d) PROVE calls[c].pc = "established"
    BY <1>2, <2>6 DEF IntentMoved
  <2>7. ASSUME NEW n \in Names, Outside(n) PROVE FALSE
    BY <2>7 DEF Outside, register, ApiMoves, invalidate, Disconnected, Expire, Event
  <2>8. ASSUME AllDisconnected \/ Broken \/ UNCHANGED vars PROVE FALSE
    BY <2>8 DEF AllDisconnected, Broken, vars
  <2> QED
    BY <1>1, <2>1, <2>2, <2>3, <2>4, <2>5, <2>6, <2>7, <2>8 DEF Effect
<1>4. Quiet(c)
  BY <1>3 DEF Quiet, Active
<1> QED
  BY <1>3, <1>4 DEF OverlayInv, HoldInv, HoldOf

\* A migration of a complete name that registry or cache knows has moved the
\* peer when it returns Ok, provided that nothing met it.
THEOREM MigrationsTakeHold == Spec => MigrationTakesHold
<1>1. ASSUME OverlayInv, [Next]_vars, NEW c \in Calls
      PROVE  LET n == calls[c].idd
                 e == calls[c].to
             IN  /\ calls[c].op = "migrate" /\ calls[c].pc # "ok" /\ calls'[c].pc = "ok"
                 /\ c \notin disturbed /\ n \notin Bare
                 /\ calls[c].known
                 => /\ conns[peers[n]].endpoint = e
                    /\ local_registry[n] # None => local_registry[n] = e
                    /\ local_registry[n] = None => cache[n] = e /\ n \notin expired
  BY <1>1, MigrationStep DEF LivesAt
<1>2. OverlayInv /\ [Next]_vars =>
        \A c \in Calls :
          LET n == calls[c].idd
              e == calls[c].to
          IN  /\ calls[c].op = "migrate" /\ calls[c].pc # "ok" /\ calls'[c].pc = "ok"
              /\ c \notin disturbed /\ n \notin Bare
              /\ calls[c].known
              => /\ conns[peers[n]].endpoint = e
                 /\ local_registry[n] # None => local_registry[n] = e
                 /\ local_registry[n] = None => cache[n] = e /\ n \notin expired
  BY <1>1
<1> QED
  BY <1>2, OverlayInvariance, PTL DEF Spec, MigrationTakesHold

=============================================================================
