----------------------------- MODULE RamBProofs -----------------------------
(***************************************************************************)
(* Theorems about the two transports to RAM B: together they implement the *)
(* block service, for any calls, requests, batches and connections.        *)
(***************************************************************************)
EXTENDS RamB, FiniteSetTheorems, TLAPS

Content == Contents \cup {None}
Answers == [status : Nat, data : Content]
Replies == [status : Nat, hash : Content, data : Content \cup {Garbage}]
States  == {"new", "open", "ok", "error"}

TcpCall ==
    [state : States, req : Request \cup {None}, link : {"none", "up", "down"}, inbox : BOOLEAN,
     payload : Content \cup {Garbage}, taken : BOOLEAN, answer : Answers \cup {None}, reply : Replies \cup {None},
     value : Answers \cup {None}]

QuicCall ==
    [state : States, req : Request \cup {None}, on : Nat, inbox : BOOLEAN, sent : BOOLEAN,
     taken : BOOLEAN, answer : Answers \cup {None}, reply : Replies \cup {None},
     value : Answers \cup {None}]

BatchState == [state : States, joined : Nat]

TypeInv ==
    /\ blocks \in [Blocks -> Content]
    /\ tcp \in [TcpCalls -> TcpCall]
    /\ quic \in [QuicCalls -> QuicCall]
    /\ batch \in [Batches -> BatchState]

-----------------------------------------------------------------------------
(***************************************************************************)
(* The inductive invariant says of each call that it is handled at most    *)
(* once, after it was sent, and that what travels is the data of the       *)
(* request and the answer; only over TCP either may be corrupted, and then *)
(* the hash gives it away.                                                 *)
(***************************************************************************)
Carries(a, r) ==
    /\ r.status = a.status
    /\ r.data = a.data \/ (r.data = Garbage /\ r.hash \in Contents)
    /\ r.data \in Contents => r.hash \in Contents

TcpInv(t) ==
    /\ t.state = "new" => t.link = "none"
    /\ t.state # "new" => t.req \in Request
    /\ t.state \in {"new", "open"} => t.value = None
    /\ t.state = "ok" => t.taken /\ t.value = t.answer
    /\ t.link = "none" => ~t.inbox /\ ~t.taken
    /\ t.inbox => ~t.taken /\ t.state \in {"open", "error"}
    /\ t.inbox /\ t.req.op = "store" => t.payload \in {t.req.data, Garbage}
    /\ t.taken => t.answer \in Answers
    /\ t.reply # None => t.taken /\ t.reply \in Replies /\ Carries(t.answer, t.reply)

QuicInv(u) ==
    /\ u.state = "new" => ~u.sent
    /\ u.state # "new" => u.req \in Request
    /\ u.state = "ok" => u.taken /\ u.value = u.answer
    /\ ~u.sent => ~u.inbox /\ ~u.taken
    /\ u.inbox => ~u.taken /\ u.state \in {"open", "error"}
    /\ u.taken => u.answer \in Answers
    /\ u.taken /\ u.req.op = "fetch" /\ u.answer.status = 200 => u.answer.data \in Contents
    /\ u.reply # None =>
         /\ u.taken /\ u.reply \in Replies
         /\ u.reply.status = u.answer.status /\ u.reply.data = u.answer.data
         /\ u.reply.data # None => u.reply.data = u.reply.hash

\* The tasks of a batch that was started fetch over one connection, and those
\* that were joined have fetched.
BatchInv(q) ==
    LET b == batch[q]
    IN  /\ b.joined \in 0 .. Len(q)
        /\ b.state = "new" => b.joined = 0
        /\ b.state = "open" => b.joined < Len(q)
        /\ b.state = "ok" => b.joined = Len(q)
        /\ b.state \in {"open", "ok"} \/ b.joined > 0 =>
             \A i \in DOMAIN q : /\ quic[q[i]].state # "new" /\ quic[q[i]].req.op = "fetch"
                                 /\ quic[q[i]].on # 0 /\ quic[q[i]].on = quic[q[1]].on
        /\ \A i \in 1 .. b.joined : quic[q[i]].state = "ok" /\ quic[q[i]].value.status = 200

CallsInv == /\ \A c \in TcpCalls : TcpInv(tcp[c])
            /\ \A c \in QuicCalls : QuicInv(quic[c])
            /\ \A q \in Batches : BatchInv(q)

RamBInv == TypeInv /\ CallsInv

USE ContentAssumption, RequestAssumption

-----------------------------------------------------------------------------
(***************************************************************************)
(* The steps of a call over TCP, from its record t to its record v.        *)
(***************************************************************************)
TcpInvoked(t, v) ==
    /\ t.state = "new" /\ v.state = "open" /\ v.req \in TcpRequests
    /\ v.link = t.link /\ v.inbox = t.inbox /\ v.taken = t.taken /\ v.answer = t.answer
    /\ v.reply = t.reply /\ v.value = t.value /\ v.payload = t.payload

TcpSent(t, v) ==
    /\ t.state = "open" /\ t.link = "none" /\ v.link = "up" /\ v.inbox
    /\ t.req.op = "store" => v.payload \in {t.req.data, Garbage}
    /\ v.state = t.state /\ v.req = t.req /\ v.taken = t.taken /\ v.answer = t.answer
    /\ v.reply = t.reply /\ v.value = t.value

TcpReturned(t, v) ==
    /\ t.state = "open" /\ v.link = "down" /\ v.reply = None
    /\ v.req = t.req /\ v.inbox = t.inbox /\ v.taken = t.taken /\ v.answer = t.answer
    /\ v.payload = t.payload

TcpFailed(t, v) == TcpReturned(t, v) /\ v.state = "error" /\ v.value = None

TcpReceived(t, v) == 
    /\ TcpReturned(t, v) /\ v.state = "ok" /\ t.reply # None
    /\ t.reply.data # None => t.reply.data = t.reply.hash
    /\ v.value = Tcp!Told(t.reply)

TcpServed(t, v, r) ==
    /\ t.inbox /\ v.inbox = FALSE /\ v.taken = TRUE
    /\ v.answer = Tcp!Told(r) /\ v.reply \in {r, None}
    /\ v.state = t.state /\ v.req = t.req /\ v.link = t.link /\ v.value = t.value

\* The connection is gone, with it the reply and perhaps the request.
TcpCut(t, v) ==
    /\ v.inbox => t.inbox
    /\ v.link \in {t.link, "down"} /\ (t.link = "none" => v.link = "none")
    /\ v.reply \in {t.reply, None}
    /\ v.state = t.state /\ v.req = t.req /\ v.taken = t.taken /\ v.answer = t.answer
    /\ v.value = t.value /\ v.payload = t.payload

TcpCorrupted(t, v) ==
    /\ \/ v.payload = Garbage /\ v.reply = t.reply
       \/ /\ v.payload = t.payload
          /\ t.reply # None /\ t.reply.data \in Contents
          /\ v.reply \in Replies /\ v.reply.status = t.reply.status
          /\ v.reply.hash = t.reply.hash /\ v.reply.data = Garbage
    /\ v.state = t.state /\ v.req = t.req /\ v.link = t.link /\ v.inbox = t.inbox
    /\ v.taken = t.taken /\ v.answer = t.answer /\ v.value = t.value

TcpChange(c, v) == v \in TcpCall /\ tcp' = [tcp EXCEPT ![c] = v] 

\* What the server answers to a request, and what becomes of the blocks.
Handled(r, a) ==
    \/ r.op = "ping" /\ a = [status |-> 200, data |-> None] /\ blocks' = blocks
    \/ /\ r.op = "fetch" /\ blocks' = blocks
       /\ a = IF blocks[r.block] = None THEN [status |-> 404, data |-> None]
              ELSE IF r.hash \notin {None, blocks[r.block]} THEN [status |-> 409, data |-> None]
              ELSE [status |-> 200, data |-> blocks[r.block]]
    \/ /\ r.op = "store" /\ r.data = r.hash /\ a = [status |-> 200, data |-> None]
       /\ blocks' = [blocks EXCEPT ![r.block] = r.data]
    \/ /\ r.op = "store" /\ blocks' = blocks
       /\ \E status \in {409, 413} : a = [status |-> status, data |-> None]

LEMMA TcpInvokes ==
    ASSUME TypeInv, NEW c \in TcpCalls, Tcp!Invoke(c)
    PROVE  \E v : TcpChange(c, v) /\ TcpInvoked(tcp[c], v)
<1>0. tcp \in [TcpCalls -> TcpCall] /\ tcp[c] \in TcpCall
  BY DEF TypeInv
<1>1. PICK r \in TcpRequests : tcp' = [tcp EXCEPT ![c].state = "open", ![c].req = r]
  BY DEF Tcp!Invoke
<1> DEFINE v == [tcp[c] EXCEPT !.state = "open", !.req = r]
<1>2. v \in TcpCall
  BY <1>0, <1>1 DEF TcpCall, States
<1>3. tcp' = [tcp EXCEPT ![c] = v]
  BY <1>0, <1>1
<1>4. TcpInvoked(tcp[c], v)
  BY <1>0, <1>1 DEF Tcp!Invoke, TcpInvoked, TcpCall
<1> QED
  BY <1>2, <1>3, <1>4 DEF TcpChange

LEMMA TcpSends ==
    ASSUME TypeInv, NEW c \in TcpCalls, TcpInv(tcp[c]), Tcp!Send(c)
    PROVE  \E v : TcpChange(c, v) /\ TcpSent(tcp[c], v)
<1>0. tcp \in [TcpCalls -> TcpCall] /\ tcp[c] \in TcpCall
  BY DEF TypeInv
<1> DEFINE d == Tcp!Payload(tcp[c].req)
           v == [tcp[c] EXCEPT !.link = "up", !.inbox = TRUE, !.payload = d]
<1>1. tcp' = [tcp EXCEPT ![c].link = "up", ![c].inbox = TRUE, ![c].payload = d]
  BY DEF Tcp!Send
<1>2. tcp[c].req \in Request /\ tcp[c].state = "open" /\ tcp[c].link = "none"
  BY DEF Tcp!Send, TcpInv
<1>3. /\ d \in Content \cup {Garbage}
      /\ tcp[c].req.op = "store" => d \in {tcp[c].req.data, Garbage}
  BY <1>2 DEF Tcp!Payload, Content, Request
<1> HIDE DEF d
<1>4. tcp' = [tcp EXCEPT ![c] = v]
  BY <1>0, <1>1
<1>5. v \in TcpCall
  BY <1>0, <1>3 DEF TcpCall
<1>6. TcpSent(tcp[c], v)
  BY <1>0, <1>2, <1>3 DEF TcpSent, TcpCall
<1> QED
  BY <1>4, <1>5, <1>6 DEF TcpChange

LEMMA TcpReturns ==
    ASSUME TypeInv, NEW c \in TcpCalls, NEW state \in States, NEW value \in Answers \cup {None},
           tcp[c].state = "open", Tcp!Returns(c, state, value)
    PROVE  \E v : /\ TcpChange(c, v) /\ TcpReturned(tcp[c], v)
                  /\ v.state = state /\ v.value = value
<1>0. tcp \in [TcpCalls -> TcpCall] /\ tcp[c] \in TcpCall
  BY DEF TypeInv
<1> DEFINE v == [tcp[c] EXCEPT !.state = state, !.value = value, !.link = "down", !.reply = None]
<1>1. tcp' = [tcp EXCEPT ![c].state = state, ![c].value = value, ![c].link = "down",
                         ![c].reply = None]
  BY DEF Tcp!Returns
<1>2. v \in TcpCall
  BY <1>0 DEF TcpCall
<1>3. tcp' = [tcp EXCEPT ![c] = v]
  BY <1>0, <1>1
<1>4. TcpReturned(tcp[c], v) /\ v.state = state /\ v.value = value
  BY <1>0 DEF TcpReturned, TcpCall
<1> QED
  BY <1>2, <1>3, <1>4 DEF TcpChange

LEMMA TcpFails ==
    ASSUME TypeInv, NEW c \in TcpCalls, tcp[c].state = "open", Tcp!Fail(c)
    PROVE  \E v : TcpChange(c, v) /\ TcpFailed(tcp[c], v)
<1>1. Tcp!Returns(c, "error", None)
  BY DEF Tcp!Fail
<1>2. PICK v : TcpChange(c, v) /\ TcpReturned(tcp[c], v) /\ v.state = "error" /\ v.value = None
  BY <1>1, "error" \in States, None \in Answers \cup {None}, TcpReturns DEF States
<1> QED
  BY <1>2 DEF TcpFailed

\* A payload that was corrupted does not fit its hash.
LEMMA TcpReceives ==
    ASSUME TypeInv, NEW c \in TcpCalls, TcpInv(tcp[c]), Tcp!Receive(c)
    PROVE  \E v : TcpChange(c, v) /\ (TcpReceived(tcp[c], v) \/ TcpFailed(tcp[c], v))
<1> DEFINE t == tcp[c]
<1>0. t.state = "open" /\ t.reply # None
  BY DEF Tcp!Receive
<1>1. CASE Tcp!Accepts(c)
  <2>1. Tcp!Returns(c, "ok", Tcp!Told(t.reply))
    BY <1>1 DEF Tcp!Receive
  <2>2. t.reply.data # None => t.reply.data = t.reply.hash
    BY <1>1 DEF Tcp!Accepts
  <2>3. t.reply \in Replies /\ Carries(t.answer, t.reply) /\ t.answer \in Answers
    BY <1>0 DEF TcpInv
  <2>4. t.reply.data = t.answer.data /\ t.reply.status = t.answer.status
    BY <2>2, <2>3 DEF Carries
  <2>5. Tcp!Told(t.reply) \in Answers \cup {None}
    BY <2>3, <2>4 DEF Tcp!Told, Answers
  <2>6. PICK v : /\ TcpChange(c, v) /\ TcpReturned(t, v)
                 /\ v.state = "ok" /\ v.value = Tcp!Told(t.reply)
    BY <1>0, <2>1, <2>5, "ok" \in States, TcpReturns DEF States
  <2> QED
    BY <1>0, <2>2, <2>6 DEF TcpReceived
<1>2. CASE ~Tcp!Accepts(c)
  BY <1>0, <1>2, TcpFails DEF Tcp!Receive
<1> QED
  BY <1>1, <1>2

LEMMA TcpReplies ==
    ASSUME TypeInv, NEW c \in TcpCalls, NEW r \in Replies, Tcp!Told(r) \in Answers,
           tcp[c].inbox, Tcp!Reply(c, r)
    PROVE  \E v : TcpChange(c, v) /\ TcpServed(tcp[c], v, r)
<1>0. tcp \in [TcpCalls -> TcpCall] /\ tcp[c] \in TcpCall
  BY DEF TypeInv
<1> DEFINE reply == IF tcp[c].link = "up" THEN r ELSE None
           v == [tcp[c] EXCEPT !.inbox = FALSE, !.taken = TRUE, !.answer = Tcp!Told(r),
                               !.reply = reply]
<1>1. tcp' = [tcp EXCEPT ![c].inbox = FALSE, ![c].taken = TRUE, ![c].answer = Tcp!Told(r),
                         ![c].reply = reply]
  BY DEF Tcp!Reply
<1>2. reply \in Replies \cup {None} /\ reply \in {r, None}
  OBVIOUS
<1> HIDE DEF reply
<1>3. v \in TcpCall
  BY <1>0, <1>2 DEF TcpCall
<1>4. tcp' = [tcp EXCEPT ![c] = v]
  BY <1>0, <1>1
<1>5. TcpServed(tcp[c], v, r)
  BY <1>0, <1>2 DEF TcpServed, TcpCall
<1> QED
  BY <1>3, <1>4, <1>5 DEF TcpChange

\* The server handles a request as the block service does; a store whose data
\* was corrupted or is out of place is refused, since the hash is that of none.
LEMMA TcpServes ==
    ASSUME TypeInv, NEW c \in TcpCalls, TcpInv(tcp[c]), Tcp!Serve(c)
    PROVE  \E v, r : /\ TcpChange(c, v) /\ r \in Replies /\ TcpServed(tcp[c], v, r)
                     /\ Tcp!Told(r) \in Answers /\ Carries(Tcp!Told(r), r)
                     /\ Handled(tcp[c].req, Tcp!Told(r))
<1> DEFINE t == tcp[c]
           q == t.req
<1>0. t.inbox /\ q \in Request /\ blocks \in [Blocks -> Content]
  <2>1. t.inbox
    BY DEF Tcp!Serve, Tcp!handle_fetch, Tcp!handle_store, Tcp!handle_ping
  <2> QED
    BY <2>1 DEF TcpInv, TypeInv
<1>1. ASSUME NEW r \in Replies, Tcp!Told(r) \in Answers, Tcp!Reply(c, r), Carries(Tcp!Told(r), r),
             Handled(q, Tcp!Told(r))
      PROVE  \E v, s : /\ TcpChange(c, v) /\ s \in Replies /\ TcpServed(tcp[c], v, s)
                       /\ Tcp!Told(s) \in Answers /\ Carries(Tcp!Told(s), s)
                       /\ Handled(tcp[c].req, Tcp!Told(s))
  BY <1>0, <1>1, TcpReplies
<1>2. ASSUME NEW status \in Nat, NEW hash \in Content, NEW data \in Content,
             data \in Contents => hash \in Contents
      PROVE  /\ Tcp!Response(status, hash, data) \in Replies
             /\ Tcp!Told(Tcp!Response(status, hash, data)) = [status |-> status, data |-> data]
             /\ Tcp!Told(Tcp!Response(status, hash, data)) \in Answers
             /\ Carries(Tcp!Told(Tcp!Response(status, hash, data)), Tcp!Response(status, hash, data))
  BY <1>2 DEF Tcp!Response, Tcp!Told, Replies, Answers, Carries
<1>3. CASE Tcp!handle_fetch(c)
  <2> DEFINE d == blocks[q.block]
             r == IF d = None THEN Tcp!Response(404, None, None)
                  ELSE IF q.hash \notin {None, d} THEN Tcp!Response(409, None, None)
                  ELSE Tcp!Response(200, d, d)
  <2>1. q.op = "fetch" /\ Tcp!Reply(c, r) /\ blocks' = blocks
    BY <1>3 DEF Tcp!handle_fetch
  <2>2. d \in Content
    BY <1>0, <2>1 DEF Request
  <2>3. /\ r \in Replies /\ Tcp!Told(r) \in Answers /\ Carries(Tcp!Told(r), r)
        /\ Tcp!Told(r) = IF d = None THEN [status |-> 404, data |-> None]
                         ELSE IF q.hash \notin {None, d} THEN [status |-> 409, data |-> None]
                         ELSE [status |-> 200, data |-> d]
    <3> HIDE DEF d, q
    <3> QED
      BY <1>2, <2>2 DEF Content
  <2>4. Handled(q, Tcp!Told(r))
    BY <2>1, <2>3 DEF Handled
  <2> HIDE DEF r
  <2> QED
    BY <1>1, <2>1, <2>3, <2>4
<1>4. CASE Tcp!handle_store(c)
  <2> DEFINE no413 == Tcp!Response(413, None, None)
             no409 == Tcp!Response(409, None, None)
             yes   == Tcp!Response(200, q.hash, None)
  <2>0. q.op = "store"
    BY <1>4 DEF Tcp!handle_store
  <2>1. q.hash \in Contents /\ q.data \in Contents
    BY <1>0, <2>0 DEF Request
  <2>2. CASE Tcp!Reply(c, no413) /\ blocks' = blocks
    <3>1. /\ no413 \in Replies /\ Tcp!Told(no413) = [status |-> 413, data |-> None]
          /\ Tcp!Told(no413) \in Answers /\ Carries(Tcp!Told(no413), no413)
      BY <1>2 DEF Content
    <3>2. Handled(q, Tcp!Told(no413))
      BY <2>0, <2>2, <3>1 DEF Handled
    <3> HIDE DEF no413
    <3> QED
      BY <1>1, <2>2, <3>1, <3>2
  <2>3. CASE Tcp!Reply(c, no409) /\ blocks' = blocks
    <3>1. /\ no409 \in Replies /\ Tcp!Told(no409) = [status |-> 409, data |-> None]
          /\ Tcp!Told(no409) \in Answers /\ Carries(Tcp!Told(no409), no409)
      BY <1>2 DEF Content
    <3>2. Handled(q, Tcp!Told(no409))
      BY <2>0, <2>3, <3>1 DEF Handled
    <3> HIDE DEF no409
    <3> QED
      BY <1>1, <2>3, <3>1, <3>2
  <2>4. CASE /\ t.payload = q.hash /\ Tcp!Reply(c, yes)
             /\ blocks' = [blocks EXCEPT ![q.block] = t.payload]
    <3>0. t.payload \in {q.data, Garbage}
      BY <1>0, <2>0 DEF TcpInv
    <3>1. q.data = q.hash /\ t.payload = q.data
      BY <2>1, <2>4, <3>0
    <3>2. /\ yes \in Replies /\ Tcp!Told(yes) = [status |-> 200, data |-> None]
          /\ Tcp!Told(yes) \in Answers /\ Carries(Tcp!Told(yes), yes)
      BY <1>2, <2>1 DEF Content
    <3>3. Handled(q, Tcp!Told(yes))
      BY <2>0, <2>4, <3>1, <3>2 DEF Handled
    <3> HIDE DEF yes
    <3> QED
      BY <1>1, <2>4, <3>2, <3>3
  <2> QED
    BY <1>4, <2>2, <2>3, <2>4 DEF Tcp!handle_store
<1>5. CASE Tcp!handle_ping(c)
  <2> DEFINE r == Tcp!Response(200, None, None)
  <2>1. q.op = "ping" /\ Tcp!Reply(c, r) /\ blocks' = blocks
    BY <1>5 DEF Tcp!handle_ping
  <2>2. /\ r \in Replies /\ Tcp!Told(r) = [status |-> 200, data |-> None]
        /\ Tcp!Told(r) \in Answers /\ Carries(Tcp!Told(r), r)
    BY <1>2 DEF Content
  <2>3. Handled(q, Tcp!Told(r))
    BY <2>1, <2>2 DEF Handled
  <2> HIDE DEF r
  <2> QED
    BY <1>1, <2>1, <2>2, <2>3
<1> QED
  BY <1>3, <1>4, <1>5 DEF Tcp!Serve

LEMMA TcpBreaks ==
    ASSUME TypeInv, NEW c \in TcpCalls, Tcp!Break(c)
    PROVE  \E v : TcpChange(c, v) /\ TcpCut(tcp[c], v)
<1>0. tcp \in [TcpCalls -> TcpCall] /\ tcp[c] \in TcpCall
  BY DEF TypeInv
<1>1. PICK arrived \in BOOLEAN :
         tcp' = [tcp EXCEPT ![c].link = "down", ![c].reply = None, ![c].inbox = @ /\ arrived]
  BY DEF Tcp!Break
<1> DEFINE v == [tcp[c] EXCEPT !.link = "down", !.reply = None, !.inbox = @ /\ arrived]
<1>2. v \in TcpCall
  BY <1>0, <1>1 DEF TcpCall
<1>3. tcp' = [tcp EXCEPT ![c] = v]
  BY <1>0, <1>1
<1>4. TcpCut(tcp[c], v)
  BY <1>0, <1>1 DEF Tcp!Break, TcpCut, TcpCall
<1> QED
  BY <1>2, <1>3, <1>4 DEF TcpChange

LEMMA TcpCorrupts ==
    ASSUME TypeInv, NEW c \in TcpCalls, TcpInv(tcp[c]), Tcp!Corrupt(c)
    PROVE  \E v : TcpChange(c, v) /\ TcpCorrupted(tcp[c], v)
<1>0. tcp \in [TcpCalls -> TcpCall] /\ tcp[c] \in TcpCall
  BY DEF TypeInv
<1>1. CASE tcp' = [tcp EXCEPT ![c].payload = Garbage]
  <2> DEFINE v == [tcp[c] EXCEPT !.payload = Garbage]
  <2>1. tcp' = [tcp EXCEPT ![c] = v]
    BY <1>0, <1>1
  <2>2. v \in TcpCall
    BY <1>0 DEF TcpCall
  <2>3. TcpCorrupted(tcp[c], v)
    BY <1>0 DEF TcpCorrupted, TcpCall
  <2> QED
    BY <2>1, <2>2, <2>3 DEF TcpChange
<1>2. CASE /\ tcp[c].reply # None /\ tcp[c].reply.data \in Contents
           /\ tcp' = [tcp EXCEPT ![c].reply.data = Garbage]
  <2> DEFINE r == [tcp[c].reply EXCEPT !.data = Garbage]
             v == [tcp[c] EXCEPT !.reply = r]
  <2>0. tcp[c].reply \in Replies
    BY <1>2 DEF TcpInv
  <2>1. /\ r \in Replies /\ r.data = Garbage /\ r.status = tcp[c].reply.status
        /\ r.hash = tcp[c].reply.hash
    BY <2>0 DEF Replies
  <2>2. tcp' = [tcp EXCEPT ![c] = v]
    BY <1>0, <1>2
  <2> HIDE DEF r
  <2>3. v \in TcpCall
    BY <1>0, <2>1 DEF TcpCall
  <2>4. TcpCorrupted(tcp[c], v)
    BY <1>0, <1>2, <2>1 DEF TcpCorrupted, TcpCall
  <2> QED
    BY <2>2, <2>3, <2>4 DEF TcpChange
<1> QED
  BY <1>1, <1>2 DEF Tcp!Corrupt

LEMMA TcpRestarts ==
    ASSUME TypeInv, Tcp!Restart
    PROVE  /\ tcp' \in [TcpCalls -> TcpCall]
           /\ \A c \in TcpCalls : TcpCut(tcp[c], tcp'[c])
           /\ blocks' = [b \in Blocks |-> None]
<1>0. tcp \in [TcpCalls -> TcpCall]
  BY DEF TypeInv
<1> DEFINE v(c) == IF tcp[c].link = "up"
                   THEN [tcp[c] EXCEPT !.link = "down", !.inbox = FALSE, !.reply = None]
                   ELSE [tcp[c] EXCEPT !.inbox = FALSE]
<1>1. tcp' = [c \in TcpCalls |-> v(c)] /\ blocks' = [b \in Blocks |-> None]
  BY DEF Tcp!Restart
<1>2. ASSUME NEW c \in TcpCalls PROVE v(c) \in TcpCall /\ TcpCut(tcp[c], v(c))
  <2>0. tcp[c] \in TcpCall
    BY <1>0
  <2>1. CASE tcp[c].link = "up"
    BY <2>0, <2>1 DEF TcpCall, TcpCut
  <2>2. CASE tcp[c].link # "up"
    BY <2>0, <2>2 DEF TcpCall, TcpCut
  <2> QED
    BY <2>1, <2>2
<1> HIDE DEF v
<1> QED
  BY <1>1, <1>2

\* Every step of a call keeps what is said of it.
LEMMA TcpKeeps ==
    ASSUME NEW t \in TcpCall, NEW v \in TcpCall, TcpInv(t),
           \/ TcpInvoked(t, v) \/ TcpSent(t, v) \/ TcpFailed(t, v) \/ TcpReceived(t, v)
           \/ TcpCut(t, v) \/ TcpCorrupted(t, v)
           \/ \E r \in Replies : /\ TcpServed(t, v, r) /\ Tcp!Told(r) \in Answers
                                 /\ Carries(Tcp!Told(r), r)
    PROVE  TcpInv(v)
<1>1. CASE TcpInvoked(t, v)
  BY <1>1 DEF TcpInvoked, TcpInv
<1>2. CASE TcpSent(t, v)
  BY <1>2 DEF TcpSent, TcpInv
<1>3. CASE TcpFailed(t, v)
  BY <1>3 DEF TcpFailed, TcpReturned, TcpInv
<1>4. CASE TcpReceived(t, v)
  <2>1. t.taken /\ t.reply \in Replies /\ Carries(t.answer, t.reply) /\ t.answer \in Answers
    BY <1>4 DEF TcpReceived, TcpInv
  <2>2. t.reply.status = t.answer.status /\ t.reply.data = t.answer.data
    BY <1>4, <2>1 DEF TcpReceived, Carries
  <2>3. Tcp!Told(t.reply) = t.answer
    BY <2>1, <2>2 DEF Tcp!Told, Answers
  <2> QED
    BY <1>4, <2>1, <2>3 DEF TcpReceived, TcpReturned, TcpInv
<1>5. CASE TcpCut(t, v)
  BY <1>5 DEF TcpCut, TcpInv
<1>6. CASE TcpCorrupted(t, v)
  <2>1. v.reply # None => Carries(v.answer, v.reply)
    BY <1>6 DEF TcpCorrupted, TcpInv, Carries
  <2> QED
    BY <1>6, <2>1 DEF TcpCorrupted, TcpInv
<1>7. ASSUME NEW r \in Replies, TcpServed(t, v, r), Tcp!Told(r) \in Answers,
             Carries(Tcp!Told(r), r)
      PROVE  TcpInv(v)
  BY <1>7 DEF TcpServed, TcpInv
<1> QED
  BY <1>1, <1>2, <1>3, <1>4, <1>5, <1>6, <1>7

-----------------------------------------------------------------------------
(***************************************************************************)
(* The steps of a call over QUIC, from its record u to its record v.       *)
(***************************************************************************)
\* Neither state, request nor what the caller sees of the answer changes.
QuicKeeps(u, v) ==
    /\ v.state = u.state /\ v.req = u.req /\ v.taken = u.taken
    /\ v.answer = u.answer /\ v.value = u.value

QuicInvoked(u, v) ==
    /\ u.state = "new" /\ v.state = "open" /\ v.req \in Request
    /\ v.inbox = u.inbox /\ v.sent = u.sent /\ v.taken = u.taken
    /\ v.answer = u.answer /\ v.reply = u.reply /\ v.value = u.value

QuicFailed(u, v) ==
    /\ u.state = "open" /\ v.state = "error"
    /\ v.req = u.req /\ v.on = u.on /\ v.inbox = u.inbox /\ v.sent = u.sent /\ v.taken = u.taken
    /\ v.answer = u.answer /\ v.reply \in {u.reply, None} /\ v.value = u.value

QuicConnected(u, v) ==
    /\ u.on = 0 /\ QuicKeeps(u, v)
    /\ v.inbox = u.inbox /\ v.sent = u.sent /\ v.reply = u.reply

QuicSent(u, v) ==
    /\ u.state = "open" /\ ~u.sent /\ v.sent = TRUE /\ v.inbox = TRUE
    /\ QuicKeeps(u, v) /\ v.on = u.on /\ v.reply = u.reply

QuicReceived(u, v) ==
    /\ u.state = "open" /\ u.reply # None
    /\ v.state = "ok" /\ v.value = Quic!Told(u.reply) /\ v.reply = None
    /\ v.req = u.req /\ v.on = u.on /\ v.inbox = u.inbox /\ v.sent = u.sent /\ v.taken = u.taken
    /\ v.answer = u.answer

QuicServed(u, v, r) ==
    /\ u.inbox /\ v.inbox = FALSE /\ v.taken = TRUE
    /\ v.answer = Quic!Told(r) /\ v.reply \in {r, None}
    /\ v.state = u.state /\ v.req = u.req /\ v.on = u.on /\ v.sent = u.sent /\ v.value = u.value

QuicCut(u, v) ==
    /\ v.inbox => u.inbox
    /\ v.reply \in {u.reply, None}
    /\ QuicKeeps(u, v) /\ v.on = u.on /\ v.sent = u.sent

QuicChange(c, v) == v \in QuicCall /\ quic' = [quic EXCEPT ![c] = v]

\* A reply with a payload carries the hash of it.
Fits(r) == r.data # None => r.data = r.hash

LEMMA QuicInvokes ==
    ASSUME TypeInv, NEW c \in QuicCalls, Quic!Invoke(c)
    PROVE  \E v : /\ QuicChange(c, v) /\ QuicInvoked(quic[c], v) /\ v.req \in QuicRequests
                  /\ v.on = quic[c].on
<1>0. quic \in [QuicCalls -> QuicCall] /\ quic[c] \in QuicCall
  BY DEF TypeInv
<1>1. PICK r \in QuicRequests : quic' = [quic EXCEPT ![c].state = "open", ![c].req = r]
  BY DEF Quic!Invoke
<1> DEFINE v == [quic[c] EXCEPT !.state = "open", !.req = r]
<1>2. v \in QuicCall
  BY <1>0, <1>1 DEF QuicCall, States
<1>3. quic' = [quic EXCEPT ![c] = v]
  BY <1>0, <1>1
<1>4. QuicInvoked(quic[c], v) /\ v.req \in QuicRequests /\ v.on = quic[c].on
  BY <1>0, <1>1 DEF Quic!Invoke, QuicInvoked, QuicCall
<1> QED
  BY <1>2, <1>3, <1>4 DEF QuicChange

LEMMA QuicFails ==
    ASSUME TypeInv, NEW c \in QuicCalls, quic[c].state = "open",
           quic' = [quic EXCEPT ![c].state = "error"]
    PROVE  \E v : QuicChange(c, v) /\ QuicFailed(quic[c], v)
<1>0. quic \in [QuicCalls -> QuicCall] /\ quic[c] \in QuicCall
  BY DEF TypeInv
<1> DEFINE v == [quic[c] EXCEPT !.state = "error"]
<1>2. v \in QuicCall
  BY <1>0 DEF QuicCall, States
<1>3. quic' = [quic EXCEPT ![c] = v]
  BY <1>0
<1>4. QuicFailed(quic[c], v)
  BY <1>0 DEF QuicFailed, QuicCall
<1> QED
  BY <1>2, <1>3, <1>4 DEF QuicChange

LEMMA QuicConnects ==
    ASSUME TypeInv, NEW c \in QuicCalls, Quic!Connect(c)
    PROVE  \E v : QuicChange(c, v) /\ (QuicFailed(quic[c], v) \/ QuicConnected(quic[c], v))
<1>0. quic \in [QuicCalls -> QuicCall] /\ quic[c] \in QuicCall
  BY DEF TypeInv
<1>1. quic[c].state = "open" /\ quic[c].on = 0
  BY DEF Quic!Connect
<1>2. PICK conn \in 0 .. MaxConn :
         quic' = IF conn = 0 THEN [quic EXCEPT ![c].state = "error"]
                 ELSE [quic EXCEPT ![c].on = conn]
  BY DEF Quic!Connect
<1>3. CASE conn = 0
  BY <1>1, <1>2, <1>3, QuicFails
<1>4. CASE conn # 0
  <2> DEFINE v == [quic[c] EXCEPT !.on = conn]
  <2>0. conn \in Nat
    BY ConnAssumption
  <2>1. v \in QuicCall
    BY <1>0, <2>0 DEF QuicCall
  <2>2. quic' = [quic EXCEPT ![c] = v]
    BY <1>0, <1>2, <1>4
  <2>3. QuicConnected(quic[c], v)
    BY <1>0, <1>1 DEF QuicConnected, QuicKeeps, QuicCall
  <2> QED
    BY <2>1, <2>2, <2>3 DEF QuicChange
<1> QED
  BY <1>3, <1>4

LEMMA QuicSends ==
    ASSUME TypeInv, NEW c \in QuicCalls, Quic!Send(c)
    PROVE  \E v : QuicChange(c, v) /\ (QuicFailed(quic[c], v) \/ QuicSent(quic[c], v))
<1>0. quic \in [QuicCalls -> QuicCall] /\ quic[c] \in QuicCall
  BY DEF TypeInv
<1>1. quic[c].state = "open" /\ ~quic[c].sent
  BY DEF Quic!Send
<1>2. CASE quic' = [quic EXCEPT ![c].state = "error"]
  BY <1>1, <1>2, QuicFails
<1>3. CASE quic' = [quic EXCEPT ![c].sent = TRUE, ![c].inbox = TRUE]
  <2> DEFINE v == [quic[c] EXCEPT !.sent = TRUE, !.inbox = TRUE]
  <2>1. v \in QuicCall
    BY <1>0 DEF QuicCall
  <2>2. quic' = [quic EXCEPT ![c] = v]
    BY <1>0, <1>3
  <2>3. QuicSent(quic[c], v)
    BY <1>0, <1>1 DEF QuicSent, QuicKeeps, QuicCall
  <2> QED
    BY <2>1, <2>2, <2>3 DEF QuicChange
<1> QED
  BY <1>2, <1>3 DEF Quic!Send

LEMMA QuicReceives ==
    ASSUME TypeInv, NEW c \in QuicCalls, QuicInv(quic[c]), Quic!Receive(c)
    PROVE  \E v : QuicChange(c, v) /\ (QuicFailed(quic[c], v) \/ QuicReceived(quic[c], v))
<1>0. quic \in [QuicCalls -> QuicCall] /\ quic[c] \in QuicCall
  BY DEF TypeInv
<1>1. quic[c].state = "open" /\ quic[c].reply # None
  BY DEF Quic!Receive
<1>2. CASE quic' = [quic EXCEPT ![c].state = "error", ![c].reply = None]
  <2> DEFINE v == [quic[c] EXCEPT !.state = "error", !.reply = None]
  <2>1. v \in QuicCall
    BY <1>0 DEF QuicCall, States
  <2>2. quic' = [quic EXCEPT ![c] = v]
    BY <1>0, <1>2
  <2>3. QuicFailed(quic[c], v)
    BY <1>0, <1>1 DEF QuicFailed, QuicCall
  <2> QED
    BY <2>1, <2>2, <2>3 DEF QuicChange
<1>3. CASE quic' = [quic EXCEPT ![c].state = "ok", ![c].value = Quic!Told(quic[c].reply),
                                ![c].reply = None]
  <2> DEFINE told == Quic!Told(quic[c].reply)
             v == [quic[c] EXCEPT !.state = "ok", !.value = told, !.reply = None]
  <2>0. told \in Answers
    <3>1. /\ quic[c].reply \in Replies /\ quic[c].answer \in Answers
          /\ quic[c].reply.data = quic[c].answer.data
      BY <1>1 DEF QuicInv
    <3> QED
      BY <3>1 DEF Quic!Told, Answers, Replies
  <2>2. quic' = [quic EXCEPT ![c] = v]
    BY <1>0, <1>3
  <2> HIDE DEF told
  <2>1. v \in QuicCall
    BY <1>0, <2>0 DEF QuicCall, States
  <2>3. QuicReceived(quic[c], v)
    BY <1>0, <1>1 DEF QuicReceived, QuicCall, told
  <2> QED
    BY <2>1, <2>2, <2>3 DEF QuicChange
<1> QED
  BY <1>2, <1>3 DEF Quic!Receive

LEMMA QuicReplies ==
    ASSUME TypeInv, NEW c \in QuicCalls, NEW r \in Replies, Quic!Told(r) \in Answers,
           quic[c].inbox, Quic!Reply(c, r)
    PROVE  \E v : QuicChange(c, v) /\ QuicServed(quic[c], v, r)
<1>0. quic \in [QuicCalls -> QuicCall] /\ quic[c] \in QuicCall
  BY DEF TypeInv
<1> DEFINE reply == IF quic[c].on \in alive THEN r ELSE None
           v == [quic[c] EXCEPT !.inbox = FALSE, !.taken = TRUE, !.answer = Quic!Told(r),
                                !.reply = reply]
<1>1. quic' = [quic EXCEPT ![c].inbox = FALSE, ![c].taken = TRUE, ![c].answer = Quic!Told(r),
                           ![c].reply = reply]
  BY DEF Quic!Reply
<1>2. reply \in Replies \cup {None} /\ reply \in {r, None}
  OBVIOUS
<1> HIDE DEF reply
<1>3. v \in QuicCall
  BY <1>0, <1>2 DEF QuicCall
<1>4. quic' = [quic EXCEPT ![c] = v]
  BY <1>0, <1>1
<1>5. QuicServed(quic[c], v, r)
  BY <1>0, <1>2 DEF QuicServed, QuicCall
<1> QED
  BY <1>3, <1>4, <1>5 DEF QuicChange

\* The server handles a stream as the block service does.
LEMMA QuicServes ==
    ASSUME TypeInv, NEW c \in QuicCalls, QuicInv(quic[c]), Quic!Serve(c)
    PROVE  \E v, r : /\ QuicChange(c, v) /\ r \in Replies /\ QuicServed(quic[c], v, r)
                     /\ Quic!Told(r) \in Answers /\ Fits(r)
                     /\ Handled(quic[c].req, Quic!Told(r))
<1> DEFINE u == quic[c]
           q == u.req
<1>0. u.inbox /\ q \in Request /\ blocks \in [Blocks -> Content]
  <2>1. u.inbox
    BY DEF Quic!Serve, Quic!ServeFetch, Quic!ServeStore, Quic!ServePing
  <2> QED
    BY <2>1 DEF QuicInv, TypeInv
<1>1. ASSUME NEW r \in Replies, Quic!Told(r) \in Answers, Quic!Reply(c, r), Fits(r),
             Handled(q, Quic!Told(r))
      PROVE  \E v, s : /\ QuicChange(c, v) /\ s \in Replies /\ QuicServed(quic[c], v, s)
                       /\ Quic!Told(s) \in Answers /\ Fits(s)
                       /\ Handled(quic[c].req, Quic!Told(s))
  BY <1>0, <1>1, QuicReplies
<1>2. ASSUME NEW status \in Nat, NEW hash \in Content, NEW data \in {hash, None}
      PROVE  /\ Quic!Response(status, hash, data) \in Replies
             /\ Quic!Told(Quic!Response(status, hash, data)) = [status |-> status, data |-> data]
             /\ Quic!Told(Quic!Response(status, hash, data)) \in Answers
             /\ Fits(Quic!Response(status, hash, data))
  BY <1>2 DEF Quic!Response, Quic!Told, Replies, Answers, Fits, Content
<1>3. CASE Quic!ServeFetch(c)
  <2> DEFINE d == blocks[q.block]
             r == IF d = None THEN Quic!Response(404, None, None)
                  ELSE IF q.hash \notin {None, d} THEN Quic!Response(409, d, None)
                  ELSE Quic!Response(200, d, d)
  <2>1. q.op = "fetch" /\ Quic!Reply(c, r) /\ blocks' = blocks
    BY <1>3 DEF Quic!ServeFetch
  <2>2. d \in Content
    BY <1>0, <2>1 DEF Request
  <2>3. /\ r \in Replies /\ Quic!Told(r) \in Answers /\ Fits(r)
        /\ Quic!Told(r) = IF d = None THEN [status |-> 404, data |-> None]
                          ELSE IF q.hash \notin {None, d} THEN [status |-> 409, data |-> None]
                          ELSE [status |-> 200, data |-> d]
    <3> HIDE DEF d, q
    <3> QED
      BY <1>2, <2>2 DEF Content
  <2>4. Handled(q, Quic!Told(r))
    BY <2>1, <2>3 DEF Handled
  <2> HIDE DEF r
  <2> QED
    BY <1>1, <2>1, <2>3, <2>4
<1>4. CASE Quic!ServeStore(c)
  <2> DEFINE no  == Quic!Response(409, q.data, None)
             yes == Quic!Response(200, q.hash, None)
  <2>0. q.op = "store"
    BY <1>4 DEF Quic!ServeStore
  <2>1. q.hash \in Contents /\ q.data \in Contents
    BY <1>0, <2>0 DEF Request
  <2>2. CASE Quic!Reply(c, no) /\ blocks' = blocks
    <3>1. /\ no \in Replies /\ Quic!Told(no) = [status |-> 409, data |-> None]
          /\ Quic!Told(no) \in Answers /\ Fits(no)
      BY <1>2, <2>1 DEF Content
    <3>2. Handled(q, Quic!Told(no))
      BY <2>0, <2>2, <3>1 DEF Handled
    <3> HIDE DEF no
    <3> QED
      BY <1>1, <2>2, <3>1, <3>2
  <2>3. CASE /\ q.data = q.hash /\ Quic!Reply(c, yes)
             /\ blocks' = [blocks EXCEPT ![q.block] = q.data]
    <3>1. /\ yes \in Replies /\ Quic!Told(yes) = [status |-> 200, data |-> None]
          /\ Quic!Told(yes) \in Answers /\ Fits(yes)
      BY <1>2, <2>1 DEF Content
    <3>2. Handled(q, Quic!Told(yes))
      BY <2>0, <2>3, <3>1 DEF Handled
    <3> HIDE DEF yes
    <3> QED
      BY <1>1, <2>3, <3>1, <3>2
  <2> QED
    BY <1>4, <2>2, <2>3 DEF Quic!ServeStore
<1>5. CASE Quic!ServePing(c)
  <2> DEFINE r == Quic!Response(200, None, None)
  <2>1. q.op = "ping" /\ Quic!Reply(c, r) /\ blocks' = blocks
    BY <1>5 DEF Quic!ServePing
  <2>2. /\ r \in Replies /\ Quic!Told(r) = [status |-> 200, data |-> None]
        /\ Quic!Told(r) \in Answers /\ Fits(r)
    BY <1>2 DEF Content
  <2>3. Handled(q, Quic!Told(r))
    BY <2>1, <2>2 DEF Handled
  <2> HIDE DEF r
  <2> QED
    BY <1>1, <2>1, <2>2, <2>3
<1> QED
  BY <1>3, <1>4, <1>5 DEF Quic!Serve

\* A connection that is lost or closed cuts its streams.
LEMMA QuicCuts ==
    ASSUME TypeInv, \/ Quic!Restart
                    \/ \E conn : Quic!Closed(conn)
    PROVE  /\ quic' \in [QuicCalls -> QuicCall]
           /\ \A c \in QuicCalls : QuicCut(quic[c], quic'[c])
<1>0. quic \in [QuicCalls -> QuicCall]
  BY DEF TypeInv
<1>1. CASE Quic!Restart
  <2> DEFINE v(c) == [quic[c] EXCEPT !.inbox = FALSE, !.reply = None]
  <2>1. quic' = [c \in QuicCalls |-> v(c)]
    BY <1>1 DEF Quic!Restart
  <2>2. ASSUME NEW c \in QuicCalls PROVE v(c) \in QuicCall /\ QuicCut(quic[c], v(c))
    <3>0. quic[c] \in QuicCall
      BY <1>0
    <3> QED
      BY <3>0 DEF QuicCall, QuicCut, QuicKeeps
  <2> HIDE DEF v
  <2> QED
    BY <2>1, <2>2
<1>2. ASSUME NEW conn, Quic!Closed(conn)
      PROVE  /\ quic' \in [QuicCalls -> QuicCall]
             /\ \A c \in QuicCalls : QuicCut(quic[c], quic'[c])
  <2> DEFINE here == {c \in QuicCalls : quic[c].on = conn /\ quic[c].inbox}
  <2>1. PICK arrived \in SUBSET here :
           quic' = [c \in QuicCalls |->
                      IF quic[c].on = conn
                      THEN [quic[c] EXCEPT !.reply = None, !.inbox = c \in arrived]
                      ELSE quic[c]]
    BY <1>2 DEF Quic!Closed
  <2>2. ASSUME NEW c \in QuicCalls PROVE quic'[c] \in QuicCall /\ QuicCut(quic[c], quic'[c])
    <3>0. quic[c] \in QuicCall /\ (c \in arrived => quic[c].inbox)
      BY <1>0
    <3>1. CASE quic[c].on = conn
      <4> DEFINE v(b) == [quic[c] EXCEPT !.reply = None, !.inbox = b]
      <4>1. \A b \in BOOLEAN : (b => quic[c].inbox) => v(b) \in QuicCall /\ QuicCut(quic[c], v(b))
        BY <3>0 DEF QuicCall, QuicCut, QuicKeeps
      <4>2. CASE c \in arrived
        <5>1. quic'[c] = v(TRUE)
          BY <2>1, <3>1, <4>2
        <5> QED
          BY <3>0, <4>1, <4>2, <5>1
      <4>3. CASE c \notin arrived
        <5>0. (c \in arrived) = FALSE
          BY <4>3
        <5>1. quic'[c] = v(FALSE)
          BY <2>1, <3>1, <5>0, Zenon
        <5> QED
          BY <4>1, <5>1
      <4> QED
        BY <4>2, <4>3
    <3>2. CASE quic[c].on # conn
      BY <2>1, <3>0, <3>2 DEF QuicCut, QuicKeeps
    <3> QED
      BY <3>1, <3>2
  <2>3. quic' = [c \in QuicCalls |-> quic'[c]]
    BY <2>1
  <2> QED
    BY <2>2, <2>3
<1> QED
  BY <1>1, <1>2

\* Every step of a call keeps what is said of it.
LEMMA QuicStepKeeps ==
    ASSUME NEW u \in QuicCall, NEW v \in QuicCall, QuicInv(u),
           \/ QuicInvoked(u, v) \/ QuicFailed(u, v) \/ QuicConnected(u, v) \/ QuicSent(u, v)
           \/ QuicReceived(u, v) \/ QuicCut(u, v)
    PROVE  QuicInv(v)
<1>1. CASE QuicInvoked(u, v)
  BY <1>1 DEF QuicInvoked, QuicInv
<1>2. CASE QuicFailed(u, v)
  BY <1>2 DEF QuicFailed, QuicInv
<1>3. CASE QuicConnected(u, v)
  BY <1>3 DEF QuicConnected, QuicKeeps, QuicInv
<1>4. CASE QuicSent(u, v)
  BY <1>4 DEF QuicSent, QuicKeeps, QuicInv
<1>5. CASE QuicReceived(u, v)
  <2>1. /\ u.taken /\ u.reply \in Replies /\ u.answer \in Answers
        /\ u.reply.status = u.answer.status /\ u.reply.data = u.answer.data
    BY <1>5 DEF QuicReceived, QuicInv
  <2>2. Quic!Told(u.reply) = u.answer
    BY <2>1 DEF Quic!Told, Answers
  <2> QED
    BY <1>5, <2>1, <2>2 DEF QuicReceived, QuicInv
<1>6. CASE QuicCut(u, v)
  BY <1>6 DEF QuicCut, QuicKeeps, QuicInv
<1> QED
  BY <1>1, <1>2, <1>3, <1>4, <1>5, <1>6

LEMMA QuicServeKeeps ==
    ASSUME NEW u \in QuicCall, NEW v \in QuicCall, QuicInv(u), NEW r \in Replies,
           QuicServed(u, v, r), Quic!Told(r) \in Answers, Fits(r), Handled(u.req, Quic!Told(r)),
           blocks \in [Blocks -> Content]
    PROVE  QuicInv(v)
<1>1. u.req \in Request /\ u.sent
  BY DEF QuicServed, QuicInv, QuicCall
<1>2. ASSUME u.req.op = "fetch", Quic!Told(r).status = 200 PROVE Quic!Told(r).data \in Contents
  <2>1. u.req.block \in Blocks
    BY <1>1, <1>2 DEF Request
  <2> QED
    BY <1>2, <2>1 DEF Handled, Content
<1>3. v.reply # None => /\ v.reply \in Replies /\ v.reply.status = v.answer.status
                        /\ v.reply.data = v.answer.data
                        /\ v.reply.data # None => v.reply.data = v.reply.hash
  BY DEF QuicServed, Quic!Told, Fits
<1> QED
  BY <1>1, <1>2, <1>3 DEF QuicServed, QuicInv

-----------------------------------------------------------------------------
(***************************************************************************)
(* Batches.                                                                *)
(***************************************************************************)
\* A call that was made keeps its request, its connection and its result.
Forward(u, v) ==
    u.state # "new" => /\ v.state # "new" /\ v.req = u.req
                       /\ u.on # 0 => v.on = u.on
                       /\ u.state = "ok" => v.state = "ok" /\ v.value = u.value

LEMMA StepsGoForward ==
    ASSUME NEW u \in QuicCall, NEW v \in QuicCall,
           \/ QuicInvoked(u, v) \/ QuicFailed(u, v) \/ QuicConnected(u, v) \/ QuicSent(u, v)
           \/ QuicReceived(u, v) \/ QuicCut(u, v) \/ \E r : QuicServed(u, v, r)
    PROVE  Forward(u, v)
  BY DEF Forward, QuicInvoked, QuicFailed, QuicConnected, QuicSent, QuicReceived, QuicCut,
         QuicServed, QuicKeeps

\* The tasks of a batch are made at once, over one connection.
QuicStarted(q) ==
    \E conn \in Nat \ {0} :
        /\ \A c \in Quic!Members(q) :
              /\ quic[c].state = "new" /\ QuicInvoked(quic[c], quic'[c])
              /\ quic'[c].on = conn
              /\ \E b \in Blocks : quic'[c].req = [op |-> "fetch", block |-> b, hash |-> None]
        /\ \A c \in QuicCalls \ Quic!Members(q) : quic'[c] = quic[c]
        /\ quic' \in [QuicCalls -> QuicCall]

LEMMA BatchLists ==
    ASSUME NEW q \in Batches
    PROVE  /\ Len(q) \in Nat \ {0} /\ DOMAIN q = 1 .. Len(q)
           /\ \A i \in DOMAIN q : q[i] \in QuicCalls
           /\ Quic!Members(q) \subseteq QuicCalls
<1>1. q \in Seq(QuicCalls) /\ q # <<>>
  BY BatchAssumption
<1>2. Len(q) \in Nat \ {0} /\ DOMAIN q = 1 .. Len(q) /\ \A i \in DOMAIN q : q[i] \in QuicCalls
  BY <1>1
<1> QED
  BY <1>2 DEF Quic!Members

LEMMA QuicStarts ==
    ASSUME TypeInv, NEW q \in Batches, Quic!StartBatch(q)
    PROVE  \/ quic' = quic /\ batch' = [batch EXCEPT ![q].state = "error"]
           \/ QuicStarted(q) /\ batch' = [batch EXCEPT ![q].state = "open"]
<1>0. quic \in [QuicCalls -> QuicCall]
  BY DEF TypeInv
<1> DEFINE place(c) == CHOOSE j \in DOMAIN q : q[j] = c
           req(bs, c) == [op |-> "fetch", block |-> bs[place(c)], hash |-> None]
           v(conn, bs, c) == [quic[c] EXCEPT !.state = "open", !.on = conn, !.req = req(bs, c)]
<1>1. PICK conn \in 0 .. MaxConn, bs \in [DOMAIN q -> Blocks] :
         /\ batch' = [batch EXCEPT ![q].state = IF conn = 0 THEN "error" ELSE "open"]
         /\ quic' = IF conn = 0 THEN quic
                    ELSE [c \in QuicCalls |-> IF c \in Quic!Members(q) THEN v(conn, bs, c)
                                              ELSE quic[c]]
  BY DEF Quic!StartBatch
<1>2. CASE conn = 0
  BY <1>1, <1>2
<1>3. CASE conn # 0
  <2>1. conn \in Nat \ {0}
    BY <1>3, ConnAssumption
  <2>2. ASSUME NEW c \in Quic!Members(q)
        PROVE  /\ c \in QuicCalls /\ quic[c].state = "new" /\ bs[place(c)] \in Blocks
    <3>1. \E j \in DOMAIN q : q[j] = c
      BY DEF Quic!Members
    <3>2. place(c) \in DOMAIN q
      BY <3>1
    <3> QED
      BY <3>2, BatchLists DEF Quic!StartBatch
  <2>3. ASSUME NEW c \in Quic!Members(q)
        PROVE  /\ v(conn, bs, c) \in QuicCall /\ QuicInvoked(quic[c], v(conn, bs, c))
               /\ v(conn, bs, c).on = conn
               /\ v(conn, bs, c).req = req(bs, c)
    <3>1. quic[c] \in QuicCall /\ quic[c].state = "new"
      BY <1>0, <2>2
    <3>2. req(bs, c) \in Request
      BY <2>2 DEF Request
    <3> HIDE DEF req, place
    <3> QED
      BY <2>1, <3>1, <3>2 DEF QuicCall, QuicInvoked, States
  <2>4. quic' = [c \in QuicCalls |-> IF c \in Quic!Members(q) THEN v(conn, bs, c) ELSE quic[c]]
    BY <1>1, <1>3
  <2> HIDE DEF v, place
  <2>5. quic' \in [QuicCalls -> QuicCall]
    BY <1>0, <2>3, <2>4
  <2>6. ASSUME NEW c \in Quic!Members(q)
        PROVE  /\ quic[c].state = "new" /\ QuicInvoked(quic[c], quic'[c]) /\ quic'[c].on = conn
               /\ \E b \in Blocks : quic'[c].req = [op |-> "fetch", block |-> b, hash |-> None]
    <3>1. quic'[c] = v(conn, bs, c)
      BY <2>2, <2>4
    <3> QED
      BY <2>2, <2>3, <3>1
  <2>7. \A c \in QuicCalls \ Quic!Members(q) : quic'[c] = quic[c]
    BY <2>4
  <2>8. QuicStarted(q)
    BY <2>1, <2>5, <2>6, <2>7 DEF QuicStarted
  <2> QED
    BY <1>1, <1>3, <2>8
<1> QED
  BY <1>2, <1>3

\* What holds of a batch is not disturbed by what calls do.
LEMMA BatchKeeps ==
    ASSUME NEW q \in Batches, BatchInv(q), batch'[q] = batch[q],
           \A c \in QuicCalls : Forward(quic[c], quic'[c])
    PROVE  BatchInv(q)'
<1> DEFINE b == batch[q]
<1>1. DOMAIN q = 1 .. Len(q) /\ Len(q) \in Nat \ {0} /\ \A i \in DOMAIN q : q[i] \in QuicCalls
  BY BatchLists
<1>2. ASSUME b.state \in {"open", "ok"} \/ b.joined > 0, NEW i \in DOMAIN q
      PROVE  /\ quic'[q[i]].state # "new" /\ quic'[q[i]].req.op = "fetch"
             /\ quic'[q[i]].on # 0 /\ quic'[q[i]].on = quic'[q[1]].on
  <2>1. /\ quic[q[i]].state # "new" /\ quic[q[i]].req.op = "fetch"
        /\ quic[q[i]].on # 0 /\ quic[q[i]].on = quic[q[1]].on /\ quic[q[1]].state # "new"
    BY <1>1, <1>2 DEF BatchInv
  <2>2. Forward(quic[q[i]], quic'[q[i]]) /\ Forward(quic[q[1]], quic'[q[1]])
    BY <1>1
  <2> QED
    BY <2>1, <2>2 DEF Forward
<1>3. ASSUME NEW i \in 1 .. b.joined PROVE quic'[q[i]].state = "ok" /\ quic'[q[i]].value.status = 200
  <2>1. quic[q[i]].state = "ok" /\ quic[q[i]].value.status = 200 /\ q[i] \in QuicCalls
    BY <1>1 DEF BatchInv
  <2> QED
    BY <2>1 DEF Forward
<1> QED
  BY <1>2, <1>3 DEF BatchInv

LEMMA BatchStarts ==
    ASSUME TypeInv, NEW q \in Batches, \A p \in Batches : BatchInv(p), Quic!StartBatch(q)
    PROVE  \A p \in Batches : BatchInv(p)'
<1>0. batch \in [Batches -> BatchState] /\ batch[q] \in BatchState /\ quic \in [QuicCalls -> QuicCall]
  BY DEF TypeInv
<1>1. batch[q].state = "new" /\ batch[q].joined = 0
  BY DEF Quic!StartBatch, BatchInv
<1>2. \A c \in QuicCalls : Forward(quic[c], quic'[c])
  BY QuicStarts, Zenon DEF QuicStarted, Forward
<1>3. ASSUME NEW p \in Batches, p # q PROVE BatchInv(p)'
  <2>1. batch'[p] = batch[p]
    BY <1>0, <1>3, QuicStarts
  <2> QED
    BY <1>2, <2>1, BatchKeeps
<1>4. BatchInv(q)'
  <2>0. Len(q) \in Nat \ {0} /\ DOMAIN q = 1 .. Len(q)
    BY BatchLists
  <2>1. CASE batch' = [batch EXCEPT ![q].state = "error"]
    <3>1. batch'[q].state = "error" /\ batch'[q].joined = 0
      BY <1>0, <1>1, <2>1 DEF BatchState
    <3> QED
      BY <2>0, <3>1 DEF BatchInv
  <2>2. CASE QuicStarted(q) /\ batch' = [batch EXCEPT ![q].state = "open"]
    <3>1. batch'[q].state = "open" /\ batch'[q].joined = 0
      BY <1>0, <1>1, <2>2 DEF BatchState
    <3>2. PICK conn \in Nat \ {0} : \A c \in Quic!Members(q) :
              /\ QuicInvoked(quic[c], quic'[c])
              /\ quic'[c].on = conn
              /\ \E b \in Blocks : quic'[c].req = [op |-> "fetch", block |-> b, hash |-> None]
      BY <2>2 DEF QuicStarted
    <3>3. \A i \in DOMAIN q : q[i] \in Quic!Members(q)
      BY DEF Quic!Members
    <3>4. \A i \in DOMAIN q : /\ quic'[q[i]].state # "new" /\ quic'[q[i]].req.op = "fetch"
                              /\ quic'[q[i]].on = conn
      <4>1. ASSUME NEW c \in Quic!Members(q)
            PROVE  /\ quic'[c].state = "open" /\ quic'[c].on = conn /\ quic'[c].req.op = "fetch"
        <5>1. QuicInvoked(quic[c], quic'[c]) /\ quic'[c].on = conn
          BY <3>2
        <5>2. PICK b \in Blocks : quic'[c].req = [op |-> "fetch", block |-> b, hash |-> None]
          BY <3>2
        <5> QED
          BY <5>1, <5>2 DEF QuicInvoked
      <4> QED
        BY <3>3, <4>1
    <3> QED
      BY <2>0, <3>1, <3>4 DEF BatchInv
  <2> QED
    BY <2>1, <2>2, QuicStarts
<1> QED
  BY <1>3, <1>4

\* The tasks of a batch are joined in order, and only those that fetched.
LEMMA BatchJoins ==
    ASSUME TypeInv, NEW q \in Batches, \A p \in Batches : BatchInv(p), Quic!Join(q)
    PROVE  batch' \in [Batches -> BatchState] /\ \A p \in Batches : BatchInv(p)'
<1>0. batch \in [Batches -> BatchState] /\ batch[q] \in BatchState
  BY DEF TypeInv
<1> DEFINE n == batch[q].joined + 1
           c == q[n]
<1>1. /\ Len(q) \in Nat \ {0} /\ DOMAIN q = 1 .. Len(q)
      /\ batch[q].state = "open" /\ n \in 1 .. Len(q) /\ batch[q].joined \in Nat /\ quic' = quic
  BY BatchLists DEF Quic!Join, BatchInv
<1>2. CASE Quic!Joinable(c)
  <2> DEFINE state == IF n = Len(q) THEN "ok" ELSE batch[q].state
             b == [batch[q] EXCEPT !.joined = n, !.state = state]
  <2>1. batch' = [batch EXCEPT ![q] = b]
    <3>1. batch' = [batch EXCEPT ![q].joined = n,
                                 ![q].state = IF n = Len(q) THEN "ok" ELSE @]
      BY <1>2 DEF Quic!Join
    <3> QED
      BY <1>0, <3>1
  <2>2. b \in BatchState /\ b.joined = n /\ b.state = state
    <3>1. n \in Nat /\ state \in States
      BY <1>1 DEF States
    <3> HIDE DEF n, state
    <3> QED
      BY <1>0, <3>1 DEF BatchState
  <2> HIDE DEF b
  <2>3. batch' \in [Batches -> BatchState] /\ batch'[q] = b
    BY <1>0, <2>1, <2>2
  <2>4. ASSUME NEW p \in Batches, p # q PROVE BatchInv(p)'
    BY <1>0, <1>1, <2>1, <2>4 DEF BatchInv
  <2>5. quic[c].state = "ok" /\ quic[c].value.status = 200
    BY <1>2 DEF Quic!Joinable
  <2>6. BatchInv(q)'
    <3>0. PICK m \in 1 .. Len(q) : m = n
      BY <1>1
    <3>1. \A i \in 1 .. m : quic[q[i]].state = "ok" /\ quic[q[i]].value.status = 200
      BY <1>1, <2>5, <3>0 DEF BatchInv
    <3>2. \A i \in DOMAIN q : /\ quic[q[i]].state # "new" /\ quic[q[i]].req.op = "fetch"
                              /\ quic[q[i]].on # 0 /\ quic[q[i]].on = quic[q[1]].on
      BY <1>1 DEF BatchInv
    <3>3. batch'[q].joined = m /\ batch'[q].state = IF m = Len(q) THEN "ok" ELSE "open"
      BY <1>1, <2>2, <2>3, <3>0
    <3>4. quic' = quic /\ Len(q) \in Nat
      BY <1>1
    <3> HIDE DEF n
    <3> QED
      BY <3>1, <3>2, <3>3, <3>4 DEF BatchInv
  <2> QED
    BY <2>3, <2>4, <2>6
<1>3. CASE ~Quic!Joinable(c)
  <2> DEFINE b == [batch[q] EXCEPT !.state = "error"]
  <2>1. batch' = [batch EXCEPT ![q] = b]
    BY <1>0, <1>3 DEF Quic!Join
  <2>2. b \in BatchState /\ b.joined = batch[q].joined /\ b.state = "error"
    BY <1>0 DEF BatchState, States
  <2> HIDE DEF b
  <2>3. batch' \in [Batches -> BatchState] /\ batch'[q] = b
    BY <1>0, <2>1, <2>2
  <2>4. ASSUME NEW p \in Batches, p # q PROVE BatchInv(p)'
    BY <1>0, <1>1, <2>1, <2>4 DEF BatchInv
  <2>5. BatchInv(q)'
    BY <1>1, <2>2, <2>3 DEF BatchInv
  <2> QED
    BY <2>3, <2>4, <2>5
<1> QED
  BY <1>2, <1>3

-----------------------------------------------------------------------------
(***************************************************************************)
(* Every step of the system, as one of these.                              *)
(***************************************************************************)
TcpMoves ==
    /\ \E c \in TcpCalls, v \in TcpCall :
          /\ TcpChange(c, v)
          /\ \/ TcpInvoked(tcp[c], v) \/ TcpSent(tcp[c], v) \/ TcpFailed(tcp[c], v)
             \/ TcpReceived(tcp[c], v) \/ TcpCut(tcp[c], v) \/ TcpCorrupted(tcp[c], v)
    /\ UNCHANGED <<blocks, quic, batch>>

TcpAnswers ==
    /\ \E c \in TcpCalls, v \in TcpCall, r \in Replies :
          /\ TcpChange(c, v) /\ TcpServed(tcp[c], v, r)
          /\ Tcp!Told(r) \in Answers /\ Carries(Tcp!Told(r), r)
          /\ Handled(tcp[c].req, Tcp!Told(r))
    /\ UNCHANGED <<quic, batch>>

QuicMoves ==
    /\ \E c \in QuicCalls, v \in QuicCall :
          /\ QuicChange(c, v)
          /\ \/ QuicInvoked(quic[c], v) /\ v.req \in QuicRequests /\ v.on = quic[c].on
             \/ QuicFailed(quic[c], v) \/ QuicConnected(quic[c], v) \/ QuicSent(quic[c], v)
             \/ QuicReceived(quic[c], v)
    /\ UNCHANGED <<blocks, tcp, batch>>

QuicAnswers ==
    /\ \E c \in QuicCalls, v \in QuicCall, r \in Replies :
          /\ QuicChange(c, v) /\ QuicServed(quic[c], v, r)
          /\ Quic!Told(r) \in Answers /\ Fits(r)
          /\ Handled(quic[c].req, Quic!Told(r))
    /\ UNCHANGED <<tcp, batch>>

QuicBatches ==
    /\ \E q \in Batches : Quic!StartBatch(q) \/ Quic!Join(q)
    /\ UNCHANGED <<blocks, tcp>>

QuicIsCut == /\ quic' \in [QuicCalls -> QuicCall]
             /\ \A c \in QuicCalls : QuicCut(quic[c], quic'[c])
             /\ UNCHANGED batch

QuicBreaks == QuicIsCut /\ UNCHANGED <<blocks, tcp>>

Restarts == /\ QuicIsCut
            /\ tcp' \in [TcpCalls -> TcpCall]
            /\ \A c \in TcpCalls : TcpCut(tcp[c], tcp'[c])
            /\ blocks' = [b \in Blocks |-> None]

Effect == \/ TcpMoves \/ TcpAnswers \/ QuicMoves \/ QuicAnswers \/ QuicBatches
          \/ QuicBreaks \/ Restarts \/ UNCHANGED <<blocks, tcp, quic, batch>>

LEMMA NextEffect ==
    ASSUME RamBInv, [Next]_vars PROVE Effect
<1>0. /\ TypeInv /\ \A c \in TcpCalls : TcpInv(tcp[c])
      /\ \A c \in QuicCalls : QuicInv(quic[c])
  BY DEF RamBInv, CallsInv
<1>1. ASSUME NEW c \in TcpCalls, Tcp!Client(c), UNCHANGED quicvars PROVE TcpMoves
  <2>0. UNCHANGED <<quic, batch>>
    BY <1>1 DEF quicvars
  <2>1. UNCHANGED blocks
    BY <1>1 DEF Tcp!Client, Tcp!Invoke, Tcp!ConnectFails, Tcp!Fail, Tcp!Send, Tcp!Receive,
                Tcp!ReadFails, Tcp!Returns
  <2>2. CASE Tcp!Invoke(c)
    BY <1>0, <2>0, <2>1, <2>2, TcpInvokes DEF TcpMoves, TcpChange
  <2>3. CASE Tcp!Send(c)
    BY <1>0, <2>0, <2>1, <2>3, TcpSends DEF TcpMoves, TcpChange
  <2>4. CASE Tcp!Receive(c)
    BY <1>0, <2>0, <2>1, <2>4, TcpReceives DEF TcpMoves, TcpChange
  <2>5. CASE Tcp!ConnectFails(c) \/ Tcp!ReadFails(c)
    <3>1. tcp[c].state = "open" /\ Tcp!Fail(c)
      BY <2>5 DEF Tcp!ConnectFails, Tcp!ReadFails
    <3> QED
      BY <1>0, <2>0, <2>1, <3>1, TcpFails DEF TcpMoves, TcpChange
  <2> QED
    BY <1>1, <2>2, <2>3, <2>4, <2>5 DEF Tcp!Client
<1>2. ASSUME NEW c \in TcpCalls, Tcp!Serve(c), UNCHANGED quicvars PROVE TcpAnswers
  BY <1>0, <1>2, TcpServes DEF TcpAnswers, TcpChange, quicvars
<1>3. ASSUME NEW c \in TcpCalls, Tcp!Break(c) \/ Tcp!Corrupt(c), UNCHANGED quicvars PROVE TcpMoves
  <2>0. UNCHANGED <<blocks, quic, batch>>
    BY <1>3 DEF quicvars, Tcp!Break, Tcp!Corrupt
  <2> QED
    BY <1>0, <1>3, <2>0, TcpBreaks, TcpCorrupts DEF TcpMoves, TcpChange
<1>4. ASSUME NEW c \in QuicCalls, Quic!Client(c), UNCHANGED tcp PROVE QuicMoves
  <2>1. UNCHANGED <<blocks, tcp, batch>>
    BY <1>4 DEF Quic!Client, Quic!Invoke, Quic!Connect, Quic!Send, Quic!Receive, Quic!ReadFails,
                Quic!client
  <2>2. CASE Quic!Invoke(c)
    BY <1>0, <2>1, <2>2, QuicInvokes DEF QuicMoves, QuicChange
  <2>3. CASE Quic!Connect(c)
    BY <1>0, <2>1, <2>3, QuicConnects DEF QuicMoves, QuicChange
  <2>4. CASE Quic!Send(c)
    BY <1>0, <2>1, <2>4, QuicSends DEF QuicMoves, QuicChange
  <2>5. CASE Quic!Receive(c)
    BY <1>0, <2>1, <2>5, QuicReceives DEF QuicMoves, QuicChange
  <2>6. CASE Quic!ReadFails(c)
    BY <1>0, <2>1, <2>6, QuicFails DEF QuicMoves, QuicChange, Quic!ReadFails
  <2> QED
    BY <1>4, <2>2, <2>3, <2>4, <2>5, <2>6 DEF Quic!Client
<1>5. ASSUME NEW c \in QuicCalls, Quic!Serve(c), UNCHANGED tcp PROVE QuicAnswers
  <2>1. UNCHANGED batch
    BY <1>5 DEF Quic!Serve, Quic!ServeFetch, Quic!ServeStore, Quic!ServePing, Quic!client
  <2> QED
    BY <1>0, <1>5, <2>1, QuicServes DEF QuicAnswers, QuicChange
<1>6. ASSUME NEW q \in Batches, Quic!StartBatch(q) \/ Quic!Join(q), UNCHANGED tcp PROVE QuicBatches
  BY <1>6 DEF QuicBatches, Quic!StartBatch, Quic!Join
<1>7. ASSUME Quic!Faults, UNCHANGED tcp PROVE QuicBreaks
  <2>1. (\E conn : Quic!Closed(conn)) /\ UNCHANGED <<blocks, batch>>
    BY <1>7 DEF Quic!Faults, Quic!disconnect, Quic!Break
  <2> QED
    BY <1>0, <1>7, <2>1, QuicCuts DEF QuicBreaks, QuicIsCut
<1>8. ASSUME Tcp!Restart, Quic!Restart PROVE Restarts
  <2>1. UNCHANGED batch
    BY <1>8 DEF Quic!Restart
  <2>2. QuicIsCut
    BY <1>0, <1>8, <2>1, QuicCuts DEF QuicIsCut
  <2> QED
    BY <1>0, <1>8, <2>2, TcpRestarts DEF Restarts
<1>9. CASE TcpStep(Tcp!Steps)
  BY <1>1, <1>2, <1>9 DEF TcpStep, Tcp!Steps, Effect
<1>10. CASE QuicStep(Quic!Steps)
  BY <1>4, <1>5, <1>6, <1>10 DEF QuicStep, Quic!Steps, Effect
<1>11. CASE Fault
  BY <1>3, <1>7, <1>8, <1>11 DEF Fault, Tcp!Faults, Effect
<1>12. CASE UNCHANGED vars
  BY <1>12 DEF vars, quicvars, Effect
<1> QED
  BY <1>9, <1>10, <1>11, <1>12 DEF Next

\* A request that is handled stores contents only.
LEMMA HandledKeepsBlocks ==
    ASSUME blocks \in [Blocks -> Content], NEW r \in Request, NEW a, Handled(r, a)
    PROVE  blocks' \in [Blocks -> Content]
<1>1. CASE blocks' = blocks
  BY <1>1
<1>2. CASE r.op = "store" /\ blocks' = [blocks EXCEPT ![r.block] = r.data]
  <2>1. r.block \in Blocks /\ r.data \in Contents
    BY <1>2 DEF Request
  <2> QED
    BY <1>2, <2>1 DEF Content
<1> QED
  BY <1>1, <1>2 DEF Handled

\* The steps of one call over TCP, and of calls over QUIC.
LEMMA TcpInvStep ==
    ASSUME RamBInv, UNCHANGED <<quic, batch>>, blocks' \in [Blocks -> Content],
           tcp' \in [TcpCalls -> TcpCall], \A c \in TcpCalls : TcpInv(tcp'[c])
    PROVE  RamBInv'
<1>1. TypeInv'
  BY DEF RamBInv, TypeInv
<1>2. \A q \in Batches : BatchInv(q)'
  BY DEF RamBInv, CallsInv, BatchInv
<1> QED
  BY <1>1, <1>2 DEF RamBInv, CallsInv

LEMMA QuicInvStep ==
    ASSUME RamBInv, UNCHANGED batch, blocks' \in [Blocks -> Content],
           tcp' \in [TcpCalls -> TcpCall], \A c \in TcpCalls : TcpInv(tcp'[c]),
           quic' \in [QuicCalls -> QuicCall], \A c \in QuicCalls : QuicInv(quic'[c]),
           \A c \in QuicCalls : Forward(quic[c], quic'[c])
    PROVE  RamBInv'
<1>1. TypeInv'
  BY DEF RamBInv, TypeInv
<1>2. \A q \in Batches : BatchInv(q)'
  BY BatchKeeps DEF RamBInv, CallsInv
<1> QED
  BY <1>1, <1>2 DEF RamBInv, CallsInv

LEMMA NextInv == RamBInv /\ [Next]_vars => RamBInv'
<1> SUFFICES ASSUME RamBInv, [Next]_vars PROVE RamBInv'
  OBVIOUS
<1>0. /\ TypeInv /\ blocks \in [Blocks -> Content] /\ tcp \in [TcpCalls -> TcpCall]
      /\ quic \in [QuicCalls -> QuicCall] /\ batch \in [Batches -> BatchState]
      /\ \A c \in TcpCalls : TcpInv(tcp[c])
      /\ \A c \in QuicCalls : QuicInv(quic[c])
      /\ \A q \in Batches : BatchInv(q)
  BY DEF RamBInv, CallsInv, TypeInv
<1>1. ASSUME NEW c \in TcpCalls, NEW v \in TcpCall, TcpChange(c, v), TcpInv(v)
      PROVE  tcp' \in [TcpCalls -> TcpCall] /\ \A d \in TcpCalls : TcpInv(tcp'[d])
  BY <1>0, <1>1 DEF TcpChange
<1>2. ASSUME NEW c \in QuicCalls, NEW v \in QuicCall, QuicChange(c, v), QuicInv(v),
             Forward(quic[c], v)
      PROVE  /\ quic' \in [QuicCalls -> QuicCall] /\ \A d \in QuicCalls : QuicInv(quic'[d])
             /\ \A d \in QuicCalls : Forward(quic[d], quic'[d])
  <2>1. \A d \in QuicCalls : quic'[d] = IF d = c THEN v ELSE quic[d]
    BY <1>0, <1>2 DEF QuicChange
  <2>2. \A d \in QuicCalls : Forward(quic[d], quic[d])
    BY DEF Forward
  <2>3. quic' \in [QuicCalls -> QuicCall]
    BY <1>0, <1>2 DEF QuicChange
  <2> QED
    BY <1>0, <1>2, <2>1, <2>2, <2>3
<1>3. CASE TcpMoves
  <2>1. PICK c \in TcpCalls, v \in TcpCall :
           /\ TcpChange(c, v)
           /\ \/ TcpInvoked(tcp[c], v) \/ TcpSent(tcp[c], v) \/ TcpFailed(tcp[c], v)
              \/ TcpReceived(tcp[c], v) \/ TcpCut(tcp[c], v) \/ TcpCorrupted(tcp[c], v)
    BY <1>3 DEF TcpMoves
  <2>2. TcpInv(v)
    BY <1>0, <2>1, TcpKeeps
  <2> QED
    BY <1>0, <1>1, <1>3, <2>1, <2>2, TcpInvStep DEF TcpMoves
<1>4. CASE TcpAnswers
  <2>1. PICK c \in TcpCalls, v \in TcpCall, r \in Replies :
          /\ TcpChange(c, v) /\ TcpServed(tcp[c], v, r)
          /\ Tcp!Told(r) \in Answers /\ Carries(Tcp!Told(r), r)
          /\ Handled(tcp[c].req, Tcp!Told(r))
    BY <1>4 DEF TcpAnswers
  <2>2. TcpInv(v)
    BY <1>0, <2>1, TcpKeeps
  <2>3. tcp[c].req \in Request
    BY <1>0, <2>1 DEF TcpServed, TcpInv
  <2>4. blocks' \in [Blocks -> Content]
    BY <1>0, <2>1, <2>3, HandledKeepsBlocks
  <2> QED
    BY <1>1, <1>4, <2>1, <2>2, <2>4, TcpInvStep DEF TcpAnswers
<1>5. CASE QuicMoves
  <2>1. PICK c \in QuicCalls, v \in QuicCall :
          /\ QuicChange(c, v)
          /\ \/ QuicInvoked(quic[c], v)
             \/ QuicFailed(quic[c], v) \/ QuicConnected(quic[c], v) \/ QuicSent(quic[c], v)
             \/ QuicReceived(quic[c], v)
    BY <1>5 DEF QuicMoves
  <2>2. QuicInv(v) /\ Forward(quic[c], v)
    <3>1. quic[c] \in QuicCall /\ QuicInv(quic[c])
      BY <1>0
    <3> QED
      BY <2>1, <3>1, QuicStepKeeps, StepsGoForward
  <2>3. /\ quic' \in [QuicCalls -> QuicCall] /\ \A d \in QuicCalls : QuicInv(quic'[d])
        /\ \A d \in QuicCalls : Forward(quic[d], quic'[d])
    BY <1>2, <2>1, <2>2
  <2> QED
    BY <1>0, <1>5, <2>3, QuicInvStep DEF QuicMoves
<1>6. CASE QuicAnswers
  <2>1. PICK c \in QuicCalls, v \in QuicCall, r \in Replies :
          /\ QuicChange(c, v) /\ QuicServed(quic[c], v, r)
          /\ Quic!Told(r) \in Answers /\ Fits(r)
          /\ Handled(quic[c].req, Quic!Told(r))
    BY <1>6 DEF QuicAnswers
  <2>0. quic[c] \in QuicCall /\ QuicInv(quic[c])
    BY <1>0
  <2>2. QuicInv(v)
    BY <1>0, <2>0, <2>1, QuicServeKeeps
  <2>3. Forward(quic[c], v)
    BY <2>0, <2>1, StepsGoForward
  <2>4. quic[c].req \in Request
    BY <2>0, <2>1 DEF QuicServed, QuicInv
  <2>5. blocks' \in [Blocks -> Content]
    BY <1>0, <2>1, <2>4, HandledKeepsBlocks
  <2>6. /\ quic' \in [QuicCalls -> QuicCall] /\ \A d \in QuicCalls : QuicInv(quic'[d])
        /\ \A d \in QuicCalls : Forward(quic[d], quic'[d])
    BY <1>2, <2>1, <2>2, <2>3
  <2> QED
    BY <1>0, <1>6, <2>5, <2>6, QuicInvStep DEF QuicAnswers
<1>7. ASSUME NEW q \in Batches, Quic!StartBatch(q), UNCHANGED <<blocks, tcp>> PROVE RamBInv'
  <2>1. batch' \in [Batches -> BatchState]
    <3>1. batch[q] \in BatchState
      BY <1>0
    <3>2. \A s \in States : [batch[q] EXCEPT !.state = s] \in BatchState
      BY <3>1 DEF BatchState
    <3> QED
      BY <1>0, <1>7, <3>2, QuicStarts DEF States
  <2>2. /\ quic' \in [QuicCalls -> QuicCall]
        /\ \A c \in QuicCalls : quic'[c] = quic[c] \/ QuicInvoked(quic[c], quic'[c])
    BY <1>0, <1>7, QuicStarts DEF QuicStarted
  <2>3. \A c \in QuicCalls : QuicInv(quic'[c])
    BY <1>0, <2>2, QuicStepKeeps
  <2>4. \A p \in Batches : BatchInv(p)'
    BY <1>0, <1>7, BatchStarts
  <2>5. TypeInv'
    BY <1>0, <1>7, <2>1, <2>2 DEF TypeInv
  <2>6. \A c \in TcpCalls : TcpInv(tcp'[c])
    BY <1>0, <1>7
  <2> QED
    BY <2>3, <2>4, <2>5, <2>6 DEF RamBInv, CallsInv
<1>8. ASSUME NEW q \in Batches, Quic!Join(q), UNCHANGED <<blocks, tcp>> PROVE RamBInv'
  <2>1. batch' \in [Batches -> BatchState] /\ \A p \in Batches : BatchInv(p)'
    BY <1>0, <1>8, BatchJoins
  <2>2. quic' = quic
    BY <1>8 DEF Quic!Join
  <2>3. TypeInv'
    BY <1>0, <1>8, <2>1, <2>2 DEF TypeInv
  <2>4. /\ \A c \in TcpCalls : TcpInv(tcp'[c])
        /\ \A c \in QuicCalls : QuicInv(quic'[c])
    BY <1>0, <1>8, <2>2
  <2> QED
    BY <2>1, <2>3, <2>4 DEF RamBInv, CallsInv
<1>9. ASSUME QuicIsCut
      PROVE  /\ quic' \in [QuicCalls -> QuicCall] /\ \A d \in QuicCalls : QuicInv(quic'[d])
             /\ \A d \in QuicCalls : Forward(quic[d], quic'[d])
  <2>1. ASSUME NEW d \in QuicCalls PROVE QuicInv(quic'[d]) /\ Forward(quic[d], quic'[d])
    <3>1. /\ quic[d] \in QuicCall /\ quic'[d] \in QuicCall
          /\ QuicInv(quic[d]) /\ QuicCut(quic[d], quic'[d])
      BY <1>0, <1>9 DEF QuicIsCut
    <3> QED
      BY <3>1, QuicStepKeeps, StepsGoForward
  <2> QED
    BY <1>9, <2>1 DEF QuicIsCut
<1>10. CASE QuicBreaks
  BY <1>0, <1>9, <1>10, QuicInvStep DEF QuicBreaks, QuicIsCut
<1>11. CASE Restarts
  <2>1. tcp' \in [TcpCalls -> TcpCall] /\ blocks' \in [Blocks -> Content] /\ UNCHANGED batch
    BY <1>11 DEF Restarts, QuicIsCut, Content
  <2>2. ASSUME NEW c \in TcpCalls PROVE TcpInv(tcp'[c])
    <3>1. tcp[c] \in TcpCall /\ tcp'[c] \in TcpCall /\ TcpInv(tcp[c]) /\ TcpCut(tcp[c], tcp'[c])
      BY <1>0, <1>11, <2>1 DEF Restarts
    <3> QED
      BY <3>1, TcpKeeps
  <2> QED
    BY <1>9, <1>11, <2>1, <2>2, QuicInvStep DEF Restarts
<1>12. CASE UNCHANGED <<blocks, tcp, quic, batch>>
  BY <1>0, <1>12, TcpInvStep
<1> QED
  BY <1>3, <1>4, <1>5, <1>6, <1>7, <1>8, <1>10, <1>11, <1>12, NextEffect DEF Effect, QuicBatches

LEMMA InitInv == Init => RamBInv
<1> SUFFICES ASSUME Init PROVE RamBInv
  OBVIOUS
<1>1. /\ blocks = [b \in Blocks |-> None] /\ tcp = [c \in TcpCalls |-> Tcp!NoCall]
      /\ quic = [c \in QuicCalls |-> Quic!NoCall]
      /\ batch = [q \in Batches |-> [state |-> "new", joined |-> 0]]
  BY DEF Init, Tcp!Init, Quic!Init
<1>2. Tcp!NoCall \in TcpCall /\ TcpInv(Tcp!NoCall)
  BY DEF Tcp!NoCall, TcpCall, TcpInv, States, Content
<1>3. Quic!NoCall \in QuicCall /\ QuicInv(Quic!NoCall)
  BY DEF Quic!NoCall, QuicCall, QuicInv, States
<1>4. TypeInv
  BY <1>1, <1>2, <1>3 DEF TypeInv, Content, BatchState, States
<1>5. ASSUME NEW q \in Batches PROVE BatchInv(q)
  <2>1. batch[q].state = "new" /\ batch[q].joined = 0 /\ Len(q) \in Nat
    BY <1>1, BatchLists
  <2> QED
    BY <2>1 DEF BatchInv
<1> QED
  BY <1>1, <1>2, <1>3, <1>4, <1>5 DEF RamBInv, CallsInv

\* The inductive invariant holds in every reachable state.
THEOREM RamBInvariance == Spec => []RamBInv
  BY InitInv, NextInv, PTL DEF Spec

\* A batch returns only when each of its tasks fetched, all over one
\* connection, for any batches, and whatever breaks or is asked beside it.
THEOREM BatchesAreWhole == Spec => []BatchIsWhole
<1>1. ASSUME RamBInv, NEW q \in Batches
      PROVE  /\ batch[q].state = "ok" => batch[q].joined = Len(q)
             /\ \A i \in 1 .. batch[q].joined :
                   /\ quic[q[i]].state = "ok" /\ quic[q[i]].value.data \in Contents
                   /\ quic[q[i]].on = quic[q[1]].on
  <2>1. BatchInv(q)
    BY <1>1 DEF RamBInv, CallsInv
  <2>2. ASSUME NEW i \in 1 .. batch[q].joined
        PROVE  /\ quic[q[i]].state = "ok" /\ quic[q[i]].value.data \in Contents
               /\ quic[q[i]].on = quic[q[1]].on
    <3>0. Len(q) \in Nat /\ DOMAIN q = 1 .. Len(q) /\ batch[q].joined \in 0 .. Len(q)
      BY <2>1, BatchLists DEF BatchInv
    <3>1. i \in DOMAIN q /\ batch[q].joined > 0
      BY <3>0
    <3>2. q[i] \in QuicCalls
      BY <3>1, BatchLists
    <3>3. /\ quic[q[i]].state = "ok" /\ quic[q[i]].value.status = 200
          /\ quic[q[i]].req.op = "fetch" /\ quic[q[i]].on = quic[q[1]].on
      BY <2>1, <3>1 DEF BatchInv
    <3>4. QuicInv(quic[q[i]])
      BY <1>1, <3>2 DEF RamBInv, CallsInv
    <3> QED
      BY <3>3, <3>4 DEF QuicInv
  <2> QED
    BY <2>1, <2>2 DEF BatchInv
<1>2. RamBInv => BatchIsWhole
  BY <1>1 DEF BatchIsWhole, Quic!BatchIsWhole
<1> QED
  BY <1>2, RamBInvariance, PTL

\* Whatever the hash cache holds, a payload that arrived passes.
THEOREM CacheDoesNoHarm == Spec => []CacheIsHarmless
<1>1. ASSUME RamBInv, NEW c \in QuicCalls, quic[c].reply # None PROVE Quic!Integrity(c)
  <2>1. quic[c].reply.data # None => quic[c].reply.data = quic[c].reply.hash
    BY <1>1 DEF RamBInv, CallsInv, QuicInv
  <2> QED
    BY <2>1 DEF Quic!Integrity, Quic!Computed
<1>2. RamBInv => CacheIsHarmless
  BY <1>1 DEF CacheIsHarmless, Quic!CacheIsHarmless
<1> QED
  BY <1>2, RamBInvariance, PTL

\* Data that was corrupted on its way to RAM B, or displaced by a seal too long
\* for its field, is not stored (handle_store computes the hash of what it has
\* read), and data corrupted on its way back is not returned (fetch_block).
THEOREM NothingIsCorrupted == Spec => []NothingCorrupted
<1>1. ASSUME RamBInv, NEW c \in TcpCalls, tcp[c].state = "ok" PROVE tcp[c].value.data # Garbage
  <2>1. tcp[c].value \in Answers
    BY <1>1 DEF RamBInv, CallsInv, TcpInv
  <2> QED
    BY <2>1 DEF Answers, Content
<1>2. RamBInv => NothingCorrupted
  BY <1>1 DEF NothingCorrupted, RamBInv, TypeInv, Content
<1> QED
  BY <1>2, RamBInvariance, PTL

-----------------------------------------------------------------------------
(***************************************************************************)
(* Refinement.  A step of a transport changes what is seen of one call, of *)
(* the tasks of one batch, or of none.                                     *)
(***************************************************************************)
Calls == TcpCalls \cup QuicCalls

SeenCall ==
    [state : States, req : Request \cup {None}, taken : BOOLEAN,
     answer : Answers \cup {None}, value : Answers \cup {None}]

Ops == [c \in Calls |-> IF c \in TcpCalls THEN Seen(tcp[c]) ELSE Seen(quic[c])]

ServiceRequests ==
    TcpRequests \cup QuicRequests \cup {[op |-> "fetch", block |-> b, hash |-> None] : b \in Blocks}

\* What is seen of a call is part of its record.
LEMMA SeenTypes ==
    /\ \A t \in TcpCall : Seen(t) \in SeenCall
    /\ \A u \in QuicCall : Seen(u) \in SeenCall
  BY DEF Seen, SeenCall, TcpCall, QuicCall

LEMMA OpsType ==
    ASSUME TypeInv
    PROVE  /\ Ops \in [Calls -> SeenCall]
           /\ \A c \in TcpCalls : c \in Calls /\ Ops[c] = Seen(tcp[c])
           /\ \A c \in QuicCalls : c \in Calls /\ Ops[c] = Seen(quic[c])
<1>1. /\ \A c \in TcpCalls : Seen(tcp[c]) \in SeenCall
      /\ \A c \in QuicCalls : Seen(quic[c]) \in SeenCall
  BY SeenTypes DEF TypeInv
<1> QED
  BY <1>1, CallAssumption DEF Ops, Calls

\* Nothing is seen of a step that keeps what is seen of every call.
LEMMA OpsSame ==
    ASSUME \A c \in TcpCalls : Seen(tcp'[c]) = Seen(tcp[c]),
           \A c \in QuicCalls : Seen(quic'[c]) = Seen(quic[c])
    PROVE  Ops' = Ops
  BY DEF Ops, Calls

LEMMA OpsOfTcp ==
    ASSUME TypeInv, NEW c \in TcpCalls, NEW v \in TcpCall, TcpChange(c, v), quic' = quic
    PROVE  Ops' = [Ops EXCEPT ![c] = Seen(v)]
<1>1. \A d \in TcpCalls : tcp'[d] = IF d = c THEN v ELSE tcp[d]
  BY DEF TypeInv, TcpChange
<1>2. Ops' = [d \in Calls |-> IF d \in TcpCalls THEN Seen(tcp'[d]) ELSE Seen(quic[d])]
  BY DEF Ops
<1>3. \A d \in Calls : (IF d \in TcpCalls THEN Seen(tcp'[d]) ELSE Seen(quic[d]))
                       = IF d = c THEN Seen(v) ELSE Ops[d]
  BY <1>1 DEF Ops
<1>4. [Ops EXCEPT ![c] = Seen(v)] = [d \in Calls |-> IF d = c THEN Seen(v) ELSE Ops[d]]
  BY OpsType
<1> QED
  BY <1>2, <1>3, <1>4

LEMMA OpsOfQuic ==
    ASSUME TypeInv, NEW c \in QuicCalls, NEW v \in QuicCall, QuicChange(c, v), tcp' = tcp
    PROVE  Ops' = [Ops EXCEPT ![c] = Seen(v)]
<1>1. \A d \in QuicCalls : quic'[d] = IF d = c THEN v ELSE quic[d]
  BY DEF TypeInv, QuicChange
<1>2. Ops' = [d \in Calls |-> IF d \in TcpCalls THEN Seen(tcp[d]) ELSE Seen(quic'[d])]
  BY DEF Ops
<1>3. \A d \in Calls : (IF d \in TcpCalls THEN Seen(tcp[d]) ELSE Seen(quic'[d]))
                       = IF d = c THEN Seen(v) ELSE Ops[d]
  BY <1>1, CallAssumption DEF Ops, Calls
<1>4. [Ops EXCEPT ![c] = Seen(v)] = [d \in Calls |-> IF d = c THEN Seen(v) ELSE Ops[d]]
  BY OpsType
<1> QED
  BY <1>2, <1>3, <1>4

-----------------------------------------------------------------------------
\* The steps of the service, in terms of what is seen.
LEMMA ServiceCall ==
    ASSUME NEW cs \in SUBSET Calls, NEW r \in [cs -> ServiceRequests],
           \A c \in cs : Ops[c].state = "new", blocks' = blocks,
           Ops' = [c \in Calls |-> IF c \in cs THEN [Ops[c] EXCEPT !.state = "open", !.req = r[c]]
                                   ELSE Ops[c]]
    PROVE  Service!Next
<1>1. Service!Call(cs)
  BY DEF Service!Call, Ops, Calls, ServiceRequests
<1> QED
  BY <1>1 DEF Service!Next, Calls

LEMMA ServiceError ==
    ASSUME NEW c \in Calls, Ops[c].state = "open", blocks' = blocks,
           Ops' = [Ops EXCEPT ![c].state = "error"]
    PROVE  Service!Next
<1>1. Service!Error(c)
  BY DEF Service!Error, Ops, Calls
<1> QED
  BY <1>1 DEF Service!Next, Calls

LEMMA ServiceOk ==
    ASSUME NEW c \in Calls, Ops[c].state = "open", Ops[c].taken, blocks' = blocks,
           Ops' = [Ops EXCEPT ![c].state = "ok", ![c].value = Ops[c].answer]
    PROVE  Service!Next
<1>1. Service!Ok(c)
  BY DEF Service!Ok, Ops, Calls
<1> QED
  BY <1>1 DEF Service!Next, Calls

LEMMA ServiceLose ==
    ASSUME blocks' = [b \in Blocks |-> None], Ops' = Ops
    PROVE  Service!Next
<1>1. Service!Lose
  BY DEF Service!Lose, Ops, Calls
<1> QED
  BY <1>1 DEF Service!Next

LEMMA ServiceStutter ==
    ASSUME blocks' = blocks, Ops' = Ops
    PROVE  UNCHANGED Service!vars
  BY DEF Service!vars, Ops, Calls

-----------------------------------------------------------------------------
\* A change of what is seen of one call, from o to s.
Same(o, s) == s.taken = o.taken /\ s.answer = o.answer

Changed(o, s) ==
    \/ /\ blocks' = blocks
       /\ \/ /\ o.state = "new" /\ s.state = "open" /\ s.req \in ServiceRequests
             /\ Same(o, s) /\ s.value = o.value
          \/ /\ o.state = "open" /\ s.state = "error" /\ s.req = o.req
             /\ Same(o, s) /\ s.value = o.value
          \/ /\ o.state = "open" /\ s.state = "ok" /\ s.req = o.req
             /\ o.taken /\ Same(o, s) /\ s.value = o.answer
          \/ /\ s.state = o.state /\ s.req = o.req /\ Same(o, s) /\ s.value = o.value
    \/ /\ o.state \in {"open", "error"} /\ ~o.taken /\ s.taken = TRUE
       /\ s.state = o.state /\ s.req = o.req /\ s.value = o.value
       /\ Handled(o.req, s.answer)

\* Such a change is a step of the service, or one that the service does not see.
LEMMA ServiceStep ==
    ASSUME TypeInv, NEW c \in Calls, NEW s \in SeenCall, Ops' = [Ops EXCEPT ![c] = s],
           Changed(Ops[c], s)
    PROVE  [Service!Next]_(Service!vars)
<1>0. Ops \in [Calls -> SeenCall] /\ Ops[c] \in SeenCall
  BY OpsType
<1> DEFINE o == Ops[c]
<1>1. CASE /\ blocks' = blocks /\ o.state = "new" /\ s.state = "open" /\ s.req \in ServiceRequests
           /\ Same(o, s) /\ s.value = o.value
  <2> DEFINE r == [d \in {c} |-> s.req]
  <2>1. r \in [{c} -> ServiceRequests] /\ {c} \in SUBSET Calls /\ r[c] = s.req
    BY <1>1
  <2> HIDE DEF r
  <2>2. s = [o EXCEPT !.state = "open", !.req = r[c]]
    BY <1>0, <1>1, <2>1 DEF SeenCall, Same
  <2>3. Ops' = [d \in Calls |-> IF d \in {c} THEN [Ops[d] EXCEPT !.state = "open", !.req = r[d]]
                                ELSE Ops[d]]
    <3>1. Ops' = [d \in Calls |-> IF d \in {c} THEN s ELSE Ops[d]]
      BY <1>0
    <3>2. \A d \in Calls : (IF d \in {c} THEN s ELSE Ops[d])
              = IF d \in {c} THEN [Ops[d] EXCEPT !.state = "open", !.req = r[d]] ELSE Ops[d]
      BY <2>2
    <3> QED
      BY <3>1, <3>2
  <2>4. \A d \in {c} : Ops[d].state = "new"
    BY <1>1
  <2>5. Service!Next
    BY <1>1, <2>1, <2>3, <2>4, ServiceCall
  <2> QED
    BY <2>5
<1>2. CASE /\ blocks' = blocks /\ o.state = "open" /\ s.state = "error" /\ s.req = o.req
           /\ Same(o, s) /\ s.value = o.value
  <2>1. s = [o EXCEPT !.state = "error"]
    BY <1>0, <1>2 DEF SeenCall, Same
  <2>2. Ops' = [Ops EXCEPT ![c].state = "error"]
    BY <1>0, <2>1
  <2>3. Service!Next
    BY <1>2, <2>2, ServiceError
  <2> QED
    BY <2>3
<1>3. CASE /\ blocks' = blocks /\ o.state = "open" /\ s.state = "ok" /\ s.req = o.req
           /\ o.taken /\ Same(o, s) /\ s.value = o.answer
  <2>1. s = [o EXCEPT !.state = "ok", !.value = Ops[c].answer]
    BY <1>0, <1>3 DEF SeenCall, Same
  <2>2. Ops' = [Ops EXCEPT ![c].state = "ok", ![c].value = Ops[c].answer]
    BY <1>0, <2>1
  <2>3. Service!Next
    BY <1>3, <2>2, ServiceOk
  <2> QED
    BY <2>3
<1>4. CASE /\ blocks' = blocks /\ s.state = o.state /\ s.req = o.req /\ Same(o, s)
           /\ s.value = o.value
  <2>1. s = o
    BY <1>0, <1>4 DEF SeenCall, Same
  <2>2. Ops' = Ops
    BY <1>0, <2>1
  <2> QED
    BY <1>4, <2>2, ServiceStutter
<1>5. CASE /\ o.state \in {"open", "error"} /\ ~o.taken /\ s.taken = TRUE
           /\ s.state = o.state /\ s.req = o.req /\ s.value = o.value
           /\ Handled(o.req, s.answer)
  <2>1. PICK a : a = s.answer
    OBVIOUS
  <2>2. s = [o EXCEPT !.taken = TRUE, !.answer = a]
    BY <1>0, <1>5, <2>1 DEF SeenCall
  <2>3. Ops' = [Ops EXCEPT ![c].taken = TRUE, ![c].answer = a]
    BY <1>0, <2>2
  <2>4. Handled(Ops[c].req, a)
    BY <1>5, <2>1
  <2>5. Ops[c].state \in {"open", "error"} /\ ~Ops[c].taken
    BY <1>5
  <2> DEFINE r == Ops[c].req
             answered(b) == Ops' = [Ops EXCEPT ![c].taken = TRUE, ![c].answer = b]
  <2>6. \/ r.op = "ping" /\ answered(Service!Answer(200, None)) /\ UNCHANGED blocks
        \/ /\ r.op = "fetch"
           /\ answered(IF blocks[r.block] = None THEN Service!Answer(404, None)
                       ELSE IF r.hash \notin {None, blocks[r.block]} THEN Service!Answer(409, None)
                       ELSE Service!Answer(200, blocks[r.block]))
           /\ UNCHANGED blocks
        \/ /\ r.op = "store" /\ r.data = r.hash
           /\ answered(Service!Answer(200, None))
           /\ blocks' = [blocks EXCEPT ![r.block] = r.data]
        \/ /\ r.op = "store"
           /\ \E status \in {409, 413} : answered(Service!Answer(status, None))
           /\ UNCHANGED blocks
    <3> HIDE DEF r
    <3>1. Handled(r, a)
      BY <2>4 DEF r
    <3>2. answered(a)
      BY <2>3
    <3> HIDE DEF answered
    <3> QED
      BY <3>1, <3>2 DEF Service!Answer, Handled
  <2>7. Service!Take(c)
    BY <2>5, <2>6, Zenon DEF Service!Take, Ops, Calls
  <2> QED
    BY <2>7 DEF Service!Next, Calls
<1> QED
  BY <1>1, <1>2, <1>3, <1>4, <1>5 DEF Changed

\* What the steps of a call are to the service.
LEMMA TcpSeen ==
    ASSUME NEW t \in TcpCall, NEW v \in TcpCall, TcpInv(t), blocks' = blocks,
           \/ TcpInvoked(t, v) \/ TcpSent(t, v) \/ TcpFailed(t, v) \/ TcpReceived(t, v)
           \/ TcpCut(t, v) \/ TcpCorrupted(t, v)
    PROVE  Changed(Seen(t), Seen(v))
<1>0. /\ Seen(t).state = t.state /\ Seen(t).req = t.req /\ Seen(t).taken = t.taken
      /\ Seen(t).answer = t.answer /\ Seen(t).value = t.value
      /\ Seen(v).state = v.state /\ Seen(v).req = v.req /\ Seen(v).taken = v.taken
      /\ Seen(v).answer = v.answer /\ Seen(v).value = v.value
  BY DEF Seen
<1>1. CASE TcpInvoked(t, v)
  BY <1>0, <1>1 DEF TcpInvoked, Changed, Same, ServiceRequests
<1>2. CASE TcpSent(t, v) \/ TcpCut(t, v) \/ TcpCorrupted(t, v)
  BY <1>0, <1>2 DEF TcpSent, TcpCut, TcpCorrupted, Changed, Same
<1>3. CASE TcpFailed(t, v)
  BY <1>0, <1>3 DEF TcpFailed, TcpReturned, TcpInv, Changed, Same
<1>4. CASE TcpReceived(t, v)
  <2>1. t.state = "open" /\ t.taken /\ t.answer = v.answer /\ t.taken = v.taken /\ v.state = "ok"
    BY <1>4 DEF TcpReceived, TcpReturned, TcpInv
  <2>2. TcpInv(v)
    BY <1>4, TcpKeeps
  <2>3. v.value = t.answer
    BY <2>1, <2>2 DEF TcpInv
  <2> QED
    BY <1>0, <1>4, <2>1, <2>3 DEF TcpReceived, TcpReturned, Changed, Same
<1> QED
  BY <1>1, <1>2, <1>3, <1>4

LEMMA QuicSeen ==
    ASSUME NEW u \in QuicCall, NEW v \in QuicCall, QuicInv(u), blocks' = blocks,
           \/ QuicInvoked(u, v) /\ v.req \in QuicRequests
           \/ QuicFailed(u, v) \/ QuicConnected(u, v) \/ QuicSent(u, v) \/ QuicReceived(u, v)
    PROVE  Changed(Seen(u), Seen(v))
<1>0. /\ Seen(u).state = u.state /\ Seen(u).req = u.req /\ Seen(u).taken = u.taken
      /\ Seen(u).answer = u.answer /\ Seen(u).value = u.value
      /\ Seen(v).state = v.state /\ Seen(v).req = v.req /\ Seen(v).taken = v.taken
      /\ Seen(v).answer = v.answer /\ Seen(v).value = v.value
  BY DEF Seen
<1>1. CASE QuicInvoked(u, v) /\ v.req \in QuicRequests
  BY <1>0, <1>1 DEF QuicInvoked, Changed, Same, ServiceRequests
<1>2. CASE QuicConnected(u, v) \/ QuicSent(u, v)
  BY <1>0, <1>2 DEF QuicConnected, QuicSent, QuicKeeps, Changed, Same
<1>3. CASE QuicFailed(u, v)
  BY <1>0, <1>3 DEF QuicFailed, Changed, Same
<1>4. CASE QuicReceived(u, v)
  <2>1. u.state = "open" /\ u.taken /\ u.answer = v.answer /\ u.taken = v.taken /\ v.state = "ok"
    BY <1>4 DEF QuicReceived, QuicInv
  <2>2. QuicInv(v)
    BY <1>4, QuicStepKeeps
  <2>3. v.value = u.answer
    BY <2>1, <2>2 DEF QuicInv
  <2> QED
    BY <1>0, <1>4, <2>1, <2>3 DEF QuicReceived, Changed, Same
<1> QED
  BY <1>1, <1>2, <1>3, <1>4

LEMMA BatchSeen ==
    ASSUME TypeInv, NEW q \in Batches, QuicStarted(q), UNCHANGED <<blocks, tcp>>
    PROVE  Service!Next
<1> DEFINE cs == Quic!Members(q)
           r == [c \in cs |-> quic'[c].req]
<1>0. cs \subseteq QuicCalls /\ cs \in SUBSET Calls /\ quic \in [QuicCalls -> QuicCall]
  BY BatchLists DEF Calls, TypeInv
<1>1. ASSUME NEW c \in cs
      PROVE  /\ quic[c].state = "new" /\ QuicInvoked(quic[c], quic'[c])
             /\ r[c] = quic'[c].req /\ quic'[c].req \in ServiceRequests
             /\ quic'[c] \in QuicCall /\ quic[c] \in QuicCall
  BY <1>0 DEF QuicStarted, ServiceRequests
<1>2. r \in [cs -> ServiceRequests]
  BY <1>1
<1> HIDE DEF r, cs
<1>3. ASSUME NEW c \in cs
      PROVE  /\ Seen(quic'[c]) = [Seen(quic[c]) EXCEPT !.state = "open", !.req = r[c]]
             /\ Seen(quic[c]).state = "new"
  <2>1. ASSUME NEW u \in QuicCall, NEW v \in QuicCall, QuicInvoked(u, v)
        PROVE  /\ Seen(v) = [Seen(u) EXCEPT !.state = "open", !.req = v.req]
               /\ Seen(u).state = "new"
    <3>1. Seen(u) \in SeenCall /\ Seen(v) \in SeenCall
      BY SeenTypes
    <3>2. /\ Seen(u).state = "new" /\ Seen(v).state = "open" /\ Seen(v).req = v.req
          /\ Seen(v).taken = Seen(u).taken /\ Seen(v).answer = Seen(u).answer
          /\ Seen(v).value = Seen(u).value
      BY <2>1 DEF Seen, QuicInvoked
    <3> QED
      BY <3>1, <3>2 DEF SeenCall
  <2>2. /\ quic'[c] \in QuicCall /\ quic[c] \in QuicCall /\ QuicInvoked(quic[c], quic'[c])
        /\ r[c] = quic'[c].req
    BY <1>1
  <2>3. /\ Seen(quic'[c]) = [Seen(quic[c]) EXCEPT !.state = "open", !.req = quic'[c].req]
        /\ Seen(quic[c]).state = "new"
    BY <2>1, <2>2
  <2> QED
    BY <2>2, <2>3
<1>4. \A c \in QuicCalls \ cs : quic'[c] = quic[c]
  BY DEF QuicStarted, cs
<1>5. /\ \A c \in TcpCalls : Ops[c] = Seen(tcp[c]) /\ c \notin cs
      /\ \A c \in QuicCalls : Ops[c] = Seen(quic[c])
  BY <1>0, OpsType, CallAssumption
<1>6. Ops' = [c \in Calls |-> IF c \in TcpCalls THEN Seen(tcp[c]) ELSE Seen(quic'[c])]
  BY DEF Ops
<1>7. \A c \in Calls : (IF c \in TcpCalls THEN Seen(tcp[c]) ELSE Seen(quic'[c]))
          = IF c \in cs THEN [Ops[c] EXCEPT !.state = "open", !.req = r[c]] ELSE Ops[c]
  BY <1>0, <1>3, <1>4, <1>5 DEF Calls
<1>8. Ops' = [c \in Calls |-> IF c \in cs THEN [Ops[c] EXCEPT !.state = "open", !.req = r[c]]
                              ELSE Ops[c]]
  BY <1>6, <1>7
<1>9. \A c \in cs : Ops[c].state = "new"
  BY <1>0, <1>3, <1>5
<1> QED
  BY <1>0, <1>2, <1>8, <1>9, ServiceCall

\* Every step of the transports is a step of the service, or not seen.
LEMMA NextRefines == RamBInv /\ [Next]_vars => [Service!Next]_(Service!vars)
<1> SUFFICES ASSUME RamBInv, [Next]_vars PROVE [Service!Next]_(Service!vars)
  OBVIOUS
<1>0. /\ TypeInv /\ tcp \in [TcpCalls -> TcpCall] /\ quic \in [QuicCalls -> QuicCall]
      /\ \A c \in TcpCalls : TcpInv(tcp[c])
      /\ \A c \in QuicCalls : QuicInv(quic[c])
  BY DEF RamBInv, TypeInv, CallsInv
<1>1. CASE TcpMoves
  <2>1. PICK c \in TcpCalls, v \in TcpCall :
           /\ TcpChange(c, v)
           /\ \/ TcpInvoked(tcp[c], v) \/ TcpSent(tcp[c], v) \/ TcpFailed(tcp[c], v)
              \/ TcpReceived(tcp[c], v) \/ TcpCut(tcp[c], v) \/ TcpCorrupted(tcp[c], v)
    BY <1>1 DEF TcpMoves
  <2>2. Changed(Seen(tcp[c]), Seen(v))
    <3>1. tcp[c] \in TcpCall /\ TcpInv(tcp[c]) /\ blocks' = blocks
      BY <1>0, <1>1 DEF TcpMoves
    <3> QED
      BY <2>1, <3>1, TcpSeen
  <2>3. Ops' = [Ops EXCEPT ![c] = Seen(v)]
    BY <1>0, <1>1, <2>1, OpsOfTcp DEF TcpMoves
  <2>4. c \in Calls /\ Ops[c] = Seen(tcp[c]) /\ Seen(v) \in SeenCall
    BY <1>0, OpsType, SeenTypes
  <2>5. Changed(Ops[c], Seen(v))
    BY <2>2, <2>4
  <2> QED
    BY <1>0, <2>3, <2>4, <2>5, ServiceStep
<1>2. CASE TcpAnswers
  <2>1. PICK c \in TcpCalls, v \in TcpCall, r \in Replies :
          /\ TcpChange(c, v) /\ TcpServed(tcp[c], v, r)
          /\ Tcp!Told(r) \in Answers /\ Handled(tcp[c].req, Tcp!Told(r))
    BY <1>2 DEF TcpAnswers
  <2>2. Changed(Seen(tcp[c]), Seen(v))
    <3>1. TcpInv(tcp[c])
      BY <1>0
    <3>2. tcp[c].state \in {"open", "error"} /\ ~tcp[c].taken
      BY <2>1, <3>1 DEF TcpServed, TcpInv
    <3>3. /\ v.taken = TRUE /\ v.answer = Tcp!Told(r)
          /\ v.state = tcp[c].state /\ v.req = tcp[c].req /\ v.value = tcp[c].value
      BY <2>1 DEF TcpServed
    <3>4. /\ Seen(tcp[c]).state = tcp[c].state /\ Seen(tcp[c]).req = tcp[c].req
          /\ Seen(tcp[c]).taken = tcp[c].taken /\ Seen(tcp[c]).value = tcp[c].value
          /\ Seen(v).state = v.state /\ Seen(v).req = v.req /\ Seen(v).taken = v.taken
          /\ Seen(v).answer = v.answer /\ Seen(v).value = v.value
      BY DEF Seen
    <3>5. Handled(Seen(tcp[c]).req, Seen(v).answer)
      BY <2>1, <3>3, <3>4
    <3> QED
      BY <3>2, <3>3, <3>4, <3>5 DEF Changed
  <2>3. Ops' = [Ops EXCEPT ![c] = Seen(v)]
    BY <1>0, <1>2, <2>1, OpsOfTcp DEF TcpAnswers
  <2>4. c \in Calls /\ Ops[c] = Seen(tcp[c]) /\ Seen(v) \in SeenCall
    BY <1>0, OpsType, SeenTypes
  <2>5. Changed(Ops[c], Seen(v))
    BY <2>2, <2>4
  <2> QED
    BY <1>0, <2>3, <2>4, <2>5, ServiceStep
<1>3. CASE QuicMoves
  <2>1. PICK c \in QuicCalls, v \in QuicCall :
          /\ QuicChange(c, v)
          /\ \/ QuicInvoked(quic[c], v) /\ v.req \in QuicRequests
             \/ QuicFailed(quic[c], v) \/ QuicConnected(quic[c], v) \/ QuicSent(quic[c], v)
             \/ QuicReceived(quic[c], v)
    BY <1>3 DEF QuicMoves
  <2>2. Changed(Seen(quic[c]), Seen(v))
    <3>1. quic[c] \in QuicCall /\ QuicInv(quic[c]) /\ blocks' = blocks
      BY <1>0, <1>3 DEF QuicMoves
    <3> QED
      BY <2>1, <3>1, QuicSeen
  <2>3. Ops' = [Ops EXCEPT ![c] = Seen(v)]
    BY <1>0, <1>3, <2>1, OpsOfQuic DEF QuicMoves
  <2>4. c \in Calls /\ Ops[c] = Seen(quic[c]) /\ Seen(v) \in SeenCall
    BY <1>0, OpsType, SeenTypes
  <2>5. Changed(Ops[c], Seen(v))
    BY <2>2, <2>4
  <2> QED
    BY <1>0, <2>3, <2>4, <2>5, ServiceStep
<1>4. CASE QuicAnswers
  <2>1. PICK c \in QuicCalls, v \in QuicCall, r \in Replies :
          /\ QuicChange(c, v) /\ QuicServed(quic[c], v, r)
          /\ Quic!Told(r) \in Answers /\ Handled(quic[c].req, Quic!Told(r))
    BY <1>4 DEF QuicAnswers
  <2>2. Changed(Seen(quic[c]), Seen(v))
    <3>1. QuicInv(quic[c])
      BY <1>0
    <3>2. quic[c].state \in {"open", "error"} /\ ~quic[c].taken
      BY <2>1, <3>1 DEF QuicServed, QuicInv
    <3>3. /\ v.taken = TRUE /\ v.answer = Quic!Told(r)
          /\ v.state = quic[c].state /\ v.req = quic[c].req /\ v.value = quic[c].value
      BY <2>1 DEF QuicServed
    <3>4. /\ Seen(quic[c]).state = quic[c].state /\ Seen(quic[c]).req = quic[c].req
          /\ Seen(quic[c]).taken = quic[c].taken /\ Seen(quic[c]).value = quic[c].value
          /\ Seen(v).state = v.state /\ Seen(v).req = v.req /\ Seen(v).taken = v.taken
          /\ Seen(v).answer = v.answer /\ Seen(v).value = v.value
      BY DEF Seen
    <3>5. Handled(Seen(quic[c]).req, Seen(v).answer)
      BY <2>1, <3>3, <3>4
    <3> QED
      BY <3>2, <3>3, <3>4, <3>5 DEF Changed
  <2>3. Ops' = [Ops EXCEPT ![c] = Seen(v)]
    BY <1>0, <1>4, <2>1, OpsOfQuic DEF QuicAnswers
  <2>4. c \in Calls /\ Ops[c] = Seen(quic[c]) /\ Seen(v) \in SeenCall
    BY <1>0, OpsType, SeenTypes
  <2>5. Changed(Ops[c], Seen(v))
    BY <2>2, <2>4
  <2> QED
    BY <1>0, <2>3, <2>4, <2>5, ServiceStep
<1>5. CASE QuicBatches
  <2>1. PICK q \in Batches : Quic!StartBatch(q) \/ Quic!Join(q)
    BY <1>5 DEF QuicBatches
  <2>2. UNCHANGED <<blocks, tcp>>
    BY <1>5 DEF QuicBatches
  <2>3. quic' = quic \/ QuicStarted(q)
    BY <1>0, <2>1, QuicStarts DEF Quic!Join
  <2>4. CASE quic' = quic
    BY <2>2, <2>4, OpsSame, ServiceStutter
  <2>5. CASE QuicStarted(q)
    BY <1>0, <2>2, <2>5, BatchSeen
  <2> QED
    BY <2>3, <2>4, <2>5
<1>6. ASSUME QuicIsCut PROVE \A c \in QuicCalls : Seen(quic'[c]) = Seen(quic[c])
  BY <1>6 DEF QuicIsCut, QuicCut, QuicKeeps, Seen
<1>7. CASE QuicBreaks
  BY <1>6, <1>7, OpsSame, ServiceStutter DEF QuicBreaks
<1>8. CASE Restarts
  <2>1. \A c \in TcpCalls : Seen(tcp'[c]) = Seen(tcp[c])
    BY <1>8 DEF Restarts, TcpCut, Seen
  <2>2. Ops' = Ops
    BY <1>6, <1>8, <2>1, OpsSame DEF Restarts
  <2>3. Service!Next
    BY <1>8, <2>2, ServiceLose DEF Restarts
  <2> QED
    BY <2>3
<1>9. CASE UNCHANGED <<blocks, tcp, quic, batch>>
  BY <1>9, OpsSame, ServiceStutter
<1> QED
  BY <1>1, <1>2, <1>3, <1>4, <1>5, <1>7, <1>8, <1>9, NextEffect DEF Effect

\* Before the first call nothing was called or stored.
LEMMA InitRefines == Init => Service!Init
<1> SUFFICES ASSUME Init PROVE Service!Init
  OBVIOUS
<1>1. /\ blocks = [b \in Blocks |-> None] /\ tcp = [c \in TcpCalls |-> Tcp!NoCall]
      /\ quic = [c \in QuicCalls |-> Quic!NoCall]
  BY DEF Init, Tcp!Init, Quic!Init
<1>2. Seen(Tcp!NoCall) = Service!NoOp /\ Seen(Quic!NoCall) = Service!NoOp
  BY DEF Seen, Tcp!NoCall, Quic!NoCall, Service!NoOp
<1>3. Ops = [c \in Calls |-> Service!NoOp]
  BY <1>1, <1>2 DEF Ops, Calls
<1> QED
  BY <1>1, <1>3 DEF Service!Init, Ops, Calls

\* Both transports together implement the block service, for any calls,
\* requests, batches, connections and faults: each call takes effect at most
\* once, at one moment, and returns what it met then.
THEOREM TransportsServeBlocks == Spec => ImplementsService
  BY InitRefines, NextRefines, RamBInvariance, PTL DEF Spec, ImplementsService, Service!Spec

=============================================================================
