-------------------------- MODULE ClusterMuxProofs --------------------------
(***************************************************************************)
(* Theorems about the multiplexed transport to RAM B.  Responses are       *)
(* matched by position alone; what makes that right is a fact about the    *)
(* bytes on the way: as long as no batch was given up on the connection,   *)
(* they are the answers to exactly the requests that wait, in their order, *)
(* each with its payload.                                                  *)
(***************************************************************************)
EXTENDS ClusterMux, SequenceTheorems, TLAPS

Hash == Contents \cup {None}

Request ==
    [type : {"Fetch", "Store", "Ping"}, channel_id : Nat, block_index : Blocks,
     data : Hash, hash : Hash]

Item ==
    [frame : {TRUE}, channel_id : Nat, status : Nat, hash : Hash, sized : BOOLEAN]
    \cup [frame : {FALSE}, data : Contents \cup {"junk"}]

CallRecord ==
    [op : {"none", "Ping", "Fetch", "Store", "Batch"}, blocks : Seq(Blocks), data : Hash,
     hash : Hash]

AnswerRecord ==
    [asked : Nat, answered : Nat, block : Blocks, data : Hash \cup {"empty", "junk"}]

ResultRecord == [call : CallRecord, on : Nat, ok : BOOLEAN, answers : Seq(AnswerRecord)]

TypeInv ==
    /\ store \in [Blocks -> Hash] /\ held \in [Blocks -> SUBSET Hash]
    /\ requests \in [Connections -> Seq(Request)] /\ responses \in [Connections -> Seq(Item)]
    /\ opened \in 0 .. MaxConn /\ up \subseteq 1 .. opened /\ connection \in 0 .. opened
    /\ hash_cache \in [Blocks -> Hash \cup {"empty", "junk"}] /\ next_channel \in Nat
    /\ phase \in {"idle", "ensured", "header", "payload"}
    /\ call \in CallRecord /\ left \in Seq(Request) /\ result \in ResultRecord
    /\ phase = "payload" => header \in Item /\ header.frame

-----------------------------------------------------------------------------
(***************************************************************************)
(* The answer x to a request r, and the stream of items s that answers the *)
(* requests l: where w holds the frame h was read and its payload is next. *)
(***************************************************************************)
Answers(x, r, h, a) ==
    /\ x.channel_id = r.channel_id
    /\ x.status = 200 =>
         /\ r.type = "Fetch" => x.sized /\ x.hash \in h[r.block_index] /\ r.hash \in {None, x.hash}
         /\ r.type = "Store" => r.channel_id \in a /\ r.hash \in h[r.block_index]

Announces(x, l) == x.frame /\ x.status = 200 /\ l[1].type = "Fetch"

Consecutive(l) ==
    /\ Len(l) > 0
    /\ \A i \in 1 .. Len(l) : /\ l[i].channel_id = l[1].channel_id + i - 1
                              /\ l[i].type = l[1].type

\* Frames answer requests that wait, and go up.
FramesAnswer(s, l, w, h, a) ==
    /\ \A i \in 1 .. Len(s) : s[i].frame =>
          /\ \E j \in 1 .. Len(l) : Answers(s[i], l[j], h, a)
          /\ w => s[i].channel_id > l[1].channel_id
    /\ \A i, j \in 1 .. Len(s) : i < j /\ s[i].frame /\ s[j].frame =>
          s[i].channel_id < s[j].channel_id

\* A payload follows the frame that announces it and nothing else does, then
\* comes the frame that answers the next request.
Follows(s, l) ==
    \A i \in 1 .. Len(s) - 1 :
        IF Announces(s[i], l)
        THEN /\ ~s[i + 1].frame /\ s[i + 1].data = s[i].hash
             /\ i + 2 <= Len(s) => s[i + 2].frame /\ s[i + 2].channel_id = s[i].channel_id + 1
        ELSE /\ s[i + 1].frame
             /\ s[i].frame => s[i + 1].channel_id = s[i].channel_id + 1

Starts(s, l, w, x) ==
    Len(s) > 0 =>
        IF w THEN /\ ~s[1].frame /\ s[1].data = x.hash
                  /\ Len(s) > 1 => s[2].frame /\ s[2].channel_id = l[1].channel_id + 1
             ELSE s[1].frame /\ s[1].channel_id = l[1].channel_id

Stream(s, l, w, x, h, a) ==
    /\ Consecutive(l)
    /\ w => Answers(x, l[1], h, a) /\ Announces(x, l)
    /\ FramesAnswer(s, l, w, h, a) /\ Follows(s, l) /\ Starts(s, l, w, x)

\* While the connection is up, the requests q behind the stream are the rest.
Rest(s, q, l, w) ==
    /\ Len(q) <= Len(l)
    /\ \A i \in 1 .. Len(q) : q[i] = l[Len(l) - Len(q) + i]
    /\ LET next == l[1].channel_id + Len(l) - Len(q)
           n    == Len(s)
       IN  IF n = 0 THEN ~w /\ Len(q) = Len(l)
           ELSE /\ ~Announces(s[n], l)
                /\ IF s[n].frame THEN s[n].channel_id + 1 = next
                   ELSE IF n = 1 THEN l[1].channel_id + 1 = next
                   ELSE s[n - 1].channel_id + 1 = next

-----------------------------------------------------------------------------
Quiet == phase \in {"idle", "ensured"}
Sound == connection # 0 /\ connection \notin abandoned

StreamInv ==
    Sound => IF Quiet
             THEN responses[connection] = <<>> /\ (connection \in up => requests[connection] = <<>>)
             ELSE /\ Stream(responses[connection], left, phase = "payload", header, held, applied)
                  /\ connection \in up =>
                       Rest(responses[connection], requests[connection], left, phase = "payload")

SilentInv == silent \subseteq Connections

FreshInv == \A k \in Connections : k > opened => responses[k] = <<>> /\ requests[k] = <<>>

\* The requests that wait are those of the call.
CallInv ==
    /\ phase # "idle" => /\ result.call = call /\ ~result.ok /\ call.op # "none"
                         /\ Len(call.blocks) > 0
                         /\ call.op # "Batch" => Len(call.blocks) = 1
    /\ phase = "ensured" => result.answers = <<>> /\ connection \in {0, result.on}
    /\ ~Quiet =>
         /\ connection # 0 /\ result.on = connection /\ Len(left) > 0
         /\ \A i \in 1 .. Len(left) :
              /\ left[i].type = IF call.op = "Batch" THEN "Fetch" ELSE call.op
              /\ left[i].hash = call.hash
         /\ call.op # "Batch" => Len(left) = 1 /\ left[1].block_index = call.blocks[1]

RightAnswer(x, c, h, a) ==
    /\ x.answered = x.asked
    /\ c.op \in {"Fetch", "Batch"} => x.data \in h[x.block] /\ c.hash \in {None, x.data}
    /\ c.op = "Store" => x.asked \in a

ResultInv ==
    /\ result.on \notin abandoned =>
         \A i \in 1 .. Len(result.answers) : RightAnswer(result.answers[i], result.call, held, applied)
    /\ result.ok => Len(result.answers) > 0

CacheInv == /\ CacheIsHonest
            /\ \A b \in Blocks : store[b] \in held[b] \cup {None}

MuxInv == TypeInv /\ StreamInv /\ FreshInv /\ CallInv /\ ResultInv /\ CacheInv

-----------------------------------------------------------------------------
(***************************************************************************)
(* Streams.                                                                *)
(***************************************************************************)
LEMMA TailParts ==
    ASSUME NEW S, NEW s \in Seq(S), Len(s) > 0
    PROVE  /\ Tail(s) \in Seq(S) /\ Len(Tail(s)) = Len(s) - 1 /\ Head(s) = s[1]
           /\ \A i \in 1 .. Len(s) - 1 : Tail(s)[i] = s[i + 1]
  BY HeadTailProperties

LEMMA NothingIsEmpty ==
    ASSUME NEW S, NEW s \in Seq(S), Len(s) = 0 PROVE s = <<>>
  OBVIOUS

LEMMA RequestParts ==
    \A r \in Request : r.channel_id \in Nat /\ r.block_index \in Blocks /\ r.hash \in Hash
  BY DEF Request

LEMMA RequestsParts ==
    ASSUME NEW l \in Seq(Request)
    PROVE  \A j \in 1 .. Len(l) : l[j] \in Request /\ l[j].channel_id \in Nat
<1>1. \A j \in 1 .. Len(l) : l[j] \in Request
  OBVIOUS
<1> QED
  BY <1>1, RequestParts

LEMMA LenFromOne ==
    ASSUME NEW S, NEW s \in Seq(S), Len(s) > 0
    PROVE  \E n \in Nat : n + 1 = Len(s)
<1>1. PICK m \in Nat : m = Len(s)
  OBVIOUS
<1>2. m - 1 \in Nat /\ (m - 1) + 1 = m
  BY <1>1
<1> QED
  BY <1>1, <1>2

\* What RAM B holds and applied only grows, and an answer stays right.
LEMMA StreamGrows ==
    ASSUME NEW s \in Seq(Item), NEW l \in Seq(Request), NEW w \in BOOLEAN, NEW x,
           NEW h, NEW a, NEW h2, NEW a2, Stream(s, l, w, x, h, a),
           \A b \in Blocks : h[b] \subseteq h2[b], a \subseteq a2
    PROVE  Stream(s, l, w, x, h2, a2)
<1>1. ASSUME NEW y, NEW r \in Request, Answers(y, r, h, a) PROVE Answers(y, r, h2, a2)
  BY <1>1 DEF Answers, Request
<1>2. \A j \in 1 .. Len(l) : l[j] \in Request
  OBVIOUS
<1>3. Len(l) > 0 => 1 \in 1 .. Len(l)
  OBVIOUS
<1>4. FramesAnswer(s, l, w, h2, a2)
  BY <1>1, <1>2 DEF Stream, FramesAnswer
<1> QED
  BY <1>1, <1>2, <1>3, <1>4 DEF Stream, Consecutive

\* What arrives up to some point is a stream as well.
LEMMA StreamIsCut ==
    ASSUME NEW s \in Seq(Item), NEW l \in Seq(Request), NEW w \in BOOLEAN, NEW x,
           NEW h, NEW a, Stream(s, l, w, x, h, a),
           NEW t \in Seq(Item), Len(t) <= Len(s), \A i \in 1 .. Len(t) : t[i] = s[i]
    PROVE  Stream(t, l, w, x, h, a)
<1>0. Len(s) \in Nat /\ Len(t) \in Nat
  OBVIOUS
<1>1. FramesAnswer(t, l, w, h, a)
  <2>0. \A i \in 1 .. Len(t) : i \in 1 .. Len(s) /\ t[i] = s[i]
    BY <1>0
  <2> QED
    BY <2>0 DEF Stream, FramesAnswer
<1>2. Follows(t, l)
  <2>1. ASSUME NEW i \in 1 .. Len(t) - 1
        PROVE  /\ i \in 1 .. Len(s) - 1 /\ t[i] = s[i] /\ t[i + 1] = s[i + 1]
               /\ i + 2 <= Len(t) => i + 2 <= Len(s) /\ t[i + 2] = s[i + 2]
    BY <1>0
  <2> QED
    BY <2>1 DEF Stream, Follows
<1>3. Starts(t, l, w, x)
  BY <1>0 DEF Stream, Starts
<1> QED
  BY <1>1, <1>2, <1>3 DEF Stream

\* A call that was sent: nothing has come, everything is to come.
LEMMA StreamBegins ==
    ASSUME NEW l \in Seq(Request), Consecutive(l), NEW x, NEW h, NEW a
    PROVE  Stream(<<>>, l, FALSE, x, h, a) /\ Rest(<<>>, l, l, FALSE)
<1>1. Len(<<>>) = 0
  OBVIOUS
<1>2. FramesAnswer(<<>>, l, FALSE, h, a) /\ Follows(<<>>, l) /\ Starts(<<>>, l, FALSE, x)
  BY <1>1 DEF FramesAnswer, Follows, Starts
<1>3. Rest(<<>>, l, l, FALSE)
  BY <1>1 DEF Rest
<1> QED
  BY <1>2, <1>3 DEF Stream

\* Every frame on the way is older than the next answer.
LEMMA FramesAreOlder ==
    ASSUME NEW s \in Seq(Item), NEW q \in Seq(Request), NEW l \in Seq(Request), NEW w \in BOOLEAN,
           NEW x, NEW h, NEW a, Stream(s, l, w, x, h, a), Rest(s, q, l, w), Len(q) > 0
    PROVE  /\ q[1] = l[Len(l) - Len(q) + 1] /\ Len(l) - Len(q) + 1 \in 1 .. Len(l)
           /\ q[1].channel_id = l[1].channel_id + Len(l) - Len(q)
           /\ q[1].channel_id \in Nat /\ q[1].type = l[1].type
           /\ \A i \in 1 .. Len(s) : s[i].frame =>
                 s[i].channel_id \in Nat /\ s[i].channel_id < q[1].channel_id
           /\ w => q[1].channel_id > l[1].channel_id
<1>0. /\ Len(s) \in Nat /\ Len(l) \in Nat /\ Len(q) \in Nat /\ Len(q) <= Len(l) /\ Len(l) > 0
      /\ \A j \in 1 .. Len(l) : l[j] \in Request /\ l[j].channel_id \in Nat
  <2>1. \A j \in 1 .. Len(l) : l[j] \in Request
    OBVIOUS
  <2>2. \A r \in Request : r.channel_id \in Nat
    BY DEF Request
  <2>3. Len(q) <= Len(l) /\ Len(l) > 0
    BY DEF Rest, Stream, Consecutive
  <2> QED
    BY <2>1, <2>2, <2>3
<1>1. q[1] = l[Len(l) - Len(q) + 1] /\ Len(l) - Len(q) + 1 \in 1 .. Len(l)
  BY <1>0 DEF Rest
<1>2. /\ q[1].channel_id = l[1].channel_id + Len(l) - Len(q) /\ q[1].channel_id \in Nat
      /\ q[1].type = l[1].type
  BY <1>0, <1>1 DEF Stream, Consecutive
<1>3. ASSUME NEW i \in 1 .. Len(s), s[i].frame PROVE s[i].channel_id \in Nat
  BY <1>0, <1>3 DEF Stream, FramesAnswer, Answers
<1>4. ASSUME NEW i \in 1 .. Len(s), s[i].frame PROVE s[i].channel_id < q[1].channel_id
  <2> DEFINE n == Len(s)
  <2>1. CASE s[n].frame
    <3>1. s[n].channel_id + 1 = q[1].channel_id
      BY <1>0, <1>2, <2>1 DEF Rest
    <3>2. i = n \/ s[i].channel_id < s[n].channel_id
      BY <1>0, <1>4, <2>1 DEF Stream, FramesAnswer
    <3> QED
      BY <1>0, <1>2, <1>3, <1>4, <2>1, <3>1, <3>2
  <2>2. CASE ~s[n].frame
    <3>1. n # 1
      BY <1>4, <2>2
    <3>2. s[n - 1].channel_id + 1 = q[1].channel_id
      BY <1>0, <1>2, <2>2, <3>1 DEF Rest
    <3>3. n - 1 \in 1 .. n - 1 /\ n - 1 \in 1 .. n
      <4>1. n \in Nat /\ n >= 1
        BY <1>0
      <4> HIDE DEF n
      <4> QED
        BY <3>1, <4>1
    <3>4. Announces(s[n - 1], l)
      <4>1. ~s[(n - 1) + 1].frame
        BY <1>0, <2>2
      <4> QED
        BY <3>3, <4>1 DEF Stream, Follows
    <3>5. s[n - 1].frame
      BY <3>4 DEF Announces
    <3>6. i = n - 1 \/ s[i].channel_id < s[n - 1].channel_id
      BY <1>0, <1>4, <2>2, <3>3, <3>5 DEF Stream, FramesAnswer
    <3> QED
      BY <1>2, <1>3, <1>4, <3>2, <3>3, <3>5, <3>6
  <2> QED
    BY <2>1, <2>2
<1>5. w => q[1].channel_id > l[1].channel_id
  <2>1. SUFFICES ASSUME w PROVE q[1].channel_id > l[1].channel_id
    OBVIOUS
  <2>2. Len(s) > 0 /\ ~s[1].frame /\ (Len(s) > 1 => s[2].frame)
    BY <1>0, <2>1 DEF Rest, Stream, Starts
  <2>3. CASE Len(s) = 1
    BY <1>0, <1>2, <2>2, <2>3 DEF Rest
  <2>4. CASE Len(s) > 1
    <3>1. s[2].channel_id > l[1].channel_id /\ 2 \in 1 .. Len(s)
      BY <1>0, <2>1, <2>2, <2>4 DEF Stream, FramesAnswer
    <3>2. s[2].channel_id \in Nat /\ s[2].channel_id < q[1].channel_id
      BY <1>3, <1>4, <2>2, <2>4, <3>1
    <3> QED
      BY <1>0, <1>2, <3>1, <3>2
  <2>5. Len(s) = 1 \/ Len(s) > 1
    <3>1. PICK n \in Nat : n = Len(s)
      BY <1>0
    <3>2. n > 0
      BY <2>2, <3>1
    <3>3. n = 1 \/ n > 1
      BY <3>2
    <3> QED
      BY <3>1, <3>3
  <2> QED
    BY <2>3, <2>4, <2>5
<1> QED
  BY <1>1, <1>2, <1>3, <1>4, <1>5

\* t is s with y behind it.
Longer(t, s, y) ==
    /\ t \in Seq(Item) /\ Len(t) = Len(s) + 1 /\ t[Len(s) + 1] = y
    /\ \A i \in 1 .. Len(s) : t[i] = s[i]

LEMMA Lengthens ==
    ASSUME NEW s \in Seq(Item), NEW y \in Item
    PROVE  Longer(s \o <<y>>, s, y)
<1>1. <<y>> \in Seq(Item) /\ Len(<<y>>) = 1 /\ <<y>>[1] = y
  OBVIOUS
<1>2. /\ s \o <<y>> \in Seq(Item) /\ Len(s \o <<y>>) = Len(s) + 1
      /\ \A i \in 1 .. Len(s) + 1 : (s \o <<y>>)[i] = IF i <= Len(s) THEN s[i] ELSE <<y>>[i - Len(s)]
  BY <1>1, ConcatProperties
<1>3. Len(s) + 1 \in 1 .. Len(s) + 1 /\ (Len(s) + 1) - Len(s) = 1 /\ ~(Len(s) + 1 <= Len(s))
  OBVIOUS
<1> QED
  BY <1>1, <1>2, <1>3 DEF Longer

\* The server writes the frame that answers the next request,
LEMMA FrameIsWritten ==
    ASSUME NEW s \in Seq(Item), NEW q \in Seq(Request), NEW l \in Seq(Request), NEW w \in BOOLEAN,
           NEW x, NEW h, NEW a, Stream(s, l, w, x, h, a), Rest(s, q, l, w), Len(q) > 0,
           NEW y \in Item, y.frame, Answers(y, q[1], h, a), NEW t, Longer(t, s, y)
    PROVE  Stream(t, l, w, x, h, a)
<1>n. PICK n \in Nat : n = Len(s)
  OBVIOUS
<1>0. /\ n \in Nat /\ n = Len(s) /\ t \in Seq(Item) /\ Len(t) = n + 1 /\ t[n + 1] = y
      /\ \A i \in 1 .. n : t[i] = s[i]
  BY <1>n DEF Longer
<1>1. /\ q[1] = l[Len(l) - Len(q) + 1] /\ Len(l) - Len(q) + 1 \in 1 .. Len(l)
      /\ q[1].channel_id = l[1].channel_id + Len(l) - Len(q)
      /\ q[1].channel_id \in Nat /\ y.channel_id = q[1].channel_id
      /\ \A i \in 1 .. n : s[i].frame =>
            s[i].channel_id \in Nat /\ s[i].channel_id < q[1].channel_id
      /\ w => q[1].channel_id > l[1].channel_id
  BY <1>0, FramesAreOlder DEF Answers
<1>2. /\ n = 0 => ~w /\ Len(q) = Len(l)
      /\ n > 0 => /\ ~Announces(s[n], l)
                  /\ s[n].frame => s[n].channel_id + 1 = y.channel_id
                  /\ ~s[n].frame /\ n = 1 => l[1].channel_id + 1 = y.channel_id
                  /\ ~s[n].frame /\ n # 1 => s[n - 1].channel_id + 1 = y.channel_id
  BY <1>0, <1>1 DEF Rest
<1>3. FramesAnswer(t, l, w, h, a)
  <2>1. \A i \in 1 .. n + 1 : (i \in 1 .. n /\ t[i] = s[i]) \/ (i = n + 1 /\ t[i] = y)
    BY <1>0
  <2>2. \E j \in 1 .. Len(l) : Answers(y, l[j], h, a)
    BY <1>1
  <2>3. ASSUME NEW i \in 1 .. n + 1, t[i].frame
        PROVE  /\ \E j \in 1 .. Len(l) : Answers(t[i], l[j], h, a)
               /\ w => t[i].channel_id > l[1].channel_id
    BY <1>0, <1>1, <2>1, <2>2, <2>3 DEF Stream, FramesAnswer
  <2>4. ASSUME NEW i \in 1 .. n + 1, NEW j \in 1 .. n + 1, i < j, t[i].frame, t[j].frame
        PROVE  t[i].channel_id < t[j].channel_id
    <3>1. CASE j \in 1 .. n
      <4>1. i \in 1 .. n /\ t[i] = s[i] /\ t[j] = s[j]
        BY <1>0, <2>4, <3>1
      <4> QED
        BY <1>0, <2>4, <3>1, <4>1 DEF Stream, FramesAnswer
    <3>2. CASE j = n + 1
      <4>1. i \in 1 .. n /\ t[i] = s[i] /\ t[j] = y
        BY <1>0, <2>4, <3>2
      <4> QED
        BY <1>1, <2>4, <4>1
    <3> QED
      BY <1>0, <3>1, <3>2
  <2> QED
    BY <1>0, <2>3, <2>4 DEF FramesAnswer
<1>4. ASSUME NEW i \in 1 .. n
      PROVE  IF Announces(t[i], l)
             THEN /\ ~t[i + 1].frame /\ t[i + 1].data = t[i].hash
                  /\ i + 2 <= n + 1 => t[i + 2].frame /\ t[i + 2].channel_id = t[i].channel_id + 1
             ELSE /\ t[i + 1].frame
                  /\ t[i].frame => t[i + 1].channel_id = t[i].channel_id + 1
  <2>1. CASE i = n
    BY <1>0, <1>2, <2>1
  <2>2. CASE i < n
    <3>1. i \in 1 .. n - 1 /\ t[i] = s[i] /\ t[i + 1] = s[i + 1]
      BY <1>0, <2>2
    <3>2. IF Announces(s[i], l)
          THEN /\ ~s[i + 1].frame /\ s[i + 1].data = s[i].hash
               /\ i + 2 <= n => s[i + 2].frame /\ s[i + 2].channel_id = s[i].channel_id + 1
          ELSE /\ s[i + 1].frame
               /\ s[i].frame => s[i + 1].channel_id = s[i].channel_id + 1
      BY <1>0, <3>1 DEF Stream, Follows
    <3>3. i + 2 <= n => t[i + 2] = s[i + 2]
      BY <1>0
    <3>4. ASSUME Announces(s[i], l), i + 2 = n + 1
          PROVE  t[i + 2].frame /\ t[i + 2].channel_id = t[i].channel_id + 1
      <4>1. n = i + 1 /\ n # 1 /\ n > 0 /\ n - 1 = i
        BY <1>0, <3>4
      <4>2. ~s[n].frame
        BY <3>2, <3>4, <4>1
      <4>3. s[i].channel_id + 1 = y.channel_id
        BY <1>2, <4>1, <4>2
      <4>4. t[i + 2] = y
        BY <1>0, <3>4
      <4> QED
        BY <3>1, <4>3, <4>4
    <3>5. i + 2 <= n + 1 => i + 2 <= n \/ i + 2 = n + 1
      BY <1>0
    <3> QED
      BY <3>1, <3>2, <3>3, <3>4, <3>5
  <2> QED
    BY <1>0, <2>1, <2>2
<1>5. Follows(t, l)
  <2>1. Len(t) - 1 = n /\ Len(t) = n + 1
    BY <1>0
  <2> QED
    BY <1>4, <2>1 DEF Follows
<1>6. Starts(t, l, w, x)
  <2>1. CASE n = 0
    BY <1>0, <1>1, <1>2, <2>1 DEF Starts
  <2>2. CASE n = 1
    BY <1>0, <1>2, <2>2 DEF Starts, Stream
  <2>3. CASE n > 1
    BY <1>0, <2>3 DEF Starts, Stream
  <2> QED
    BY <1>0, <2>1, <2>2, <2>3
<1> QED
  BY <1>3, <1>5, <1>6 DEF Stream

\* and behind it the payload that it announces.
LEMMA PayloadIsWritten ==
    ASSUME NEW s \in Seq(Item), NEW l \in Seq(Request), NEW w \in BOOLEAN,
           NEW x, NEW h, NEW a, Stream(s, l, w, x, h, a), Len(s) > 0, Announces(s[Len(s)], l),
           NEW y \in Item, ~y.frame, y.data = s[Len(s)].hash, NEW t, Longer(t, s, y)
    PROVE  Stream(t, l, w, x, h, a)
<1>n. PICK n \in Nat : n = Len(s)
  OBVIOUS
<1>0. /\ n \in Nat /\ n = Len(s) /\ n > 0 /\ t \in Seq(Item) /\ Len(t) = n + 1 /\ t[n + 1] = y
      /\ \A i \in 1 .. n : t[i] = s[i]
  BY <1>n DEF Longer
<1>1. s[n].frame
  BY <1>0 DEF Announces
<1>2. FramesAnswer(t, l, w, h, a)
  <2>1. ASSUME NEW i \in 1 .. n + 1, t[i].frame PROVE i \in 1 .. n /\ t[i] = s[i]
    BY <1>0, <2>1
  <2> QED
    BY <1>0, <2>1 DEF FramesAnswer, Stream
<1>3. ASSUME NEW i \in 1 .. n
      PROVE  IF Announces(t[i], l)
             THEN /\ ~t[i + 1].frame /\ t[i + 1].data = t[i].hash
                  /\ i + 2 <= n + 1 => t[i + 2].frame /\ t[i + 2].channel_id = t[i].channel_id + 1
             ELSE /\ t[i + 1].frame
                  /\ t[i].frame => t[i + 1].channel_id = t[i].channel_id + 1
  <2>1. CASE i = n
    BY <1>0, <2>1
  <2>2. CASE i < n
    <3>1. i \in 1 .. n - 1 /\ t[i] = s[i] /\ t[i + 1] = s[i + 1]
      BY <1>0, <2>2
    <3>2. IF Announces(s[i], l)
          THEN /\ ~s[i + 1].frame /\ s[i + 1].data = s[i].hash
               /\ i + 2 <= n => s[i + 2].frame /\ s[i + 2].channel_id = s[i].channel_id + 1
          ELSE /\ s[i + 1].frame
               /\ s[i].frame => s[i + 1].channel_id = s[i].channel_id + 1
      BY <1>0, <3>1 DEF Stream, Follows
    <3>3. i + 2 <= n => t[i + 2] = s[i + 2]
      BY <1>0
    <3>4. Announces(s[i], l) => i + 1 # n
      BY <1>1, <3>2
    <3>5. i + 2 <= n + 1 => i + 2 <= n \/ i + 1 = n
      BY <1>0
    <3> QED
      BY <3>1, <3>2, <3>3, <3>4, <3>5
  <2> QED
    BY <1>0, <2>1, <2>2
<1>4. Follows(t, l)
  <2>1. Len(t) - 1 = n /\ Len(t) = n + 1
    BY <1>0
  <2> QED
    BY <1>3, <2>1 DEF Follows
<1>5. Starts(t, l, w, x)
  <2>1. CASE n = 1
    BY <1>0, <1>1, <2>1 DEF Starts, Stream
  <2>2. CASE n > 1
    BY <1>0, <2>2 DEF Starts, Stream
  <2> QED
    BY <1>0, <2>1, <2>2
<1> QED
  BY <1>2, <1>4, <1>5 DEF Stream

\* The rest becomes shorter with each request that is answered.
LEMMA RestShrinks ==
    ASSUME NEW s \in Seq(Item), NEW q \in Seq(Request), NEW l \in Seq(Request), NEW w \in BOOLEAN,
           NEW x, NEW h, NEW a, Stream(s, l, w, x, h, a), Rest(s, q, l, w), Len(q) > 0,
           NEW t \in Seq(Item), NEW n \in Nat, n > 0, Len(t) = n, ~Announces(t[n], l),
           \/ t[n].frame /\ t[n].channel_id = q[1].channel_id
           \/ n > 1 /\ ~t[n].frame /\ t[n - 1].channel_id = q[1].channel_id
    PROVE  Rest(t, Tail(q), l, w)
<1>1. /\ q[1].channel_id = l[1].channel_id + Len(l) - Len(q) /\ q[1].channel_id \in Nat
      /\ Len(l) - Len(q) + 1 \in 1 .. Len(l)
  BY FramesAreOlder
<1>2. PICK m \in Nat : m + 1 = Len(q)
  BY LenFromOne
<1>3. Tail(q) \in Seq(Request) /\ Len(Tail(q)) = m /\ \A i \in 1 .. m : Tail(q)[i] = q[i + 1]
  BY <1>2, TailParts
<1>4. PICK k \in Nat : k = Len(l)
  OBVIOUS
<1>5. l[1].channel_id \in Nat
  <2>1. Len(l) > 0
    BY DEF Stream, Consecutive
  <2> QED
    BY <2>1, RequestsParts
<1>6. q[1].channel_id + 1 = l[1].channel_id + k - m
  <2>1. q[1].channel_id = l[1].channel_id + k - (m + 1)
    BY <1>1, <1>2, <1>4
  <2>2. PICK b \in Nat : b = l[1].channel_id
    BY <1>5
  <2>3. (b + k - (m + 1)) + 1 = b + k - m
    OBVIOUS
  <2> QED
    BY <2>1, <2>2, <2>3
<1>7. m <= k
  BY <1>1, <1>2, <1>4
<1>8. \A i \in 1 .. m : q[i + 1] = l[k - m + i]
  <2>1. \A i \in 1 .. m + 1 : q[i] = l[k - (m + 1) + i]
    BY <1>2, <1>4 DEF Rest
  <2>2. \A i \in 1 .. m : i + 1 \in 1 .. m + 1 /\ k - (m + 1) + (i + 1) = k - m + i
    OBVIOUS
  <2> QED
    BY <2>1, <2>2
<1>9. n # 0
  OBVIOUS
<1> QED
  BY <1>3, <1>4, <1>6, <1>7, <1>8, <1>9 DEF Rest

-----------------------------------------------------------------------------
\* With one request left, its answer is all there is,
LEMMA LastAnswer ==
    ASSUME NEW s \in Seq(Item), NEW q \in Seq(Request), NEW l \in Seq(Request), NEW w \in BOOLEAN,
           NEW x, NEW h, NEW a, Stream(s, l, w, x, h, a), Len(l) = 1, Len(s) > 0,
           w \/ ~Announces(s[1], l)
    PROVE  Len(s) = 1 /\ (Rest(s, q, l, w) => Len(q) = 0)
<1>0. PICK n \in Nat : n = Len(s) /\ n > 0
  OBVIOUS
<1>1. l[1] \in Request /\ l[1].channel_id \in Nat
  <2>1. 1 \in 1 .. Len(l)
    OBVIOUS
  <2> QED
    BY <2>1, RequestsParts
<1>2. ASSUME NEW i \in 1 .. n, s[i].frame PROVE s[i].channel_id = l[1].channel_id
  <2>1. PICK j \in 1 .. Len(l) : Answers(s[i], l[j], h, a)
    BY <1>0, <1>2 DEF Stream, FramesAnswer
  <2>2. j = 1
    OBVIOUS
  <2> QED
    BY <2>1, <2>2 DEF Answers
<1>3. n = 1
  <2>1. SUFFICES ASSUME n > 1 PROVE FALSE
    BY <1>0
  <2>2. CASE w
    <3>1. s[2].frame /\ s[2].channel_id = l[1].channel_id + 1
      BY <1>0, <2>1, <2>2 DEF Stream, Starts
    <3> QED
      BY <1>1, <1>2, <2>1, <3>1
  <2>3. CASE ~w
    <3>1. s[1].frame /\ ~Announces(s[1], l) /\ 1 \in 1 .. Len(s) - 1
      BY <1>0, <2>1, <2>3 DEF Stream, Starts
    <3>2. s[1 + 1].frame /\ s[1 + 1].channel_id = s[1].channel_id + 1
      BY <3>1 DEF Stream, Follows
    <3>3. s[1].channel_id = l[1].channel_id /\ s[1 + 1].channel_id = l[1].channel_id
      BY <1>2, <2>1, <3>1, <3>2
    <3> QED
      BY <1>1, <3>2, <3>3
  <2> QED
    BY <2>2, <2>3
<1>4. ASSUME Rest(s, q, l, w) PROVE Len(q) = 0
  <2>1. PICK m \in Nat : m = Len(q)
    OBVIOUS
  <2>2. \/ s[1].frame /\ s[1].channel_id + 1 = l[1].channel_id + 1 - m
        \/ l[1].channel_id + 1 = l[1].channel_id + 1 - m
    BY <1>0, <1>3, <1>4, <2>1 DEF Rest
  <2>3. l[1].channel_id + 1 = l[1].channel_id + 1 - m
    BY <1>2, <1>3, <2>2
  <2> QED
    BY <1>1, <2>1, <2>3
<1> QED
  BY <1>0, <1>3, <1>4

\* What follows what does not depend on what was read before.
LEMMA FollowsTail ==
    ASSUME NEW s \in Seq(Item), Len(s) > 0, NEW l, NEW m, l[1].type = m[1].type, Follows(s, l)
    PROVE  Follows(Tail(s), m)
<1> DEFINE t == Tail(s)
<1>0. PICK n \in Nat : n + 1 = Len(s)
  BY LenFromOne
<1>1. t \in Seq(Item) /\ Len(t) = n /\ \A i \in 1 .. n : t[i] = s[i + 1]
  BY <1>0, TailParts
<1> HIDE DEF t
<1>2. ASSUME NEW i \in 1 .. n - 1
      PROVE  /\ i + 1 \in 1 .. Len(s) - 1 /\ t[i] = s[i + 1] /\ t[i + 1] = s[(i + 1) + 1]
             /\ i + 2 <= n => (i + 1) + 2 <= Len(s) /\ t[i + 2] = s[(i + 1) + 2]
  <2>1. i + 1 \in 1 .. n /\ (i + 2 <= n => i + 2 \in 1 .. n) /\ (i + 2) + 1 = (i + 1) + 2
    OBVIOUS
  <2> QED
    BY <1>0, <1>1, <2>1
<1>3. ASSUME NEW i \in 1 .. n - 1
      PROVE  IF Announces(s[i + 1], m)
             THEN /\ ~s[(i + 1) + 1].frame /\ s[(i + 1) + 1].data = s[i + 1].hash
                  /\ (i + 1) + 2 <= Len(s) => /\ s[(i + 1) + 2].frame
                                              /\ s[(i + 1) + 2].channel_id = s[i + 1].channel_id + 1
             ELSE /\ s[(i + 1) + 1].frame
                  /\ s[i + 1].frame => s[(i + 1) + 1].channel_id = s[i + 1].channel_id + 1
  <2>1. PICK k \in 1 .. Len(s) - 1 : k = i + 1
    BY <1>2
  <2>2. Announces(s[k], m) <=> Announces(s[k], l)
    BY DEF Announces
  <2> QED
    BY <2>1, <2>2 DEF Follows
<1> QED
  BY <1>1, <1>2, <1>3 DEF Follows, t

\* A frame that announces a payload is read: the payload is next.
LEMMA FrameIsRead ==
    ASSUME NEW s \in Seq(Item), NEW q \in Seq(Request), NEW l \in Seq(Request),
           NEW x, NEW h, NEW a, Stream(s, l, FALSE, x, h, a), Len(s) > 0, Announces(s[1], l)
    PROVE  /\ Stream(Tail(s), l, TRUE, s[1], h, a)
           /\ Rest(s, q, l, FALSE) => Rest(Tail(s), q, l, TRUE)
<1> DEFINE t == Tail(s)
<1>0. PICK n \in Nat : n + 1 = Len(s)
  BY LenFromOne
<1>1. t \in Seq(Item) /\ Len(t) = n /\ \A i \in 1 .. n : t[i] = s[i + 1]
  BY <1>0, TailParts
<1> HIDE DEF t
<1>2. /\ Len(l) > 0 /\ l[1] \in Request /\ l[1].channel_id \in Nat
      /\ s[1].frame /\ s[1].channel_id = l[1].channel_id
  BY RequestsParts DEF Stream, Consecutive, Starts
<1>3. Answers(s[1], l[1], h, a)
  <2>1. PICK j \in 1 .. Len(l) : Answers(s[1], l[j], h, a)
    BY <1>0, <1>2 DEF Stream, FramesAnswer
  <2>2. l[j].channel_id = l[1].channel_id + j - 1
    BY DEF Stream, Consecutive
  <2>3. j = 1
    BY <1>2, <2>1, <2>2 DEF Answers
  <2> QED
    BY <2>1, <2>3
<1>4. FramesAnswer(t, l, TRUE, h, a)
  <2>1. ASSUME NEW i \in 1 .. n PROVE t[i] = s[i + 1] /\ i + 1 \in 1 .. Len(s) /\ 1 \in 1 .. Len(s)
    BY <1>0, <1>1
  <2>2. ASSUME NEW i \in 1 .. n, t[i].frame
        PROVE  /\ \E j \in 1 .. Len(l) : Answers(t[i], l[j], h, a)
               /\ t[i].channel_id > l[1].channel_id
    <3>1. \E j \in 1 .. Len(l) : Answers(t[i], l[j], h, a)
      BY <2>1, <2>2 DEF Stream, FramesAnswer
    <3>2. s[1].channel_id < s[i + 1].channel_id
      BY <1>2, <2>1, <2>2 DEF Stream, FramesAnswer
    <3>3. t[i].channel_id \in Nat
      BY <3>1, RequestsParts DEF Answers
    <3> QED
      BY <1>2, <2>1, <3>1, <3>2, <3>3
  <2>3. ASSUME NEW i \in 1 .. n, NEW j \in 1 .. n, i < j, t[i].frame, t[j].frame
        PROVE  t[i].channel_id < t[j].channel_id
    <3>1. i + 1 < j + 1
      BY <2>3
    <3> QED
      BY <2>1, <2>3, <3>1 DEF Stream, FramesAnswer
  <2> QED
    BY <1>1, <2>2, <2>3 DEF FramesAnswer
<1>5. Follows(t, l)
  BY FollowsTail DEF Stream, t
<1>6. Starts(t, l, TRUE, s[1])
  <2>1. SUFFICES ASSUME n > 0
        PROVE  /\ ~t[1].frame /\ t[1].data = s[1].hash
               /\ n > 1 => t[2].frame /\ t[2].channel_id = l[1].channel_id + 1
    BY <1>1 DEF Starts
  <2>2. 1 \in 1 .. Len(s) - 1 /\ t[1] = s[1 + 1] /\ (n > 1 => 1 + 2 <= Len(s) /\ t[2] = s[1 + 2])
    BY <1>0, <1>1, <2>1
  <2> QED
    BY <1>2, <2>2 DEF Stream, Follows
<1>7. ASSUME Rest(s, q, l, FALSE) PROVE Rest(t, q, l, TRUE)
  <2>1. n # 0
    BY <1>0, <1>7 DEF Rest
  <2>2. t[n] = s[n + 1] /\ (n # 1 => t[n - 1] = s[n]) /\ n + 1 # 1 /\ (n + 1) - 1 = n /\ Len(s) # 0
    <3>1. n \in 1 .. n /\ (n # 1 => n - 1 \in 1 .. n) /\ (n - 1) + 1 = n
      BY <2>1
    <3> QED
      BY <1>0, <1>1, <2>1, <3>1
  <2>3. s[n + 1].frame \/ n # 1 \/ s[n].channel_id = l[1].channel_id
    BY <1>2
  <2> QED
    BY <1>0, <1>1, <1>2, <1>7, <2>1, <2>2 DEF Rest
<1> QED
  BY <1>3, <1>4, <1>5, <1>6, <1>7 DEF Stream, t

\* The payload is read: the answer to the next request is next.
LEMMA PayloadIsRead ==
    ASSUME NEW s \in Seq(Item), NEW q \in Seq(Request), NEW l \in Seq(Request),
           NEW x, NEW y, NEW h, NEW a, Stream(s, l, TRUE, x, h, a), Len(s) > 0, Len(l) > 1
    PROVE  /\ Stream(Tail(s), Tail(l), FALSE, y, h, a)
           /\ Rest(s, q, l, TRUE) => Rest(Tail(s), q, Tail(l), FALSE)
<1> DEFINE t == Tail(s)
           m == Tail(l)
<1>0. PICK n \in Nat : n + 1 = Len(s)
  BY LenFromOne
<1>1. t \in Seq(Item) /\ Len(t) = n /\ \A i \in 1 .. n : t[i] = s[i + 1]
  BY <1>0, TailParts
<1>2. PICK k \in Nat : k + 1 = Len(l)
  BY LenFromOne
<1>3. m \in Seq(Request) /\ Len(m) = k /\ (\A i \in 1 .. k : m[i] = l[i + 1]) /\ k > 0
  BY <1>2, TailParts
<1>4. /\ \A j \in 1 .. k + 1 : /\ l[j] \in Request /\ l[j].channel_id \in Nat
                               /\ l[j].channel_id = l[1].channel_id + j - 1 /\ l[j].type = l[1].type
      /\ l[1].channel_id \in Nat
  <2>1. \A j \in 1 .. k + 1 : l[j] \in Request /\ l[j].channel_id \in Nat
    BY <1>2, RequestsParts
  <2>2. \A j \in 1 .. k + 1 : l[j].channel_id = l[1].channel_id + j - 1 /\ l[j].type = l[1].type
    BY <1>2 DEF Stream, Consecutive
  <2>3. 1 \in 1 .. k + 1
    OBVIOUS
  <2> QED
    BY <2>1, <2>2, <2>3
<1>5. m[1] = l[2] /\ m[1].type = l[1].type /\ m[1].channel_id = l[1].channel_id + 1
  <2>1. m[1] = l[1 + 1] /\ 2 \in 1 .. k + 1 /\ 1 + 1 = 2
    BY <1>3
  <2> HIDE DEF m
  <2>2. l[2].channel_id = l[1].channel_id + 2 - 1 /\ l[2].type = l[1].type
    BY <1>4, <2>1
  <2> QED
    BY <1>4, <2>1, <2>2
<1>6. ~s[1].frame /\ (n > 0 => s[2].frame /\ s[2].channel_id = l[1].channel_id + 1)
  BY <1>0 DEF Stream, Starts
<1>7. Follows(t, m)
  BY <1>5, FollowsTail DEF Stream
<1> HIDE DEF t, m
<1>8. Consecutive(m)
  <2>1. ASSUME NEW i \in 1 .. k
        PROVE  m[i].channel_id = m[1].channel_id + i - 1 /\ m[i].type = m[1].type
    <3>1. i + 1 \in 1 .. k + 1 /\ m[i] = l[i + 1]
      BY <1>3
    <3>2. l[i + 1].channel_id = l[1].channel_id + (i + 1) - 1 /\ l[i + 1].type = l[1].type
      BY <1>4, <3>1
    <3> QED
      BY <1>4, <1>5, <3>1, <3>2
  <2> QED
    BY <1>3, <2>1 DEF Consecutive
<1>9. FramesAnswer(t, m, FALSE, h, a)
  <2>1. ASSUME NEW i \in 1 .. n PROVE t[i] = s[i + 1] /\ i + 1 \in 1 .. Len(s)
    BY <1>0, <1>1
  <2>2. ASSUME NEW i \in 1 .. n, t[i].frame PROVE \E j \in 1 .. k : Answers(t[i], m[j], h, a)
    <3>1. s[i + 1].channel_id > l[1].channel_id
      BY <2>1, <2>2 DEF Stream, FramesAnswer
    <3>2. PICK j \in 1 .. k + 1 : Answers(t[i], l[j], h, a)
      BY <1>2, <2>1, <2>2 DEF Stream, FramesAnswer
    <3>3. j # 1
      BY <1>4, <2>1, <3>1, <3>2 DEF Answers
    <3>4. j - 1 \in 1 .. k /\ (j - 1) + 1 = j
      BY <3>3
    <3>5. m[j - 1] = l[j]
      BY <1>3, <3>4
    <3> QED
      BY <3>2, <3>4, <3>5
  <2>3. ASSUME NEW i \in 1 .. n, NEW j \in 1 .. n, i < j, t[i].frame, t[j].frame
        PROVE  t[i].channel_id < t[j].channel_id
    <3>1. i + 1 < j + 1
      BY <2>3
    <3> QED
      BY <2>1, <2>3, <3>1 DEF Stream, FramesAnswer
  <2> QED
    BY <1>1, <1>3, <2>2, <2>3 DEF FramesAnswer
<1>10. Starts(t, m, FALSE, y)
  <2>1. n > 0 => t[1] = s[2]
    BY <1>1
  <2> QED
    BY <1>1, <1>5, <1>6, <2>1 DEF Starts
<1>11. ASSUME Rest(s, q, l, TRUE) PROVE Rest(t, q, m, FALSE)
  <2>0. PICK o \in Nat : o = Len(q)
    OBVIOUS
  <2>1. /\ o <= k + 1 /\ \A i \in 1 .. o : q[i] = l[(k + 1) - o + i]
    BY <1>2, <1>11, <2>0 DEF Rest
  <2>2. PICK b \in Nat : b = l[1].channel_id
    BY <1>4
  <2>3. /\ ~Announces(s[n + 1], l)
        /\ s[n + 1].frame => s[n + 1].channel_id + 1 = b + (k + 1) - o
        /\ ~s[n + 1].frame /\ n = 0 => b + 1 = b + (k + 1) - o
        /\ ~s[n + 1].frame /\ n # 0 => s[n].channel_id + 1 = b + (k + 1) - o
    <3>1. n + 1 # 0 /\ (n + 1 = 1 <=> n = 0) /\ (n + 1) - 1 = n
      OBVIOUS
    <3> QED
      BY <1>0, <1>2, <1>11, <2>0, <2>2, <3>1 DEF Rest
  <2>4. o <= k
    <3>1. CASE n = 0
      BY <1>6, <2>3, <3>1
    <3>2. CASE n # 0
      <4>1. SUFFICES ASSUME o > 0 PROVE o <= k
        OBVIOUS
      <4>2. q[1].channel_id = l[1].channel_id + Len(l) - Len(q) /\ q[1].channel_id > l[1].channel_id
        BY <1>11, <2>0, <4>1, FramesAreOlder
      <4> QED
        BY <1>2, <2>0, <2>2, <4>2
    <3> QED
      BY <3>1, <3>2
  <2>5. \A i \in 1 .. o : q[i] = m[k - o + i]
    <3>1. \A i \in 1 .. o : k - o + i \in 1 .. k /\ (k - o + i) + 1 = (k + 1) - o + i
      BY <2>4
    <3> QED
      BY <1>3, <2>1, <3>1
  <2>6. m[1].channel_id + k - o = b + (k + 1) - o
    <3>1. m[1].channel_id = b + 1
      BY <1>5, <2>2
    <3>2. (b + 1) + k - o = b + (k + 1) - o
      OBVIOUS
    <3> QED
      BY <3>1, <3>2
  <2>7. CASE n = 0
    <3>1. o = k
      BY <1>6, <2>3, <2>7
    <3> QED
      BY <1>1, <1>3, <2>0, <2>4, <2>5, <2>7, <3>1 DEF Rest
  <2>8. CASE n # 0
    <3>1. t[n] = s[n + 1] /\ (n # 1 => t[n - 1] = s[n])
      <4>1. n \in 1 .. n /\ (n # 1 => n - 1 \in 1 .. n /\ (n - 1) + 1 = n)
        BY <2>8
      <4> QED
        BY <1>1, <4>1
    <3>2. n = 1 => t[n].frame
      BY <1>6, <3>1
    <3>3. ~Announces(t[n], m)
      BY <1>5, <2>3, <3>1 DEF Announces
    <3>4. /\ t[n].frame => t[n].channel_id + 1 = m[1].channel_id + k - o
          /\ ~t[n].frame => n # 1 /\ t[n - 1].channel_id + 1 = m[1].channel_id + k - o
      BY <2>3, <2>6, <2>8, <3>1, <3>2
    <3> QED
      BY <1>1, <1>3, <2>0, <2>4, <2>5, <2>8, <3>3, <3>4 DEF Rest
  <2> QED
    BY <2>7, <2>8
<1> QED
  BY <1>7, <1>8, <1>9, <1>10, <1>11 DEF Stream, t, m

LEMMA LengthensTwice ==
    ASSUME NEW s \in Seq(Item), NEW y \in Item, NEW z \in Item
    PROVE  Longer(s \o <<y, z>>, s \o <<y>>, z)
<1> DEFINE u == <<y, z>>
           n == Len(s)
<1>1. u \in Seq(Item) /\ Len(u) = 2 /\ u[1] = y /\ u[2] = z
  OBVIOUS
<1> HIDE DEF u
<1>2. /\ s \o u \in Seq(Item) /\ Len(s \o u) = n + 2
      /\ \A i \in 1 .. n + 2 : (s \o u)[i] = IF i <= n THEN s[i] ELSE u[i - n]
  <2>1. /\ s \o u \in Seq(Item) /\ Len(s \o u) = n + Len(u)
        /\ \A i \in 1 .. n + Len(u) : (s \o u)[i] = IF i <= n THEN s[i] ELSE u[i - n]
    BY <1>1, ConcatProperties
  <2> QED
    BY <1>1, <2>1
<1>3. Longer(s \o <<y>>, s, y)
  BY Lengthens
<1>4. PICK m \in Nat : m = n
  OBVIOUS
<1> HIDE DEF n
<1>5. /\ Len(s \o <<y>>) = m + 1 /\ (s \o <<y>>)[m + 1] = y
      /\ \A i \in 1 .. m : (s \o <<y>>)[i] = s[i]
  BY <1>3, <1>4 DEF Longer, n
<1>6. (s \o u)[m + 2] = z /\ (s \o u)[m + 1] = y /\ \A i \in 1 .. m : (s \o u)[i] = s[i]
  <2>1. /\ m + 2 \in 1 .. m + 2 /\ m + 1 \in 1 .. m + 2 /\ ~(m + 2 <= m) /\ ~(m + 1 <= m)
        /\ (m + 2) - m = 2 /\ (m + 1) - m = 1
        /\ \A i \in 1 .. m : i \in 1 .. m + 2 /\ i <= m
    OBVIOUS
  <2> QED
    BY <1>1, <1>2, <1>4, <2>1
<1>7. \A i \in 1 .. m + 1 : i \in 1 .. m \/ i = m + 1
  OBVIOUS
<1>8. \A i \in 1 .. m + 1 : (s \o u)[i] = (s \o <<y>>)[i]
  BY <1>5, <1>6, <1>7
<1>9. (m + 1) + 1 = m + 2
  OBVIOUS
<1> QED
  BY <1>2, <1>4, <1>5, <1>6, <1>8, <1>9 DEF Longer, u

-----------------------------------------------------------------------------
(***************************************************************************)
(* The server.                                                             *)
(***************************************************************************)
LEMMA OneIsWritten ==
    ASSUME NEW s \in Seq(Item), NEW q \in Seq(Request), NEW l \in Seq(Request), NEW w \in BOOLEAN,
           NEW x, NEW h, NEW a, Stream(s, l, w, x, h, a), Rest(s, q, l, w), Len(q) > 0,
           NEW y \in Item, y.frame, Answers(y, q[1], h, a), ~Announces(y, l)
    PROVE  Stream(s \o <<y>>, l, w, x, h, a) /\ Rest(s \o <<y>>, Tail(q), l, w)
<1> DEFINE t == s \o <<y>>
<1>1. Longer(t, s, y)
  BY Lengthens
<1> HIDE DEF t
<1>2. Stream(t, l, w, x, h, a)
  BY <1>1, FrameIsWritten
<1>3. PICK n \in Nat : n = Len(s) + 1
  OBVIOUS
<1>4. t \in Seq(Item) /\ n > 0 /\ Len(t) = n /\ t[n] = y
  BY <1>1, <1>3 DEF Longer
<1>5. y.channel_id = q[1].channel_id
  BY DEF Answers
<1>6. Rest(t, Tail(q), l, w)
  BY <1>4, <1>5, RestShrinks
<1> QED
  BY <1>2, <1>6 DEF t

LEMMA TwoAreWritten ==
    ASSUME NEW s \in Seq(Item), NEW q \in Seq(Request), NEW l \in Seq(Request), NEW w \in BOOLEAN,
           NEW x, NEW h, NEW a, Stream(s, l, w, x, h, a), Rest(s, q, l, w), Len(q) > 0,
           NEW y \in Item, y.frame, Answers(y, q[1], h, a), Announces(y, l),
           NEW z \in Item, ~z.frame, z.data = y.hash
    PROVE  Stream(s \o <<y, z>>, l, w, x, h, a) /\ Rest(s \o <<y, z>>, Tail(q), l, w)
<1> DEFINE t == s \o <<y>>
           u == s \o <<y, z>>
<1>1. Longer(t, s, y) /\ Longer(u, t, z)
  BY Lengthens, LengthensTwice
<1> HIDE DEF t, u
<1>2. Stream(t, l, w, x, h, a)
  BY <1>1, FrameIsWritten
<1>3. PICK n \in Nat : n = Len(s)
  OBVIOUS
<1>4. t \in Seq(Item) /\ Len(t) = n + 1 /\ Len(t) > 0 /\ t[Len(t)] = y
  BY <1>1, <1>3 DEF Longer
<1>5. Stream(u, l, w, x, h, a)
  BY <1>1, <1>2, <1>4, PayloadIsWritten
<1>6. PICK m \in Nat : m = n + 2
  OBVIOUS
<1>7. u \in Seq(Item) /\ m > 1 /\ Len(u) = m /\ u[m] = z /\ u[m - 1] = y
  <2>1. (n + 1) + 1 = m /\ m - 1 = n + 1 /\ n + 1 \in 1 .. n + 1 /\ m > 1
    BY <1>6
  <2>2. Len(u) = (n + 1) + 1 /\ u[(n + 1) + 1] = z /\ u[n + 1] = t[n + 1] /\ u \in Seq(Item)
    BY <1>1, <1>4, <2>1 DEF Longer
  <2> QED
    BY <1>4, <2>1, <2>2
<1>8. y.channel_id = q[1].channel_id /\ ~Announces(z, l)
  BY DEF Answers, Announces
<1>9. m > 0 /\ ~Announces(u[m], l) /\ ~u[m].frame /\ u[m - 1].channel_id = q[1].channel_id
  BY <1>7, <1>8
<1>10. Rest(u, Tail(q), l, w)
  BY <1>7, <1>9, RestShrinks
<1> QED
  BY <1>5, <1>10 DEF u

\* What RAM B holds and applied grows.
Grows == /\ held' \in [Blocks -> SUBSET Hash]
         /\ \A b \in Blocks : held[b] \subseteq held'[b]
         /\ applied \subseteq applied'

LEMMA ResultStays ==
    ASSUME TypeInv, ResultInv, Grows, result' = result, abandoned' = abandoned
    PROVE  ResultInv'
<1>1. \A i \in 1 .. Len(result.answers) :
         result.answers[i] \in AnswerRecord /\ result.answers[i].block \in Blocks
  <2>1. result.answers \in Seq(AnswerRecord)
    BY DEF TypeInv, ResultRecord
  <2>2. \A i \in 1 .. Len(result.answers) : result.answers[i] \in AnswerRecord
    BY <2>1
  <2> QED
    BY <2>2 DEF AnswerRecord
<1>2. ASSUME NEW x, x.block \in Blocks, NEW c, RightAnswer(x, c, held, applied)
      PROVE  RightAnswer(x, c, held', applied')
  BY <1>2 DEF RightAnswer, Grows
<1> QED
  BY <1>1, <1>2 DEF ResultInv

LEMMA CacheStays ==
    ASSUME CacheInv, Grows, hash_cache' = hash_cache, abandoned' = abandoned,
           \A b \in Blocks : store'[b] \in held'[b] \cup {None}
    PROVE  CacheInv'
  BY DEF CacheInv, CacheIsHonest, Grows

LEMMA CallStays ==
    ASSUME CallInv, UNCHANGED <<phase, result, call, connection, left>>
    PROVE  CallInv'
  BY DEF CallInv, Quiet

\* A step of a server task: only the stream of its own connection grows.
LEMMA ServerKeeps ==
    ASSUME MuxInv, NEW k \in Connections, NEW items \in Seq(Item), Len(requests[k]) > 0,
           Respond(k, items), Grows, store' \in [Blocks -> Hash],
           \A b \in Blocks : store'[b] \in held'[b] \cup {None},
           k = connection /\ k \in up /\ Sound /\ ~Quiet =>
              /\ Stream(responses[k] \o items, left, phase = "payload", header, held', applied')
              /\ Rest(responses[k] \o items, Tail(requests[k]), left, phase = "payload")
    PROVE  MuxInv'
<1>0. TypeInv /\ StreamInv /\ FreshInv /\ CallInv /\ ResultInv /\ CacheInv
  BY DEF MuxInv
<1>1. /\ requests' = [requests EXCEPT ![k] = Tail(@)]
      /\ responses' = IF k \in up THEN [responses EXCEPT ![k] = @ \o items] ELSE responses
      /\ UNCHANGED up /\ UNCHANGED <<connection, hash_cache, next_channel, phase, call, left, header,
                                     result, opened, abandoned>>
  BY DEF Respond, client
<1>2. /\ requests \in [Connections -> Seq(Request)] /\ responses \in [Connections -> Seq(Item)]
      /\ requests[k] \in Seq(Request) /\ responses[k] \in Seq(Item)
  BY <1>0 DEF TypeInv
<1>3. Tail(requests[k]) \in Seq(Request) /\ responses[k] \o items \in Seq(Item)
  BY <1>2, TailParts, ConcatProperties
<1>4. /\ requests' \in [Connections -> Seq(Request)] /\ responses' \in [Connections -> Seq(Item)]
      /\ requests'[k] = Tail(requests[k])
      /\ k \in up => responses'[k] = responses[k] \o items
      /\ k \notin up => responses'[k] = responses[k]
      /\ \A j \in Connections \ {k} : requests'[j] = requests[j] /\ responses'[j] = responses[j]
  BY <1>1, <1>2, <1>3
<1>5. TypeInv'
  BY <1>0, <1>1, <1>4 DEF TypeInv, Grows
<1>6. FreshInv'
  <2>1. k \notin up => responses'[k] = responses[k]
    BY <1>4
  <2>2. ~(k > opened)
    <3>1. k > opened => requests[k] = <<>>
      BY <1>0 DEF FreshInv
    <3>2. requests[k] # <<>>
      BY <1>2
    <3> QED
      BY <3>1, <3>2
  <2> QED
    BY <1>0, <1>1, <1>4, <2>2 DEF FreshInv
<1>7. CallInv' /\ ResultInv' /\ CacheInv'
  BY <1>0, <1>1, CallStays, ResultStays, CacheStays
<1>8. StreamInv'
  <2>1. SUFFICES ASSUME Sound
                 PROVE  IF Quiet
                        THEN /\ responses'[connection] = <<>>
                             /\ connection \in up => requests'[connection] = <<>>
                        ELSE /\ Stream(responses'[connection], left, phase = "payload", header, held',
                                       applied')
                             /\ connection \in up =>
                                  Rest(responses'[connection], requests'[connection], left,
                                       phase = "payload")
    BY <1>1 DEF StreamInv, Sound, Quiet
  <2>2. connection \in Connections
    BY <1>0, <2>1, BoundsAssumption DEF TypeInv, Sound, Connections
  <2>3. CASE Quiet
    <3>1. responses[connection] = <<>> /\ (connection \in up => requests[connection] = <<>>)
      BY <1>0, <2>1, <2>3 DEF StreamInv
    <3>2. k = connection => k \notin up
      BY <1>2, <3>1
    <3> QED
      BY <1>4, <2>2, <2>3, <3>1, <3>2
  <2>4. CASE ~Quiet
    <3>1. /\ Stream(responses[connection], left, phase = "payload", header, held, applied)
          /\ connection \in up =>
               Rest(responses[connection], requests[connection], left, phase = "payload")
      BY <1>0, <2>1, <2>4 DEF StreamInv
    <3>2. /\ responses[connection] \in Seq(Item) /\ left \in Seq(Request)
          /\ (phase = "payload") \in BOOLEAN
      BY <1>0, <1>2, <2>2 DEF TypeInv
    <3>3. Stream(responses[connection], left, phase = "payload", header, held', applied')
      BY <3>1, <3>2, StreamGrows DEF Grows
    <3>4. CASE k = connection /\ k \in up
      BY <1>4, <2>1, <2>4, <3>4
    <3>5. CASE k = connection /\ k \notin up
      BY <1>4, <2>4, <3>3, <3>5
    <3>6. CASE k # connection
      BY <1>4, <2>2, <2>4, <3>1, <3>3, <3>6
    <3> QED
      BY <3>4, <3>5, <3>6
  <2> QED
    BY <2>3, <2>4
<1> QED
  BY <1>5, <1>6, <1>7, <1>8 DEF MuxInv

\* The stream of the client's connection, when the server answers on it.
LEMMA StreamAtServer ==
    ASSUME MuxInv, NEW k \in Connections, Len(requests[k]) > 0, Grows,
           k = connection, k \in up, Sound, ~Quiet
    PROVE  /\ responses[k] \in Seq(Item) /\ requests[k] \in Seq(Request) /\ left \in Seq(Request)
           /\ (phase = "payload") \in BOOLEAN
           /\ Stream(responses[k], left, phase = "payload", header, held', applied')
           /\ Rest(responses[k], requests[k], left, phase = "payload")
           /\ left[1].type = requests[k][1].type
<1>1. /\ responses[k] \in Seq(Item) /\ requests[k] \in Seq(Request) /\ left \in Seq(Request)
      /\ (phase = "payload") \in BOOLEAN
  BY DEF MuxInv, TypeInv
<1>2. /\ Stream(responses[k], left, phase = "payload", header, held, applied)
      /\ Rest(responses[k], requests[k], left, phase = "payload")
  BY DEF MuxInv, StreamInv
<1>3. Stream(responses[k], left, phase = "payload", header, held', applied')
  BY <1>1, <1>2, StreamGrows DEF Grows
<1>4. left[1].type = requests[k][1].type
  BY <1>1, <1>2, FramesAreOlder
<1> QED
  BY <1>1, <1>2, <1>3, <1>4

LEMMA ServesOne ==
    ASSUME MuxInv, NEW k \in Connections, NEW y \in Item, Len(requests[k]) > 0,
           Respond(k, <<y>>), Grows, store' \in [Blocks -> Hash],
           \A b \in Blocks : store'[b] \in held'[b] \cup {None},
           y.frame, Answers(y, Head(requests[k]), held', applied'),
           y.status # 200 \/ Head(requests[k]).type # "Fetch"
    PROVE  MuxInv'
<1>0. requests[k] \in Seq(Request) /\ Head(requests[k]) = requests[k][1]
  BY DEF MuxInv, TypeInv
<1>1. ASSUME k = connection, k \in up, Sound, ~Quiet
      PROVE  /\ Stream(responses[k] \o <<y>>, left, phase = "payload", header, held', applied')
             /\ Rest(responses[k] \o <<y>>, Tail(requests[k]), left, phase = "payload")
  <2>1. /\ responses[k] \in Seq(Item) /\ requests[k] \in Seq(Request) /\ left \in Seq(Request)
        /\ (phase = "payload") \in BOOLEAN
        /\ Stream(responses[k], left, phase = "payload", header, held', applied')
        /\ Rest(responses[k], requests[k], left, phase = "payload")
        /\ left[1].type = requests[k][1].type
    BY <1>1, StreamAtServer
  <2>2. ~Announces(y, left) /\ Answers(y, requests[k][1], held', applied')
    BY <1>0, <2>1 DEF Announces
  <2> QED
    BY <2>1, <2>2, OneIsWritten
<1>2. <<y>> \in Seq(Item)
  OBVIOUS
<1> QED
  BY <1>1, <1>2, ServerKeeps

LEMMA ServesTwo ==
    ASSUME MuxInv, NEW k \in Connections, NEW y \in Item, NEW z \in Item, Len(requests[k]) > 0,
           Respond(k, <<y, z>>), Grows, store' \in [Blocks -> Hash],
           \A b \in Blocks : store'[b] \in held'[b] \cup {None},
           y.frame, Answers(y, Head(requests[k]), held', applied'),
           y.status = 200, Head(requests[k]).type = "Fetch", ~z.frame, z.data = y.hash
    PROVE  MuxInv'
<1>0. requests[k] \in Seq(Request) /\ Head(requests[k]) = requests[k][1]
  BY DEF MuxInv, TypeInv
<1>1. ASSUME k = connection, k \in up, Sound, ~Quiet
      PROVE  /\ Stream(responses[k] \o <<y, z>>, left, phase = "payload", header, held', applied')
             /\ Rest(responses[k] \o <<y, z>>, Tail(requests[k]), left, phase = "payload")
  <2>1. /\ responses[k] \in Seq(Item) /\ requests[k] \in Seq(Request) /\ left \in Seq(Request)
        /\ (phase = "payload") \in BOOLEAN
        /\ Stream(responses[k], left, phase = "payload", header, held', applied')
        /\ Rest(responses[k], requests[k], left, phase = "payload")
        /\ left[1].type = requests[k][1].type
    BY <1>1, StreamAtServer
  <2>2. Announces(y, left) /\ Answers(y, requests[k][1], held', applied')
    BY <1>0, <2>1 DEF Announces
  <2>3. PICK w \in BOOLEAN : w = (phase = "payload")
    BY <2>1
  <2>4. /\ Stream(responses[k], left, w, header, held', applied')
        /\ Rest(responses[k], requests[k], left, w)
    BY <2>1, <2>3
  <2>5. /\ Stream(responses[k] \o <<y, z>>, left, w, header, held', applied')
        /\ Rest(responses[k] \o <<y, z>>, Tail(requests[k]), left, w)
    BY <2>1, <2>2, <2>4, TwoAreWritten
  <2> QED
    BY <2>3, <2>5
<1>2. <<y, z>> \in Seq(Item)
  OBVIOUS
<1> QED
  BY <1>1, <1>2, ServerKeeps

\* A frame without a payload, whatever its status.
LEMMA ResponseParts ==
    ASSUME NEW r, r.channel_id \in Nat, NEW status \in Nat, NEW hash \in Hash
    PROVE  /\ Response(r, status, hash, FALSE) \in Item /\ Response(r, status, hash, FALSE).frame
           /\ Response(r, status, hash, FALSE).channel_id = r.channel_id
           /\ Response(r, status, hash, FALSE).status = status
  BY DEF Response, Item

LEMMA ServerSteps ==
    ASSUME MuxInv, NEW k \in Connections, ServeConnection(k) PROVE MuxInv'
<1> DEFINE r == Head(requests[k])
<1>0. /\ store \in [Blocks -> Hash] /\ held \in [Blocks -> SUBSET Hash]
      /\ requests[k] \in Seq(Request) /\ \A b \in Blocks : store[b] \in held[b] \cup {None}
  BY DEF MuxInv, TypeInv, CacheInv
<1>1. Len(requests[k]) > 0
  <2>1. requests[k] # <<>>
    BY DEF ServeConnection, ServeFetch, ServeStore, ServePing, NextRequest
  <2> QED
    BY <1>0, <2>1
<1>2. /\ r \in Request /\ r.block_index \in Blocks /\ r.hash \in Hash /\ r.data \in Hash
      /\ r.channel_id \in Nat
  <2>1. r \in Request
    BY <1>0, <1>1
  <2> HIDE DEF r
  <2> QED
    BY <2>1 DEF Request
<1>3. ASSUME UNCHANGED <<store, applied, held>>
      PROVE  /\ Grows /\ store' \in [Blocks -> Hash]
             /\ \A b \in Blocks : store'[b] \in held'[b] \cup {None}
  BY <1>0, <1>3 DEF Grows
<1> HIDE DEF r
<1>4. CASE ServeFetch(k)
  <2> DEFINE d == store[r.block_index]
  <2>1. /\ r.type = "Fetch" /\ UNCHANGED <<store, applied, held>>
        /\ \/ d = None /\ Respond(k, <<Response(r, 404, None, FALSE)>>)
           \/ d # None /\ Respond(k, <<Response(r, 409, d, FALSE)>>)
           \/ /\ d # None /\ r.hash \in {None, d}
              /\ Respond(k, <<Response(r, 200, d, TRUE), Payload(d)>>)
    BY <1>4 DEF ServeFetch, NextRequest, r
  <2>2. d \in Hash /\ None \in Hash /\ d \in held[r.block_index] \cup {None}
    BY <1>0, <1>2 DEF Hash
  <2> HIDE DEF d
  <2>3. CASE d = None /\ Respond(k, <<Response(r, 404, None, FALSE)>>)
    <3>s. PICK status \in Nat : status = 404
      OBVIOUS
    <3>t. status # 200
      BY <3>s
    <3> DEFINE y == Response(r, status, None, FALSE)
    <3>0. y \in Item /\ y.frame /\ y.channel_id = r.channel_id /\ y.status = status
      BY <1>2, <2>2, ResponseParts
    <3>1. y \in Item /\ y.frame /\ y.channel_id = r.channel_id /\ y.status # 200
      BY <3>0, <3>t, Zenon
    <3>2. Answers(y, r, held', applied')
      BY <3>1 DEF Answers
    <3>3. Respond(k, <<y>>)
      BY <2>3, <3>s
    <3> HIDE DEF y
    <3> QED
      BY <1>1, <1>3, <2>1, <3>1, <3>2, <3>3, ServesOne DEF r
  <2>4. CASE d # None /\ Respond(k, <<Response(r, 409, d, FALSE)>>)
    <3>s. PICK status \in Nat : status = 409
      OBVIOUS
    <3>t. status # 200
      BY <3>s
    <3> DEFINE y == Response(r, status, d, FALSE)
    <3>0. y \in Item /\ y.frame /\ y.channel_id = r.channel_id /\ y.status = status
      BY <1>2, <2>2, ResponseParts
    <3>1. y \in Item /\ y.frame /\ y.channel_id = r.channel_id /\ y.status # 200
      BY <3>0, <3>t, Zenon
    <3>2. Answers(y, r, held', applied')
      BY <3>1 DEF Answers
    <3>3. Respond(k, <<y>>)
      BY <2>4, <3>s
    <3> QED
      BY <1>1, <1>3, <2>1, <3>1, <3>2, <3>3, ServesOne DEF r
  <2>5. CASE /\ d # None /\ r.hash \in {None, d}
             /\ Respond(k, <<Response(r, 200, d, TRUE), Payload(d)>>)
    <3> DEFINE y == Response(r, 200, d, TRUE)
               z == Payload(d)
    <3>1. /\ y \in Item /\ y.frame /\ y.channel_id = r.channel_id /\ y.status = 200
          /\ y.hash = d /\ y.sized = TRUE
      BY <1>2, <2>2 DEF Response, Item
    <3>2. z \in Item /\ ~z.frame /\ z.data = d
      BY <2>2, <2>5 DEF Payload, Item, Hash
    <3>3. Respond(k, <<y, z>>)
      BY <2>5
    <3> HIDE DEF y, z
    <3>4. Answers(y, r, held', applied')
      BY <2>1, <2>2, <2>5, <3>1 DEF Answers
    <3> QED
      BY <1>1, <1>3, <2>1, <3>1, <3>2, <3>3, <3>4, ServesTwo DEF r
  <2> QED
    BY <2>1, <2>3, <2>4, <2>5
<1>5. CASE ServeStore(k)
  <2>1. r.type = "Store"
    BY <1>5 DEF ServeStore, NextRequest, r
  <2>2. CASE r.data # r.hash
    <3>s. PICK status \in Nat : status = 409
      OBVIOUS
    <3>t. status # 200
      BY <3>s
    <3> DEFINE y == Response(r, status, r.data, FALSE)
    <3>0. y \in Item /\ y.frame /\ y.channel_id = r.channel_id /\ y.status = status
      BY <1>2, ResponseParts
    <3>1. Respond(k, <<y>>) /\ UNCHANGED <<store, applied, held>>
      BY <1>5, <2>2, <3>s DEF ServeStore, r
    <3>2. y \in Item /\ y.frame /\ y.channel_id = r.channel_id /\ y.status # 200
      BY <3>0, <3>t, Zenon
    <3>3. Answers(y, r, held', applied')
      BY <3>2 DEF Answers
    <3> QED
      BY <1>1, <1>3, <3>1, <3>2, <3>3, ServesOne DEF r
  <2>3. CASE r.data = r.hash
    <3> DEFINE y == Response(r, 200, r.hash, TRUE)
    <3>1. /\ Respond(k, <<y>>) /\ store' = [store EXCEPT ![r.block_index] = r.data]
          /\ held' = [held EXCEPT ![r.block_index] = @ \cup {r.data}]
          /\ applied' = applied \cup {r.channel_id}
      BY <1>5, <2>3 DEF ServeStore, r
    <3>2. y \in Item /\ y.frame /\ y.channel_id = r.channel_id /\ y.status = 200
      BY <1>2 DEF Response, Item
    <3> HIDE DEF y
    <3> DEFINE b == r.block_index
    <3>3. /\ held'[b] = held[b] \cup {r.data} /\ held' \in [Blocks -> SUBSET Hash]
          /\ \A c \in Blocks \ {b} : held'[c] = held[c]
          /\ store' \in [Blocks -> Hash] /\ store'[b] = r.data
          /\ \A c \in Blocks \ {b} : store'[c] = store[c]
      BY <1>0, <1>2, <3>1
    <3>4. Grows /\ \A c \in Blocks : store'[c] \in held'[c] \cup {None}
      BY <1>0, <3>1, <3>3 DEF Grows
    <3>5. Answers(y, r, held', applied')
      BY <2>1, <2>3, <3>1, <3>2, <3>3 DEF Answers
    <3> QED
      BY <1>1, <2>1, <3>1, <3>2, <3>3, <3>4, <3>5, ServesOne DEF r
  <2> QED
    BY <2>2, <2>3
<1>6. CASE ServePing(k)
  <2> DEFINE y == Response(r, 200, None, FALSE)
  <2>1. Respond(k, <<y>>) /\ UNCHANGED <<store, applied, held>> /\ r.type = "Ping"
    BY <1>6 DEF ServePing, NextRequest, r
  <2>2. y \in Item /\ y.frame /\ y.channel_id = r.channel_id /\ y.status = 200
    BY <1>2 DEF Response, Item, Hash
  <2> HIDE DEF y
  <2>3. Answers(y, r, held', applied')
    BY <2>1, <2>2 DEF Answers
  <2> QED
    BY <1>1, <1>3, <2>1, <2>2, <2>3, ServesOne DEF r
<1> QED
  BY <1>4, <1>5, <1>6 DEF ServeConnection

-----------------------------------------------------------------------------
(***************************************************************************)
(* The network, and the start of a call.                                   *)
(***************************************************************************)
LEMMA InConnections ==
    ASSUME TypeInv, connection # 0
    PROVE  connection \in Connections /\ connection <= opened /\ opened \in Nat
  BY BoundsAssumption DEF TypeInv, Connections

LEMMA PrefixParts ==
    ASSUME NEW S, NEW s \in Seq(S), NEW t \in Prefixes(s)
    PROVE  t \in Seq(S) /\ Len(t) <= Len(s) /\ \A i \in 1 .. Len(t) : t[i] = s[i]
<1>1. PICK n \in 0 .. Len(s) : t = SubSeq(s, 1, n)
  BY DEF Prefixes
<1>2. Len(s) \in Nat
  OBVIOUS
<1>3. \A i \in 1 .. n : s[i] \in S
  BY <1>2
<1>4. t \in Seq(S) /\ Len(t) = n
  <2>1. CASE n = 0
    BY <1>1, <2>1
  <2>2. CASE n # 0
    BY <1>1, <1>2, <1>3, <2>2, SubSeqProperties
  <2> QED
    BY <2>1, <2>2
<1>5. \A i \in 1 .. n : t[i] = s[i]
  BY <1>1, <1>2
<1> QED
  BY <1>2, <1>4, <1>5

LEMMA EmptyPrefix ==
    ASSUME NEW s \in Seq(Request), s = <<>>, NEW t \in Prefixes(s) PROVE t = <<>>
<1>1. t \in Seq(Request) /\ Len(t) <= Len(s)
  BY PrefixParts
<1>2. Len(s) = 0
  OBVIOUS
<1> QED
  BY <1>1, <1>2

\* Less arrives on one connection or on several, and those are down.
LEMMA ArrivesInPart ==
    ASSUME MuxInv, UNCHANGED <<applied, held, client>>, up' \subseteq up,
           requests' \in [Connections -> Seq(Request)], responses' \in [Connections -> Seq(Item)],
           store' \in [Blocks -> Hash], \A b \in Blocks : store'[b] \in {store[b], None},
           \A k \in Connections :
              /\ requests'[k] = requests[k] \/ k \notin up'
              /\ requests[k] = <<>> => requests'[k] = <<>>
              /\ Len(responses'[k]) <= Len(responses[k])
              /\ \A i \in 1 .. Len(responses'[k]) : responses'[k][i] = responses[k][i]
              /\ responses'[k] = responses[k] \/ k \notin up'
    PROVE  MuxInv'
<1>0. TypeInv /\ StreamInv /\ FreshInv /\ CallInv /\ ResultInv /\ CacheInv
  BY DEF MuxInv
<1>1. UNCHANGED <<connection, hash_cache, next_channel, phase, call, left, header,
                  result, opened, abandoned>>
  BY DEF client
<1>2. Grows
  BY <1>0 DEF Grows, TypeInv
<1>3. TypeInv'
  BY <1>0, <1>1, <1>2 DEF TypeInv, Grows
<1>4. CallInv' /\ ResultInv'
  BY <1>0, <1>1, <1>2, CallStays, ResultStays
<1>5. CacheInv'
  <2>1. \A b \in Blocks : store'[b] \in held'[b] \cup {None}
    BY <1>0 DEF CacheInv
  <2> QED
    BY <1>0, <1>1, <1>2, <2>1, CacheStays
<1>6. \A k \in Connections : responses[k] = <<>> => responses'[k] = <<>>
  <2>1. ASSUME NEW k \in Connections, responses[k] = <<>> PROVE responses'[k] = <<>>
    <3>1. Len(responses'[k]) <= 0 /\ responses'[k] \in Seq(Item)
      BY <2>1
    <3> QED
      BY <3>1
  <2> QED
    BY <2>1
<1>7. FreshInv'
  BY <1>0, <1>1, <1>6 DEF FreshInv
<1>8. StreamInv'
  <2>1. SUFFICES ASSUME Sound
                 PROVE  IF Quiet
                        THEN /\ responses'[connection] = <<>>
                             /\ connection \in up' => requests'[connection] = <<>>
                        ELSE /\ Stream(responses'[connection], left, phase = "payload", header, held,
                                       applied)
                             /\ connection \in up' =>
                                  Rest(responses'[connection], requests'[connection], left,
                                       phase = "payload")
    BY <1>1 DEF StreamInv, Sound, Quiet
  <2>2. connection \in Connections
    BY <1>0, <2>1, InConnections DEF Sound
  <2>3. CASE Quiet
    <3>1. responses[connection] = <<>> /\ (connection \in up => requests[connection] = <<>>)
      BY <1>0, <2>1, <2>3 DEF StreamInv
    <3> QED
      BY <1>6, <2>2, <2>3, <3>1
  <2>4. CASE ~Quiet
    <3>1. /\ Stream(responses[connection], left, phase = "payload", header, held, applied)
          /\ connection \in up =>
               Rest(responses[connection], requests[connection], left, phase = "payload")
      BY <1>0, <2>1, <2>4 DEF StreamInv
    <3>2. /\ responses[connection] \in Seq(Item) /\ left \in Seq(Request)
          /\ responses'[connection] \in Seq(Item)
      BY <1>0, <2>2 DEF TypeInv
    <3>3. PICK w \in BOOLEAN : w = (phase = "payload")
      OBVIOUS
    <3>4. Stream(responses[connection], left, w, header, held, applied)
      BY <3>1, <3>3
    <3>5. /\ Len(responses'[connection]) <= Len(responses[connection])
          /\ \A i \in 1 .. Len(responses'[connection]) :
                responses'[connection][i] = responses[connection][i]
      BY <2>2
    <3>6. Stream(responses'[connection], left, w, header, held, applied)
      BY <3>2, <3>4, <3>5, StreamIsCut
    <3>7. ASSUME connection \in up' PROVE connection \in up /\ requests'[connection] = requests[connection]
                                           /\ responses'[connection] = responses[connection]
      BY <2>2, <3>7
    <3> QED
      BY <2>4, <3>1, <3>3, <3>6, <3>7
  <2> QED
    BY <2>3, <2>4
<1> QED
  BY <1>3, <1>4, <1>5, <1>7, <1>8 DEF MuxInv

LEMMA CutStep ==
    ASSUME MuxInv, NEW k \in Connections, Cut(k) PROVE MuxInv'
<1>1. PICK q \in Prefixes(requests[k]) : requests' = [requests EXCEPT ![k] = q]
  BY DEF Cut
<1>2. PICK s \in Prefixes(responses[k]) : responses' = [responses EXCEPT ![k] = s]
  BY DEF Cut
<1>3. /\ requests \in [Connections -> Seq(Request)] /\ responses \in [Connections -> Seq(Item)]
      /\ requests[k] \in Seq(Request) /\ responses[k] \in Seq(Item)
      /\ store \in [Blocks -> Hash]
  BY DEF MuxInv, TypeInv
<1>4. q \in Seq(Request) /\ (requests[k] = <<>> => q = <<>>)
  BY <1>3, PrefixParts, EmptyPrefix
<1>5. s \in Seq(Item) /\ Len(s) <= Len(responses[k]) /\ \A i \in 1 .. Len(s) : s[i] = responses[k][i]
  BY <1>3, PrefixParts
<1>6. UNCHANGED <<store, applied, held, client>> /\ up' \subseteq up /\ k \notin up'
  BY DEF Cut
<1>7. /\ requests' \in [Connections -> Seq(Request)] /\ responses' \in [Connections -> Seq(Item)]
      /\ requests'[k] = q /\ responses'[k] = s
      /\ \A j \in Connections \ {k} : requests'[j] = requests[j] /\ responses'[j] = responses[j]
  BY <1>1, <1>2, <1>3, <1>4, <1>5
<1>8. ASSUME NEW j \in Connections
      PROVE  /\ requests'[j] = requests[j] \/ j \notin up'
             /\ requests[j] = <<>> => requests'[j] = <<>>
             /\ Len(responses'[j]) <= Len(responses[j])
             /\ \A i \in 1 .. Len(responses'[j]) : responses'[j][i] = responses[j][i]
             /\ responses'[j] = responses[j] \/ j \notin up'
  <2>1. CASE j = k
    BY <1>4, <1>5, <1>6, <1>7, <2>1
  <2>2. CASE j # k
    <3>1. requests'[j] = requests[j] /\ responses'[j] = responses[j] /\ responses[j] \in Seq(Item)
      BY <1>3, <1>7, <2>2
    <3>2. Len(responses[j]) \in Nat
      BY <3>1
    <3> QED
      BY <3>1, <3>2
  <2> QED
    BY <2>1, <2>2
<1>9. store' \in [Blocks -> Hash] /\ \A b \in Blocks : store'[b] \in {store[b], None}
  BY <1>3, <1>6
<1> QED
  BY <1>6, <1>7, <1>8, <1>9, ArrivesInPart

LEMMA RestartStep ==
    ASSUME MuxInv, Restart PROVE MuxInv'
<1>1. /\ up' = {} /\ requests' = [k \in Connections |-> <<>>]
      /\ responses' = [k \in Connections |-> <<>>] /\ store' = [b \in Blocks |-> None]
      /\ UNCHANGED <<applied, held, client>>
  BY DEF Restart
<1>2. responses \in [Connections -> Seq(Item)]
  BY DEF MuxInv, TypeInv
<1>3. /\ requests' \in [Connections -> Seq(Request)] /\ responses' \in [Connections -> Seq(Item)]
      /\ store' \in [Blocks -> Hash] /\ \A b \in Blocks : store'[b] \in {store[b], None}
      /\ up' \subseteq up
  BY <1>1 DEF Hash
<1>4. ASSUME NEW j \in Connections
      PROVE  /\ requests'[j] = <<>> /\ responses'[j] = <<>> /\ j \notin up'
             /\ Len(responses'[j]) <= Len(responses[j]) /\ Len(responses'[j]) = 0
  <2>1. Len(responses[j]) \in Nat
    BY <1>2
  <2>2. Len(<<>>) = 0
    OBVIOUS
  <2> QED
    BY <1>1, <2>1, <2>2
<1>5. ASSUME NEW j \in Connections
      PROVE  /\ requests'[j] = requests[j] \/ j \notin up'
             /\ requests[j] = <<>> => requests'[j] = <<>>
             /\ Len(responses'[j]) <= Len(responses[j])
             /\ \A i \in 1 .. Len(responses'[j]) : responses'[j][i] = responses[j][i]
             /\ responses'[j] = responses[j] \/ j \notin up'
  BY <1>4
<1> QED
  BY <1>1, <1>3, <1>5, ArrivesInPart

LEMMA NoCallParts ==
    /\ NoCall \in CallRecord /\ NoResult \in ResultRecord /\ None \in Hash
    /\ NoResult.answers = <<>> /\ Len(NoResult.answers) = 0 /\ NoResult.ok = FALSE
<1>1. NoCall \in CallRecord /\ None \in Hash
  BY DEF NoCall, CallRecord, Hash
<1>2. <<>> \in Seq(AnswerRecord) /\ Len(<<>>) = 0
  OBVIOUS
<1>3. NoResult \in ResultRecord
  BY <1>1, <1>2 DEF NoResult, ResultRecord
<1> QED
  BY <1>1, <1>2, <1>3 DEF NoResult

LEMMA CallParts ==
    ASSUME NEW c \in Calls
    PROVE  /\ c \in CallRecord /\ c.op # "none" /\ Len(c.blocks) > 0
           /\ c.op # "Batch" => Len(c.blocks) = 1
<1>0. None \in Hash /\ Contents \subseteq Hash
  BY DEF Hash
<1>1. CASE c = ping
  <2>1. PICK b \in Blocks : b = CHOOSE x \in Blocks : TRUE
    BY BlocksAssumption
  <2>2. c = [op |-> "Ping", blocks |-> <<b>>, data |-> None, hash |-> None]
    BY <1>1, <2>1 DEF ping, NoCall
  <2>3. <<b>> \in Seq(Blocks) /\ Len(<<b>>) = 1
    OBVIOUS
  <2> QED
    BY <1>0, <2>2, <2>3 DEF CallRecord
<1>2. CASE \E s \in Batches : c = fetch_batch(s)
  <2>1. PICK s \in Batches : c = fetch_batch(s)
    BY <1>2
  <2>2. s \in Seq(Blocks) /\ s # <<>>
    BY ListsAssumption
  <2>3. Len(s) > 0
    BY <2>2
  <2>4. c = [op |-> "Batch", blocks |-> s, data |-> None, hash |-> None]
    BY <2>1 DEF fetch_batch, NoCall
  <2> QED
    BY <1>0, <2>2, <2>3, <2>4 DEF CallRecord
<1>3. CASE \E b \in Blocks, h \in Contents \cup {None} : c = fetch_block(b, h)
  <2>1. PICK b \in Blocks, h \in Contents \cup {None} : c = fetch_block(b, h)
    BY <1>3
  <2>2. c = [op |-> "Fetch", blocks |-> <<b>>, data |-> None, hash |-> h] /\ h \in Hash
    BY <2>1 DEF fetch_block, NoCall, Hash
  <2>3. <<b>> \in Seq(Blocks) /\ Len(<<b>>) = 1
    OBVIOUS
  <2> QED
    BY <1>0, <2>2, <2>3 DEF CallRecord
<1>4. CASE \E b \in Blocks, d \in Contents, h \in Contents : c = store_block(b, d, h)
  <2>1. PICK b \in Blocks, d \in Contents, h \in Contents : c = store_block(b, d, h)
    BY <1>4
  <2>2. c = [op |-> "Store", blocks |-> <<b>>, data |-> d, hash |-> h]
    BY <2>1 DEF store_block
  <2>3. <<b>> \in Seq(Blocks) /\ Len(<<b>>) = 1
    OBVIOUS
  <2> QED
    BY <1>0, <2>2, <2>3 DEF CallRecord
<1> QED
  BY <1>1, <1>2, <1>3, <1>4 DEF Calls

LEMMA BeginStep ==
    ASSUME MuxInv, NEW c \in Calls, Begin(c) PROVE MuxInv'
<1>0. TypeInv /\ StreamInv /\ FreshInv /\ CallInv /\ ResultInv /\ CacheInv
  BY DEF MuxInv
<1>1. /\ phase = "idle" /\ phase' = "ensured" /\ call' = c
      /\ result' = [NoResult EXCEPT !.call = c, !.on = connection']
      /\ UNCHANGED <<store, requests, applied, held>>
      /\ UNCHANGED <<responses, hash_cache, next_channel, left, header, abandoned>>
  BY DEF Begin, ramB
<1>2. \/ /\ connection = 0 /\ opened < MaxConn /\ connection' = opened + 1 /\ opened' = opened + 1
         /\ up' = up \cup {opened + 1}
      \/ connection # 0 /\ UNCHANGED <<connection, opened, up>>
  BY DEF Begin
<1>3. /\ opened' \in 0 .. MaxConn /\ up' \subseteq 1 .. opened' /\ connection' \in 0 .. opened'
      /\ connection' # 0 /\ opened <= opened' /\ opened \in Nat /\ opened' \in Nat
      /\ connection' \in Connections
  <2>1. opened \in 0 .. MaxConn /\ up \subseteq 1 .. opened /\ connection \in 0 .. opened /\ MaxConn \in Nat
    BY <1>0, BoundsAssumption DEF TypeInv
  <2>2. CASE connection = 0
    <3>1. /\ opened < MaxConn /\ connection' = opened + 1 /\ opened' = opened + 1
          /\ up' = up \cup {opened + 1}
      BY <1>2, <2>2
    <3>2. opened' \in 0 .. MaxConn /\ opened + 1 \in 1 .. opened' /\ 1 .. opened \subseteq 1 .. opened'
      BY <2>1, <3>1
    <3>3. up' \subseteq 1 .. opened'
      BY <2>1, <3>1, <3>2
    <3> QED
      BY <2>1, <3>1, <3>2, <3>3 DEF Connections
  <2>3. CASE connection # 0
    <3>1. connection' = connection /\ opened' = opened /\ up' = up
      BY <1>2, <2>3
    <3>2. connection \in Connections /\ opened \in Nat /\ opened <= opened
      BY <1>0, <2>1, <2>3, InConnections
    <3> QED
      BY <2>1, <2>3, <3>1, <3>2
  <2> QED
    BY <2>2, <2>3
<1>4. c \in CallRecord /\ c.op # "none" /\ Len(c.blocks) > 0 /\ (c.op # "Batch" => Len(c.blocks) = 1)
  BY CallParts
<1>5. /\ result' \in ResultRecord /\ result'.call = c /\ result'.on = connection'
      /\ result'.ok = FALSE /\ result'.answers = <<>> /\ Len(result'.answers) = 0
  <2>1. connection' \in Nat
    BY <1>3
  <2> QED
    BY <1>1, <1>4, <2>1, NoCallParts DEF ResultRecord
<1>6. TypeInv'
  BY <1>0, <1>1, <1>3, <1>4, <1>5 DEF TypeInv
<1>7. CallInv'
  BY <1>1, <1>4, <1>5 DEF CallInv, Quiet
<1>8. ResultInv'
  BY <1>5 DEF ResultInv
<1>9. CacheInv'
  BY <1>0, <1>1 DEF CacheInv, CacheIsHonest
<1>10. FreshInv'
  <2>1. \A k \in Connections : k \in Nat
    BY DEF Connections
  <2>2. \A k \in Connections : k > opened' => k > opened
    BY <1>3, <2>1
  <2> QED
    BY <1>0, <1>1, <2>2 DEF FreshInv
<1>11. StreamInv'
  <2>1. SUFFICES ASSUME connection' \notin abandoned
                 PROVE  responses[connection'] = <<>> /\ (connection' \in up' => requests[connection'] = <<>>)
    BY <1>1 DEF StreamInv, Sound, Quiet
  <2>2. CASE connection = 0
    <3>1. connection' > opened
      BY <1>2, <1>3, <2>2
    <3> QED
      BY <1>0, <1>3, <3>1 DEF FreshInv
  <2>3. CASE connection # 0
    BY <1>0, <1>1, <1>2, <2>1, <2>3 DEF StreamInv, Sound, Quiet
  <2> QED
    BY <2>2, <2>3
<1> QED
  BY <1>6, <1>7, <1>8, <1>9, <1>10, <1>11 DEF MuxInv

LEMMA ConnectFailsStep ==
    ASSUME MuxInv, NEW c \in Calls, ConnectFails(c) PROVE MuxInv'
<1>0. TypeInv /\ StreamInv /\ FreshInv /\ CallInv /\ ResultInv /\ CacheInv
  BY DEF MuxInv
<1>1. /\ phase = "idle" /\ result' = [NoResult EXCEPT !.call = c]
      /\ UNCHANGED <<store, requests, applied, held, up, responses>>
      /\ UNCHANGED <<connection, hash_cache, next_channel, phase, call, left, header, opened, abandoned>>
  BY DEF ConnectFails, ramB, network
<1>2. c \in CallRecord
  BY CallParts
<1>3. result' \in ResultRecord /\ result'.ok = FALSE /\ result'.answers = <<>> /\ Len(result'.answers) = 0
  BY <1>1, <1>2, NoCallParts DEF ResultRecord
<1>4. TypeInv'
  BY <1>0, <1>1, <1>3 DEF TypeInv
<1>5. StreamInv' /\ FreshInv' /\ CacheInv'
  BY <1>0, <1>1 DEF StreamInv, Sound, Quiet, FreshInv, CacheInv, CacheIsHonest
<1>6. CallInv' /\ ResultInv'
  BY <1>1, <1>3 DEF CallInv, Quiet, ResultInv
<1> QED
  BY <1>4, <1>5, <1>6 DEF MuxInv

LEMMA DisconnectStep ==
    ASSUME MuxInv, disconnect PROVE MuxInv'
<1>0. TypeInv /\ StreamInv /\ FreshInv /\ CallInv /\ ResultInv /\ CacheInv
  BY DEF MuxInv
<1>1. /\ phase \in {"idle", "ensured"} /\ connection # 0 /\ connection' = 0 /\ up' \subseteq up
      /\ responses' = [responses EXCEPT ![connection] = <<>>]
      /\ UNCHANGED <<store, requests, applied, held>>
      /\ UNCHANGED <<hash_cache, next_channel, phase, call, left, header, result, opened, abandoned>>
  BY DEF disconnect, ramB
<1>2. /\ responses \in [Connections -> Seq(Item)] /\ connection \in Connections
      /\ <<>> \in Seq(Item) /\ opened \in Nat
  BY <1>0, <1>1, InConnections DEF TypeInv
<1>3. /\ responses' \in [Connections -> Seq(Item)] /\ responses'[connection] = <<>>
      /\ \A j \in Connections \ {connection} : responses'[j] = responses[j]
  BY <1>1, <1>2
<1>4. TypeInv'
  BY <1>0, <1>1, <1>2, <1>3 DEF TypeInv
<1>5. StreamInv' /\ FreshInv' /\ CacheInv'
  BY <1>0, <1>1, <1>3 DEF StreamInv, Sound, FreshInv, CacheInv, CacheIsHonest
<1>6. ResultInv' /\ CallInv'
  BY <1>0, <1>1 DEF CallInv, Quiet, ResultInv
<1> QED
  BY <1>4, <1>5, <1>6 DEF MuxInv

LEMMA ListParts ==
    ASSUME NEW S, NEW n \in Nat, NEW l \in [1 .. n -> S] PROVE l \in Seq(S) /\ Len(l) = n
  OBVIOUS

\* The frames of a call are its requests, under channel ids in a row.
LEMMA FramesParts ==
    ASSUME MuxInv, phase = "ensured", NEW l, l = [i \in DOMAIN call.blocks |-> Frame(i)]
    PROVE  /\ l \in Seq(Request) /\ Len(l) = Len(call.blocks) /\ Len(l) > 0 /\ Consecutive(l)
           /\ \A i \in 1 .. Len(l) : /\ l[i].type = IF call.op = "Batch" THEN "Fetch" ELSE call.op
                                     /\ l[i].hash = call.hash /\ l[i].block_index = call.blocks[i]
<1>1. call \in CallRecord /\ call.op # "none" /\ next_channel \in Nat /\ Len(call.blocks) > 0
  BY DEF MuxInv, TypeInv, CallInv
<1>2. /\ call.blocks \in Seq(Blocks) /\ call.data \in Hash /\ call.hash \in Hash
      /\ call.op \in {"Ping", "Fetch", "Store", "Batch"}
  BY <1>1 DEF CallRecord
<1>3. PICK n \in Nat : n = Len(call.blocks)
  BY <1>2
<1>4. DOMAIN call.blocks = 1 .. n /\ n > 0 /\ \A i \in 1 .. n : call.blocks[i] \in Blocks
  BY <1>1, <1>2, <1>3
<1>5. ASSUME NEW i \in 1 .. n
      PROVE  /\ l[i].type = IF call.op = "Batch" THEN "Fetch" ELSE call.op
             /\ l[i].hash = call.hash /\ l[i].block_index = call.blocks[i]
             /\ l[i].channel_id = next_channel + i - 1 /\ l[i] \in Request
  <2>1. l[i] = Frame(i)
    BY <1>4
  <2>2. next_channel + i - 1 \in Nat /\ call.blocks[i] \in Blocks
    BY <1>1, <1>4
  <2>3. (IF call.op = "Batch" THEN "Fetch" ELSE call.op) \in {"Fetch", "Store", "Ping"}
    BY <1>2
  <2> QED
    BY <1>2, <2>1, <2>2, <2>3 DEF Frame, Request
<1>6. l \in [1 .. n -> Request]
  BY <1>4, <1>5
<1>7. l \in Seq(Request) /\ Len(l) = n
  BY <1>6, ListParts
<1>8. Consecutive(l)
  <2>1. 1 \in 1 .. n
    BY <1>4
  <2>2. l[1].channel_id = next_channel
    <3>1. l[1].channel_id = next_channel + 1 - 1
      BY <1>5, <2>1
    <3> QED
      BY <1>1, <3>1
  <2> QED
    BY <1>4, <1>5, <1>7, <2>1, <2>2 DEF Consecutive
<1> QED
  BY <1>3, <1>4, <1>5, <1>7, <1>8

LEMMA SendStep ==
    ASSUME MuxInv, SilentInv, Send PROVE MuxInv'
<1>0. TypeInv /\ StreamInv /\ FreshInv /\ CallInv /\ ResultInv /\ CacheInv
  BY DEF MuxInv
<1>1. PICK l : l = [i \in DOMAIN call.blocks |-> Frame(i)]
  OBVIOUS
<1>2. /\ phase = "ensured" /\ connection \in up \cup silent /\ phase' = "header" /\ left' = l
      /\ requests' = IF connection \in up
                     THEN [requests EXCEPT ![connection] = @ \o l] ELSE requests
      /\ next_channel' = next_channel + Len(call.blocks)
      /\ UNCHANGED <<store, applied, held, up, responses>>
      /\ UNCHANGED <<connection, hash_cache, call, header, result, opened, abandoned>>
  BY <1>1 DEF Send, network
<1>3. /\ l \in Seq(Request) /\ Len(l) = Len(call.blocks) /\ Len(l) > 0 /\ Consecutive(l)
      /\ \A i \in 1 .. Len(l) : /\ l[i].type = IF call.op = "Batch" THEN "Fetch" ELSE call.op
                                /\ l[i].hash = call.hash /\ l[i].block_index = call.blocks[i]
  BY <1>1, <1>2, FramesParts
<1>4. /\ connection # 0 /\ connection \in Connections /\ connection <= opened
      /\ opened \in Nat
  <2>1. connection # 0
    BY <1>0, <1>2 DEF TypeInv, SilentInv, Connections
  <2> QED
    BY <1>0, <2>1, InConnections
<1>5. /\ requests \in [Connections -> Seq(Request)] /\ requests[connection] \in Seq(Request)
      /\ requests[connection] \o l \in Seq(Request)
  <2>1. requests \in [Connections -> Seq(Request)] /\ requests[connection] \in Seq(Request)
    BY <1>0, <1>4 DEF TypeInv
  <2> QED
    BY <1>3, <2>1, ConcatProperties
<1>6. /\ requests' \in [Connections -> Seq(Request)]
      /\ connection \in up => requests'[connection] = requests[connection] \o l
      /\ \A j \in Connections \ {connection} : requests'[j] = requests[j]
  BY <1>2, <1>4, <1>5
<1>7. TypeInv'
  <2>1. next_channel' \in Nat
    <3>1. next_channel \in Nat /\ Len(l) \in Nat
      BY <1>0, <1>3 DEF TypeInv
    <3> QED
      BY <1>2, <1>3, <3>1
  <2> QED
    BY <1>0, <1>2, <1>3, <1>6, <2>1 DEF TypeInv
<1>8. FreshInv'
  <2>1. \A k \in Connections : k \in Nat
    BY DEF Connections
  <2>2. ~(connection > opened)
    BY <1>4, <2>1
  <2> QED
    BY <1>0, <1>2, <1>6, <2>2 DEF FreshInv
<1>9. ResultInv' /\ CacheInv'
  BY <1>0, <1>2 DEF ResultInv, CacheInv, CacheIsHonest
<1>10. CallInv'
  <2>1. /\ result.call = call /\ ~result.ok /\ call.op # "none"
        /\ Len(call.blocks) > 0 /\ (call.op # "Batch" => Len(call.blocks) = 1)
        /\ result.on = connection
    BY <1>0, <1>2, <1>4 DEF CallInv
  <2>2. call.op # "Batch" => Len(l) = 1 /\ l[1].block_index = call.blocks[1]
    BY <1>3, <2>1
  <2> QED
    BY <1>2, <1>3, <1>4, <2>1, <2>2 DEF CallInv, Quiet
<1>11. StreamInv'
  <2>1. SUFFICES ASSUME Sound
                 PROVE  /\ Stream(responses[connection], l, FALSE, header, held, applied)
                        /\ connection \in up =>
                             Rest(responses[connection], requests'[connection], l, FALSE)
    BY <1>2 DEF StreamInv, Sound, Quiet
  <2>2. responses[connection] = <<>> /\ (connection \in up => requests[connection] = <<>>)
    BY <1>0, <1>2, <2>1 DEF StreamInv, Quiet
  <2>3. ASSUME connection \in up PROVE requests'[connection] = l
    <3>1. requests'[connection] = <<>> \o l
      BY <1>6, <2>2, <2>3
    <3> QED
      BY <1>3, <3>1
  <2> QED
    BY <1>3, <2>2, <2>3, StreamBegins
<1> QED
  BY <1>7, <1>8, <1>9, <1>10, <1>11 DEF MuxInv

LEMMA SendFailsStep ==
    ASSUME MuxInv, SendFails PROVE MuxInv'
<1>0. TypeInv /\ StreamInv /\ FreshInv /\ CallInv /\ ResultInv /\ CacheInv
  BY DEF MuxInv
<1>1. /\ phase = "ensured" /\ phase' = "idle" /\ call' = NoCall /\ left' = <<>>
      /\ result' = [result EXCEPT !.ok = FALSE]
      /\ UNCHANGED <<store, requests, applied, held, up, responses>>
      /\ UNCHANGED <<connection, hash_cache, next_channel, opened, abandoned>>
  BY DEF SendFails, Return, ramB, network
<1>2. result \in ResultRecord /\ left' \in Seq(Request)
  BY <1>0, <1>1 DEF TypeInv
<1>3. /\ result' \in ResultRecord /\ result'.ok = FALSE /\ result'.answers = result.answers
      /\ result'.on = result.on /\ result'.call = result.call
  BY <1>1, <1>2 DEF ResultRecord
<1>4. TypeInv'
  BY <1>0, <1>1, <1>2, <1>3, NoCallParts DEF TypeInv
<1>5. StreamInv' /\ FreshInv' /\ CacheInv'
  BY <1>0, <1>1 DEF StreamInv, Sound, Quiet, FreshInv, CacheInv, CacheIsHonest
<1>6. CallInv' /\ ResultInv'
  BY <1>0, <1>1, <1>3 DEF CallInv, Quiet, ResultInv
<1> QED
  BY <1>4, <1>5, <1>6 DEF MuxInv

-----------------------------------------------------------------------------
(***************************************************************************)
(* Reading responses.                                                      *)
(***************************************************************************)
LEMMA Consumes ==
    ASSUME TypeInv, FreshInv, connection # 0, NEW s \in Seq(Item),
           responses' = [responses EXCEPT ![connection] = s], UNCHANGED <<requests, opened>>
    PROVE  responses' \in [Connections -> Seq(Item)] /\ responses'[connection] = s /\ FreshInv'
<1>1. responses \in [Connections -> Seq(Item)] /\ \A k \in Connections : k \in Nat
  BY DEF TypeInv, Connections
<1>2. connection \in Connections /\ connection <= opened /\ opened \in Nat
  BY InConnections
<1>3. /\ responses' \in [Connections -> Seq(Item)] /\ responses'[connection] = s
      /\ \A k \in Connections \ {connection} : responses'[k] = responses[k]
  BY <1>1, <1>2
<1>4. ~(connection > opened)
  BY <1>1, <1>2
<1> QED
  BY <1>3, <1>4 DEF FreshInv

LEMMA Reading ==
    ASSUME MuxInv, ~Quiet
    PROVE  /\ connection # 0 /\ responses[connection] \in Seq(Item)
           /\ requests[connection] \in Seq(Request) /\ left \in Seq(Request) /\ Len(left) > 0
           /\ left[1] \in Request /\ Head(left) = left[1]
           /\ Sound => /\ Stream(responses[connection], left, phase = "payload", header, held, applied)
                       /\ connection \in up =>
                            Rest(responses[connection], requests[connection], left, phase = "payload")
<1>1. connection # 0 /\ left \in Seq(Request) /\ Len(left) > 0 /\ TypeInv
  BY DEF MuxInv, CallInv, TypeInv
<1>2. responses[connection] \in Seq(Item) /\ requests[connection] \in Seq(Request)
  BY <1>1, InConnections DEF TypeInv
<1>3. left[1] \in Request /\ Head(left) = left[1]
  BY <1>1
<1> QED
  BY <1>1, <1>2, <1>3 DEF MuxInv, StreamInv

\* A call that gives up leaves nothing behind, or leaves the connection abandoned.
LEMMA GaveUp ==
    ASSUME MuxInv, ~Quiet, GiveUp, UNCHANGED <<ramB, up, connection, next_channel, opened>>,
           NEW s \in Seq(Item), responses' = [responses EXCEPT ![connection] = s],
           hash_cache' \in [Blocks -> Hash \cup {"empty", "junk"}],
           Sound => hash_cache' = hash_cache,
           Sound /\ Len(left) = 1 => s = <<>> /\ (connection \in up => requests[connection] = <<>>)
    PROVE  MuxInv'
<1>0. TypeInv /\ StreamInv /\ FreshInv /\ CallInv /\ ResultInv /\ CacheInv
  BY DEF MuxInv
<1>1. /\ phase' = "idle" /\ call' = NoCall /\ left' = <<>> /\ result' = [result EXCEPT !.ok = FALSE]
      /\ abandoned \subseteq abandoned' /\ (Len(left) > 1 => connection \in abandoned')
      /\ UNCHANGED <<store, requests, applied, held, up, connection, next_channel, opened>>
  BY DEF GiveUp, Return, ramB
<1>2. connection # 0 /\ left \in Seq(Request) /\ Len(left) > 0
  BY Reading
<1>3. responses' \in [Connections -> Seq(Item)] /\ responses'[connection] = s /\ FreshInv'
  BY <1>0, <1>1, <1>2, Consumes
<1>4. /\ result' \in ResultRecord /\ result'.ok = FALSE /\ result'.answers = result.answers
      /\ result'.on = result.on /\ result'.call = result.call
  <2>1. result \in ResultRecord
    BY <1>0 DEF TypeInv
  <2> QED
    BY <1>1, <2>1 DEF ResultRecord
<1>5. TypeInv'
  <2>1. left' \in Seq(Request) /\ call' \in CallRecord
    BY <1>1, NoCallParts
  <2> QED
    BY <1>0, <1>1, <1>3, <1>4, <2>1 DEF TypeInv
<1>6. CallInv' /\ ResultInv'
  BY <1>0, <1>1, <1>4 DEF CallInv, Quiet, ResultInv
<1>7. CacheInv'
  <2>1. abandoned' = {} => abandoned = {} /\ hash_cache' = hash_cache
    BY <1>1, <1>2 DEF Sound
  <2> QED
    BY <1>0, <1>1, <2>1 DEF CacheInv, CacheIsHonest
<1>8. StreamInv'
  <2>1. SUFFICES ASSUME connection \notin abandoned'
                 PROVE  s = <<>> /\ (connection \in up => requests[connection] = <<>>)
    BY <1>1, <1>3 DEF StreamInv, Sound, Quiet
  <2>2. PICK n \in Nat : n = Len(left)
    BY <1>2
  <2>3. n = 1
    BY <1>1, <1>2, <2>1, <2>2
  <2> QED
    BY <1>1, <1>2, <2>1, <2>2, <2>3 DEF Sound
<1> QED
  BY <1>3, <1>5, <1>6, <1>7, <1>8 DEF MuxInv

\* A response that announces nothing is the last thing of the only request.
LEMMA LastFrame ==
    ASSUME MuxInv, phase = "header", Sound, Incoming # <<>>, Len(left) = 1,
           Head(Incoming).status # 200 \/ left[1].type # "Fetch"
    PROVE  /\ Tail(Incoming) = <<>> /\ (connection \in up => requests[connection] = <<>>)
           /\ Answers(Head(Incoming), left[1], held, applied)
<1> DEFINE s == responses[connection]
           q == requests[connection]
<1>0. ~Quiet
  BY DEF Quiet
<1>1. /\ s \in Seq(Item) /\ q \in Seq(Request) /\ left \in Seq(Request) /\ s # <<>>
      /\ Stream(s, left, phase = "payload", header, held, applied)
      /\ connection \in up => Rest(s, q, left, phase = "payload")
      /\ Head(s).status # 200 \/ left[1].type # "Fetch"
  BY <1>0, Reading DEF Incoming
<1>2. PICK w \in BOOLEAN : w = (phase = "payload") /\ w = FALSE
  OBVIOUS
<1>3. Stream(s, left, w, header, held, applied) /\ (connection \in up => Rest(s, q, left, w))
  BY <1>1, <1>2
<1> HIDE DEF s, q
<1>4. Len(s) > 0 /\ Head(s) = s[1]
  BY <1>1
<1>5. ~Announces(s[1], left)
  BY <1>1, <1>4 DEF Announces
<1>6. Len(s) = 1 /\ (Rest(s, q, left, w) => Len(q) = 0)
  BY <1>1, <1>3, <1>4, <1>5, LastAnswer
<1>7. Tail(s) = <<>>
  <2>1. Tail(s) \in Seq(Item) /\ Len(Tail(s)) = Len(s) - 1
    BY <1>1, <1>4, TailParts
  <2>2. Len(Tail(s)) = 0
    BY <1>6, <2>1
  <2> QED
    BY <2>1, <2>2, NothingIsEmpty
<1>8. connection \in up => q = <<>>
  BY <1>1, <1>3, <1>6
<1>9. Answers(s[1], left[1], held, applied)
  <2>1. s[1].frame
    BY <1>2, <1>3, <1>4 DEF Stream, Starts
  <2>2. PICK j \in 1 .. Len(left) : Answers(s[1], left[j], held, applied)
    BY <1>3, <1>6, <2>1 DEF Stream, FramesAnswer
  <2> QED
    BY <2>2
<1> QED
  BY <1>4, <1>7, <1>8, <1>9 DEF s, q, Incoming

LEMMA ReadStatusStep ==
    ASSUME MuxInv, ReadStatus PROVE MuxInv'
<1>1. /\ phase = "header" /\ Incoming # <<>> /\ Consume(Tail(Incoming)) /\ Head(Incoming).status # 200
      /\ UNCHANGED <<ramB, up, connection, next_channel, opened>> /\ GiveUp /\ UNCHANGED hash_cache
  BY DEF ReadStatus, ReadsFrame
<1>2. ~Quiet
  BY <1>1 DEF Quiet
<1>3. Tail(Incoming) \in Seq(Item)
  BY <1>1, <1>2, Reading DEF Incoming
<1>4. responses' = [responses EXCEPT ![connection] = Tail(Incoming)]
  BY <1>1 DEF Consume
<1>5. hash_cache' \in [Blocks -> Hash \cup {"empty", "junk"}]
  BY <1>1 DEF MuxInv, TypeInv
<1>6. Sound /\ Len(left) = 1 =>
         Tail(Incoming) = <<>> /\ (connection \in up => requests[connection] = <<>>)
  BY <1>1, LastFrame
<1> QED
  BY <1>1, <1>2, <1>3, <1>4, <1>5, <1>6, GaveUp

LEMMA ReadGarbageStep ==
    ASSUME MuxInv, ReadGarbage PROVE MuxInv'
<1>1. /\ phase = "header" /\ Incoming # <<>> /\ ~Head(Incoming).frame
      /\ Consume(Incoming) \/ Consume(Tail(Incoming))
      /\ UNCHANGED <<ramB, up, connection, next_channel, opened>> /\ GiveUp /\ UNCHANGED hash_cache
  BY DEF ReadGarbage
<1>2. ~Quiet
  BY <1>1 DEF Quiet
<1>3. Incoming \in Seq(Item) /\ Tail(Incoming) \in Seq(Item) /\ Head(Incoming) = Incoming[1]
  BY <1>1, <1>2, Reading DEF Incoming
<1>4. PICK s \in Seq(Item) : responses' = [responses EXCEPT ![connection] = s]
  BY <1>1, <1>3 DEF Consume
<1>5. hash_cache' \in [Blocks -> Hash \cup {"empty", "junk"}]
  BY <1>1 DEF MuxInv, TypeInv
<1>6. ~Sound
  <2>1. SUFFICES ASSUME Sound PROVE FALSE
    OBVIOUS
  <2>2. Stream(Incoming, left, phase = "payload", header, held, applied)
    BY <1>2, <2>1, Reading DEF Incoming
  <2>3. Len(Incoming) > 0
    BY <1>1, <1>3
  <2> QED
    BY <1>1, <1>3, <2>2, <2>3 DEF Stream, Starts
<1> QED
  BY <1>1, <1>2, <1>4, <1>5, <1>6, GaveUp

LEMMA ReadFailsStep ==
    ASSUME MuxInv, ReadFails PROVE MuxInv'
<1>1. /\ phase \in {"header", "payload"} /\ Incoming = <<>> /\ connection \notin up
      /\ UNCHANGED <<ramB, up, responses, connection, next_channel, opened>> /\ GiveUp
      /\ UNCHANGED hash_cache
  BY DEF ReadFails, network
<1>2. ~Quiet
  BY <1>1 DEF Quiet
<1>3. Incoming \in Seq(Item) /\ responses' = [responses EXCEPT ![connection] = Incoming]
  <2>1. Incoming \in Seq(Item) /\ responses \in [Connections -> Seq(Item)]
    BY <1>2, Reading DEF Incoming, MuxInv, TypeInv
  <2> QED
    BY <1>1, <2>1 DEF Incoming
<1>4. hash_cache' \in [Blocks -> Hash \cup {"empty", "junk"}]
  BY <1>1 DEF MuxInv, TypeInv
<1>5. UNCHANGED <<ramB, up, connection, next_channel, opened>>
  BY <1>1
<1> QED
  BY <1>1, <1>2, <1>3, <1>4, <1>5, GaveUp

LEMMA ReadFetchedStep ==
    ASSUME MuxInv, ReadFetched PROVE MuxInv'
<1>0. TypeInv /\ StreamInv /\ FreshInv /\ CallInv /\ ResultInv /\ CacheInv
  BY DEF MuxInv
<1>1. /\ phase = "header" /\ Incoming # <<>> /\ Head(Incoming).frame /\ Head(Incoming).status = 200
      /\ responses' = [responses EXCEPT ![connection] = Tail(Incoming)]
      /\ call.op \in {"Fetch", "Batch"} /\ phase' = "payload" /\ header' = Head(Incoming)
      /\ UNCHANGED <<store, requests, applied, held, up, connection, next_channel, opened>>
      /\ UNCHANGED <<hash_cache, call, left, result, abandoned>>
  BY DEF ReadFetched, ReadsFrame, Consume, ramB
<1>2. ~Quiet
  BY <1>1 DEF Quiet
<1>3. /\ Incoming \in Seq(Item) /\ requests[connection] \in Seq(Request) /\ left \in Seq(Request)
      /\ connection # 0
  BY <1>2, Reading DEF Incoming
<1>4. /\ Len(Incoming) > 0 /\ Tail(Incoming) \in Seq(Item) /\ Head(Incoming) = Incoming[1]
      /\ Head(Incoming) \in Item
  BY <1>1, <1>3
<1>5. responses' \in [Connections -> Seq(Item)] /\ responses'[connection] = Tail(Incoming) /\ FreshInv'
  BY <1>0, <1>1, <1>3, <1>4, Consumes
<1>6. TypeInv'
  BY <1>0, <1>1, <1>4, <1>5 DEF TypeInv
<1>7. CallInv' /\ ResultInv' /\ CacheInv'
  BY <1>0, <1>1 DEF CallInv, Quiet, ResultInv, CacheInv, CacheIsHonest
<1>8. StreamInv'
  <2>1. SUFFICES ASSUME Sound
                 PROVE  /\ Stream(Tail(Incoming), left, TRUE, Incoming[1], held, applied)
                        /\ connection \in up => Rest(Tail(Incoming), requests[connection], left, TRUE)
    BY <1>1, <1>4, <1>5 DEF StreamInv, Sound, Quiet
  <2>2. /\ Stream(Incoming, left, FALSE, header, held, applied)
        /\ connection \in up => Rest(Incoming, requests[connection], left, FALSE)
    <3>1. (phase = "payload") = FALSE
      BY <1>1
    <3> QED
      BY <1>2, <2>1, <3>1, Reading DEF Incoming
  <2>3. Announces(Incoming[1], left)
    <3>1. left[1].type = "Fetch"
      <4>1. \A i \in 1 .. Len(left) : left[i].type = IF call.op = "Batch" THEN "Fetch" ELSE call.op
        BY <1>0, <1>2 DEF CallInv
      <4>2. 1 \in 1 .. Len(left)
        BY <1>2, <1>3, Reading
      <4> QED
        BY <1>1, <4>1, <4>2
    <3> QED
      BY <1>1, <1>4, <3>1 DEF Announces
  <2> QED
    BY <1>3, <1>4, <2>2, <2>3, FrameIsRead
<1> QED
  BY <1>5, <1>6, <1>7, <1>8 DEF MuxInv

\* A store or a ping is acknowledged.
LEMMA ReadAcknowledgedStep ==
    ASSUME MuxInv, ReadAcknowledged PROVE MuxInv'
<1> DEFINE f == Head(Incoming)
           x == Accepted([channel_id |-> f.channel_id, data |-> call.data])
<1>0. TypeInv /\ StreamInv /\ FreshInv /\ CallInv /\ ResultInv /\ CacheInv
  BY DEF MuxInv
<1>1. /\ phase = "header" /\ Incoming # <<>> /\ f.frame /\ f.status = 200
      /\ responses' = [responses EXCEPT ![connection] = Tail(Incoming)]
      /\ call.op \in {"Store", "Ping"} /\ phase' = "idle" /\ call' = NoCall /\ left' = <<>>
      /\ result' = [result EXCEPT !.ok = TRUE, !.answers = <<x>>]
      /\ hash_cache' = IF call.op = "Store" THEN [hash_cache EXCEPT ![call.blocks[1]] = call.hash]
                       ELSE hash_cache
      /\ UNCHANGED <<store, requests, applied, held, up, connection, next_channel, opened, abandoned>>
  BY DEF ReadAcknowledged, ReadsFrame, Consume, ramB
<1>2. ~Quiet
  BY <1>1 DEF Quiet
<1>3. /\ Incoming \in Seq(Item) /\ left \in Seq(Request) /\ connection # 0
      /\ left[1] \in Request /\ Head(left) = left[1]
  BY <1>2, Reading DEF Incoming
<1>4. Tail(Incoming) \in Seq(Item) /\ f \in Item
  BY <1>1, <1>3
<1>5. /\ Len(left) = 1 /\ left[1].type = call.op /\ left[1].hash = call.hash
      /\ left[1].block_index = call.blocks[1] /\ result.call = call /\ result.on = connection
  <2>1. Len(left) = 1 /\ left[1].block_index = call.blocks[1]
    BY <1>0, <1>1, <1>2 DEF CallInv
  <2>2. 1 \in 1 .. Len(left)
    BY <2>1
  <2> QED
    BY <1>0, <1>1, <1>2, <2>1, <2>2 DEF CallInv
<1>6. responses' \in [Connections -> Seq(Item)] /\ responses'[connection] = Tail(Incoming) /\ FreshInv'
  BY <1>0, <1>1, <1>3, <1>4, Consumes
<1>7. /\ Sound => /\ Tail(Incoming) = <<>> /\ (connection \in up => requests[connection] = <<>>)
                  /\ Answers(f, left[1], held, applied)
  BY <1>1, <1>5, LastFrame
<1>8. /\ x.asked = left[1].channel_id /\ x.answered = f.channel_id /\ x.block = left[1].block_index
      /\ x \in AnswerRecord
  <2>1. /\ left[1].channel_id \in Nat /\ left[1].block_index \in Blocks /\ call.data \in Hash
        /\ f.channel_id \in Nat
    <3>1. left[1].channel_id \in Nat /\ left[1].block_index \in Blocks
      BY <1>3, RequestParts
    <3>2. call.data \in Hash
      BY <1>0 DEF TypeInv, CallRecord
    <3>3. f.channel_id \in Nat
      BY <1>1, <1>4 DEF Item
    <3> QED
      BY <3>1, <3>2, <3>3
  <2> HIDE DEF f
  <2> QED
    BY <1>3, <2>1 DEF Accepted, AnswerRecord
<1> HIDE DEF f, x
<1>9. /\ result' \in ResultRecord /\ result'.call = call /\ result'.on = connection
      /\ result'.answers = <<x>> /\ Len(result'.answers) = 1 /\ result'.answers[1] = x
  <2>1. result \in ResultRecord /\ <<x>> \in Seq(AnswerRecord)
    BY <1>0, <1>8 DEF TypeInv
  <2>2. result' \in ResultRecord /\ result'.call = call /\ result'.on = connection /\ result'.answers = <<x>>
    BY <1>1, <1>5, <2>1 DEF ResultRecord
  <2> QED
    BY <2>2
<1>10. /\ left[1].block_index \in Blocks /\ call.hash \in Hash
       /\ hash_cache \in [Blocks -> Hash \cup {"empty", "junk"}]
  BY <1>0, <1>3, RequestParts DEF TypeInv, CallRecord
<1>11. TypeInv'
  <2>1. left' \in Seq(Request) /\ call' \in CallRecord
    BY <1>1, NoCallParts
  <2>2. hash_cache' \in [Blocks -> Hash \cup {"empty", "junk"}]
    BY <1>1, <1>5, <1>10
  <2> QED
    BY <1>0, <1>1, <1>6, <1>9, <2>1, <2>2 DEF TypeInv
<1>12. CallInv'
  BY <1>1 DEF CallInv, Quiet
<1>13. ResultInv'
  <2>1. ASSUME connection \notin abandoned PROVE RightAnswer(x, call, held, applied)
    <3>1. Answers(f, left[1], held, applied)
      BY <1>3, <1>7, <2>1 DEF Sound
    <3> QED
      BY <1>1, <1>5, <1>8, <3>1 DEF Answers, RightAnswer
  <2> QED
    BY <1>1, <1>9, <2>1 DEF ResultInv
<1>14. CacheInv'
  <2>1. ASSUME abandoned = {}, call.op = "Store" PROVE call.hash \in held[left[1].block_index]
    <3>1. Answers(f, left[1], held, applied)
      BY <1>3, <1>7, <2>1 DEF Sound
    <3> QED
      BY <1>1, <1>5, <2>1, <3>1 DEF Answers
  <2> QED
    BY <1>0, <1>1, <1>5, <1>10, <2>1 DEF CacheInv, CacheIsHonest
<1>15. StreamInv'
  BY <1>1, <1>3, <1>6, <1>7 DEF StreamInv, Sound, Quiet
<1> QED
  BY <1>6, <1>11, <1>12, <1>13, <1>14, <1>15 DEF MuxInv

\* What the client holds in its hands when it looks at a payload.
LEMMA HeaderParts ==
    ASSUME MuxInv, phase = "payload"
    PROVE  /\ ~Quiet /\ header \in Item /\ header.frame /\ header.hash \in Hash
           /\ header.channel_id \in Nat /\ header.sized \in BOOLEAN
           /\ left[1].channel_id \in Nat /\ left[1].block_index \in Blocks
           /\ Sound => /\ Stream(Incoming, left, TRUE, header, held, applied)
                       /\ connection \in up => Rest(Incoming, requests[connection], left, TRUE)
                       /\ Answers(header, left[1], held, applied) /\ Announces(header, left)
                       /\ header.sized
<1>1. ~Quiet /\ header \in Item /\ header.frame
  BY DEF Quiet, MuxInv, TypeInv
<1>2. header.hash \in Hash /\ header.channel_id \in Nat /\ header.sized \in BOOLEAN
  BY <1>1 DEF Item
<1>3. left[1].channel_id \in Nat /\ left[1].block_index \in Blocks
  BY <1>1, Reading, RequestParts
<1>4. ASSUME Sound
      PROVE  /\ Stream(Incoming, left, TRUE, header, held, applied)
             /\ connection \in up => Rest(Incoming, requests[connection], left, TRUE)
             /\ Answers(header, left[1], held, applied) /\ Announces(header, left)
             /\ header.sized
  <2>1. (phase = "payload") = TRUE
    OBVIOUS
  <2>2. /\ Stream(Incoming, left, TRUE, header, held, applied)
        /\ connection \in up => Rest(Incoming, requests[connection], left, TRUE)
    BY <1>1, <1>4, <2>1, Reading DEF Incoming
  <2>3. Answers(header, left[1], held, applied) /\ Announces(header, left)
    BY <2>2 DEF Stream
  <2> QED
    BY <2>2, <2>3 DEF Answers, Announces
<1> QED
  BY <1>1, <1>2, <1>3, <1>4

\* A payload is taken, or nothing is, or frames are, for one.
LEMMA TookPayload ==
    ASSUME MuxInv, phase = "payload", NEW d \in Hash \cup {"empty", "junk"}, TakePayload(d),
           NEW s \in Seq(Item), responses' = [responses EXCEPT ![connection] = s],
           Sound => /\ d = header.hash
                    /\ Len(left) = 1 => s = <<>> /\ (connection \in up => requests[connection] = <<>>)
                    /\ Len(left) > 1 =>
                         /\ Stream(s, Tail(left), FALSE, None, held, applied)
                         /\ connection \in up => Rest(s, requests[connection], Tail(left), FALSE)
    PROVE  MuxInv'
<1> DEFINE b == left[1].block_index
           x == Accepted([channel_id |-> header.channel_id, data |-> d])
<1>0. TypeInv /\ StreamInv /\ FreshInv /\ CallInv /\ ResultInv /\ CacheInv
  BY DEF MuxInv
<1>1. /\ ~Quiet /\ header.hash \in Hash /\ header.channel_id \in Nat
      /\ left[1].channel_id \in Nat /\ b \in Blocks
      /\ Sound => Answers(header, left[1], held, applied) /\ Announces(header, left)
  BY HeaderParts
<1>2. connection # 0 /\ left \in Seq(Request) /\ Len(left) > 0 /\ Head(left) = left[1]
  BY <1>1, Reading
<1> HIDE DEF b
<1>3. /\ hash_cache' = [hash_cache EXCEPT ![b] = Verified(d)]
      /\ UNCHANGED <<store, requests, applied, held, up, connection, next_channel, opened>>
  BY <1>2 DEF TakePayload, ramB, b
<1>4. Verified(d) \in Hash \cup {"empty", "junk"} /\ (Sound => Verified(d) = header.hash)
  BY <1>1 DEF Verified
<1>5. hash_cache' \in [Blocks -> Hash \cup {"empty", "junk"}]
  BY <1>0, <1>1, <1>3, <1>4 DEF TypeInv
<1>6. CASE Verified(d) # header.hash
  <2>1. GiveUp /\ UNCHANGED <<ramB, up, connection, next_channel, opened>> /\ ~Sound
    BY <1>4, <1>6 DEF TakePayload
  <2> QED
    BY <1>1, <1>5, <2>1, GaveUp
<1>7. CASE Verified(d) = header.hash
  <2>1. /\ result' = [result EXCEPT !.ok = (Len(left) = 1), !.answers = Append(@, x)]
        /\ left' = Tail(left) /\ abandoned' = abandoned
        /\ Len(left) = 1 => phase' = "idle" /\ call' = NoCall
        /\ Len(left) # 1 => phase' = "header" /\ call' = call
    BY <1>7 DEF TakePayload
  <2>2. /\ x.asked = left[1].channel_id /\ x.answered = header.channel_id /\ x.block = b
        /\ x.data = d /\ x \in AnswerRecord
    BY <1>1, <1>2 DEF Accepted, AnswerRecord, b
  <2> HIDE DEF x
  <2>3. PICK n \in Nat : n + 1 = Len(left)
    BY <1>2, LenFromOne
  <2>4. /\ left' \in Seq(Request) /\ Len(left') = n
        /\ \A i \in 1 .. n : left'[i] = left[i + 1] /\ i + 1 \in 1 .. Len(left)
    <3>1. Tail(left) \in Seq(Request) /\ Len(Tail(left)) = Len(left) - 1
      BY <1>2, TailParts
    <3>2. \A i \in 1 .. n : Tail(left)[i] = left[i + 1]
      BY <1>2, <2>3, TailParts
    <3> QED
      BY <2>1, <2>3, <3>1, <3>2
  <2>5. /\ result \in ResultRecord /\ result.answers \in Seq(AnswerRecord)
        /\ Append(result.answers, x) \in Seq(AnswerRecord)
        /\ Len(Append(result.answers, x)) = Len(result.answers) + 1
        /\ \A i \in 1 .. Len(result.answers) : Append(result.answers, x)[i] = result.answers[i]
        /\ Append(result.answers, x)[Len(result.answers) + 1] = x
    <3>1. result \in ResultRecord /\ result.answers \in Seq(AnswerRecord)
      BY <1>0 DEF TypeInv, ResultRecord
    <3> QED
      BY <2>2, <3>1, AppendProperties
  <2>6. /\ result' \in ResultRecord /\ result'.answers = Append(result.answers, x)
        /\ result'.on = result.on /\ result'.call = result.call
        /\ result'.ok = (Len(left) = 1)
    BY <2>1, <2>5 DEF ResultRecord
  <2>7. /\ result.call = call /\ call.op # "none" /\ Len(call.blocks) > 0 /\ result.on = connection
        /\ call.op # "Batch" => Len(call.blocks) = 1 /\ Len(left) = 1
        /\ \A i \in 1 .. Len(left) : /\ left[i].type = IF call.op = "Batch" THEN "Fetch" ELSE call.op
                                     /\ left[i].hash = call.hash
    BY <1>0, <1>1 DEF CallInv, Quiet
  <2>8. responses' \in [Connections -> Seq(Item)] /\ responses'[connection] = s /\ FreshInv'
    BY <1>0, <1>2, <1>3, Consumes
  <2>9. TypeInv'
    <3>1. call' \in CallRecord /\ phase' \in {"idle", "header"}
      BY <1>0, <2>1, NoCallParts DEF TypeInv
    <3> QED
      BY <1>0, <1>3, <1>5, <2>4, <2>6, <2>8, <3>1 DEF TypeInv
  <2>10. CallInv'
    <3>1. CASE Len(left) = 1
      BY <2>1, <3>1 DEF CallInv, Quiet
    <3>2. CASE Len(left) # 1
      <4>1. n > 0 /\ Len(left') > 0
        BY <2>3, <2>4, <3>2
      <4>2. /\ phase' = "header" /\ call' = call /\ result'.ok = FALSE /\ call.op = "Batch"
        BY <2>1, <2>6, <2>7, <3>2
      <4>3. \A i \in 1 .. Len(left') : /\ left'[i].type = IF call.op = "Batch" THEN "Fetch" ELSE call.op
                                       /\ left'[i].hash = call.hash
        BY <2>4, <2>7
      <4> QED
        BY <1>2, <1>3, <2>6, <2>7, <4>1, <4>2, <4>3 DEF CallInv, Quiet
    <3> QED
      BY <3>1, <3>2
  <2>11. ASSUME Sound PROVE d \in held[b] /\ RightAnswer(x, call, held, applied)
    <3>1. Answers(header, left[1], held, applied) /\ Announces(header, left) /\ d = header.hash
      BY <1>1, <2>11
    <3>2. left[1].type = "Fetch" /\ header.status = 200 /\ x.answered = x.asked
      BY <2>2, <3>1 DEF Answers, Announces
    <3>3. d \in held[b] /\ left[1].hash \in {None, d}
      BY <3>1, <3>2 DEF Answers, b
    <3>4. left[1].hash = call.hash /\ call.op # "Store"
      <4>1. 1 \in 1 .. Len(left)
        BY <1>2
      <4> QED
        BY <2>7, <3>2, <4>1
    <3> QED
      BY <2>2, <3>2, <3>3, <3>4 DEF RightAnswer
  <2>12. ResultInv'
    <3>1. PICK m \in Nat : m = Len(result.answers)
      BY <2>5
    <3>2. Len(result'.answers) = m + 1 /\ m + 1 > 0
      BY <2>5, <2>6, <3>1
    <3>3. ASSUME connection \notin abandoned, NEW i \in 1 .. m + 1
          PROVE  RightAnswer(result'.answers[i], result.call, held, applied)
      <4>1. CASE i \in 1 .. m
        <5>1. result'.answers[i] = result.answers[i]
          BY <2>5, <2>6, <3>1, <4>1
        <5>2. RightAnswer(result.answers[i], result.call, held, applied)
          BY <1>0, <2>7, <3>1, <3>3, <4>1 DEF ResultInv
        <5> QED
          BY <5>1, <5>2
      <4>2. CASE i = m + 1
        <5>1. result'.answers[i] = x
          BY <2>5, <2>6, <3>1, <4>2
        <5>2. Sound
          BY <1>2, <3>3 DEF Sound
        <5> QED
          BY <2>7, <2>11, <5>1, <5>2
      <4> QED
        BY <4>1, <4>2
    <3> QED
      BY <1>3, <2>1, <2>6, <2>7, <3>2, <3>3 DEF ResultInv
  <2>13. CacheInv'
    <3>1. ASSUME abandoned = {} PROVE Verified(d) \in held[b]
      BY <1>2, <1>4, <2>11, <3>1 DEF Sound
    <3>2. hash_cache \in [Blocks -> Hash \cup {"empty", "junk"}]
      BY <1>0 DEF TypeInv
    <3> QED
      BY <1>0, <1>1, <1>3, <2>1, <3>1, <3>2 DEF CacheInv, CacheIsHonest
  <2>14. StreamInv'
    <3>1. CASE Len(left) = 1
      BY <1>3, <2>1, <2>8, <3>1 DEF StreamInv, Sound, Quiet
    <3>2. CASE Len(left) # 1
      <4>1. Len(left) > 1
        BY <2>3, <3>2
      <4>2. SUFFICES ASSUME Sound
                     PROVE  /\ Stream(s, Tail(left), phase' = "payload", header', held, applied)
                            /\ connection \in up =>
                                 Rest(s, requests[connection], Tail(left), phase' = "payload")
        BY <1>3, <2>1, <2>8, <3>2 DEF StreamInv, Sound, Quiet
      <4>3. header' = None /\ (phase' = "payload") = FALSE
        BY <1>7, <2>1, <3>2 DEF TakePayload
      <4> QED
        BY <4>1, <4>2, <4>3
    <3> QED
      BY <3>1, <3>2
  <2> QED
    BY <2>8, <2>9, <2>10, <2>12, <2>13, <2>14 DEF MuxInv
<1> QED
  BY <1>6, <1>7

LEMMA ReadPayloadStep ==
    ASSUME MuxInv, ReadPayload PROVE MuxInv'
<1>1. /\ phase = "payload" /\ Incoming # <<>> /\ ~Head(Incoming).frame
      /\ responses' = [responses EXCEPT ![connection] = Tail(Incoming)]
      /\ TakePayload(Head(Incoming).data)
  BY DEF ReadPayload, Consume
<1>2. ~Quiet
  BY <1>1, HeaderParts
<1>3. /\ Incoming \in Seq(Item) /\ requests[connection] \in Seq(Request) /\ left \in Seq(Request)
      /\ Len(left) > 0
  BY <1>2, Reading DEF Incoming
<1>4. /\ Len(Incoming) > 0 /\ Head(Incoming) = Incoming[1] /\ Head(Incoming) \in Item
      /\ Tail(Incoming) \in Seq(Item)
  BY <1>1, <1>3
<1>5. Head(Incoming).data \in Hash \cup {"empty", "junk"}
  BY <1>1, <1>4 DEF Item, Hash
<1>6. ASSUME Sound
      PROVE  /\ Head(Incoming).data = header.hash
             /\ Len(left) = 1 =>
                  Tail(Incoming) = <<>> /\ (connection \in up => requests[connection] = <<>>)
             /\ Len(left) > 1 =>
                  /\ Stream(Tail(Incoming), Tail(left), FALSE, None, held, applied)
                  /\ connection \in up =>
                       Rest(Tail(Incoming), requests[connection], Tail(left), FALSE)
  <2>1. /\ Stream(Incoming, left, TRUE, header, held, applied)
        /\ connection \in up => Rest(Incoming, requests[connection], left, TRUE)
    BY <1>1, <1>6, HeaderParts
  <2>2. Incoming[1].data = header.hash
    BY <1>4, <2>1 DEF Stream, Starts
  <2>3. ASSUME Len(left) = 1
        PROVE  Tail(Incoming) = <<>> /\ (connection \in up => requests[connection] = <<>>)
    <3>1. PICK w \in BOOLEAN : w = TRUE
      OBVIOUS
    <3>2. Stream(Incoming, left, w, header, held, applied)
      BY <2>1, <3>1
    <3>3. Len(Incoming) = 1 /\ (Rest(Incoming, requests[connection], left, w) => Len(requests[connection]) = 0)
      BY <1>3, <1>4, <2>3, <3>1, <3>2, LastAnswer
    <3>4. Tail(Incoming) \in Seq(Item) /\ Len(Tail(Incoming)) = Len(Incoming) - 1
      BY <1>3, <1>4, TailParts
    <3>5. Len(Tail(Incoming)) = 0
      BY <3>3, <3>4
    <3> QED
      BY <1>3, <2>1, <3>1, <3>3, <3>4, <3>5, NothingIsEmpty
  <2>4. ASSUME Len(left) > 1
        PROVE  /\ Stream(Tail(Incoming), Tail(left), FALSE, None, held, applied)
               /\ connection \in up => Rest(Tail(Incoming), requests[connection], Tail(left), FALSE)
    BY <1>3, <1>4, <2>1, <2>4, PayloadIsRead
  <2> QED
    BY <1>4, <2>2, <2>3, <2>4
<1> QED
  BY <1>1, <1>4, <1>5, <1>6, TookPayload

LEMMA ReadNothingStep ==
    ASSUME MuxInv, ReadNothing PROVE MuxInv'
<1>1. phase = "payload" /\ ~header.sized /\ TakePayload("empty") /\ UNCHANGED responses
  BY DEF ReadNothing
<1>2. ~Quiet /\ ~Sound
  BY <1>1, HeaderParts
<1>3. Incoming \in Seq(Item) /\ responses' = [responses EXCEPT ![connection] = Incoming]
  <2>1. Incoming \in Seq(Item) /\ responses \in [Connections -> Seq(Item)]
    BY <1>2, Reading DEF Incoming, MuxInv, TypeInv
  <2> QED
    BY <1>1, <2>1 DEF Incoming
<1> QED
  BY <1>1, <1>2, <1>3, TookPayload

LEMMA SuffixParts ==
    ASSUME NEW S, NEW s \in Seq(S), NEW t \in Suffixes(s) PROVE t \in Seq(S)
<1>1. CASE t = <<>>
  BY <1>1
<1>2. CASE \E n \in 1 .. Len(s) : t = SubSeq(s, n, Len(s))
  <2>1. PICK n \in 1 .. Len(s) : t = SubSeq(s, n, Len(s))
    BY <1>2
  <2>2. n \in Int /\ Len(s) \in Int /\ \A i \in n .. Len(s) : s[i] \in S
    OBVIOUS
  <2> QED
    BY <2>1, <2>2, SubSeqProperties
<1> QED
  BY <1>1, <1>2 DEF Suffixes

LEMMA ReadFramesStep ==
    ASSUME MuxInv, ReadFrames PROVE MuxInv'
<1>1. /\ phase = "payload" /\ Incoming # <<>> /\ Head(Incoming).frame /\ TakePayload("junk")
      /\ \E t \in Suffixes(Tail(Incoming)) : Consume(t) \/ Consume(<<Payload("junk")>> \o t)
  BY DEF ReadFrames
<1>2. ~Quiet
  BY <1>1, HeaderParts
<1>3. Incoming \in Seq(Item)
  BY <1>2, Reading DEF Incoming
<1>4. Len(Incoming) > 0 /\ Head(Incoming) = Incoming[1] /\ Tail(Incoming) \in Seq(Item)
  BY <1>1, <1>3
<1>5. ~Sound
  <2>1. SUFFICES ASSUME Sound PROVE FALSE
    OBVIOUS
  <2>2. Stream(Incoming, left, TRUE, header, held, applied)
    BY <1>1, <2>1, HeaderParts
  <2> QED
    BY <1>1, <1>4, <2>2 DEF Stream, Starts
<1>6. PICK t \in Suffixes(Tail(Incoming)) : Consume(t) \/ Consume(<<Payload("junk")>> \o t)
  BY <1>1
<1>7. t \in Seq(Item)
  BY <1>4, SuffixParts
<1>8. <<Payload("junk")>> \o t \in Seq(Item)
  <2>1. Payload("junk") \in Item
    BY DEF Payload, Item
  <2> QED
    BY <1>7, <2>1, ConcatProperties
<1>9. PICK s \in Seq(Item) : responses' = [responses EXCEPT ![connection] = s]
  BY <1>6, <1>7, <1>8 DEF Consume
<1> QED
  BY <1>1, <1>5, <1>9, TookPayload

-----------------------------------------------------------------------------
LEMMA InitInv == Init => MuxInv /\ SilentInv
<1>0. Init => SilentInv
  BY DEF Init, SilentInv
<1> SUFFICES ASSUME Init PROVE MuxInv
  BY <1>0
<1>1. /\ store = [b \in Blocks |-> None] /\ held = [b \in Blocks |-> {}]
      /\ requests = [k \in Connections |-> <<>>] /\ responses = [k \in Connections |-> <<>>]
      /\ up = {} /\ connection = 0 /\ opened = 0 /\ abandoned = {}
      /\ hash_cache = [b \in Blocks |-> None] /\ next_channel = 1 /\ phase = "idle"
      /\ call = NoCall /\ left = <<>> /\ result = NoResult
  BY DEF Init
<1>2. TypeInv
  <2>1. /\ store \in [Blocks -> Hash] /\ held \in [Blocks -> SUBSET Hash]
        /\ hash_cache \in [Blocks -> Hash \cup {"empty", "junk"}]
    BY <1>1, NoCallParts
  <2>2. requests \in [Connections -> Seq(Request)] /\ responses \in [Connections -> Seq(Item)]
    BY <1>1
  <2>3. left \in Seq(Request) /\ call \in CallRecord /\ result \in ResultRecord
    BY <1>1, NoCallParts
  <2>4. opened \in 0 .. MaxConn /\ connection \in 0 .. opened /\ up \subseteq 1 .. opened
    BY <1>1, BoundsAssumption
  <2> QED
    BY <1>1, <2>1, <2>2, <2>3, <2>4 DEF TypeInv
<1>3. StreamInv /\ CallInv /\ FreshInv
  BY <1>1 DEF StreamInv, Sound, CallInv, Quiet, FreshInv
<1>4. ResultInv /\ CacheInv
  BY <1>1, NoCallParts DEF ResultInv, CacheInv, CacheIsHonest
<1> QED
  BY <1>2, <1>3, <1>4 DEF MuxInv

\* Only a connection that was up falls silent.
LEMMA SilentStep == MuxInv /\ SilentInv /\ [Next]_vars => SilentInv'
<1> SUFFICES ASSUME MuxInv, SilentInv, [Next]_vars PROVE SilentInv'
  OBVIOUS
<1>1. ASSUME NEW c \in Calls, Begin(c) \/ ConnectFails(c) PROVE SilentInv'
  BY <1>1 DEF Begin, ConnectFails, network, SilentInv, Connections
<1>2. ASSUME Client PROVE SilentInv'
  <2>1. silent' = silent
    BY <1>2 DEF Client, Send, SendFails, Read, ReadStatus, ReadFetched, ReadAcknowledged, ReadsFrame,
       ReadGarbage, ReadPayload, ReadNothing, ReadFrames, ReadFails, TakePayload, network
  <2> QED
    BY <2>1 DEF SilentInv, Connections
<1>3. ASSUME disconnect \/ Restart PROVE SilentInv'
  BY <1>3 DEF disconnect, Restart, SilentInv, Connections
<1>4. ASSUME NEW k \in Connections, ServeConnection(k) \/ Break(k) \/ Vanish(k) PROVE SilentInv'
  <2>1. silent' \subseteq silent \cup {k}
    BY <1>4 DEF ServeConnection, ServeFetch, ServeStore, ServePing, Respond, Break, Vanish
  <2> QED
    BY <2>1 DEF SilentInv, Connections
<1>5. CASE UNCHANGED vars
  BY <1>5 DEF vars, network, SilentInv, Connections
<1> QED
  BY <1>1, <1>2, <1>3, <1>4, <1>5 DEF Next

LEMMA NextInv == MuxInv /\ SilentInv /\ [Next]_vars => MuxInv'
<1> SUFFICES ASSUME MuxInv, SilentInv, [Next]_vars PROVE MuxInv'
  OBVIOUS
<1>1. ASSUME NEW c \in Calls, Begin(c) \/ ConnectFails(c) PROVE MuxInv'
  BY <1>1, BeginStep, ConnectFailsStep
<1>2. ASSUME Client PROVE MuxInv'
  BY <1>2, SendStep, SendFailsStep, ReadStatusStep, ReadFetchedStep, ReadAcknowledgedStep,
     ReadGarbageStep, ReadPayloadStep, ReadNothingStep, ReadFramesStep, ReadFailsStep DEF Client, Read
<1>3. ASSUME disconnect \/ Restart PROVE MuxInv'
  BY <1>3, DisconnectStep, RestartStep
<1>4. ASSUME NEW k \in Connections, ServeConnection(k) \/ Break(k) \/ Vanish(k) PROVE MuxInv'
  BY <1>4, ServerSteps, CutStep DEF Break, Vanish
<1>5. CASE UNCHANGED vars
  BY <1>5 DEF vars, ramB, network, client, MuxInv, TypeInv, StreamInv, Sound, Quiet, FreshInv, CallInv,
     ResultInv, CacheInv, CacheIsHonest
<1> QED
  BY <1>1, <1>2, <1>3, <1>4, <1>5 DEF Next

\* The inductive invariant of the transport: whatever breaks, restarts, is
\* refused or disconnected, the bytes on a connection that no batch abandoned
\* are the answers to the requests that wait, in their order.
THEOREM MuxInvariance == Spec => []MuxInv
  BY InitInv, SilentStep, NextInv, PTL DEF Spec

\* cluster_mux.rs matches responses to requests by their position alone.  On a
\* connection no batch was given up on, a call that succeeds was answered under
\* its own channel ids, and a fetch got a content RAM B held for that block.
THEOREM CallsAreAnswered == Spec => []AnswersItsRequest
<1>1. MuxInv => AnswersItsRequest
  <2> SUFFICES ASSUME MuxInv, result.ok, result.on \notin abandoned, NEW i \in DOMAIN result.answers
               PROVE  /\ result.answers[i].answered = result.answers[i].asked
                      /\ result.call.op \in {"Fetch", "Batch"} =>
                            /\ result.answers[i].data \in held[result.answers[i].block]
                            /\ result.call.hash \in {None, result.answers[i].data}
    BY DEF AnswersItsRequest
  <2>1. result.answers \in Seq(AnswerRecord)
    BY DEF MuxInv, TypeInv, ResultRecord
  <2>2. i \in 1 .. Len(result.answers)
    BY <2>1
  <2>3. RightAnswer(result.answers[i], result.call, held, applied)
    BY <2>2 DEF MuxInv, ResultInv
  <2> QED
    BY <2>3 DEF RightAnswer
<1> QED
  BY <1>1, MuxInvariance, PTL

\* store_block returns Ok only when RAM B has stored the block (the same
\* condition), although its acknowledgement carries nothing the client compares.
THEOREM AcknowledgedStoresAreApplied == Spec => []AcknowledgedIsApplied
<1>1. MuxInv => AcknowledgedIsApplied
  <2> SUFFICES ASSUME MuxInv, result.ok, result.call.op = "Store", result.on \notin abandoned
               PROVE  result.answers[1].asked \in applied
    BY DEF AcknowledgedIsApplied
  <2>1. result.answers \in Seq(AnswerRecord) /\ Len(result.answers) > 0
    BY DEF MuxInv, TypeInv, ResultRecord, ResultInv
  <2>2. 1 \in 1 .. Len(result.answers)
    BY <2>1
  <2>3. RightAnswer(result.answers[1], result.call, held, applied)
    BY <2>2 DEF MuxInv, ResultInv
  <2> QED
    BY <2>3 DEF RightAnswer
<1> QED
  BY <1>1, MuxInvariance, PTL

\* The hash_cache that lets read_payload_cached skip the computation names only
\* contents RAM B held for that block, as long as no batch was ever given up.
THEOREM CacheStaysHonest == Spec => []CacheIsHonest
<1>1. MuxInv => CacheIsHonest
  BY DEF MuxInv, CacheInv
<1> QED
  BY <1>1, MuxInvariance, PTL
=============================================================================
