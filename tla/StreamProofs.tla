---------------------------- MODULE StreamProofs ----------------------------
(***************************************************************************)
(* What is delivered, to whom and in which order: events to the streams of the *)
(* dashboard, bytes to the ends of a relayed connection, and what a notebook's *)
(* cell prints, for any numbers of threads, streams, connections, cells, events *)
(* and bytes.                                                                *)
(***************************************************************************)
EXTENDS EventStream, Relay, Notebook, Lemmas

-----------------------------------------------------------------------------
(* EventStream: threads that emit, and streams that send what they queued. *)

EventId == 1..Events
EmitterState == [event : 0..Events, todo : Seq(Stream)]
StreamState == [pc : {"closed", "poll", "send", "clear"}, queue : Seq(EventId),
                at : Nat, out : Seq(EventId)]

(* The event y may follow x. *)
MayFollow(x, y) == y \notin before[x] \cup {x}

(* Nobody subscribes twice, an open stream is subscribed. *)
Distinct(s) == \A i, k \in DOMAIN s : s[i] = s[k] => i = k
Subscribed ==
    /\ Distinct(subscribers)
    /\ \A w \in Stream : stream[w].pc # "closed" => w \in EventsOf(subscribers)
    /\ \A m \in Emitter : Distinct(emitter[m].todo)

(* A thread in emit has an event of its own to deliver, one that had not ended
   before any other began. *)
Emitting ==
    /\ \A m \in Emitter : emitter[m] # Quiet =>
         /\ emitter[m].event \in 1..emitted /\ emitter[m].todo # <<>>
         /\ \A x \in EventId : emitter[m].event \notin before[x]
    /\ \A l, m \in Emitter : l # m /\ emitter[l] # Quiet => emitter[l].event # emitter[m].event
    /\ \A x \in EventId : before[x] \subseteq 1..emitted

(* What a stream has queued or sent was emitted, and who has still to call it
   brings something new. *)
Unseen ==
    \A w \in Stream :
        /\ EventsOf(stream[w].queue) \cup EventsOf(stream[w].out) \subseteq 1..emitted
        /\ \A m \in Emitter : emitter[m] # Quiet /\ w \in EventsOf(emitter[m].todo) =>
             emitter[m].event \notin EventsOf(stream[w].queue) \cup EventsOf(stream[w].out)

(* The queue is in order, and what is still to be sent may follow what was. *)
Ordered(s) == \A i, k \in DOMAIN s : i < k => MayFollow(s[i], s[k])
InOrder(v) ==
    /\ Ordered(v.queue) /\ Ordered(v.out)
    /\ \A i \in DOMAIN v.out, k \in DOMAIN v.queue :
         k >= v.at => MayFollow(v.out[i], v.queue[k])
    /\ v.pc = "poll" => v.at = 0
    /\ v.pc \in {"send", "clear"} => v.at \in 1..Len(v.queue) + 1
QueueInOrder == \A w \in Stream : InOrder(stream[w])

EsInv == EsTypeOK /\ Subscribed /\ Emitting /\ Unseen /\ QueueInOrder

(* The types, as memberships. *)
LEMMA EsTypes == EsTypeOK <=>
    /\ emitted \in 0..Events /\ bus \in Seq(EventId)
    /\ emitter \in [Emitter -> EmitterState] /\ subscribers \in Seq(Stream)
    /\ stream \in [Stream -> StreamState]
    /\ got \in [Stream -> SUBSET EventId] /\ lost \in [Stream -> SUBSET EventId]
    /\ before \in [EventId -> SUBSET EventId]
BY DEF EsTypeOK, EmitterState, StreamState, EventId

(* The events of a sequence are its elements. *)
LEMMA Eventwise == ASSUME NEW s PROVE EventsOf(s) = Elements(s)
BY DEF EventsOf, Elements

(* Without takes one stream out of a list that has it once. *)
LEMMA Removed ==
    ASSUME NEW s \in Seq(Stream), NEW w \in EventsOf(s), Distinct(s)
    PROVE  /\ Without(s, w) \in Seq(Stream) /\ Distinct(Without(s, w))
           /\ EventsOf(Without(s, w)) = EventsOf(s) \ {w}
<1>1. PICK i \in DOMAIN s : s[i] = w /\ i = CHOOSE k \in DOMAIN s : s[k] = w
  BY DEF EventsOf
<1> DEFINE r == [k \in 1..Len(s) - 1 |-> IF k < i THEN s[k] ELSE s[k + 1]]
<1>2. Without(s, w) = r
  BY <1>1 DEF Without
<1>3. Len(s) \in Nat \ {0} /\ DOMAIN s = 1..Len(s) /\ i \in 1..Len(s)
  BY <1>1, Indices, Eventwise
<1>4. r \in Seq(Stream) /\ DOMAIN r = 1..Len(s) - 1
  <2>1. \A k \in 1..Len(s) - 1 : (IF k < i THEN s[k] ELSE s[k + 1]) \in Stream
    BY <1>3
  <2>2. Len(s) - 1 \in Nat
    BY <1>3
  <2>. QED
    BY <2>1, <2>2
<1>5. Distinct(r)
  BY <1>3, <1>4 DEF Distinct
<1>6. EventsOf(r) = EventsOf(s) \ {w}
  <2>1. ASSUME NEW k \in DOMAIN r PROVE r[k] \in EventsOf(s) \ {w}
    BY <1>1, <1>3, <1>4 DEF Distinct, EventsOf
  <2>2. ASSUME NEW k \in DOMAIN s, k # i PROVE s[k] \in EventsOf(r)
    <3>1. CASE k < i
      <4>1. k \in DOMAIN r /\ r[k] = s[k]
        BY <1>3, <1>4, <2>2, <3>1
      <4>. QED
        BY <4>1 DEF EventsOf
    <3>2. CASE k > i
      <4>1. k - 1 \in DOMAIN r /\ r[k - 1] = s[k]
        BY <1>3, <1>4, <2>2, <3>2
      <4>. QED
        BY <4>1 DEF EventsOf
    <3>. QED
      BY <1>3, <2>2, <3>1, <3>2
  <2> HIDE DEF r
  <2>3. \A v \in EventsOf(s) \ {w} : v \in EventsOf(r)
    BY <1>1, <2>2 DEF EventsOf
  <2>. QED
    BY <2>1, <2>3 DEF EventsOf
<1>. QED
  BY <1>2, <1>4, <1>5, <1>6

(* The first events find nothing queued and nobody in emit. *)
LEMMA InitEvents == EsInit => EsInv
<1> SUFFICES ASSUME EsInit PROVE EsInv
  OBVIOUS
<1>1. 0 \in 0..Events /\ <<>> \in Seq(EventId) /\ <<>> \in Seq(Stream)
  BY EventsAssumption
<1>2. EsTypeOK
  BY <1>1, EsTypes DEF EsInit, Quiet, Closed, EmitterState, StreamState, EventId
<1>3. Subscribed /\ Emitting
  BY DEF EsInit, Subscribed, Distinct, Emitting, Quiet, Closed, EventId
<1>4. Unseen /\ QueueInOrder
  BY DEF EsInit, Unseen, QueueInOrder, InOrder, Ordered, EventsOf, Quiet, Closed
<1>. QED
  BY <1>2, <1>3, <1>4 DEF EsInv

(* A step of an open stream alone. *)
LEMMA StreamKeeps ==
    ASSUME EsInv, NEW w \in Stream, NEW v \in StreamState,
           stream' = [stream EXCEPT ![w] = v], stream[w].pc # "closed", InOrder(v),
           EventsOf(v.queue) \cup EventsOf(v.out)
             \subseteq EventsOf(stream[w].queue) \cup EventsOf(stream[w].out),
           UNCHANGED <<emitted, bus, emitter, subscribers, got, before>>,
           lost' \in [Stream -> SUBSET EventId]
    PROVE  EsInv'
<1>1. EsTypeOK'
  BY EsTypes DEF EsInv, EsTypeOK, EmitterState, StreamState, EventId
<1>2. Subscribed' /\ Emitting'
  BY EsTypes DEF EsInv, Subscribed, Emitting, Distinct, EventsOf
<1>3. Unseen'
  BY EsTypes DEF EsInv, Unseen
<1>4. QueueInOrder'
  BY EsTypes DEF EsInv, QueueInOrder, InOrder, Ordered, MayFollow
<1>. QED
  BY <1>1, <1>2, <1>3, <1>4 DEF EsInv

(* A stream that finds a queue begins with its first event. *)
LEMMA FindsKeeps == ASSUME EsInv, NEW w \in Stream, FindsItems(w) PROVE EsInv'
<1> DEFINE v == [stream[w] EXCEPT !.pc = "send", !.at = 1]
<1>1. stream[w] \in StreamState /\ InOrder(stream[w]) /\ lost \in [Stream -> SUBSET EventId]
  BY EsTypes DEF EsInv, QueueInOrder
<1>2. v \in StreamState /\ v.queue = stream[w].queue /\ v.out = stream[w].out
      /\ v.pc = "send" /\ v.at = 1
  BY <1>1 DEF StreamState
<1>3. stream' = [stream EXCEPT ![w] = v]
  BY DEF FindsItems, First
<1> HIDE DEF v
<1>4. InOrder(v)
  <2>1. DOMAIN v.queue = 1..Len(v.queue) /\ Len(v.queue) \in Nat
    BY <1>2, Indices, Eventwise DEF StreamState
  <2>2. stream[w].at = 0 /\ 1 \in 1..Len(v.queue) + 1
    BY <1>1, <2>1 DEF FindsItems, InOrder
  <2>. QED
    BY <1>1, <1>2, <2>1, <2>2 DEF InOrder
<1>. QED
  BY <1>1, <1>2, <1>3, <1>4, StreamKeeps DEF FindsItems

(* A sent event may follow all that were sent, and all later ones may follow it. *)
LEMMA StreamSendKeeps == ASSUME EsInv, NEW w \in Stream, Send(w) PROVE EsInv'
<1> DEFINE q == stream[w].queue
           at == stream[w].at
           e == q[at]
           out == Append(stream[w].out, e)
           v == [stream[w] EXCEPT !.out = out, !.at = at + 1]
<1>1. /\ stream[w] \in StreamState /\ InOrder(stream[w]) /\ stream[w].pc = "send"
      /\ lost \in [Stream -> SUBSET EventId]
  BY EsTypes DEF EsInv, QueueInOrder, Send
<1>2. /\ q \in Seq(EventId) /\ DOMAIN q = 1..Len(q) /\ Len(q) \in Nat
      /\ stream[w].out \in Seq(EventId) /\ at \in 1..Len(q)
      /\ DOMAIN stream[w].out = 1..Len(stream[w].out) /\ Len(stream[w].out) \in Nat
  BY <1>1, Indices, Eventwise DEF Send, StreamState, InOrder
<1>3. e \in EventId /\ e \in EventsOf(q)
  BY <1>2 DEF EventsOf
<1>4. stream' = [stream EXCEPT ![w] = v]
  BY DEF Send
<1> HIDE DEF e
<1>5. /\ out \in Seq(EventId) /\ DOMAIN out = 1..Len(stream[w].out) + 1
      /\ EventsOf(out) = EventsOf(stream[w].out) \cup {e}
      /\ \A i \in 1..Len(stream[w].out) : out[i] = stream[w].out[i]
      /\ out[Len(stream[w].out) + 1] = e
  BY <1>2, <1>3, OneMore, Indices, Eventwise
<1> HIDE DEF out
<1>6. /\ v \in StreamState /\ v.queue = q /\ v.out = out /\ v.pc = "send" /\ v.at = at + 1
  <2>1. at + 1 \in Nat
    BY <1>2
  <2>. QED
    BY <1>1, <1>5, <2>1 DEF StreamState
<1> HIDE DEF v
<1>7. Ordered(v.out)
  <2>1. ASSUME NEW i \in 1..Len(stream[w].out) PROVE MayFollow(out[i], e)
    <3>1. PICK k \in DOMAIN q : k = at
      BY <1>2
    <3>2. k >= at /\ i \in DOMAIN stream[w].out /\ e = q[k]
      BY <1>2, <3>1 DEF e
    <3>. QED
      BY <1>1, <1>5, <3>2 DEF InOrder
  <2>2. ASSUME NEW i \in DOMAIN out, NEW k \in DOMAIN out, i < k
        PROVE  MayFollow(out[i], out[k])
    <3>1. CASE k = Len(stream[w].out) + 1
      BY <1>2, <1>5, <2>1, <2>2, <3>1
    <3>2. CASE k # Len(stream[w].out) + 1
      <4>1. i \in DOMAIN stream[w].out /\ k \in DOMAIN stream[w].out
        <5>1. i \in 1..Len(stream[w].out) + 1 /\ k \in 1..Len(stream[w].out) + 1
          BY <1>5
        <5>2. Len(stream[w].out) \in Nat /\ DOMAIN stream[w].out = 1..Len(stream[w].out)
          BY <1>2
        <5> HIDE DEF q, at
        <5>. QED
          BY <2>2, <3>2, <5>1, <5>2
      <4>. QED
        BY <1>1, <1>2, <1>5, <2>2, <4>1 DEF InOrder, Ordered
    <3>. QED
      BY <3>1, <3>2
  <2>. QED
    BY <1>6, <2>2 DEF Ordered
<1>8. ASSUME NEW i \in DOMAIN v.out, NEW k \in DOMAIN v.queue, k >= v.at
      PROVE  MayFollow(v.out[i], v.queue[k])
  <2>1. k \in DOMAIN q /\ k >= at /\ k > at
    BY <1>2, <1>6, <1>8
  <2>2. CASE i \in DOMAIN stream[w].out
    BY <1>1, <1>2, <1>5, <1>6, <2>1, <2>2 DEF InOrder
  <2>3. CASE i = Len(stream[w].out) + 1
    BY <1>1, <1>2, <1>5, <1>6, <2>1, <2>3 DEF InOrder, Ordered, e
  <2>. QED
    BY <1>2, <1>5, <1>6, <2>2, <2>3
<1>9. InOrder(v)
  BY <1>1, <1>2, <1>6, <1>7, <1>8 DEF InOrder
<1>. QED
  BY <1>1, <1>3, <1>4, <1>5, <1>6, <1>9, StreamKeeps DEF Send

(* The loop ends where nothing of the queue is left to send. *)
LEMMA SentKeeps == ASSUME EsInv, NEW w \in Stream, SentAll(w) PROVE EsInv'
<1> DEFINE v == [stream[w] EXCEPT !.pc = "clear"]
<1>1. stream[w] \in StreamState /\ InOrder(stream[w]) /\ lost \in [Stream -> SUBSET EventId]
  BY EsTypes DEF EsInv, QueueInOrder
<1>2. v \in StreamState /\ v.queue = stream[w].queue /\ v.out = stream[w].out
      /\ v.pc = "clear" /\ v.at = stream[w].at
  BY <1>1 DEF StreamState
<1>3. stream' = [stream EXCEPT ![w] = v] /\ stream[w].pc = "send"
  BY DEF SentAll
<1> HIDE DEF v
<1>4. InOrder(v)
  BY <1>1, <1>2, <1>3 DEF InOrder
<1>. QED
  BY <1>1, <1>2, <1>3, <1>4, StreamKeeps DEF SentAll

(* Clearing drops what was queued since the loop ended, and reorders nothing. *)
LEMMA ClearKeeps == ASSUME EsInv, NEW w \in Stream, Clear(w) PROVE EsInv'
<1> DEFINE v == [stream[w] EXCEPT !.pc = "poll", !.queue = <<>>, !.at = 0]
           cut == {stream[w].queue[i] : i \in stream[w].at..Len(stream[w].queue)}
<1>1. stream[w] \in StreamState /\ InOrder(stream[w]) /\ lost \in [Stream -> SUBSET EventId]
      /\ stream[w].pc = "clear"
  BY EsTypes DEF EsInv, QueueInOrder, Clear
<1>2. v \in StreamState /\ v.queue = <<>> /\ v.out = stream[w].out
      /\ v.pc = "poll" /\ v.at = 0
  <2>1. <<>> \in Seq(EventId) /\ 0 \in Nat
    OBVIOUS
  <2>. QED
    BY <1>1, <2>1 DEF StreamState
<1>3. stream' = [stream EXCEPT ![w] = v] /\ lost' = [lost EXCEPT ![w] = @ \cup cut]
  BY DEF Clear
<1>4. cut \in SUBSET EventId
  <2>1. stream[w].queue \in Seq(EventId) /\ stream[w].at \in 1..Len(stream[w].queue) + 1
    BY <1>1 DEF StreamState, InOrder
  <2>2. \A i \in stream[w].at..Len(stream[w].queue) : stream[w].queue[i] \in EventId
    BY <2>1, Indices, Eventwise
  <2>. QED
    BY <2>2
<1> HIDE DEF v, cut
<1>5. InOrder(v)
  BY <1>1, <1>2 DEF InOrder, Ordered
<1>6. lost' \in [Stream -> SUBSET EventId]
  BY <1>1, <1>3, <1>4
<1>7. EventsOf(v.queue) = {}
  BY <1>2 DEF EventsOf
<1>. QED
  BY <1>1, <1>2, <1>3, <1>5, <1>6, <1>7, StreamKeeps DEF Clear

(* The finally clause: the stream is closed and nobody calls it for new events. *)
LEMMA DisconnectKeeps == ASSUME EsInv, NEW w \in Stream, Disconnect(w) PROVE EsInv'
<1> DEFINE v == [stream[w] EXCEPT !.pc = "closed"]
<1>1. /\ stream \in [Stream -> StreamState] /\ subscribers \in Seq(Stream)
      /\ Subscribed /\ Emitting /\ Unseen /\ QueueInOrder
  BY EsTypes DEF EsInv
<1>2. v \in StreamState /\ v.queue = stream[w].queue /\ v.out = stream[w].out
      /\ v.pc = "closed" /\ v.at = stream[w].at
  BY <1>1 DEF StreamState
<1>3. stream' = [stream EXCEPT ![w] = v]
  BY DEF Disconnect
<1> HIDE DEF v
<1>4. /\ subscribers' \in Seq(Stream) /\ Distinct(subscribers')
      /\ EventsOf(subscribers') = EventsOf(subscribers) \ {w}
  BY <1>1, Removed DEF Disconnect, Subscribed
<1>5. EsTypeOK'
  <2>1. stream' \in [Stream -> StreamState]
    BY <1>1, <1>2, <1>3
  <2>. QED
    BY <1>4, <2>1 DEF EsInv, EsTypeOK, Disconnect, StreamState, EventId
<1>6. Subscribed' /\ Emitting'
  BY <1>1, <1>2, <1>3, <1>4 DEF Subscribed, Emitting, Disconnect, Distinct
<1>7. Unseen'
  BY <1>1, <1>2, <1>3 DEF Unseen, Disconnect
<1>8. InOrder(v)
  BY <1>1, <1>2 DEF QueueInOrder, InOrder
<1>9. QueueInOrder'
  BY <1>1, <1>3, <1>8 DEF QueueInOrder, InOrder, Ordered, MayFollow, Disconnect
<1>. QED
  BY <1>5, <1>6, <1>7, <1>9 DEF EsInv

(* A new stream has nothing queued, and threads in emit do not know it. *)
LEMMA SubscribeKeeps == ASSUME EsInv, NEW w \in Stream, Subscribe(w) PROVE EsInv'
<1> DEFINE v == [stream[w] EXCEPT !.pc = "poll"]
<1>1. /\ stream \in [Stream -> StreamState] /\ subscribers \in Seq(Stream)
      /\ Subscribed /\ Emitting /\ Unseen /\ QueueInOrder /\ stream[w] = Closed
  BY EsTypes DEF EsInv, Subscribe
<1>2. v \in StreamState /\ v.queue = stream[w].queue /\ v.out = stream[w].out
      /\ v.pc = "poll" /\ v.at = 0
  <2>1. stream[w] \in StreamState /\ stream[w].at = 0
    BY <1>1 DEF Closed
  <2>. QED
    BY <2>1 DEF StreamState
<1>3. stream' = [stream EXCEPT ![w] = v] /\ subscribers' = Append(subscribers, w)
  BY DEF Subscribe
<1> HIDE DEF v
<1>4. /\ subscribers' \in Seq(Stream)
      /\ EventsOf(subscribers') = EventsOf(subscribers) \cup {w}
      /\ DOMAIN subscribers = 1..Len(subscribers) /\ Len(subscribers) \in Nat
      /\ DOMAIN subscribers' = 1..Len(subscribers) + 1
      /\ \A i \in 1..Len(subscribers) : subscribers'[i] = subscribers[i]
      /\ subscribers'[Len(subscribers) + 1] = w
  BY <1>1, <1>3, OneMore, Indices, Eventwise
<1>5. Distinct(subscribers')
  <2>1. \A i \in 1..Len(subscribers) : subscribers'[i] # w
    BY <1>4 DEF Subscribe, EventsOf
  <2>2. \A i, k \in 1..Len(subscribers) : subscribers'[i] = subscribers'[k] => i = k
    BY <1>1, <1>4 DEF Subscribed, Distinct
  <2>3. \A i \in DOMAIN subscribers' : i \in 1..Len(subscribers) \/ i = Len(subscribers) + 1
    BY <1>4
  <2>. QED
    BY <1>4, <2>1, <2>2, <2>3 DEF Distinct
<1>6. EsTypeOK'
  <2>1. stream' \in [Stream -> StreamState]
    BY <1>1, <1>2, <1>3
  <2>. QED
    BY <1>4, <2>1 DEF EsInv, EsTypeOK, Subscribe, StreamState, EventId
<1>7. Subscribed' /\ Emitting'
  BY <1>1, <1>2, <1>3, <1>4, <1>5 DEF Subscribed, Emitting, Subscribe, Distinct
<1>8. Unseen'
  BY <1>1, <1>2, <1>3 DEF Unseen, Subscribe
<1>9. InOrder(v)
  <2>1. v.queue = <<>> /\ v.out = <<>>
    BY <1>1, <1>2 DEF Closed
  <2>. QED
    BY <1>2, <2>1 DEF InOrder, Ordered
<1>10. QueueInOrder'
  <2>1. before' = before /\ \A x \in Stream : InOrder(stream[x])
    BY <1>1 DEF QueueInOrder, Subscribe
  <2>2. ASSUME NEW x \in Stream PROVE InOrder(stream'[x])
    <3>1. stream'[x] = v \/ stream'[x] = stream[x]
      BY <1>1, <1>3
    <3> HIDE DEF InOrder
    <3>. QED
      BY <1>9, <2>1, <3>1
  <2>. QED
    BY <2>1, <2>2 DEF QueueInOrder, InOrder, Ordered, MayFollow
<1>. QED
  BY <1>6, <1>7, <1>8, <1>10 DEF EsInv

(* emit enters its event after all the others, which no event may follow that
   ended before. *)
LEMMA LogKeeps == ASSUME EsInv, NEW m \in Emitter, Log(m) PROVE EsInv'
<1> DEFINE n == emitted + 1
           e == IF subscribers = <<>> THEN Quiet ELSE [event |-> n, todo |-> subscribers]
           ended == (1..emitted) \ Delivering
<1>1. /\ emitted \in 0..Events /\ n \in EventId /\ bus \in Seq(EventId)
      /\ emitter \in [Emitter -> EmitterState] /\ subscribers \in Seq(Stream)
      /\ stream \in [Stream -> StreamState] /\ before \in [EventId -> SUBSET EventId]
      /\ Subscribed /\ Emitting /\ Unseen /\ QueueInOrder /\ emitter[m] = Quiet
  BY EsTypes, EventsAssumption DEF EsInv, Log, EventId
<1>2. /\ emitted' = n /\ emitter' = [emitter EXCEPT ![m] = e]
      /\ before' = [before EXCEPT ![n] = ended]
  BY DEF Log
<1>3. e \in EmitterState /\ (e # Quiet => e.event = n /\ e.todo = subscribers /\ e.todo # <<>>)
  <2>1. <<>> \in Seq(Stream) /\ 0 \in 0..Events /\ n \in 0..Events
    BY <1>1, EventsAssumption DEF EventId
  <2>. QED
    BY <1>1, <2>1 DEF Quiet, EmitterState
<1>4. Quiet.todo = <<>>
  BY DEF Quiet
<1>5. ended \subseteq 1..emitted /\ ended \subseteq EventId
      /\ \A l \in Emitter : emitter[l].event \notin ended
  <2>1. 1..emitted \subseteq EventId
    BY <1>1, EventsAssumption DEF EventId
  <2>2. \A l \in Emitter : emitter[l].event \in Delivering \cup {0}
    BY DEF Delivering
  <2>. QED
    BY <1>1, <2>1, <2>2
<1>6. n \in Nat /\ emitted \in Nat /\ n \notin 1..emitted /\ n \in 1..n
      /\ 1..emitted \subseteq 1..n
  BY <1>1
<1> HIDE DEF e, ended
<1>7. EsTypeOK'
  <2>1. emitter' \in [Emitter -> EmitterState] /\ before' \in [EventId -> SUBSET EventId]
    BY <1>1, <1>2, <1>3, <1>5
  <2>2. emitted' \in 0..Events
    BY <1>1, <1>2 DEF EventId
  <2>3. bus' \in Seq(EventId)
    <3>1. CASE Len(bus) < MaxEvents
      BY <1>1, <3>1, OneMore, Eventwise DEF Log
    <3>2. CASE ~(Len(bus) < MaxEvents)
      <4>1. bus # <<>>
        BY <1>1, <3>2, EventsAssumption
      <4>2. Tail(bus) \in Seq(EventId)
        BY <1>1, <4>1, OneLess
      <4>. QED
        BY <1>1, <3>2, <4>2, OneMore, Eventwise DEF Log
    <3>. QED
      BY <3>1, <3>2
  <2>. QED
    BY <2>1, <2>2, <2>3 DEF EsInv, EsTypeOK, Log, EmitterState, EventId
<1> HIDE DEF n
<1>8. Subscribed'
  <2>1. ASSUME NEW l \in Emitter PROVE Distinct(emitter'[l].todo)
    <3>1. CASE l = m /\ e # Quiet
      BY <1>1, <1>2, <1>3, <3>1 DEF Subscribed
    <3>2. CASE l = m /\ e = Quiet
      BY <1>1, <1>2, <1>4, <3>2 DEF Distinct
    <3>3. CASE l # m
      BY <1>1, <1>2, <3>3 DEF Subscribed
    <3>. QED
      BY <3>1, <3>2, <3>3
  <2>2. UNCHANGED <<subscribers, stream>>
    BY DEF Log
  <2>. QED
    BY <1>1, <2>1, <2>2 DEF Subscribed, Distinct, EventsOf
<1>9. Emitting'
  <2>1. \A x \in EventId : before'[x] = IF x = n THEN ended ELSE before[x]
    BY <1>1, <1>2
  <2>2. \A l \in Emitter : emitter'[l] = IF l = m THEN e ELSE emitter[l]
    BY <1>1, <1>2
  <2>3. \A l \in Emitter : emitter[l] # Quiet =>
          emitter[l].event # n /\ emitter[l].event \in 1..n
    BY <1>1, <1>6 DEF Emitting
  <2>4. \A x \in EventId : n \notin before'[x] /\ before'[x] \subseteq 1..n
    BY <1>1, <1>5, <1>6, <2>1 DEF Emitting
  <2>5. ASSUME NEW l \in Emitter, emitter'[l] # Quiet
        PROVE  /\ emitter'[l].event \in 1..n /\ emitter'[l].todo # <<>>
               /\ \A x \in EventId : emitter'[l].event \notin before'[x]
    <3>1. CASE l = m
      BY <1>3, <1>6, <2>2, <2>4, <2>5, <3>1
    <3>2. CASE l # m
      BY <1>1, <1>5, <2>1, <2>2, <2>3, <2>5, <3>2 DEF Emitting
    <3>. QED
      BY <3>1, <3>2
  <2>6. ASSUME NEW k \in Emitter, NEW l \in Emitter, k # l, emitter'[k] # Quiet
        PROVE  emitter'[k].event # emitter'[l].event
    <3>1. CASE k = m
      <4>1. emitter'[l] = emitter[l] /\ emitter'[k].event = n
        BY <1>3, <2>2, <2>6, <3>1
      <4>2. emitter[l] = Quiet => emitter[l].event = 0
        BY DEF Quiet
      <4>. QED
        BY <1>6, <2>3, <4>1, <4>2
    <3>2. CASE l = m
      <4>1. emitter'[k] = emitter[k] /\ emitter[k].event # n /\ emitter[k].event \in 1..n
        BY <2>2, <2>3, <2>6, <3>2
      <4>2. e = Quiet => e.event = 0
        BY DEF Quiet
      <4>. QED
        BY <1>3, <1>6, <2>2, <3>2, <4>1, <4>2
    <3>3. CASE k # m /\ l # m
      BY <1>1, <2>2, <2>6, <3>3 DEF Emitting
    <3>. QED
      BY <3>1, <3>2, <3>3
  <2>. QED
    BY <1>2, <2>4, <2>5, <2>6 DEF Emitting
<1>10. Unseen'
  <2>1. ASSUME NEW w \in Stream, NEW l \in Emitter, emitter'[l] # Quiet,
               w \in EventsOf(emitter'[l].todo)
        PROVE  emitter'[l].event \notin EventsOf(stream[w].queue) \cup EventsOf(stream[w].out)
    <3>1. CASE l = m
      BY <1>1, <1>2, <1>3, <1>6, <2>1, <3>1 DEF Unseen
    <3>2. CASE l # m
      BY <1>1, <1>2, <2>1, <3>2 DEF Unseen
    <3>. QED
      BY <3>1, <3>2
  <2>2. UNCHANGED stream
    BY DEF Log
  <2>. QED
    BY <1>1, <1>2, <1>6, <2>1, <2>2 DEF Unseen
<1>11. QueueInOrder'
  <2>1. ASSUME NEW w \in Stream PROVE InOrder(stream[w])'
    <3>1. ASSUME NEW x \in EventsOf(stream[w].queue) \cup EventsOf(stream[w].out), NEW y,
                 MayFollow(x, y)
          PROVE  MayFollow(x, y)'
      <4>1. x \in 1..emitted /\ x \in EventId /\ x # n
        <5>1. x \in 1..emitted /\ x # n
          BY <1>1, <1>6 DEF Unseen
        <5>. QED
          BY <1>1, <5>1, EventsAssumption DEF EventId
      <4>. QED
        BY <1>1, <1>2, <3>1, <4>1 DEF MayFollow
    <3>2. /\ \A i \in DOMAIN stream[w].queue : stream[w].queue[i] \in EventsOf(stream[w].queue)
          /\ \A i \in DOMAIN stream[w].out : stream[w].out[i] \in EventsOf(stream[w].out)
      BY DEF EventsOf
    <3>3. InOrder(stream[w]) /\ UNCHANGED stream
      BY <1>1 DEF QueueInOrder, Log
    <3>. QED
      BY <3>1, <3>2, <3>3 DEF InOrder, Ordered
  <2>. QED
    BY <2>1 DEF QueueInOrder
<1>. QED
  BY <1>7, <1>8, <1>9, <1>10, <1>11 DEF EsInv

(* A stream that is called gets an event that may follow all it has. *)
LEMMA CallKeeps == ASSUME EsInv, NEW m \in Emitter, Call(m) PROVE EsInv'
<1> DEFINE todo == emitter[m].todo
           w == Head(todo)
           n == emitter[m].event
           rest == Tail(todo)
           e == IF rest = <<>> THEN Quiet ELSE [event |-> n, todo |-> rest]
           q == Append(stream[w].queue, n)
           v == IF stream[w].pc = "closed" THEN stream[w] ELSE [stream[w] EXCEPT !.queue = q]
<1>1. /\ emitted \in 0..Events /\ emitter \in [Emitter -> EmitterState]
      /\ stream \in [Stream -> StreamState] /\ got \in [Stream -> SUBSET EventId]
      /\ Subscribed /\ Emitting /\ Unseen /\ QueueInOrder /\ emitter[m] # Quiet
      /\ UNCHANGED <<emitted, bus, subscribers, lost, before>>
  BY EsTypes DEF EsInv, Call
<1>2. /\ todo \in Seq(Stream) /\ todo # <<>> /\ Distinct(todo) /\ n \in 1..emitted
      /\ n \in EventId /\ \A x \in EventId : n \notin before[x]
  <2>1. 1..emitted \subseteq EventId
    BY <1>1, EventsAssumption DEF EventId
  <2>. QED
    BY <1>1, <2>1 DEF Subscribed, Emitting, EmitterState
<1>3. /\ w \in Stream /\ w \in EventsOf(todo) /\ rest \in Seq(Stream) /\ Distinct(rest)
      /\ EventsOf(rest) \subseteq EventsOf(todo) \ {w}
  <2> HIDE DEF todo
  <2>1. /\ rest \in Seq(Stream) /\ w = todo[1] /\ 1 \in DOMAIN todo
        /\ DOMAIN rest = 1..Len(todo) - 1 /\ \A i \in 1..Len(todo) - 1 : rest[i] = todo[i + 1]
        /\ DOMAIN todo = 1..Len(todo) /\ Len(todo) \in Nat
    BY <1>2, OneLess, Indices
  <2> HIDE DEF w, rest
  <2>2. \A i \in DOMAIN rest : i + 1 \in DOMAIN todo /\ i + 1 # 1 /\ rest[i] = todo[i + 1]
    BY <2>1
  <2>3. Distinct(rest)
    BY <1>2, <2>1, <2>2 DEF Distinct
  <2>4. EventsOf(rest) \subseteq EventsOf(todo) \ {w}
    BY <1>2, <2>1, <2>2 DEF Distinct, EventsOf
  <2>5. w \in EventsOf(todo)
    BY <2>1 DEF EventsOf
  <2>6. EventsOf(todo) \subseteq Stream
    BY <1>2, Indices, Eventwise
  <2>. QED
    BY <2>1, <2>3, <2>4, <2>5, <2>6
<1>4. emitter' = [emitter EXCEPT ![m] = e] /\ stream' = [stream EXCEPT ![w] = v]
      /\ got' \in [Stream -> SUBSET EventId]
  <2>1. emitter' = [emitter EXCEPT ![m] = e]
    BY DEF Call
  <2>2. CASE stream[w].pc = "closed"
    <3>1. UNCHANGED <<stream, got>> /\ v = stream[w]
      BY <2>2 DEF Call
    <3> HIDE DEF v, w
    <3>. QED
      BY <1>1, <1>3, <2>1, <3>1
  <2>3. CASE stream[w].pc # "closed"
    <3>1. /\ stream' = [stream EXCEPT ![w].queue = Append(stream[w].queue, n)]
          /\ got' = [got EXCEPT ![w] = got[w] \cup {n}]
          /\ v = [stream[w] EXCEPT !.queue = Append(stream[w].queue, n)]
      BY <2>3 DEF Call, Queued
    <3> HIDE DEF v, w, n
    <3>. QED
      BY <1>1, <1>2, <1>3, <2>1, <3>1
  <2>. QED
    BY <2>2, <2>3
<1>5. e \in EmitterState /\ e.todo = rest
      /\ (e # Quiet => e.event = n /\ rest # <<>>)
  <2>1. 0 \in 0..Events /\ n \in 0..Events
    BY <1>2, EventsAssumption DEF EventId
  <2> HIDE DEF n, rest
  <2>. QED
    BY <1>3, <2>1 DEF Quiet, EmitterState
<1> HIDE DEF e, rest, todo, n
<1>6. n \notin EventsOf(stream[w].queue) \cup EventsOf(stream[w].out)
  BY <1>1, <1>3 DEF Unseen, todo, n
<1> HIDE DEF w
<1>7. /\ q \in Seq(EventId) /\ Len(q) = Len(stream[w].queue) + 1
      /\ EventsOf(q) = EventsOf(stream[w].queue) \cup {n}
      /\ DOMAIN q = 1..Len(stream[w].queue) + 1 /\ Len(stream[w].queue) \in Nat
      /\ DOMAIN stream[w].queue = 1..Len(stream[w].queue)
      /\ \A i \in 1..Len(stream[w].queue) : q[i] = stream[w].queue[i]
      /\ q[Len(stream[w].queue) + 1] = n
  <2>1. stream[w].queue \in Seq(EventId)
    BY <1>1, <1>3 DEF StreamState
  <2>. QED
    BY <1>2, <2>1, OneMore, Indices, Eventwise
<1> HIDE DEF q
<1>8. /\ v \in StreamState /\ v.pc = stream[w].pc /\ v.at = stream[w].at
      /\ v.out = stream[w].out /\ v.queue \in {stream[w].queue, q}
  <2>1. stream[w] \in StreamState
    BY <1>1, <1>3
  <2>. QED
    BY <1>7, <2>1 DEF StreamState
<1> HIDE DEF v
<1>9. EsTypeOK'
  <2>1. emitter' \in [Emitter -> EmitterState] /\ stream' \in [Stream -> StreamState]
    BY <1>1, <1>4, <1>5, <1>8
  <2>. QED
    BY <1>1, <1>4, <2>1 DEF EsInv, EsTypeOK, EmitterState, StreamState, EventId
<1>10. Subscribed'
  <2>1. \A l \in Emitter : Distinct(emitter'[l].todo)
    BY <1>1, <1>3, <1>4, <1>5 DEF Subscribed
  <2>2. \A u \in Stream : stream'[u].pc = stream[u].pc
    BY <1>1, <1>4, <1>8
  <2>. QED
    BY <1>1, <2>1, <2>2 DEF Subscribed, Distinct, EventsOf
<1>11. Emitting'
  <2>1. \A l \in Emitter : emitter'[l] = IF l = m THEN e ELSE emitter[l]
    BY <1>1, <1>4
  <2>2. emitter[m].event = n /\ n # 0 /\ Quiet.event = 0
    BY <1>2 DEF n, Quiet
  <2>3. ASSUME NEW l \in Emitter, emitter'[l] # Quiet
        PROVE  /\ emitter[l] # Quiet /\ emitter'[l].event = emitter[l].event
               /\ emitter'[l].todo # <<>>
    BY <1>1, <1>5, <2>1, <2>2, <2>3 DEF Emitting
  <2>4. \A l \in Emitter : emitter'[l].event \in {emitter[l].event, 0}
    BY <1>5, <2>1, <2>2
  <2>5. \A l \in Emitter : emitter[l] # Quiet => emitter[l].event # 0
    BY <1>1 DEF Emitting
  <2>. QED
    BY <1>1, <2>3, <2>4, <2>5 DEF Emitting
<1>12. Unseen'
  <2>1. ASSUME NEW u \in Stream
        PROVE  EventsOf(stream'[u].queue) \cup EventsOf(stream'[u].out) \subseteq
                 EventsOf(stream[u].queue) \cup EventsOf(stream[u].out)
                   \cup (IF u = w THEN {n} ELSE {})
    BY <1>1, <1>4, <1>7, <1>8
  <2>2. ASSUME NEW u \in Stream, NEW l \in Emitter, emitter'[l] # Quiet,
               u \in EventsOf(emitter'[l].todo)
        PROVE  /\ emitter'[l].event \notin
                    EventsOf(stream[u].queue) \cup EventsOf(stream[u].out)
               /\ u = w => emitter'[l].event # n
    <3>1. CASE l = m
      BY <1>1, <1>3, <1>4, <1>5, <2>2, <3>1 DEF Unseen, todo, n
    <3>2. CASE l # m
      BY <1>1, <1>4, <2>2, <3>2 DEF Unseen, Emitting, n
    <3>. QED
      BY <3>1, <3>2
  <2>. QED
    BY <1>1, <1>2, <2>1, <2>2 DEF Unseen
<1>13. InOrder(v)
  <2>1. InOrder(stream[w])
    BY <1>1, <1>3 DEF QueueInOrder
  <2>2. CASE v.queue = stream[w].queue
    BY <1>8, <2>1, <2>2 DEF InOrder
  <2>3. CASE v.queue = q
    <3>1. \A x \in EventId : x \in EventsOf(stream[w].queue) \cup EventsOf(stream[w].out)
             => MayFollow(x, n)
      BY <1>2, <1>6 DEF MayFollow
    <3>2. /\ \A i \in DOMAIN stream[w].queue :
               stream[w].queue[i] \in EventId \cap EventsOf(stream[w].queue)
          /\ \A i \in DOMAIN stream[w].out :
               stream[w].out[i] \in EventId \cap EventsOf(stream[w].out)
      <4>1. stream[w].queue \in Seq(EventId) /\ stream[w].out \in Seq(EventId)
        BY <1>1, <1>3 DEF StreamState
      <4>. QED
        BY <4>1, Indices, Eventwise DEF EventsOf
    <3>3. \A i \in DOMAIN q : i \in DOMAIN stream[w].queue \/ i = Len(stream[w].queue) + 1
      BY <1>7
    <3>4. Ordered(q)
      <4>1. ASSUME NEW i \in DOMAIN q, NEW k \in DOMAIN q, i < k PROVE MayFollow(q[i], q[k])
        <5>1. i \in DOMAIN stream[w].queue /\ q[i] = stream[w].queue[i]
          BY <1>7, <3>3, <4>1
        <5>2. CASE k = Len(stream[w].queue) + 1
          BY <1>7, <3>1, <3>2, <5>1, <5>2
        <5>3. CASE k \in DOMAIN stream[w].queue
          <6>1. q[k] = stream[w].queue[k]
            BY <1>7, <5>3
          <6>. QED
            BY <2>1, <4>1, <5>1, <5>3, <6>1 DEF InOrder, Ordered
        <5>. QED
          BY <3>3, <5>2, <5>3
      <4>. QED
        BY <4>1 DEF Ordered
    <3>5. ASSUME NEW i \in DOMAIN stream[w].out, NEW k \in DOMAIN q, k >= stream[w].at
          PROVE  MayFollow(stream[w].out[i], q[k])
      <4>1. CASE k = Len(stream[w].queue) + 1
        BY <1>7, <3>1, <3>2, <4>1
      <4>2. CASE k \in DOMAIN stream[w].queue
        BY <1>7, <2>1, <3>5, <4>2 DEF InOrder
      <4>. QED
        BY <3>3, <4>1, <4>2
    <3>6. stream[w].at \in 1..Len(stream[w].queue) + 1 => stream[w].at \in 1..Len(q) + 1
      BY <1>7
    <3>. QED
      BY <1>8, <2>1, <2>3, <3>4, <3>5, <3>6 DEF InOrder
  <2>. QED
    BY <1>8, <2>2, <2>3
<1>14. QueueInOrder'
  <2>1. ASSUME NEW u \in Stream PROVE InOrder(stream[u])'
    <3>1. InOrder(stream'[u])
      BY <1>1, <1>3, <1>4, <1>13 DEF QueueInOrder
    <3>. QED
      BY <1>1, <3>1 DEF InOrder, Ordered, MayFollow
  <2>. QED
    BY <2>1 DEF QueueInOrder
<1>. QED
  BY <1>9, <1>10, <1>11, <1>12, <1>14 DEF EsInv

(* One step of each kind. *)
LEMMA EsStepKeeps == EsInv /\ [EsNext]_esVars => EsInv'
<1> SUFFICES ASSUME EsInv, [EsNext]_esVars PROVE EsInv'
  OBVIOUS
<1>1. ASSUME NEW m \in Emitter, Log(m) \/ Call(m) PROVE EsInv'
  BY <1>1, LogKeeps, CallKeeps
<1>2. ASSUME NEW w \in Stream,
             \/ Subscribe(w) \/ FindsItems(w) \/ Send(w) \/ SentAll(w)
             \/ Clear(w) \/ Disconnect(w)
      PROVE  EsInv'
  BY <1>2, SubscribeKeeps, FindsKeeps, StreamSendKeeps, SentKeeps, ClearKeeps, DisconnectKeeps
<1>3. CASE UNCHANGED esVars
  <2> USE <1>3 DEF esVars
  <2>1. EsTypeOK'
    BY DEF EsInv, EsTypeOK
  <2>2. Subscribed' /\ Emitting'
    BY DEF EsInv, Subscribed, Emitting, Distinct, EventsOf
  <2>3. Unseen' /\ QueueInOrder'
    BY DEF EsInv, Unseen, QueueInOrder, InOrder, Ordered, MayFollow, EventsOf
  <2>. QED
    BY <2>1, <2>2, <2>3 DEF EsInv
<1>. QED
  BY <1>1, <1>2, <1>3 DEF EsNext

(* The invariant holds throughout. *)
LEMMA EventsInvariant == EsSpec => []EsInv
BY InitEvents, EsStepKeeps, PTL DEF EsSpec

(* Every variable stays in its type. *)
THEOREM EventsTypeCorrect == EsSpec => []EsTypeOK
<1>1. EsInv => EsTypeOK
  BY DEF EsInv
<1>. QED
  BY <1>1, EventsInvariant, PTL

(* A stream sends events in the order of the log, except for those that were
   emitted at once, and none twice: calls are made outside the lock of emit, and
   the queue is read while it grows. *)
THEOREM StreamsInOrder == EsSpec => []StreamInOrder
<1>1. EsInv => StreamInOrder
  BY DEF EsInv, QueueInOrder, InOrder, Ordered, MayFollow, StreamInOrder
<1>. QED
  BY <1>1, EventsInvariant, PTL
-----------------------------------------------------------------------------
(* Relay: bytes that are written, on the wire, held by a pipe or delivered. *)

Bytes == [Connection -> [Peer -> 0..MaxBytes]]

(* Bytes are lost with a pipe that has ended, and nowhere else. *)
Gone(c, p) == wire[c][p] + pipe[c][p].held + delivered[c][Opposite[p]]
NoByteLost ==
    \A c \in Connection, p \in Peer :
        /\ Gone(c, p) <= written[c][p]
        /\ pipe[c][p].pc # "ended" => Gone(c, p) = written[c][p]
        /\ pipe[c][p].pc # "send" => pipe[c][p].held = 0

(* A connection that is not joined has no pipes. *)
PipesJoined ==
    \A c \in Connection, p \in Peer : ~Joined(c) => pipe[c][p] = NoPipe

(* The peer whose end of file ended the connection writes no more, its pipe is
   gone, and the other peer has all. *)
EofKept ==
    \A c \in Connection : endedFirst[c].eof =>
        LET p == endedFirst[c].peer
        IN  /\ p \in fin[c] /\ pipe[c][p].pc = "ended"
            /\ delivered[c][Opposite[p]] = written[c][p]

RelayInv == RelayTypeOK /\ NoByteLost /\ PipesJoined /\ EofKept

(* The two peers are opposite each other. *)
LEMMA Opposites ==
    ASSUME NEW p \in Peer
    PROVE  /\ Opposite[p] \in Peer /\ Opposite[p] # p
           /\ \A q \in Peer : Opposite[q] = Opposite[p] <=> q = p
BY DEF Peer, Opposite

(* A change of one number of a table. *)
LEMMA OneChanged ==
    ASSUME NEW S, NEW f \in [Connection -> [Peer -> S]], NEW c \in Connection,
           NEW p \in Peer, NEW v \in S
    PROVE  LET g == [f EXCEPT ![c][p] = v]
           IN  /\ g \in [Connection -> [Peer -> S]]
               /\ g[c][p] = v
               /\ \A d \in Connection, q \in Peer : d # c \/ q # p => g[d][q] = f[d][q]
OBVIOUS

(* Before a connection nothing is written. *)
LEMMA InitRelay == RelayInit => RelayInv
<1> SUFFICES ASSUME RelayInit PROVE RelayInv
  OBVIOUS
<1>1. RelayTypeOK
  BY MaxBytesAssumption DEF RelayInit, RelayTypeOK, NoPipe
<1>2. NoByteLost
  BY Opposites DEF RelayInit, NoByteLost, Gone, NoPipe
<1> QED
  BY <1>1, <1>2 DEF RelayInit, RelayInv, PipesJoined, EofKept, Joined, NoPipe

PipeState == [pc : {"none", "recv", "send", "ended"}, held : 0..MaxBytes]

(* The types, as memberships. *)
LEMMA RelayTypes == RelayInv =>
    /\ written \in Bytes /\ wire \in Bytes /\ delivered \in Bytes
    /\ pipe \in [Connection -> [Peer -> PipeState]]
    /\ fin \in [Connection -> SUBSET Peer] /\ reset \in [Connection -> SUBSET Peer]
    /\ endedFirst \in [Connection -> [peer : Peer \cup {"none"}, eof : BOOLEAN]]
    /\ socket \in [Connection -> [Peer -> {"none", "open", "shut"}]]
    /\ relayed \in [Connection -> {"waiting", "joined", "refused"}]
BY DEF RelayInv, RelayTypeOK, Bytes, PipeState

(* A new pair of pipes holds nothing. *)
LEMMA AcceptKeeps ==
    ASSUME RelayInv, NEW c \in Connection, NEW connects \in BOOLEAN, Accept(c, connects)
    PROVE  RelayInv'
<1>1. /\ relayed[c] = "waiting" /\ ~Joined(c) /\ \A p \in Peer : pipe[c][p] = NoPipe
      /\ UNCHANGED <<listening, written, wire, fin, reset, delivered, endedFirst>>
  BY DEF Accept, Joined, RelayInv, PipesJoined
<1>2. relayed' \in [Connection -> {"waiting", "joined", "refused"}]
  BY RelayTypes DEF Accept
<1>3. CASE ~connects
  <2>1. UNCHANGED <<pipe, socket>>
    BY <1>3 DEF Accept
  <2>2. PipesJoined'
    BY <1>1, <1>3, <2>1, RelayTypes DEF Accept, RelayInv, PipesJoined, Joined
  <2> QED
    BY <1>1, <1>2, <2>1, <2>2 DEF RelayInv, RelayTypeOK, NoByteLost, Gone, EofKept
<1>4. CASE connects
  <2>1. /\ pipe' = [pipe EXCEPT ![c] = [p \in Peer |-> [pc |-> "recv", held |-> 0]]]
        /\ socket' = [socket EXCEPT ![c] = [p \in Peer |-> "open"]]
        /\ relayed' = [relayed EXCEPT ![c] = "joined"]
    BY <1>4 DEF Accept
  <2>2. /\ \A p \in Peer : pipe'[c][p] = [pc |-> "recv", held |-> 0]
        /\ \A d \in Connection \ {c}, p \in Peer : pipe'[d][p] = pipe[d][p]
        /\ pipe' \in [Connection -> [Peer -> PipeState]]
    BY <2>1, RelayTypes, MaxBytesAssumption DEF PipeState
  <2>3. socket' \in [Connection -> [Peer -> {"none", "open", "shut"}]]
    BY <2>1, RelayTypes
  <2>4. RelayTypeOK'
    BY <1>1, <1>2, <2>2, <2>3 DEF RelayInv, RelayTypeOK, PipeState
  <2>5. PipesJoined'
    BY <2>1, <2>2, RelayTypes DEF RelayInv, PipesJoined, Joined
  <2>6. NoByteLost'
    <3> SUFFICES ASSUME NEW d \in Connection, NEW p \in Peer
                 PROVE  /\ Gone(d, p)' <= written'[d][p]
                        /\ pipe'[d][p].pc # "ended" => Gone(d, p)' = written'[d][p]
                        /\ pipe'[d][p].pc # "send" => pipe'[d][p].held = 0
      BY DEF NoByteLost
    <3>1. pipe'[d][p].held = pipe[d][p].held /\ (pipe[d][p].pc = "ended" <=> pipe'[d][p].pc = "ended")
      BY <1>1, <2>2 DEF NoPipe
    <3>2. pipe'[d][p].pc # "send" => pipe[d][p].pc # "send"
      BY <1>1, <2>2 DEF NoPipe
    <3> QED
      BY <1>1, <3>1, <3>2 DEF RelayInv, NoByteLost, Gone
  <2>7. EofKept'
    <3> SUFFICES ASSUME NEW d \in Connection, endedFirst[d].eof
                 PROVE  LET p == endedFirst[d].peer
                        IN  /\ p \in fin[d] /\ pipe'[d][p].pc = "ended"
                            /\ delivered[d][Opposite[p]] = written[d][p]
      BY <1>1 DEF EofKept
    <3>1. d # c
      BY <1>1, RelayTypes DEF RelayInv, EofKept, NoPipe
    <3>2. endedFirst[d].peer \in Peer
      BY RelayTypes DEF RelayInv, EofKept
    <3> QED
      BY <2>2, <3>1, <3>2 DEF RelayInv, EofKept
  <2> QED
    BY <2>4, <2>5, <2>6, <2>7 DEF RelayInv
<1> QED
  BY <1>3, <1>4

(* A peer writes: its fin is not set, so it is not the one that ended all. *)
LEMMA WritesKeeps ==
    ASSUME RelayInv, NEW c \in Connection, NEW p \in Peer, PeerWrites(c, p)
    PROVE  RelayInv'
<1>1. /\ UNCHANGED <<listening, relayed, fin, reset, pipe, socket, delivered, endedFirst>>
      /\ p \notin fin[c] /\ Joined(c)
      /\ written[c][p] < MaxBytes
      /\ written' = [written EXCEPT ![c][p] = written[c][p] + 1]
      /\ wire' = [wire EXCEPT ![c][p] = wire[c][p] + 1]
  BY DEF PeerWrites
<1>2. /\ written[c][p] \in 0..MaxBytes /\ wire[c][p] \in 0..MaxBytes
      /\ delivered[c][Opposite[p]] \in 0..MaxBytes /\ pipe[c][p].held \in 0..MaxBytes
  BY RelayTypes, Opposites DEF Bytes, PipeState
<1>3. wire[c][p] <= written[c][p]
  BY <1>2, MaxBytesAssumption DEF RelayInv, NoByteLost, Gone
<1>4. written[c][p] + 1 \in 0..MaxBytes /\ wire[c][p] + 1 \in 0..MaxBytes
  BY <1>1, <1>2, <1>3, MaxBytesAssumption
<1>5. /\ written' \in Bytes /\ written'[c][p] = written[c][p] + 1
      /\ \A d \in Connection, q \in Peer : d # c \/ q # p => written'[d][q] = written[d][q]
  BY <1>1, <1>4, RelayTypes, OneChanged DEF Bytes
<1>6. /\ wire' \in Bytes /\ wire'[c][p] = wire[c][p] + 1
      /\ \A d \in Connection, q \in Peer : d # c \/ q # p => wire'[d][q] = wire[d][q]
  BY <1>1, <1>4, RelayTypes, OneChanged DEF Bytes
<1>7. RelayTypeOK'
  BY <1>1, <1>5, <1>6 DEF RelayInv, RelayTypeOK, Bytes
<1>8. NoByteLost'
  <2> SUFFICES ASSUME NEW d \in Connection, NEW q \in Peer
               PROVE  /\ Gone(d, q)' <= written'[d][q]
                      /\ pipe'[d][q].pc # "ended" => Gone(d, q)' = written'[d][q]
                      /\ pipe'[d][q].pc # "send" => pipe'[d][q].held = 0
    BY DEF NoByteLost
  <2>1. CASE d = c /\ q = p
    <3>1. Gone(c, p)' = Gone(c, p) + 1
      BY <1>1, <1>2, <1>6, MaxBytesAssumption DEF Gone
    <3>2. Gone(c, p) \in Nat
      BY <1>2, MaxBytesAssumption DEF Gone
    <3> QED
      BY <1>1, <1>2, <1>5, <2>1, <3>1, <3>2, MaxBytesAssumption DEF RelayInv, NoByteLost
  <2>2. CASE d # c \/ q # p
    BY <1>1, <1>5, <1>6, <2>2 DEF RelayInv, NoByteLost, Gone
  <2> QED
    BY <2>1, <2>2
<1>9. EofKept'
  <2> SUFFICES ASSUME NEW d \in Connection, endedFirst[d].eof
               PROVE  LET q == endedFirst[d].peer
                      IN  /\ q \in fin[d] /\ pipe[d][q].pc = "ended"
                          /\ delivered[d][Opposite[q]] = written'[d][q]
    BY <1>1 DEF EofKept
  <2>1. endedFirst[d].peer \in Peer /\ (d # c \/ endedFirst[d].peer # p)
    BY <1>1, RelayTypes DEF RelayInv, EofKept
  <2> QED
    BY <1>5, <2>1 DEF RelayInv, EofKept
<1> QED
  BY <1>1, <1>7, <1>8, <1>9 DEF RelayInv, PipesJoined, Joined

(* Stopping, half closing and breaking change no byte. *)
LEMMA RelayQuietKeeps ==
    ASSUME RelayInv, UNCHANGED <<relayed, written, wire, pipe, socket, delivered, endedFirst>>,
           listening' \in BOOLEAN,
           fin' \in [Connection -> SUBSET Peer], reset' \in [Connection -> SUBSET Peer],
           \A d \in Connection : fin[d] \subseteq fin'[d]
    PROVE  RelayInv'
<1>1. RelayTypeOK'
  BY DEF RelayInv, RelayTypeOK
<1>2. EofKept'
  BY DEF RelayInv, EofKept
<1> QED
  BY <1>1, <1>2 DEF RelayInv, NoByteLost, Gone, PipesJoined, Joined

(* A peer closes, and writes no more. *)
LEMMA PeerKeeps ==
    ASSUME RelayInv, NEW c \in Connection, NEW p \in Peer,
           PeerFinishes(c, p) \/ PeerBreaks(c, p)
    PROVE  RelayInv'
<1>1. listening \in BOOLEAN
  BY DEF RelayInv, RelayTypeOK
<1>2. CASE PeerFinishes(c, p)
  <2>1. /\ fin' = [fin EXCEPT ![c] = fin[c] \cup {p}]
        /\ UNCHANGED <<listening, relayed, written, wire, reset, pipe, socket, delivered,
                       endedFirst>>
    BY <1>2 DEF PeerFinishes
  <2>2. /\ fin' \in [Connection -> SUBSET Peer]
        /\ \A d \in Connection : fin[d] \subseteq fin'[d]
    BY <2>1, RelayTypes
  <2> QED
    BY <1>1, <2>1, <2>2, RelayTypes, RelayQuietKeeps
<1>3. CASE PeerBreaks(c, p)
  <2>1. /\ reset' = [reset EXCEPT ![c] = reset[c] \cup {p}]
        /\ UNCHANGED <<listening, relayed, written, wire, fin, pipe, socket, delivered,
                       endedFirst>>
    BY <1>3 DEF PeerBreaks
  <2>2. reset' \in [Connection -> SUBSET Peer]
    BY <2>1, RelayTypes
  <2> QED
    BY <1>1, <2>1, <2>2, RelayTypes, RelayQuietKeeps
<1> QED
  BY <1>2, <1>3

(* What recv takes from the wire the pipe holds. *)
LEMMA RecvKeeps ==
    ASSUME RelayInv, NEW c \in Connection, NEW p \in Peer, Recv(c, p)
    PROVE  RelayInv'
<1>1. /\ UNCHANGED <<listening, relayed, written, fin, reset, socket, delivered, endedFirst>>
      /\ pipe[c][p].pc = "recv"
  BY DEF Recv
<1>2. PICK k \in 1..wire[c][p] :
         /\ wire' = [wire EXCEPT ![c][p] = wire[c][p] - k]
         /\ pipe' = [pipe EXCEPT ![c][p] = [pc |-> "send", held |-> k]]
  BY DEF Recv
<1>3. /\ written[c][p] \in 0..MaxBytes /\ wire[c][p] \in 0..MaxBytes
      /\ delivered[c][Opposite[p]] \in 0..MaxBytes /\ pipe[c][p].held = 0
  BY <1>1, RelayTypes, Opposites DEF Bytes, RelayInv, NoByteLost
<1>4. wire[c][p] - k \in 0..MaxBytes /\ k \in 0..MaxBytes
  BY <1>2, <1>3, MaxBytesAssumption
<1>5. /\ wire' \in Bytes /\ wire'[c][p] = wire[c][p] - k
      /\ \A d \in Connection, q \in Peer : d # c \/ q # p => wire'[d][q] = wire[d][q]
  BY <1>2, <1>4, RelayTypes, OneChanged DEF Bytes
<1>6. [pc |-> "send", held |-> k] \in PipeState
  BY <1>4 DEF PipeState
<1>7. /\ pipe' \in [Connection -> [Peer -> PipeState]]
      /\ pipe'[c][p] = [pc |-> "send", held |-> k]
      /\ \A d \in Connection, q \in Peer : d # c \/ q # p => pipe'[d][q] = pipe[d][q]
  BY <1>2, <1>6, RelayTypes, OneChanged
<1>8. RelayTypeOK'
  BY <1>1, <1>5, <1>7 DEF RelayInv, RelayTypeOK, Bytes, PipeState
<1>9. NoByteLost'
  <2> SUFFICES ASSUME NEW d \in Connection, NEW q \in Peer
               PROVE  /\ Gone(d, q)' <= written'[d][q]
                      /\ pipe'[d][q].pc # "ended" => Gone(d, q)' = written'[d][q]
                      /\ pipe'[d][q].pc # "send" => pipe'[d][q].held = 0
    BY DEF NoByteLost
  <2>1. CASE d = c /\ q = p
    BY <1>1, <1>3, <1>4, <1>5, <1>7, <2>1, MaxBytesAssumption DEF RelayInv, NoByteLost, Gone
  <2>2. CASE d # c \/ q # p
    BY <1>1, <1>5, <1>7, <2>2 DEF RelayInv, NoByteLost, Gone
  <2> QED
    BY <2>1, <2>2
<1>10. PipesJoined' /\ EofKept'
  <2>1. Joined(c)
    BY <1>1 DEF RelayInv, PipesJoined, NoPipe
  <2>2. PipesJoined'
    BY <1>1, <1>7, <2>1 DEF RelayInv, PipesJoined, Joined
  <2>3. ASSUME NEW d \in Connection, endedFirst[d].eof
        PROVE  /\ endedFirst[d].peer \in Peer
               /\ pipe'[d][endedFirst[d].peer] = pipe[d][endedFirst[d].peer]
    <3>1. endedFirst[d].peer \in Peer /\ pipe[d][endedFirst[d].peer].pc = "ended"
      BY <2>3, RelayTypes DEF RelayInv, EofKept
    <3>2. d # c \/ endedFirst[d].peer # p
      BY <1>1, <3>1
    <3> QED
      BY <1>7, <3>1, <3>2
  <2> QED
    BY <1>1, <2>2, <2>3 DEF RelayInv, EofKept
<1> QED
  BY <1>8, <1>9, <1>10 DEF RelayInv

(* What the pipe held is delivered, or it ends. *)
LEMMA RelaySendKeeps ==
    ASSUME RelayInv, NEW c \in Connection, NEW p \in Peer, SendAll(c, p)
    PROVE  RelayInv'
<1> DEFINE q == Opposite[p]
           sum == delivered[c][q] + pipe[c][p].held
<1>1. /\ UNCHANGED <<listening, relayed, written, wire, fin, reset, socket, endedFirst>>
      /\ pipe[c][p].pc = "send"
      /\ delivered' = [delivered EXCEPT ![c][q] = sum]
      /\ pipe' = [pipe EXCEPT ![c][p] = [pc |-> "recv", held |-> 0]]
  BY DEF SendAll
<1>2. /\ q \in Peer /\ written[c][p] \in 0..MaxBytes /\ wire[c][p] \in 0..MaxBytes
      /\ delivered[c][q] \in 0..MaxBytes /\ pipe[c][p].held \in 0..MaxBytes
  BY RelayTypes, Opposites DEF Bytes, PipeState
<1>3. sum \in 0..MaxBytes
  BY <1>2, MaxBytesAssumption DEF RelayInv, NoByteLost, Gone
<1>4. /\ delivered' \in Bytes /\ delivered'[c][q] = sum
      /\ \A d \in Connection, r \in Peer : d # c \/ r # q => delivered'[d][r] = delivered[d][r]
  BY <1>1, <1>2, <1>3, RelayTypes, OneChanged DEF Bytes
<1>5. [pc |-> "recv", held |-> 0] \in PipeState
  BY MaxBytesAssumption DEF PipeState
<1>6. /\ pipe' \in [Connection -> [Peer -> PipeState]]
      /\ pipe'[c][p] = [pc |-> "recv", held |-> 0]
      /\ \A d \in Connection, r \in Peer : d # c \/ r # p => pipe'[d][r] = pipe[d][r]
  BY <1>1, <1>5, RelayTypes, OneChanged
<1>7. RelayTypeOK'
  BY <1>1, <1>4, <1>6 DEF RelayInv, RelayTypeOK, Bytes, PipeState
<1>8. NoByteLost'
  <2> SUFFICES ASSUME NEW d \in Connection, NEW r \in Peer
               PROVE  /\ Gone(d, r)' <= written'[d][r]
                      /\ pipe'[d][r].pc # "ended" => Gone(d, r)' = written'[d][r]
                      /\ pipe'[d][r].pc # "send" => pipe'[d][r].held = 0
    BY DEF NoByteLost
  <2>1. CASE d = c /\ r = p
    <3>1. Gone(c, p)' = Gone(c, p)
      BY <1>1, <1>2, <1>3, <1>4, <1>6, MaxBytesAssumption DEF Gone
    <3>2. Gone(c, p) = written[c][p]
      BY <1>1 DEF RelayInv, NoByteLost
    <3> QED
      BY <1>1, <1>2, <1>6, <2>1, <3>1, <3>2, MaxBytesAssumption
  <2>2. CASE d # c \/ r # p
    <3>1. d # c \/ Opposite[r] # q
      BY <2>2, Opposites
    <3>2. Opposite[r] \in Peer
      BY Opposites
    <3>3. Gone(d, r)' = Gone(d, r) /\ pipe'[d][r] = pipe[d][r]
      BY <1>1, <1>4, <1>6, <2>2, <3>1, <3>2 DEF Gone
    <3> QED
      BY <1>1, <3>3 DEF RelayInv, NoByteLost
  <2> QED
    BY <2>1, <2>2
<1>9. PipesJoined'
  <2>1. Joined(c)
    BY <1>1 DEF RelayInv, PipesJoined, NoPipe
  <2> QED
    BY <1>1, <1>6, <2>1 DEF RelayInv, PipesJoined, Joined
<1>10. EofKept'
  <2> SUFFICES ASSUME NEW d \in Connection, endedFirst[d].eof
               PROVE  LET r == endedFirst[d].peer
                      IN  /\ r \in fin[d] /\ pipe'[d][r].pc = "ended"
                          /\ delivered'[d][Opposite[r]] = written[d][r]
    BY <1>1 DEF EofKept
  <2>1. /\ endedFirst[d].peer \in Peer /\ (d # c \/ endedFirst[d].peer # p)
    BY <1>1, RelayTypes DEF RelayInv, EofKept
  <2>2. d # c \/ Opposite[endedFirst[d].peer] # q
    BY <2>1, Opposites
  <2>3. Opposite[endedFirst[d].peer] \in Peer
    BY <2>1, Opposites
  <2> QED
    BY <1>4, <1>6, <2>1, <2>2, <2>3 DEF RelayInv, EofKept
<1> QED
  BY <1>7, <1>8, <1>9, <1>10 DEF RelayInv

(* What a pipe that ends still holds is lost; at an end of file it holds
   nothing, and nothing is on the wire. *)
LEMMA RelayEndsKeeps ==
    ASSUME RelayInv, NEW c \in Connection, NEW p \in Peer, PipeEnds(c, p)
    PROVE  RelayInv'
<1>1. /\ UNCHANGED <<listening, relayed, written, wire, fin, reset, delivered>>
      /\ (pipe[c][p].pc = "recv" /\ AtEof(c, p)) \/ Broken(c, p)
      /\ pipe' = [pipe EXCEPT ![c][p] = [pc |-> "ended", held |-> 0]]
      /\ socket' = [socket EXCEPT ![c] = ShutBoth(c, p)]
      /\ endedFirst' = IF endedFirst[c].peer # "none" THEN endedFirst
             ELSE [endedFirst EXCEPT ![c] = [peer |-> p, eof |-> ~Broken(c, p)]]
  BY DEF PipeEnds
<1>2. /\ written[c][p] \in 0..MaxBytes /\ wire[c][p] \in 0..MaxBytes
      /\ delivered[c][Opposite[p]] \in 0..MaxBytes /\ pipe[c][p].held \in 0..MaxBytes
  BY RelayTypes, Opposites DEF Bytes, PipeState
<1>3. [pc |-> "ended", held |-> 0] \in PipeState
  BY MaxBytesAssumption DEF PipeState
<1>4. /\ pipe' \in [Connection -> [Peer -> PipeState]]
      /\ pipe'[c][p] = [pc |-> "ended", held |-> 0]
      /\ \A d \in Connection, r \in Peer : d # c \/ r # p => pipe'[d][r] = pipe[d][r]
  BY <1>1, <1>3, RelayTypes, OneChanged
<1>5. /\ endedFirst' \in [Connection -> [peer : Peer \cup {"none"}, eof : BOOLEAN]]
      /\ socket' \in [Connection -> [Peer -> {"none", "open", "shut"}]]
  <2>1. Broken(c, p) \in BOOLEAN
    BY DEF Broken
  <2>2. socket' \in [Connection -> [Peer -> {"none", "open", "shut"}]]
    BY <1>1, RelayTypes DEF ShutBoth
  <2> QED
    BY <1>1, <2>1, <2>2, RelayTypes
<1>6. RelayTypeOK'
  BY <1>1, <1>4, <1>5 DEF RelayInv, RelayTypeOK, PipeState
<1>7. NoByteLost'
  <2> SUFFICES ASSUME NEW d \in Connection, NEW r \in Peer
               PROVE  /\ Gone(d, r)' <= written'[d][r]
                      /\ pipe'[d][r].pc # "ended" => Gone(d, r)' = written'[d][r]
                      /\ pipe'[d][r].pc # "send" => pipe'[d][r].held = 0
    BY DEF NoByteLost
  <2>1. CASE d = c /\ r = p
    BY <1>1, <1>2, <1>4, <2>1, MaxBytesAssumption DEF RelayInv, NoByteLost, Gone
  <2>2. CASE d # c \/ r # p
    BY <1>1, <1>4, <2>2 DEF RelayInv, NoByteLost, Gone
  <2> QED
    BY <2>1, <2>2
<1>8. PipesJoined'
  <2>1. Joined(c)
    BY <1>1 DEF RelayInv, PipesJoined, NoPipe, Broken
  <2> QED
    BY <1>1, <1>4, <2>1 DEF RelayInv, PipesJoined, Joined
<1>9. EofKept'
  <2> SUFFICES ASSUME NEW d \in Connection, endedFirst'[d].eof
               PROVE  LET r == endedFirst'[d].peer
                      IN  /\ r \in fin[d] /\ pipe'[d][r].pc = "ended"
                          /\ delivered[d][Opposite[r]] = written[d][r]
    BY <1>1 DEF EofKept
  <2>1. CASE endedFirst'[d] = endedFirst[d]
    <3>1. endedFirst[d].peer \in Peer /\ pipe[d][endedFirst[d].peer].pc = "ended"
      BY <2>1, RelayTypes DEF RelayInv, EofKept
    <3>2. pipe'[d][endedFirst[d].peer].pc = "ended"
      BY <1>4, <3>1
    <3> QED
      BY <2>1, <3>2 DEF RelayInv, EofKept
  <2>2. CASE endedFirst'[d] # endedFirst[d]
    <3>1. d = c /\ endedFirst'[c] = [peer |-> p, eof |-> ~Broken(c, p)]
      BY <1>1, <2>2, RelayTypes
    <3>2. pipe[c][p].pc = "recv" /\ AtEof(c, p)
      <4>1. endedFirst'[c].eof = ~Broken(c, p)
        BY <3>1
      <4>2. ~Broken(c, p)
        BY <3>1, <4>1
      <4> QED
        BY <1>1, <4>2
    <3>3. Gone(c, p) = written[c][p] /\ pipe[c][p].held = 0 /\ wire[c][p] = 0
      BY <3>2 DEF RelayInv, NoByteLost, AtEof
    <3>4. delivered[c][Opposite[p]] = written[c][p]
      BY <1>2, <3>3 DEF Gone
    <3> QED
      BY <1>4, <3>1, <3>2, <3>4 DEF AtEof
  <2> QED
    BY <2>1, <2>2
<1> QED
  BY <1>6, <1>7, <1>8, <1>9 DEF RelayInv

(* One step of each kind. *)
LEMMA RelayStepKeeps == RelayInv /\ [RelayNext]_relayVars => RelayInv'
<1> SUFFICES ASSUME RelayInv, [RelayNext]_relayVars PROVE RelayInv'
  OBVIOUS
<1>1. CASE RelayStops
  BY <1>1, RelayTypes, RelayQuietKeeps DEF RelayStops
<1>2. ASSUME NEW c \in Connection, NEW connects \in BOOLEAN, Accept(c, connects)
      PROVE  RelayInv'
  BY <1>2, AcceptKeeps
<1>3. ASSUME NEW c \in Connection, NEW p \in Peer,
             \/ PeerWrites(c, p) \/ PeerFinishes(c, p) \/ PeerBreaks(c, p)
             \/ Recv(c, p) \/ SendAll(c, p) \/ PipeEnds(c, p)
      PROVE  RelayInv'
  BY <1>3, WritesKeeps, PeerKeeps, RecvKeeps, RelaySendKeeps, RelayEndsKeeps
<1>4. CASE UNCHANGED relayVars
  BY <1>4 DEF relayVars, RelayInv, RelayTypeOK, NoByteLost, Gone, PipesJoined, Joined, EofKept
<1> QED
  BY <1>1, <1>2, <1>3, <1>4 DEF RelayNext

(* The variables of the relay keep their types, and it invents no byte. *)
THEOREM RelayTypeCorrect == RelaySpec => []RelayTypeOK
<1>1. RelayInv => RelayTypeOK
  BY DEF RelayInv
<1> QED
  BY InitRelay, RelayStepKeeps, <1>1, PTL DEF RelaySpec

(* The peer that ends a connection by closing its side has had all it wrote
   delivered, whatever the relay read at once and however the other side broke. *)
THEOREM EndOfFileMeansAll == RelaySpec => []EofMeansAll
<1>1. RelayInv => EofMeansAll
  BY DEF RelayInv, EofKept, EofMeansAll
<1> QED
  BY InitRelay, RelayStepKeeps, <1>1, PTL DEF RelaySpec
-----------------------------------------------------------------------------
(* Notebook: how often a cell runs, and where its output goes. *)

CellState == [pc : {"called", "wait", "local", "inside", "answered"},
              saved : Cell \cup {Terminal}, printed : 0..Prints]
JobState == [state : {"none", "PENDING", "RUNNING", "COMPLETED", "FAILED"},
             agent : {"none", "assigned", "ended"}]

(* No agent completes a cell, so that none is answered before it ran here. *)
Runs ==
    \A c \in Cell :
        /\ ran[c] = IF cell[c].pc \in {"inside", "answered"} THEN 1 ELSE 0
        /\ nbJob[c].state # "COMPLETED"

(* Cells that are redirected at once are beside each other, and a buffer that
   outlives its cell, or is saved by another, belongs to such a cell. *)
Alone ==
    /\ \A b, c \in Cell : Redirected(b) /\ Redirected(c) /\ b # c => c \in beside
    /\ \A c \in Cell \ beside : Redirected(c) <=> stdout = c
    /\ \A c \in Cell : Redirected(c) => cell[c].saved \in beside \cup {Terminal}

(* Nothing is printed into the buffer of a cell that is alone but by the cell. *)
Printed ==
    /\ \A o \in Cell \cup {Terminal}, c \in Cell : outputs[o][c] <= cell[c].printed
    /\ \A c \in Cell \ beside :
         /\ outputs[c][c] = cell[c].printed
         /\ \A b \in Cell \ {c} : outputs[c][b] = 0

(* While no two cells crossed, sys.stdout and what the cells have saved are a
   stack with the terminal at its bottom. *)
Stack ==
    ~nbCrossed =>
        /\ stdout = Terminal \/ (stdout \in Cell /\ Redirected(stdout))
        /\ \A c \in Cell : Redirected(c) =>
             /\ cell[c].saved # stdout /\ cell[c].saved # c
             /\ cell[c].saved = Terminal \/ (cell[c].saved \in Cell /\ Redirected(cell[c].saved))
             /\ \A b \in Cell \ {c} : Redirected(b) => cell[b].saved # cell[c].saved

NbInv == NbTypeOK /\ Runs /\ Alone /\ Printed /\ Stack

(* The types, as memberships. *)
LEMMA NbTypes == NbInv =>
    /\ stdout \in Cell \cup {Terminal} /\ cell \in [Cell -> CellState]
    /\ outputs \in [Cell \cup {Terminal} -> [Cell -> 0..Prints]]
    /\ nbJob \in [Cell -> JobState] /\ ran \in [Cell -> Nat]
    /\ beside \subseteq Cell /\ nbCrossed \in BOOLEAN
BY DEF NbInv, NbTypeOK, CellState, JobState

(* Before any cell is called. *)
LEMMA InitNotebook == NbInit => NbInv
<1> SUFFICES ASSUME NbInit PROVE NbInv
  OBVIOUS
<1>1. NbTypeOK
  <2>1. 0 \in 0..Prints
    BY TerminalAssumption
  <2> QED
    BY <2>1 DEF NbInit, NbTypeOK
<1>2. Runs /\ Alone /\ Stack
  BY TerminalAssumption DEF NbInit, Runs, Alone, Stack, Redirected
<1>3. Printed
  BY DEF NbInit, Printed
<1> QED
  BY <1>1, <1>2, <1>3 DEF NbInv

(* Steps outside of execute_code: nothing is redirected. *)
LEMMA CellQuietKeeps ==
    ASSUME NbInv, NEW c \in Cell, NEW pc \in {"called", "wait", "local"},
           cell[c].pc \in {"called", "wait", "local"},
           cell' = [cell EXCEPT ![c].pc = pc],
           nbJob' \in [Cell -> JobState], \A d \in Cell : nbJob'[d].state # "COMPLETED",
           UNCHANGED <<stdout, outputs, ran, beside, nbCrossed>>
    PROVE  NbInv'
<1>1. /\ cell' \in [Cell -> CellState] /\ cell'[c].pc = pc
      /\ \A d \in Cell : cell'[d].saved = cell[d].saved /\ cell'[d].printed = cell[d].printed
      /\ \A d \in Cell : d # c => cell'[d].pc = cell[d].pc
  BY NbTypes DEF CellState
<1>2. \A d \in Cell : Redirected(d)' <=> Redirected(d)
  BY <1>1 DEF Redirected
<1>3. NbTypeOK'
  BY <1>1 DEF NbInv, NbTypeOK, CellState, JobState
<1>4. Runs'
  BY <1>1 DEF NbInv, Runs
<1>5. Alone' /\ Printed' /\ Stack'
  BY <1>1, <1>2 DEF NbInv, Alone, Printed, Stack
<1> QED
  BY <1>3, <1>4, <1>5 DEF NbInv

(* Asking an agent, and giving up on it, runs no code. *)
LEMMA AsksKeep ==
    ASSUME NbInv, NEW c \in Cell, NEW b \in BOOLEAN,
           RunsHere(c) \/ Submits(c, b) \/ WaitEnds(c, b)
    PROVE  NbInv'
<1>1. nbJob[c].state # "COMPLETED" /\ \A d \in Cell : nbJob[d].state # "COMPLETED"
  BY DEF NbInv, Runs
<1>2. CASE RunsHere(c)
  BY <1>1, <1>2, NbTypes, CellQuietKeeps DEF RunsHere
<1>3. CASE Submits(c, b)
  <2> DEFINE job == IF b THEN [state |-> "RUNNING", agent |-> "assigned"]
                    ELSE [state |-> "PENDING", agent |-> "none"]
  <2>1. job \in JobState /\ job.state # "COMPLETED"
    BY DEF JobState
  <2>2. nbJob' = [nbJob EXCEPT ![c] = job]
    BY <1>3 DEF Submits
  <2>3. nbJob' \in [Cell -> JobState] /\ \A d \in Cell : nbJob'[d].state # "COMPLETED"
    BY <1>1, <2>1, <2>2, NbTypes
  <2>4. \E pc \in {"wait", "local"} : cell' = [cell EXCEPT ![c].pc = pc]
    BY <1>3 DEF Submits
  <2> QED
    BY <1>3, <2>3, <2>4, CellQuietKeeps DEF Submits
<1>4. CASE WaitEnds(c, b)
  <2>1. cell' = [cell EXCEPT ![c].pc = "local"]
    BY <1>1, <1>4 DEF WaitEnds
  <2> QED
    BY <1>1, <1>4, <2>1, NbTypes, CellQuietKeeps DEF WaitEnds
<1> QED
  BY <1>2, <1>3, <1>4

(* notebook.exec raises before it runs the code. *)
LEMMA AgentKeeps ==
    ASSUME NbInv, NEW c \in Cell, NEW gone \in BOOLEAN, AgentRuns(c, gone)
    PROVE  NbInv'
<1> DEFINE job == [state |-> IF gone THEN nbJob[c].state ELSE "FAILED", agent |-> "ended"]
<1>1. /\ nbJob' = [nbJob EXCEPT ![c] = job]
      /\ ran' = [ran EXCEPT ![c] = ran[c] + 0]
      /\ UNCHANGED <<stdout, cell, outputs, beside, nbCrossed>>
  BY DEF AgentRuns, AgentRaises
<1>2. ran' = ran
  BY <1>1, NbTypes
<1>3. job \in JobState /\ job.state # "COMPLETED"
  BY NbTypes DEF NbInv, Runs, JobState
<1>4. nbJob' \in [Cell -> JobState] /\ \A d \in Cell : nbJob'[d].state # "COMPLETED"
  BY <1>1, <1>3, NbTypes DEF NbInv, Runs
<1> QED
  BY <1>1, <1>2, <1>4 DEF NbInv, NbTypeOK, Runs, Alone, Printed, Stack, Redirected, JobState

(* Whoever enters saves what the stream was: the terminal, or who entered before. *)
LEMMA EnterKeeps == ASSUME NbInv, NEW c \in Cell, EnterRedirect(c) PROVE NbInv'
<1>1. /\ cell[c].pc = "local" /\ ~Redirected(c) /\ stdout' = c
      /\ ran' = [ran EXCEPT ![c] = ran[c] + 1]
      /\ UNCHANGED <<outputs, nbJob, nbCrossed>>
  BY DEF EnterRedirect, Redirected
<1>2. /\ cell' \in [Cell -> CellState] /\ cell'[c].pc = "inside" /\ cell'[c].saved = stdout
      /\ \A d \in Cell : cell'[d].printed = cell[d].printed
      /\ \A d \in Cell : d # c => cell'[d] = cell[d]
  BY NbTypes DEF EnterRedirect, CellState
<1>3. Redirected(c)' /\ \A d \in Cell : d # c => (Redirected(d)' <=> Redirected(d))
  BY <1>2 DEF Redirected
<1>4. /\ beside \subseteq beside' /\ beside' \subseteq Cell
      /\ \A d \in Cell : Redirected(d) => d \in beside' /\ c \in beside'
      /\ (\A d \in Cell : ~Redirected(d)) => beside' = beside
  BY NbTypes DEF EnterRedirect
<1>5. NbTypeOK'
  BY <1>1, <1>2, <1>4, NbTypes DEF NbTypeOK, CellState, JobState
<1>6. Runs'
  BY <1>1, <1>2, NbTypes DEF NbInv, Runs
<1>7. Alone'
  <2>1. \A a, d \in Cell : Redirected(a)' /\ Redirected(d)' /\ a # d => d \in beside'
    BY <1>3, <1>4
  <2>2. \A d \in Cell \ beside' : Redirected(d)' <=> stdout' = d
    BY <1>1, <1>3, <1>4
  <2>3. cell'[c].saved \in beside' \cup {Terminal}
    BY <1>2, <1>4, NbTypes DEF NbInv, Alone
  <2> QED
    BY <1>2, <1>3, <1>4, <2>1, <2>2, <2>3 DEF NbInv, Alone
<1>8. Printed'
  BY <1>1, <1>2, <1>4 DEF NbInv, Printed
<1>9. Stack'
  <2> SUFFICES ASSUME ~nbCrossed PROVE Stack'
    BY <1>1 DEF Stack
  <2>1. /\ stdout # c
        /\ stdout = Terminal \/ (stdout \in Cell /\ Redirected(stdout))
        /\ \A d \in Cell : Redirected(d) => d # c /\ cell[d].saved # c
    BY <1>1, TerminalAssumption DEF NbInv, Stack
  <2> QED
    BY <1>1, <1>2, <1>3, <2>1 DEF NbInv, Stack
<1> QED
  BY <1>5, <1>6, <1>7, <1>8, <1>9 DEF NbInv

(* A print goes to whoever entered last. *)
LEMMA PrintKeeps == ASSUME NbInv, NEW c \in Cell, CellPrints(c) PROVE NbInv'
<1>1. /\ Redirected(c) /\ cell[c].printed < Prints
      /\ UNCHANGED <<stdout, nbJob, ran, beside, nbCrossed>>
      /\ outputs' = [outputs EXCEPT ![stdout][c] = outputs[stdout][c] + 1]
  BY DEF CellPrints
<1>2. cell[c].printed + 1 \in 0..Prints
  BY <1>1, NbTypes, TerminalAssumption DEF CellState
<1>3. /\ cell' \in [Cell -> CellState] /\ cell'[c].printed = cell[c].printed + 1
      /\ \A d \in Cell : cell'[d].pc = cell[d].pc /\ cell'[d].saved = cell[d].saved
      /\ \A d \in Cell : d # c => cell'[d].printed = cell[d].printed
  <2> DEFINE v == [cell[c] EXCEPT !.printed = cell[c].printed + 1]
  <2>1. cell \in [Cell -> CellState] /\ cell' = [cell EXCEPT ![c] = v]
    BY NbTypes DEF CellPrints
  <2>2. v \in CellState /\ v.printed = cell[c].printed + 1
        /\ v.pc = cell[c].pc /\ v.saved = cell[c].saved
    BY <1>2, <2>1 DEF CellState
  <2> HIDE DEF v
  <2>. QED
    BY <2>1, <2>2
<1>4. \A d \in Cell : Redirected(d)' <=> Redirected(d)
  BY <1>3 DEF Redirected
<1>5. /\ outputs[stdout][c] \in 0..Prints /\ cell[c].printed \in 0..Prints
      /\ outputs[stdout][c] <= cell[c].printed
  BY NbTypes DEF NbInv, Printed, CellState
<1>6. outputs[stdout][c] + 1 \in 0..Prints
  BY <1>1, <1>5, TerminalAssumption
<1>7. /\ outputs' \in [Cell \cup {Terminal} -> [Cell -> 0..Prints]]
      /\ outputs'[stdout][c] = outputs[stdout][c] + 1
      /\ \A o \in Cell \cup {Terminal}, d \in Cell :
           o # stdout \/ d # c => outputs'[o][d] = outputs[o][d]
  BY <1>1, <1>6, NbTypes
<1>8. NbTypeOK'
  BY <1>1, <1>3, <1>7, NbTypes DEF NbTypeOK, CellState, JobState
<1>9. Runs' /\ Alone' /\ Stack'
  BY <1>1, <1>3, <1>4 DEF NbInv, Runs, Alone, Stack
<1>10. Printed'
  <2>1. ASSUME NEW o \in Cell \cup {Terminal}, NEW d \in Cell
        PROVE  outputs'[o][d] <= cell'[d].printed
    <3>1. /\ outputs[o][d] \in 0..Prints /\ cell[d].printed \in 0..Prints
          /\ outputs[o][d] <= cell[d].printed
      BY NbTypes DEF NbInv, Printed, CellState
    <3>2. CASE d = c
      <4>1. cell'[d].printed = cell[d].printed + 1
        BY <1>3, <3>2
      <4>2. outputs'[o][d] = outputs[o][d] \/ outputs'[o][d] = outputs[o][d] + 1
        BY <1>7, <3>2
      <4> QED
        BY <3>1, <4>1, <4>2, TerminalAssumption
    <3>3. CASE d # c
      BY <1>3, <1>7, <3>1, <3>3
    <3> QED
      BY <3>2, <3>3
  <2>2. ASSUME NEW d \in Cell \ beside
        PROVE  /\ outputs'[d][d] = cell'[d].printed
               /\ \A b \in Cell \ {d} : outputs'[d][b] = 0
    <3>1. (stdout = d) <=> (d = c)
      BY <1>1 DEF NbInv, Alone
    <3> QED
      BY <1>3, <1>7, <3>1 DEF NbInv, Printed
  <2> QED
    BY <1>1, <2>1, <2>2 DEF Printed
<1> QED
  BY <1>8, <1>9, <1>10 DEF NbInv

(* Whoever leaves restores what it had saved. *)
LEMMA ExitKeeps == ASSUME NbInv, NEW c \in Cell, ExitRedirect(c) PROVE NbInv'
<1>1. /\ Redirected(c) /\ stdout' = cell[c].saved /\ nbCrossed' = (nbCrossed \/ stdout # c)
      /\ UNCHANGED <<outputs, nbJob, ran, beside>>
  BY DEF ExitRedirect, RestoredOutput
<1>2. /\ cell' \in [Cell -> CellState] /\ cell'[c].pc = "answered"
      /\ \A d \in Cell : cell'[d].saved = cell[d].saved /\ cell'[d].printed = cell[d].printed
      /\ \A d \in Cell : d # c => cell'[d] = cell[d]
  BY NbTypes DEF ExitRedirect, CellState
<1>3. ~Redirected(c)' /\ \A d \in Cell : d # c => (Redirected(d)' <=> Redirected(d))
  BY <1>2 DEF Redirected
<1>4. NbTypeOK'
  <2>1. stdout' \in Cell \cup {Terminal} /\ nbCrossed' \in BOOLEAN
    BY <1>1, NbTypes DEF CellState
  <2> QED
    BY <1>1, <1>2, <2>1, NbTypes DEF NbTypeOK, CellState, JobState
<1>5. Runs'
  BY <1>1, <1>2 DEF NbInv, Runs, Redirected
<1>6. Alone'
  <2>1. \A d \in Cell \ beside : ~Redirected(d)' /\ stdout' # d
    BY <1>1, <1>3, TerminalAssumption DEF NbInv, Alone
  <2> QED
    BY <1>1, <1>2, <1>3, <2>1 DEF NbInv, Alone
<1>7. Printed'
  BY <1>1, <1>2 DEF NbInv, Printed
<1>8. Stack'
  <2> SUFFICES ASSUME ~nbCrossed, stdout = c PROVE Stack'
    BY <1>1 DEF Stack
  <2>1. /\ stdout' # c
        /\ stdout' = Terminal \/ (stdout' \in Cell /\ Redirected(stdout'))
    BY <1>1 DEF NbInv, Stack
  <2>2. ASSUME NEW d \in Cell, d # c, Redirected(d)
        PROVE  cell[d].saved # c /\ cell[d].saved # stdout'
    BY <1>1, <2>2 DEF NbInv, Stack
  <2>3. stdout' = Terminal \/ (stdout' \in Cell /\ cell'[stdout'].pc = "inside")
    BY <1>2, <2>1 DEF Redirected
  <2>4. ASSUME NEW d \in Cell, d # c, Redirected(d)
        PROVE  /\ cell'[d].saved # stdout' /\ cell'[d].saved # d
               /\ \/ cell'[d].saved = Terminal
                  \/ cell'[d].saved \in Cell /\ cell'[cell'[d].saved].pc = "inside"
               /\ \A b \in Cell \ {d} : b # c /\ Redirected(b) => cell'[b].saved # cell'[d].saved
    BY <1>1, <1>2, <2>2, <2>4 DEF NbInv, Stack, Redirected
  <2> QED
    BY <1>2, <1>3, <2>3, <2>4 DEF Stack, Redirected
<1> QED
  BY <1>4, <1>5, <1>6, <1>7, <1>8 DEF NbInv

(* One step of each kind. *)
LEMMA NbStepKeeps == NbInv /\ [NbNext]_nbVars => NbInv'
<1> SUFFICES ASSUME NbInv, [NbNext]_nbVars PROVE NbInv'
  OBVIOUS
<1>1. ASSUME NEW c \in Cell, NEW b \in BOOLEAN, RunsHere(c) \/ Submits(c, b) \/ WaitEnds(c, b)
      PROVE  NbInv'
  BY <1>1, AsksKeep
<1>2. ASSUME NEW c \in Cell, NEW gone \in BOOLEAN, AgentRuns(c, gone) PROVE NbInv'
  BY <1>2, AgentKeeps
<1>3. ASSUME NEW c \in Cell, EnterRedirect(c) \/ CellPrints(c) \/ ExitRedirect(c) PROVE NbInv'
  BY <1>3, EnterKeeps, PrintKeeps, ExitKeeps
<1>4. CASE UNCHANGED nbVars
  BY <1>4 DEF nbVars, NbInv, NbTypeOK, Runs, Alone, Printed, Stack, Redirected
<1> QED
  BY <1>1, <1>2, <1>3, <1>4 DEF NbNext

(* The variables of the notebook keep their types. *)
THEOREM NotebookTypeCorrect == NbSpec => []NbTypeOK
<1>1. NbInv => NbTypeOK
  BY DEF NbInv
<1> QED
  BY InitNotebook, NbStepKeeps, <1>1, PTL DEF NbSpec

(* The code of a cell runs once, whatever went wrong before on an agent. *)
THEOREM CellsRunOnce == NbSpec => []CellRunsOnce
<1>1. NbInv => CellRunsOnce
  BY DEF NbInv, Runs, CellRunsOnce
<1> QED
  BY InitNotebook, NbStepKeeps, <1>1, PTL DEF NbSpec

(* A cell that ran alone has all of its output and nothing else, and the
   terminal is back unless two cells crossed. *)
THEOREM OutputsIsolated == NbSpec => []CellsIsolated
<1>1. NbInv => CellsIsolated
  BY DEF NbInv, Printed, Stack, CellsIsolated
<1> QED
  BY InitNotebook, NbStepKeeps, <1>1, PTL DEF NbSpec
=============================================================================
