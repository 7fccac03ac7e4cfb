------------------------------ MODULE EventStream ------------------------------
(***************************************************************************)
(* The event bus (mesh/api/events.py) and the WebSocket that streams it      *)
(* (websocket_stream in mesh/api/app.py).  emit enters an event in the log   *)
(* and copies the list of subscribers under the lock, and calls them outside *)
(* of it, in the emitting thread; a stream sends its queue item by item,     *)
(* awaiting the socket, and then clears it.                                  *)
(***************************************************************************)
EXTENDS Naturals, Sequences

CONSTANTS
    Emitter,        \* threads that emit: API and gRPC handlers, the health loop
    Stream,         \* WebSocket connections
    Events,         \* bound: events
    MaxEvents       \* maxlen of the deque

ASSUME EventsAssumption == Events \in Nat /\ MaxEvents \in Nat \ {0}

VARIABLES
    emitted,    \* events so far; an event is its number in the order of the log
    bus,        \* _events, the newest MaxEvents of them
    emitter,    \* the event a thread delivers, and the streams still to be called
    subscribers,    \* _subscribers, in the order of subscription
    stream,     \* a connection: pc, queue, place in the queue, and what it sent
    got,        \* history: events that were put into the queue of a stream
    lost,       \* history: those cleared without having been sent
    before      \* history: per event, those whose emit had returned earlier

esVars == <<emitted, bus, emitter, subscribers, stream, got, lost, before>>

Quiet == [event |-> 0, todo |-> <<>>]
Closed == [pc |-> "closed", queue |-> <<>>, at |-> 0, out |-> <<>>]
EventsOf(s) == {s[i] : i \in DOMAIN s}
Delivering == {emitter[m].event : m \in Emitter} \ {0}

EsInit ==
    /\ emitted = 0 /\ bus = <<>> /\ emitter = [m \in Emitter |-> Quiet]
    /\ subscribers = <<>> /\ stream = [w \in Stream |-> Closed]
    /\ got = [w \in Stream |-> {}] /\ lost = [w \in Stream |-> {}]
    /\ before = [n \in 1..Events |-> {}]
-----------------------------------------------------------------------------
(* emit, up to the release of the lock. *)
Log(m) ==
    /\ emitter[m] = Quiet /\ emitted < Events
    /\ emitted' = emitted + 1
    /\ bus' = IF Len(bus) < MaxEvents THEN Append(bus, emitted')
                                      ELSE Append(Tail(bus), emitted')
    /\ emitter' = [emitter EXCEPT ![m] =
         IF subscribers = <<>> THEN Quiet ELSE [event |-> emitted', todo |-> subscribers]]
    /\ before' = [before EXCEPT ![emitted'] = (1..emitted) \ Delivering]
    /\ UNCHANGED <<subscribers, stream, got, lost>>

(* on_event of the next stream in the copy; it may have unsubscribed. *)
QueuedFirst(q, n) == <<n>> \o q
Queued(q, n) == Append(q, n)
Call(m) ==
    LET w == Head(emitter[m].todo)
        n == emitter[m].event
        rest == Tail(emitter[m].todo)
    IN  /\ emitter[m] # Quiet
        /\ emitter' = [emitter EXCEPT ![m] =
             IF rest = <<>> THEN Quiet ELSE [event |-> n, todo |-> rest]]
        /\ IF stream[w].pc = "closed" THEN UNCHANGED <<stream, got>>
           ELSE /\ stream' = [stream EXCEPT ![w].queue = Queued(@, n)]
                /\ got' = [got EXCEPT ![w] = @ \cup {n}]
        /\ UNCHANGED <<emitted, bus, subscribers, lost, before>>
-----------------------------------------------------------------------------
(* websocket_stream; a connection is used once. *)
Subscribe(w) ==
    /\ stream[w] = Closed /\ w \notin EventsOf(subscribers)
    /\ subscribers' = Append(subscribers, w)
    /\ stream' = [stream EXCEPT ![w].pc = "poll"]
    /\ UNCHANGED <<emitted, bus, emitter, got, lost, before>>

(* `if queue`: the loop over the list sees what is appended to it meanwhile. *)
Newest(w) == Len(stream[w].queue)
First(w) == 1
FindsItems(w) ==
    /\ stream[w].pc = "poll" /\ stream[w].queue # <<>>
    /\ stream' = [stream EXCEPT ![w].pc = "send", ![w].at = First(w)]
    /\ UNCHANGED <<emitted, bus, emitter, subscribers, got, lost, before>>

Send(w) ==
    /\ stream[w].pc = "send" /\ stream[w].at <= Len(stream[w].queue)
    /\ stream' = [stream EXCEPT ![w].out = Append(@, stream[w].queue[stream[w].at]),
                                ![w].at = @ + 1]
    /\ UNCHANGED <<emitted, bus, emitter, subscribers, got, lost, before>>

(* The loop ends; another thread may run before the queue is cleared. *)
SentAll(w) ==
    /\ stream[w].pc = "send" /\ stream[w].at > Len(stream[w].queue)
    /\ stream' = [stream EXCEPT ![w].pc = "clear"]
    /\ UNCHANGED <<emitted, bus, emitter, subscribers, got, lost, before>>

Clear(w) ==
    /\ stream[w].pc = "clear"
    /\ stream' = [stream EXCEPT ![w].pc = "poll", ![w].queue = <<>>, ![w].at = 0]
    /\ lost' = [lost EXCEPT ![w] = @ \cup
         {stream[w].queue[i] : i \in stream[w].at..Len(stream[w].queue)}]
    /\ UNCHANGED <<emitted, bus, emitter, subscribers, got, before>>

(* list.remove: a stream is in the list once. *)
Without(s, w) ==
    LET i == CHOOSE i \in DOMAIN s : s[i] = w
    IN  [k \in 1..Len(s) - 1 |-> IF k < i THEN s[k] ELSE s[k + 1]]

(* A send fails, and the finally clause unsubscribes. *)
Disconnect(w) ==
    /\ stream[w].pc \in {"poll", "send"}
    /\ stream' = [stream EXCEPT ![w].pc = "closed"]
    /\ subscribers' = Without(subscribers, w)
    /\ UNCHANGED <<emitted, bus, emitter, got, lost, before>>

EsNext ==
    \/ \E m \in Emitter : Log(m) \/ Call(m)
    \/ \E w \in Stream : Subscribe(w) \/ FindsItems(w) \/ Send(w) \/ SentAll(w)
                          \/ Clear(w) \/ Disconnect(w)

EsFairness ==
    /\ \A m \in Emitter : WF_esVars(Call(m))
    /\ \A w \in Stream : WF_esVars(FindsItems(w) \/ Send(w) \/ SentAll(w) \/ Clear(w))
EsSpec == EsInit /\ [][EsNext]_esVars /\ EsFairness
-----------------------------------------------------------------------------
(* Every variable stays in its type. *)
EsTypeOK ==
    /\ emitted \in 0..Events /\ bus \in Seq(1..Events)
    /\ emitter \in [Emitter -> [event : 0..Events, todo : Seq(Stream)]]
    /\ subscribers \in Seq(Stream)
    /\ stream \in [Stream -> [pc : {"closed", "poll", "send", "clear"},
                     queue : Seq(1..Events), at : Nat, out : Seq(1..Events)]]
    /\ got \in [Stream -> SUBSET (1..Events)] /\ lost \in [Stream -> SUBSET (1..Events)]
    /\ before \in [1..Events -> SUBSET (1..Events)]

(* What a stream sends keeps the order of the log for events of which one had
   been emitted before the other began, and no event is sent twice; only those
   that two threads emit at once may change places. *)
StreamInOrder ==
    \A w \in Stream : \A i, k \in DOMAIN stream[w].out :
        i < k => stream[w].out[k] \notin before[stream[w].out[i]] \cup {stream[w].out[i]}

(* An open stream sends every event it was called with, in the end, except for
   those that came between the end of its loop and the clearing of its queue. *)
StreamComplete ==
    \A w \in Stream :
        []<>(stream[w].pc = "closed" \/ got[w] \subseteq EventsOf(stream[w].out) \cup lost[w])
=============================================================================
