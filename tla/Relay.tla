--------------------------------- MODULE Relay ---------------------------------
(***************************************************************************)
(* The TCP relay of the mesh VPN (mesh/meshvpn/relay.py): one accepting      *)
(* thread, and two threads for each connection that copy bytes from the      *)
(* client to the driver and back.  The kernel's sockets are modelled by what *)
(* the code sees of them: recv returns bytes, nothing, or raises.            *)
(***************************************************************************)
EXTENDS Naturals

CONSTANTS
    Connection,
    MaxBytes        \* bound: bytes that a peer writes

ASSUME MaxBytesAssumption == MaxBytes \in Nat

Peer == {"client", "upstream"}
Opposite == [client |-> "upstream", upstream |-> "client"]

VARIABLES
    listening,  \* the accepting thread runs
    relayed,    \* connections: accepted, joined to the driver, or refused
    written,    \* bytes a peer has written
    wire,       \* those the relay has not read
    fin,        \* peers that write no more
    reset,      \* peers whose connection broke
    pipe,       \* the thread that reads from a peer: pc and the bytes it holds
    socket,     \* the relay's socket to a peer
    delivered,  \* bytes that reached a peer
    endedFirst  \* history: the peer whose pipe ended first, and why

relayVars == <<listening, relayed, written, wire, fin, reset, pipe, socket, delivered,
               endedFirst>>

NoPipe == [pc |-> "none", held |-> 0]
Joined(c) == relayed[c] = "joined"

RelayInit ==
    /\ listening = TRUE /\ relayed = [c \in Connection |-> "waiting"]
    /\ written = [c \in Connection |-> [p \in Peer |-> 0]]
    /\ wire = written /\ delivered = written
    /\ fin = [c \in Connection |-> {}] /\ reset = fin
    /\ pipe = [c \in Connection |-> [p \in Peer |-> NoPipe]]
    /\ socket = [c \in Connection |-> [p \in Peer |-> "none"]]
    /\ endedFirst = [c \in Connection |-> [peer |-> "none", eof |-> FALSE]]
-----------------------------------------------------------------------------
(* serve: accept, connect to the driver, and start two pipes. *)
Accept(c, connects) ==
    /\ listening /\ relayed[c] = "waiting"
    /\ relayed' = [relayed EXCEPT ![c] = IF connects THEN "joined" ELSE "refused"]
    /\ IF connects
       THEN /\ pipe' = [pipe EXCEPT ![c] = [p \in Peer |-> [pc |-> "recv", held |-> 0]]]
            /\ socket' = [socket EXCEPT ![c] = [p \in Peer |-> "open"]]
       ELSE UNCHANGED <<pipe, socket>>
    /\ UNCHANGED <<listening, written, wire, fin, reset, delivered, endedFirst>>

(* stop closes the listening socket; the pipes go on. *)
RelayStops ==
    /\ listening /\ listening' = FALSE
    /\ UNCHANGED <<relayed, written, wire, fin, reset, pipe, socket, delivered, endedFirst>>

(* The peers: external. *)
PeerWrites(c, p) ==
    /\ Joined(c) /\ p \notin fin[c] \cup reset[c] /\ written[c][p] < MaxBytes
    /\ written' = [written EXCEPT ![c][p] = @ + 1]
    /\ wire' = [wire EXCEPT ![c][p] = @ + 1]
    /\ UNCHANGED <<listening, relayed, fin, reset, pipe, socket, delivered, endedFirst>>
PeerFinishes(c, p) ==
    /\ Joined(c) /\ p \notin fin[c] \cup reset[c]
    /\ fin' = [fin EXCEPT ![c] = @ \cup {p}]
    /\ UNCHANGED <<listening, relayed, written, wire, reset, pipe, socket, delivered,
                   endedFirst>>
PeerBreaks(c, p) ==
    /\ Joined(c) /\ p \notin reset[c]
    /\ reset' = [reset EXCEPT ![c] = @ \cup {p}]
    /\ UNCHANGED <<listening, relayed, written, wire, fin, pipe, socket, delivered,
                   endedFirst>>
-----------------------------------------------------------------------------
(* _pipe: a recv that returns bytes. *)
Recv(c, p) ==
    /\ pipe[c][p].pc = "recv" /\ socket[c][p] = "open" /\ p \notin reset[c]
    /\ \E k \in 1..wire[c][p] :
         /\ wire' = [wire EXCEPT ![c][p] = @ - k]
         /\ pipe' = [pipe EXCEPT ![c][p] = [pc |-> "send", held |-> k]]
    /\ UNCHANGED <<listening, relayed, written, fin, reset, socket, delivered, endedFirst>>

SendAll(c, p) ==
    LET q == Opposite[p]
    IN  /\ pipe[c][p].pc = "send" /\ socket[c][q] = "open" /\ q \notin reset[c]
        /\ delivered' = [delivered EXCEPT ![c][q] = @ + pipe[c][p].held]
        /\ pipe' = [pipe EXCEPT ![c][p] = [pc |-> "recv", held |-> 0]]
        /\ UNCHANGED <<listening, relayed, written, wire, fin, reset, socket, endedFirst>>

(* The loop ends: an empty recv, or an error of either call.  The finally
   clause shuts both sockets down, which wakes the other pipe. *)
AtEofEarly(c, p) == p \in fin[c]
AtEof(c, p) == p \in fin[c] /\ wire[c][p] = 0
Broken(c, p) ==
    \/ pipe[c][p].pc = "recv" /\ (socket[c][p] = "shut" \/ p \in reset[c])
    \/ pipe[c][p].pc = "send" /\ (socket[c][Opposite[p]] = "shut" \/ Opposite[p] \in reset[c])
ShutOwn(c, p) == [socket[c] EXCEPT ![p] = "shut"]
ShutBoth(c, p) == [q \in Peer |-> "shut"]
PipeEnds(c, p) ==
    /\ \/ pipe[c][p].pc = "recv" /\ AtEof(c, p)
       \/ Broken(c, p)
    /\ pipe' = [pipe EXCEPT ![c][p] = [pc |-> "ended", held |-> 0]]
    /\ socket' = [socket EXCEPT ![c] = ShutBoth(c, p)]
    /\ endedFirst' = IF endedFirst[c].peer # "none" THEN endedFirst
                     ELSE [endedFirst EXCEPT ![c] = [peer |-> p, eof |-> ~Broken(c, p)]]
    /\ UNCHANGED <<listening, relayed, written, wire, fin, reset, delivered>>

RelayNext ==
    \/ RelayStops
    \/ \E c \in Connection :
         \/ \E connects \in BOOLEAN : Accept(c, connects)
         \/ \E p \in Peer :
              \/ PeerWrites(c, p) \/ PeerFinishes(c, p) \/ PeerBreaks(c, p)
              \/ Recv(c, p) \/ SendAll(c, p) \/ PipeEnds(c, p)

RelayFairness ==
    \A c \in Connection, p \in Peer :
        WF_relayVars(Recv(c, p) \/ SendAll(c, p) \/ PipeEnds(c, p))
RelaySpec == RelayInit /\ [][RelayNext]_relayVars /\ RelayFairness
-----------------------------------------------------------------------------
(* Every variable stays in its type. *)
RelayTypeOK ==
    /\ listening \in BOOLEAN
    /\ relayed \in [Connection -> {"waiting", "joined", "refused"}]
    /\ written \in [Connection -> [Peer -> 0..MaxBytes]]
    /\ wire \in [Connection -> [Peer -> 0..MaxBytes]]
    /\ delivered \in [Connection -> [Peer -> 0..MaxBytes]]
    /\ fin \in [Connection -> SUBSET Peer] /\ reset \in [Connection -> SUBSET Peer]
    /\ pipe \in [Connection -> [Peer ->
         [pc : {"none", "recv", "send", "ended"}, held : 0..MaxBytes]]]
    /\ socket \in [Connection -> [Peer -> {"none", "open", "shut"}]]
    /\ endedFirst \in [Connection -> [peer : Peer \cup {"none"}, eof : BOOLEAN]]

(* A peer that ends the connection by closing its side has had everything it
   wrote delivered; what comes from the other side, half closed or not, may be
   cut off. *)
EofMeansAll ==
    \A c \in Connection : endedFirst[c].eof =>
        LET p == endedFirst[c].peer
        IN  delivered[c][Opposite[p]] = written[c][p]

(* When one pipe of a connection has ended, so does the other: no half of a
   connection, and no thread, is left behind. *)
BothPipesEnd ==
    \A c \in Connection :
        LET ended == {p \in Peer : pipe[c][p].pc = "ended"}
        IN  []<>(ended = {} \/ ended = Peer)
=============================================================================
