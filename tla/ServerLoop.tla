----------------------------- MODULE ServerLoop -----------------------------
(***************************************************************************)
(* The server's loop as the network sees it: SnakeServer::run() and        *)
(* pollMessages() driving the operations of NetworkServer, while the peers *)
(* connect, send and vanish between any two of its system calls.  Of the   *)
(* game only the roster is kept: who has a snake; module SnakeServer has   *)
(* the rest.                                                               *)
(***************************************************************************)
EXTENDS NetworkServer

CONSTANTS
    Asserts,    \* TRUE: assert() is compiled in, as in the default build
    MaxEvents   \* MAX_EVENTS of epoll_wait

ASSUME LoopAssumption == Asserts \in BOOLEAN /\ MaxEvents \in Nat \ {0}

VARIABLES
    phase,          \* "poll", "receive", "dispatch", "broadcast" or "crashed"
    events,         \* reported by epoll_wait, not handled yet
    batch,          \* messages of this iteration, not dispatched yet
    players,        \* keys of clientIdToPlayerMap
    stateChanged,   \* run()'s local flag
    targets         \* descriptors broadcast() has not reached yet

loopVars == <<phase, events, batch, players, stateChanged, targets>>

vars == <<socketVars, tableVars, loopVars>>

Message(kind, clientId, c) == [kind |-> kind, clientId |-> clientId, from |-> c]

Init ==
    /\ SocketsInit
    /\ NetworkInit
    /\ phase = "poll"
    /\ events = {}
    /\ batch = << >>
    /\ players = {}
    /\ stateChanged = FALSE
    /\ targets = {}

\* An assertion that fails, or an exception nobody catches: the process is gone.
Crash ==
    /\ phase' = "crashed"
    /\ UNCHANGED <<socketVars, tableVars, events, batch, players, stateChanged, targets>>

-----------------------------------------------------------------------------
(* NetworkServer::pollMessages().                                          *)

\* The assertion at the top of pollMessages().
AssertNoneToDisconnect ==
    /\ phase = "poll"
    /\ Asserts
    /\ fdsToDisconnect # {}
    /\ Crash

\* Wrong: nothing is read as long as somebody waits to be accepted.
EpollWaitAcceptsFirst(reported) ==
    /\ phase = "poll"
    /\ Asserts => fdsToDisconnect = {}
    /\ reported = IF ServerFd \in ReadyFds THEN {ServerFd} ELSE ReadyFds
    /\ events' = reported
    /\ phase' = "receive"
    /\ UNCHANGED <<socketVars, tableVars, batch, players, stateChanged, targets>>

EpollWait(reported) ==
    /\ phase = "poll"
    /\ Asserts => fdsToDisconnect = {}
    /\ reported \subseteq ReadyFds
    /\ Cardinality(reported) <= MaxEvents
    /\ reported = ReadyFds \/ Cardinality(reported) = MaxEvents
    /\ events' = reported
    /\ phase' = "receive"
    /\ UNCHANGED <<socketVars, tableVars, batch, players, stateChanged, targets>>

Accept ==
    /\ phase = "receive"
    /\ ServerFd \in events
    /\ AcceptNewClient
    /\ events' = events \ {ServerFd}
    /\ UNCHANGED <<phase, batch, players, stateChanged, targets>>

\* The client id is looked up after the frames have been read.
Receive(fd) ==
    /\ phase = "receive"
    /\ fd \in events \ {ServerFd}
    /\ events' = events \ {fd}
    /\ \/ \E k \in 1..Len(inbox[connOf[fd]]) :
            LET frames == FramesIn(fdToBuffer[fd] \o SubSeq(inbox[connOf[fd]], 1, k))
            IN /\ ReceiveData(fd, k)
               /\ batch' = batch \o
                    [i \in 1..Len(frames) |->
                       Message(frames[i].kind, fdToClientId[fd], frames[i].from)]
       \/ ReceiveEnd(fd) /\ UNCHANGED batch
    /\ UNCHANGED <<phase, players, stateChanged, targets>>

IsWellFormed(message) == message.kind # "malformed"

\* deserialise() throws, before any message of the batch is dispatched and before
\* anybody is disconnected.
DeserialiseThrows ==
    /\ phase = "receive"
    /\ events = {}
    /\ \E i \in 1..Len(batch) : ~IsWellFormed(batch[i])
    /\ Crash

Departures(clientIds) ==
    [i \in 1..Len(clientIds) |->
       Message("disconnect", clientIds[i], connOf[clientIdToFd[clientIds[i]]])]

\* Wrong: the disconnects are put in front.
DrainFirst ==
    /\ phase = "receive"
    /\ events = {}
    /\ \A i \in 1..Len(batch) : IsWellFormed(batch[i])
    /\ \E clientIds \in SetToSeqs({fdToClientId[fd] : fd \in DrainedFds}) :
          batch' = Departures(clientIds) \o batch
    /\ DrainDisconnects
    /\ phase' = "dispatch"
    /\ UNCHANGED <<events, players, stateChanged, targets>>

\* SnakeServer::pollMessages() appends the synthesised disconnects.
Drain ==
    /\ phase = "receive"
    /\ events = {}
    /\ \A i \in 1..Len(batch) : IsWellFormed(batch[i])
    /\ \E clientIds \in SetToSeqs({fdToClientId[fd] : fd \in DrainedFds}) :
          batch' = batch \o Departures(clientIds)
    /\ DrainDisconnects
    /\ phase' = "dispatch"
    /\ UNCHANGED <<events, players, stateChanged, targets>>

-----------------------------------------------------------------------------
(* The dispatch loop of SnakeServer::run().                                *)

Dispatching(kind) == phase = "dispatch" /\ batch # << >> /\ Head(batch).kind = kind

\* handleClientJoin() answers with a SERVER_WELCOME.
DispatchJoin(outcome) ==
    LET clientId == Head(batch).clientId
    IN /\ Dispatching("join")
       /\ clientId \in DOMAIN clientIdToFd
       /\ players' = players \cup {clientId}
       /\ stateChanged' = TRUE
       /\ NetworkSend(clientIdToFd[clientId], outcome)
       /\ batch' = Tail(batch)
       /\ UNCHANGED <<phase, events, targets>>

\* sendToClient() looks the client up with at(), which throws.
DispatchJoinThrows ==
    /\ Dispatching("join")
    /\ Head(batch).clientId \notin DOMAIN clientIdToFd
    /\ Crash

\* Of the game an input changes nothing but a direction.
DispatchInput ==
    /\ Dispatching("input")
    /\ batch' = Tail(batch)
    /\ UNCHANGED <<socketVars, tableVars, phase, events, players, stateChanged, targets>>

\* Synthesised, or sent by the client itself, which then stays connected.
DispatchDisconnect ==
    /\ Dispatching("disconnect")
    /\ players' = players \ {Head(batch).clientId}
    /\ stateChanged' = TRUE
    /\ batch' = Tail(batch)
    /\ UNCHANGED <<socketVars, tableVars, phase, events, targets>>

\* updateSnakes() and checkCollisions(): some snake may move, and then some may die.
PlayTick(moved, dead) ==
    /\ phase = "dispatch"
    /\ batch = << >>
    /\ moved => players # {}
    /\ dead # {} => moved
    /\ players' = players \ dead
    /\ IF moved \/ stateChanged
         THEN phase' = "broadcast" /\ targets' = DOMAIN fdToClientId
         ELSE phase' = "poll" /\ targets' = {}
    /\ stateChanged' = (moved \/ stateChanged)
    /\ UNCHANGED <<socketVars, tableVars, events, batch>>

\* broadcast() visits fdToClientIdMap in the order of the hash map, which is any.
BroadcastTo(fd, outcome) ==
    /\ phase = "broadcast"
    /\ fd \in targets
    /\ NetworkSend(fd, outcome)
    /\ targets' = targets \ {fd}
    /\ UNCHANGED <<phase, events, batch, players, stateChanged>>

BroadcastDone ==
    /\ phase = "broadcast"
    /\ targets = {}
    /\ phase' = "poll"
    /\ stateChanged' = FALSE
    /\ UNCHANGED <<socketVars, tableVars, events, batch, players, targets>>

ServerStep ==
    \/ AssertNoneToDisconnect
    \/ \E reported \in SUBSET ReadyFds : EpollWait(reported)
    \/ Accept
    \/ \E fd \in ClientFds : Receive(fd)
    \/ DeserialiseThrows
    \/ Drain
    \/ \E outcome \in {"sent", "partial", "error"} : DispatchJoin(outcome)
    \/ DispatchJoinThrows
    \/ DispatchInput
    \/ DispatchDisconnect
    \/ \E moved \in BOOLEAN, dead \in SUBSET players : PlayTick(moved, dead)
    \/ \E fd \in ClientFds, outcome \in {"sent", "partial", "error"} : BroadcastTo(fd, outcome)
    \/ BroadcastDone

Next ==
    \/ ServerStep
    \/ PeerStep /\ UNCHANGED <<tableVars, loopVars>>

Spec == Init /\ [][Next]_vars

(***************************************************************************)
(* Fairness.  The loop's thread runs on; and epoll_wait, which moves what  *)
(* it reports to the end of its ready list, does not pass over a ready     *)
(* descriptor for ever when more than MaxEvents are ready.                 *)
(***************************************************************************)
Reports(fd) == \E reported \in SUBSET ReadyFds : fd \in reported /\ EpollWait(reported)

FairSpec ==
    /\ Spec
    /\ WF_vars(ServerStep)
    /\ \A fd \in ClientFds \cup {ServerFd} : SF_vars(Reports(fd))

-----------------------------------------------------------------------------
(* Invariants.                                                             *)

ClientIds == 1..Cardinality(Conns)

TypeOK ==
    /\ peer \in [Conns -> {"new", "open", "closed", "reset"}]
    /\ framesSent \in [Conns -> 0..MaxFrames]
    /\ inbox \in [Conns -> Seq(Chunks)]
    /\ backlog \in Seq(Conns)
    /\ DOMAIN connOf \subseteq ClientFds /\ Range(connOf) \subseteq Conns
    /\ stream \in [Conns -> {"clean", "torn", "corrupt"}]
    /\ nextClientId \in ClientIds \cup {Cardinality(Conns) + 1}
    /\ DOMAIN fdToClientId \subseteq ClientFds /\ Range(fdToClientId) \subseteq ClientIds
    /\ DOMAIN clientIdToFd \subseteq ClientIds /\ Range(clientIdToFd) \subseteq ClientFds
    /\ DOMAIN fdToBuffer \subseteq ClientFds /\ Range(fdToBuffer) \subseteq Seq(Chunks)
    /\ fdsToDisconnect \subseteq ClientFds
    /\ phase \in {"poll", "receive", "dispatch", "broadcast", "crashed"}
    /\ events \subseteq ClientFds \cup {ServerFd}
    /\ batch \in Seq([kind : Kinds \cup {"disconnect"}, clientId : ClientIds, from : Conns])
    /\ players \subseteq ClientIds
    /\ stateChanged \in BOOLEAN
    /\ targets \subseteq ClientFds

\* The three tables describe the same open connections, one id and one buffer each,
\* and a disconnect is only ever pending for one of them, although descriptors are
\* used again as soon as disconnectClient() has closed them.
TablesAgree ==
    /\ DOMAIN fdToClientId = DOMAIN connOf
    /\ DOMAIN fdToBuffer = DOMAIN connOf
    /\ fdsToDisconnect \subseteq DOMAIN connOf
    /\ \A fd \in DOMAIN fdToClientId :
          /\ fdToClientId[fd] \in DOMAIN clientIdToFd
          /\ clientIdToFd[fdToClientId[fd]] = fd
          /\ fdToClientId[fd] < nextClientId
    /\ \A id \in DOMAIN clientIdToFd :
          /\ clientIdToFd[id] \in DOMAIN fdToClientId
          /\ fdToClientId[clientIdToFd[id]] = id

\* What a client has sent reaches the server once and in order: the chunks in its
\* buffer and on their way are its last ones, whole frames but for what the buffer
\* holds of the next one, and never those of an earlier client of the same descriptor
\* (parseReceivedPacket()).
StreamIntact ==
    \A fd \in DOMAIN connOf :
        LET c == connOf[fd]
            s == fdToBuffer[fd] \o inbox[c]
            all == 2 * framesSent[c]
        IN peer[c] # "reset" =>
             /\ Len(s) <= all /\ Len(s) % 2 = 0
             /\ Len(fdToBuffer[fd]) <= 1 \/ fd \in fdsToDisconnect
             /\ \A i \in 1..Len(s) :
                  /\ s[i].from = c
                  /\ 2 * (s[i].no - 1) + s[i].part = all - Len(s) + i

\* A message waiting to be dispatched is addressed to the connection it came from.
RightSender ==
    \A i \in 1..Len(batch) :
        batch[i].clientId \in DOMAIN clientIdToFd =>
            connOf[clientIdToFd[batch[i].clientId]] = batch[i].from

Departs(id, i) == batch[i].kind = "disconnect" /\ batch[i].clientId = id

\* A stream that breaks off in the middle of a frame is given up: however many calls
\* of send() follow in the same iteration, the next poll closes its descriptor, and the
\* client that gets the descriptor next starts afresh (networkSend(), drainDisconnects()).
TornStreamsAreClosing ==
    \A fd \in DOMAIN connOf : stream[connOf[fd]] # "clean" => fd \in fdsToDisconnect

\* A client that is gone from the tables is about to lose its snake: the last that
\* the batch holds of it is its disconnect, behind everything it said before, be it
\* a disconnect of its own and another join; so no snake outlives its connection into
\* the next iteration (drainDisconnects(), pollMessages()).
DeparturesComeLast ==
    phase # "crashed" =>
        \A id \in players \cup {batch[i].clientId : i \in 1..Len(batch)} :
            id \notin DOMAIN clientIdToFd =>
                \E i \in 1..Len(batch) :
                    Departs(id, i) /\ \A j \in (i + 1)..Len(batch) : batch[j].clientId # id

-----------------------------------------------------------------------------
(* Liveness.                                                               *)

Accepted(c) == c \in Range(connOf)

\* A connection whose peer is gone is closed, unless the server crashes.
GoneClientsAreClosed ==
    \A c \in Conns :
        (Accepted(c) /\ peer[c] # "open") ~> (~Accepted(c) \/ phase = "crashed")

\* Nothing a connected client has sent stays unread, however busy the others are.
NothingStaysUnread ==
    \A c \in Conns :
        (Accepted(c) /\ inbox[c] # << >>) ~> (inbox[c] = << >> \/ phase = "crashed")

-----------------------------------------------------------------------------
(* What the text of the code says, and the code does not do.               *)

\* main.cpp on ignoring SIGPIPE: "don't crash the server when trying to write to a
\* closed socket. Just move on and let epoll surface the client disconnect".
ServerSurvives == phase # "crashed"
=============================================================================
