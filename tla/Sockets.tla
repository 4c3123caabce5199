------------------------------ MODULE Sockets ------------------------------
(***************************************************************************)
(* The world of NetworkServer: the kernel's TCP connections, the server's  *)
(* descriptor table, and the peers (SnakeClient, SnakeBot) at the other    *)
(* end.  None of it is code of the repository; it is what the calls accept *)
(* (), recv(), send(), close() and epoll_wait() of NetworkServer.cpp meet. *)
(*                                                                         *)
(* A frame travels as two chunks, the first of which holds its length: so  *)
(* a frame may arrive whole, in pieces, or together with others.           *)
(***************************************************************************)
EXTENDS Integers, Sequences, FiniteSets

CONSTANTS
    Conns,          \* the connections ever made, each with a peer
    Kinds,          \* the frames peers send, see SocketsAssumption
    ServerFd,       \* the listening socket
    ClientFds,      \* the descriptors the process may still open
    SlowReaders,    \* TRUE: a peer may read so slowly that its socket fills up
    MaxFrames       \* bound: frames a peer sends in its life

\* Besides joining and steering a peer may sign off and stay connected ("disconnect").
\* "input" stands also for the messages of a server, which run() only reports;
\* "malformed" is a frame that deserialise() refuses, "huge" one that the server
\* will not even wait for.
ASSUME SocketsAssumption ==
    /\ IsFiniteSet(Conns)
    /\ Kinds \subseteq {"join", "input", "disconnect", "malformed", "huge"}
    /\ ClientFds \subseteq Nat /\ IsFiniteSet(ClientFds)
    /\ ServerFd \in Nat \ ClientFds
    /\ SlowReaders \in BOOLEAN
    /\ MaxFrames \in Nat

VARIABLES
    peer,           \* the peer's end: "new", "open", "closed" or "reset"
    framesSent,     \* how many frames each peer has sent
    inbox,          \* chunks on their way to the server
    backlog,        \* connections nobody has accepted yet
    connOf,         \* the open client descriptors of the server process
    stream          \* the bytes to the peer: "clean", "torn" (ends in a part of a
                    \* frame) or "corrupt" (goes on after such a part)

socketVars == <<peer, framesSent, inbox, backlog, connOf, stream>>

Chunk(c, no, kind, part) == [from |-> c, no |-> no, kind |-> kind, part |-> part]

Chunks == [from : Conns, no : Nat \ {0}, kind : Kinds, part : {1, 2}]

SocketsInit ==
    /\ peer = [c \in Conns |-> "new"]
    /\ framesSent = [c \in Conns |-> 0]
    /\ inbox = [c \in Conns |-> << >>]
    /\ backlog = << >>
    /\ connOf = << >>
    /\ stream = [c \in Conns |-> "clean"]

-----------------------------------------------------------------------------
(* The peers.                                                              *)

Connect(c) ==
    /\ peer[c] = "new"
    /\ peer' = [peer EXCEPT ![c] = "open"]
    /\ backlog' = Append(backlog, c)
    /\ UNCHANGED <<framesSent, inbox, connOf, stream>>

SendFrame(c, kind) ==
    /\ peer[c] = "open"
    /\ framesSent[c] < MaxFrames
    /\ framesSent' = [framesSent EXCEPT ![c] = @ + 1]
    /\ inbox' = [inbox EXCEPT ![c] =
                   @ \o <<Chunk(c, framesSent[c] + 1, kind, 1),
                          Chunk(c, framesSent[c] + 1, kind, 2)>>]
    /\ UNCHANGED <<peer, backlog, connOf, stream>>

\* The user quits; what was sent can still be read.
Close(c) ==
    /\ peer[c] = "open"
    /\ peer' = [peer EXCEPT ![c] = "closed"]
    /\ UNCHANGED <<framesSent, inbox, backlog, connOf, stream>>

\* The peer dies with data unread: what it sent is lost with it.
Reset(c) ==
    /\ peer[c] = "open"
    /\ peer' = [peer EXCEPT ![c] = "reset"]
    /\ inbox' = [inbox EXCEPT ![c] = << >>]
    /\ UNCHANGED <<framesSent, backlog, connOf, stream>>

PeerStep ==
    \E c \in Conns :
        \/ Connect(c)
        \/ \E kind \in Kinds : SendFrame(c, kind)
        \/ Close(c)
        \/ Reset(c)

-----------------------------------------------------------------------------
(* The calls of the server.                                                *)

\* Level triggered: a descriptor is reported as long as there is something to read.
ReadyFds ==
    {fd \in DOMAIN connOf : inbox[connOf[fd]] # << >> \/ peer[connOf[fd]] # "open"}
        \cup (IF backlog # << >> THEN {ServerFd} ELSE {})

FreeFds == ClientFds \ DOMAIN connOf

\* The kernel hands out the lowest free descriptor: a closed one is used again at once.
LowestFreeFd == CHOOSE fd \in FreeFds : \A other \in FreeFds : fd <= other

\* What send() may do: a slow reader's socket takes a part of the frame or nothing,
\* a closed peer may or may not have been noticed yet.
SendOutcomes(c) ==
    CASE peer[c] = "open"   -> IF SlowReaders THEN {"sent", "partial", "error"} ELSE {"sent"}
      [] peer[c] = "closed" -> {"sent", "error"}
      [] OTHER              -> {"error"}

StreamAfter(c, outcome) ==
    CASE outcome = "error" -> stream[c]
      [] outcome # "error" /\ stream[c] # "clean" -> "corrupt"
      [] outcome = "partial" /\ stream[c] = "clean" -> "torn"
      [] outcome = "sent" /\ stream[c] = "clean" -> "clean"

Without(f, X) == [y \in DOMAIN f \ X |-> f[y]]

\* close(): the connections are over for their peers too.
CloseFds(fds) ==
    LET gone == {connOf[fd] : fd \in fds}
    IN /\ connOf' = Without(connOf, fds)
       /\ peer' = [c \in Conns |-> IF c \in gone THEN "closed" ELSE peer[c]]
       /\ inbox' = [c \in Conns |-> IF c \in gone THEN << >> ELSE inbox[c]]
       /\ UNCHANGED <<framesSent, backlog, stream>>
=============================================================================
