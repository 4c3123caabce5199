--------------------------- MODULE NetworkServer ---------------------------
(***************************************************************************)
(* NetworkServer.cpp: the tables that tie descriptors to client ids, the   *)
(* receive buffers, and the deferred disconnects.  Its operations are the  *)
(* building blocks of the server's loop (module ServerLoop).               *)
(***************************************************************************)
EXTENDS Sockets, SequencesExt

VARIABLES
    nextClientId,
    fdToClientId,       \* fdToClientIdMap
    clientIdToFd,       \* clientIdToFdMap
    fdToBuffer,         \* fdToBufferMap
    fdsToDisconnect

tableVars == <<nextClientId, fdToClientId, clientIdToFd, fdToBuffer, fdsToDisconnect>>

NetworkInit ==
    /\ nextClientId = 1
    /\ fdToClientId = << >>
    /\ clientIdToFd = << >>
    /\ fdToBuffer = << >>
    /\ fdsToDisconnect = {}

\* f[x] = v of an unordered_map, and erase(x).
With(f, x, v) == [y \in DOMAIN f \cup {x} |-> IF y = x THEN v ELSE f[y]]

-----------------------------------------------------------------------------
(* acceptNewClient().                                                      *)

\* Wrong: the counter stands still, and the next client gets the same id.
RegisterClientAgain(fd) ==
    /\ fdToClientId' = With(fdToClientId, fd, nextClientId)
    /\ clientIdToFd' = With(clientIdToFd, nextClientId, fd)
    /\ fdToBuffer' = With(fdToBuffer, fd, << >>)
    /\ UNCHANGED nextClientId

RegisterClient(fd) ==
    /\ fdToClientId' = With(fdToClientId, fd, nextClientId)
    /\ clientIdToFd' = With(clientIdToFd, nextClientId, fd)
    /\ fdToBuffer' = With(fdToBuffer, fd, << >>)
    /\ nextClientId' = nextClientId + 1

\* Wrong: a failed accept() is registered like any other.
AcceptNewClientUnchecked ==
    /\ backlog # << >>
    /\ IF FreeFds = {}
         THEN UNCHANGED <<connOf, backlog>> /\ RegisterClient(-1)
         ELSE /\ connOf' = With(connOf, LowestFreeFd, Head(backlog))
              /\ backlog' = Tail(backlog)
              /\ RegisterClient(LowestFreeFd)
    /\ UNCHANGED <<peer, framesSent, inbox, stream, fdsToDisconnect>>

\* One connection per report of the listening socket.  accept() fails, and leaves
\* the connection where it is, when the process has no descriptor left.
AcceptNewClient ==
    /\ backlog # << >>
    /\ IF FreeFds = {}
         THEN UNCHANGED <<connOf, backlog, nextClientId, fdToClientId, clientIdToFd, fdToBuffer>>
         ELSE /\ connOf' = With(connOf, LowestFreeFd, Head(backlog))
              /\ backlog' = Tail(backlog)
              /\ RegisterClient(LowestFreeFd)
    /\ UNCHANGED <<peer, framesSent, inbox, stream, fdsToDisconnect>>

-----------------------------------------------------------------------------
(* receiveFromClient() and parseReceivedPacket().                          *)

\* The complete frames at the front of a buffer that precede an oversized one.
\* A frame of length over SERVER_RECV_MAX_MESSAGE_SIZE is known by its first chunk.
FrameCount(buffer) ==
    CHOOSE n \in 0..Len(buffer) \div 2 :
        /\ \A i \in 1..n : buffer[2 * i - 1].kind # "huge"
        /\ n = Len(buffer) \div 2 \/ buffer[2 * n + 1].kind = "huge"

FramesIn(buffer) == [i \in 1..FrameCount(buffer) |-> buffer[2 * i - 1]]

\* Wrong: the buffer is cleared, and the beginning of the next frame lost.
AfterFramesCleared(buffer) == IF FrameCount(buffer) > 0 THEN << >> ELSE buffer

AfterFrames(buffer) == SubSeq(buffer, 2 * FrameCount(buffer) + 1, Len(buffer))

IsOversized(rest) == rest # << >> /\ rest[1].kind = "huge"

\* One recv() of k chunks.
ReceiveData(fd, k) ==
    LET c == connOf[fd]
        buffer == fdToBuffer[fd] \o SubSeq(inbox[c], 1, k)
        rest == AfterFrames(buffer)
    IN /\ inbox' = [inbox EXCEPT ![c] = SubSeq(@, k + 1, Len(@))]
       /\ fdToBuffer' = [fdToBuffer EXCEPT ![fd] = rest]
       /\ fdsToDisconnect' =
            IF IsOversized(rest) THEN fdsToDisconnect \cup {fd} ELSE fdsToDisconnect
       /\ UNCHANGED <<peer, framesSent, backlog, connOf, stream>>
       /\ UNCHANGED <<nextClientId, fdToClientId, clientIdToFd>>

\* Wrong: the end of the stream is taken for "nothing to read now".
ReceiveEndIgnored(fd) ==
    /\ inbox[connOf[fd]] = << >>
    /\ peer[connOf[fd]] # "open"
    /\ UNCHANGED <<socketVars, tableVars>>

\* recv() returns 0 or an error.
ReceiveEnd(fd) ==
    /\ inbox[connOf[fd]] = << >>
    /\ peer[connOf[fd]] # "open"
    /\ fdsToDisconnect' = fdsToDisconnect \cup {fd}
    /\ UNCHANGED <<nextClientId, fdToClientId, clientIdToFd, fdToBuffer>>
    /\ UNCHANGED socketVars

-----------------------------------------------------------------------------
(* drainDisconnects(), with disconnectClient() for each descriptor.        *)

DrainedFds == fdsToDisconnect \cap DOMAIN fdToClientId

\* Wrong: the id of a closed connection stays in clientIdToFdMap.
DisconnectClientsHalfway(fds) ==
    /\ CloseFds(fds)
    /\ UNCHANGED clientIdToFd
    /\ fdToClientId' = Without(fdToClientId, fds)
    /\ fdToBuffer' = Without(fdToBuffer, fds)

DisconnectClients(fds) ==
    /\ CloseFds(fds)
    /\ clientIdToFd' = Without(clientIdToFd, {fdToClientId[fd] : fd \in fds})
    /\ fdToClientId' = Without(fdToClientId, fds)
    /\ fdToBuffer' = Without(fdToBuffer, fds)

DrainDisconnects ==
    /\ DisconnectClients(DrainedFds)
    /\ fdsToDisconnect' = {}
    /\ UNCHANGED nextClientId

-----------------------------------------------------------------------------
(* networkSend().                                                          *)

\* Wrong: a partial send passes for a send.
NetworkSendErrorsOnly(fd, outcome) ==
    /\ outcome \in SendOutcomes(connOf[fd])
    /\ stream' = [stream EXCEPT ![connOf[fd]] = StreamAfter(connOf[fd], outcome)]
    /\ fdsToDisconnect' = IF outcome # "error" THEN fdsToDisconnect ELSE fdsToDisconnect \cup {fd}
    /\ UNCHANGED <<peer, framesSent, inbox, backlog, connOf>>
    /\ UNCHANGED <<nextClientId, fdToClientId, clientIdToFd, fdToBuffer>>

NetworkSend(fd, outcome) ==
    /\ outcome \in SendOutcomes(connOf[fd])
    /\ stream' = [stream EXCEPT ![connOf[fd]] = StreamAfter(connOf[fd], outcome)]
    /\ fdsToDisconnect' = IF outcome = "sent" THEN fdsToDisconnect ELSE fdsToDisconnect \cup {fd}
    /\ UNCHANGED <<peer, framesSent, inbox, backlog, connOf>>
    /\ UNCHANGED <<nextClientId, fdToClientId, clientIdToFd, fdToBuffer>>
=============================================================================
