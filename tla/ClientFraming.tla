--------------------------- MODULE ClientFraming ---------------------------
(***************************************************************************)
(* NetworkClient.cpp, the end of the connection that SnakeClient and       *)
(* SnakeBot share: frames are cut out of whatever pieces recv() returns,   *)
(* and anything that is wrong is an exception, which ends the program.     *)
(*                                                                         *)
(* The server's end is NetworkServer::networkSend(): a frame is written    *)
(* whole or only in part, the rest of it is never written, and until the   *)
(* server gets round to closing the connection other frames may follow.    *)
(*                                                                         *)
(* What the client sends is left out, but for the call that fails.         *)
(***************************************************************************)
EXTENDS Protocol

CONSTANTS
    Messages,           \* what the server may send
    LengthBase,         \* a length travels as two digits to this base
    RecvBufferSize,     \* CLIENT_RECV_BUFFER_SIZE
    MaxMessageSize,     \* CLIENT_RECV_MAX_MESSAGE_SIZE
    TornAfter,          \* bound: how much of a frame may be sent if not all of it
    MaxFrames           \* bound: frames the server sends, whole or not

ASSUME FramingAssumption ==
    /\ LengthBase \in Nat \ {0} /\ RecvBufferSize \in Nat \ {0}
    /\ MaxMessageSize \in Nat
    /\ TornAfter \subseteq Nat \ {0} /\ MaxFrames \in Nat
    /\ Messages \subseteq ServerMessage
    /\ \A msg \in Messages : Len(Serialise(msg)) < LengthBase * LengthBase

VARIABLES
    frames,         \* what the server has sent: messages, and whether their frames are whole
    connection,     \* "open", "closed" by the server, or "reset": what was under way is lost
    stream,         \* the bytes under way to the client
    messageBuffer,
    received,       \* the messages handed to receiveUpdates()
    status          \* "running", or what has ended the program: the exceptions "desynced"
                    \* and "disconnected", or "left"

serverVars == <<frames, connection>>
clientVars == <<messageBuffer, received, status>>
vars == <<serverVars, stream, clientVars>>

LENGTH_SIZE == 2

Frame(msg) ==
    LET bytes == Serialise(msg)
    IN <<Len(bytes) % LengthBase, Len(bytes) \div LengthBase>> \o bytes

Init ==
    /\ frames = << >> /\ connection = "open"
    /\ stream = << >>
    /\ messageBuffer = << >> /\ received = << >> /\ status = "running"

-----------------------------------------------------------------------------
(* The server.                                                             *)

\* networkSend(): send() takes k bytes of a frame.
NetworkSend(msg, k) ==
    /\ connection = "open" /\ Len(frames) < MaxFrames
    /\ k \in TornAfter \/ k = Len(Frame(msg))
    /\ frames' = Append(frames, [msg |-> msg, isWhole |-> k = Len(Frame(msg))])
    /\ stream' = stream \o SubSeq(Frame(msg), 1, k)
    /\ UNCHANGED <<connection, clientVars>>

\* The server closes the connection, or the kernel resets it.
CloseConnection ==
    /\ connection = "open"
    /\ \/ connection' = "closed" /\ UNCHANGED stream
       \/ connection' = "reset" /\ stream' = << >>
    /\ UNCHANGED <<frames, clientVars>>

-----------------------------------------------------------------------------
(* parseReceivedPacket(), on a buffer from position i on.                  *)

LengthAt(buffer, i) == buffer[i] + LengthBase * buffer[i + 1]

BytesFrom(buffer, i) == Len(buffer) - i + 1

HasLength(buffer, i) == BytesFrom(buffer, i) >= LENGTH_SIZE

\* Wrong: any length is waited for.
IsTooBigNever(buffer, i) == FALSE

IsTooBig(buffer, i) == HasLength(buffer, i) /\ LengthAt(buffer, i) > MaxMessageSize

\* Wrong: a frame is cut when the next one has begun to arrive.
HasFrameLate(buffer, i) ==
    HasLength(buffer, i) /\ BytesFrom(buffer, i) > LENGTH_SIZE + LengthAt(buffer, i)

HasFrame(buffer, i) ==
    HasLength(buffer, i) /\ BytesFrom(buffer, i) >= LENGTH_SIZE + LengthAt(buffer, i)

\* Wrong: the buffer is empty after the frames, and the beginning of the next one lost.
ParseReceivedPacketAndClear(buffer) ==
    LET cut[i \in 1..Len(buffer) + 1] ==
            IF IsTooBig(buffer, i) \/ ~HasFrame(buffer, i)
              THEN [frames |-> << >>, rest |-> IF i = 1 THEN i ELSE Len(buffer) + 1]
              ELSE LET next == i + LENGTH_SIZE + LengthAt(buffer, i)
                       behind == cut[next]
                   IN [frames |-> <<SubSeq(buffer, i + LENGTH_SIZE, next - 1)>> \o behind.frames,
                       rest   |-> behind.rest]
    IN cut[1]

\* The frames cut, and where the rest begins.
ParseReceivedPacket(buffer) ==
    LET cut[i \in 1..Len(buffer) + 1] ==
            IF IsTooBig(buffer, i) \/ ~HasFrame(buffer, i)
              THEN [frames |-> << >>, rest |-> i]
              ELSE LET next == i + LENGTH_SIZE + LengthAt(buffer, i)
                       behind == cut[next]
                   IN [frames |-> <<SubSeq(buffer, i + LENGTH_SIZE, next - 1)>> \o behind.frames,
                       rest   |-> behind.rest]
    IN cut[1]

-----------------------------------------------------------------------------
(* The client.                                                             *)

\* receiveUpdates() knows only two kinds of message.
IsExpected(msg) == msg # Throws /\ msg.type \in {SERVER_WELCOME, GAME_STATE}

\* What becomes of the bytes in the buffer: the messages behind the frames, the rest,
\* and whether there was an exception, with which the messages of the call are lost.
Outcome(buffer) ==
    LET parsed == ParseReceivedPacket(buffer)
        messages == [i \in 1..Len(parsed.frames) |-> Deserialise(parsed.frames[i])]
        fails == IsTooBig(buffer, parsed.rest)
                    \/ \E i \in 1..Len(messages) : ~IsExpected(messages[i])
    IN [messages |-> IF fails THEN << >> ELSE messages,
        rest     |-> SubSeq(buffer, parsed.rest, Len(buffer)),
        fails    |-> fails]

\* One recv() of n bytes.
ReceiveFromServer(n) ==
    /\ status = "running"
    /\ n <= RecvBufferSize
    /\ stream' = SubSeq(stream, n + 1, Len(stream))
    /\ \E outcome \in {Outcome(messageBuffer \o SubSeq(stream, 1, n))} :
          /\ messageBuffer' = outcome.rest
          /\ received' = received \o outcome.messages
          /\ status' = IF outcome.fails THEN "desynced" ELSE status
    /\ UNCHANGED serverVars

\* recv() returns 0 or an error once everything has been read.
ReceiveEnd ==
    /\ status = "running"
    /\ connection # "open" /\ stream = << >>
    /\ status' = "disconnected"
    /\ UNCHANGED <<serverVars, stream, messageBuffer, received>>

\* sendToServer() does not write the whole message, which is an exception, or the user quits.
Leave ==
    /\ status = "running"
    /\ status' = "left"
    /\ UNCHANGED <<serverVars, stream, messageBuffer, received>>

Receive == ReceiveEnd \/ \E n \in 1..Len(stream) : ReceiveFromServer(n)

Next ==
    \/ \E msg \in Messages : \E k \in 1..Len(Frame(msg)) : NetworkSend(msg, k)
    \/ CloseConnection
    \/ Receive
    \/ Leave

Spec == Init /\ [][Next]_vars

-----------------------------------------------------------------------------
\* The messages sent whole before the first torn frame.
Sent ==
    LET whole == CHOOSE n \in 0..Len(frames) :
                    /\ \A i \in 1..n : frames[i].isWhole
                    /\ n = Len(frames) \/ ~frames[n + 1].isWhole
    IN [i \in 1..whole |-> frames[i].msg]

IsGarbled == Len(frames) > Len(Sent) + 1

\* Every variable has its type, and messageBuffer never holds more than one message that
\* is not there yet, whatever lengths the stream pretends (parseReceivedPacket()).
TypeOK ==
    /\ frames \in Seq([msg : Messages, isWhole : BOOLEAN]) /\ Len(frames) <= MaxFrames
    /\ connection \in {"open", "closed", "reset"}
    /\ stream \in Seq(Nat) /\ messageBuffer \in Seq(Nat)
    /\ status = "running" => Len(messageBuffer) < LENGTH_SIZE + MaxMessageSize
    /\ status \in {"running", "desynced", "disconnected", "left"}

\* An intact stream is never taken for a broken one, in whatever pieces it arrives
\* (parseReceivedPacket(), deserialise()): the client stops with an exception other
\* than a failed send only because frames were sent behind a torn one, because the
\* server sent a message over the limit, or because the connection is gone, and then
\* only after it has heard everything that reached it.
StopsForAReason ==
    /\ status = "desynced" =>
          \/ IsGarbled
          \/ \E i \in 1..Len(frames) : Len(Serialise(frames[i].msg)) > MaxMessageSize
    /\ status = "disconnected" =>
          \/ connection = "closed" /\ Len(received) >= Len(Sent)
          \/ connection = "reset"

\* No message waits in messageBuffer for the next one to arrive: a client that has read
\* all there is has heard all that was said (parseReceivedPacket()).
NothingHeldBack ==
    status = "running" /\ stream = << >> /\ connection # "reset" /\ ~IsGarbled
        => received = Sent

Heard == INSTANCE Channel WITH
            sent <- Sent,
            delivered <- SubSeq(received, 1, Min({Len(received), Len(Sent)})),
            isOpen <- status = "running"

\* The client hears what the server said, whole and in order, in whatever pieces recv()
\* returns it, up to the first torn frame; behind that nothing is promised.
ImplementsChannel == Heard!Spec
=============================================================================
