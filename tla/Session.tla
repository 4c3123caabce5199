------------------------------ MODULE Session ------------------------------
(***************************************************************************)
(* One player's connection as its program sees it: the two directions of   *)
(* the TCP stream, and the server reduced to what one iteration of         *)
(* SnakeServer::run() means for this client: does it have a snake, and     *)
(* what is it told.  Modules ClientSession and BotSession add the program  *)
(* at the other end.                                                       *)
(*                                                                         *)
(* A GAME_STATE is reduced to whether this client's snake is in it.  Other *)
(* players are always about: any iteration may broadcast.                  *)
(***************************************************************************)
EXTENDS Integers, SequencesExt

CONSTANTS
    Me,         \* the id the server has given this connection
    MaxUp,      \* bound: messages to the server, and joins not yet answered
    MaxDown     \* bound: the snakes rest while the client has this much to read

ASSUME SessionAssumption == Me \in Nat /\ MaxUp \in Nat \ {0} /\ MaxDown \in Nat \ {0}

VARIABLES
    alive,      \* clientIdToPlayerMap contains Me
    up,         \* messages to the server
    down        \* messages to the client

sessionVars == <<alive, up, down>>

UpMessages == {"CLIENT_JOIN", "CLIENT_INPUT"}
DownMessages == {"SERVER_WELCOME", "STATE_WITH", "STATE_WITHOUT"}

State(present) == IF present THEN "STATE_WITH" ELSE "STATE_WITHOUT"

Welcomes(n) == [i \in 1..n |-> "SERVER_WELCOME"]

Count(s, m) == Cardinality({i \in 1..Len(s) : s[i] = m})

(***************************************************************************)
(* One iteration reads n messages, answers every join, and then some       *)
(* snakes may have moved, upon which this client's may have died, if only  *)
(* because it was born on another snake's way.                             *)
(***************************************************************************)
ServerIteration(n, moved, dies) ==
    LET joins == Count(SubSeq(up, 1, n), "CLIENT_JOIN")
        playing == alive \/ joins > 0
    IN /\ moved => Len(down) < MaxDown
       /\ dies => moved /\ playing
       /\ up' = SubSeq(up, n + 1, Len(up))
       /\ alive' = (playing /\ ~dies)
       /\ down' = down \o Welcomes(joins)
                       \o (IF moved \/ joins > 0 THEN <<State(alive')>> ELSE << >>)

Server == \E n \in 0..Len(up), moved, dies \in BOOLEAN : ServerIteration(n, moved, dies)

\* The server reads what has arrived.
ServerReads == \E n \in 1..Len(up), moved, dies \in BOOLEAN : ServerIteration(n, moved, dies)

\* Bound: the program at the other end waits when so much is under way.
WithinBounds == Len(up') + Count(down, "SERVER_WELCOME") <= MaxUp

SessionTypeOK ==
    /\ alive \in BOOLEAN
    /\ up \in Seq(UpMessages) /\ Len(up) <= MaxUp
    /\ down \in Seq(DownMessages) /\ Len(down) <= MaxDown + 2 * MaxUp

-----------------------------------------------------------------------------
(* What receiveUpdates() makes of a batch, in SnakeClient and in SnakeBot. *)

\* The positions of the GAME_STATEs in a batch.
StatesIn(batch) == {i \in 1..Len(batch) : batch[i] # "SERVER_WELCOME"}

\* Wrong: the first GAME_STATE of the batch is handled.
FirstState(batch) ==
    IF StatesIn(batch) = {} THEN "none"
    ELSE batch[CHOOSE i \in StatesIn(batch) : \A j \in StatesIn(batch) : i <= j]

\* Only the latest GAME_STATE is handled, and after every SERVER_WELCOME.
LatestState(batch) ==
    IF StatesIn(batch) = {} THEN "none"
    ELSE batch[CHOOSE i \in StatesIn(batch) : \A j \in StatesIn(batch) : j <= i]

IsWelcomed(batch) == Contains(batch, "SERVER_WELCOME")

\* A client with a snake whose death it has not heard of has that news under way.
DeathUnderWay == down # << >> /\ Last(down) = "STATE_WITHOUT"
=============================================================================
