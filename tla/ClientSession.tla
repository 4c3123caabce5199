--------------------------- MODULE ClientSession ---------------------------
(***************************************************************************)
(* SnakeClient.cpp: the loop of the terminal client.  Rendering is left    *)
(* out, and of the keys only what they do to the session is kept.          *)
(***************************************************************************)
EXTENDS Session

VARIABLES
    running,
    playing,
    clientId,       \* Me or -1
    playerInput,    \* an arrow key waits to be sent
    step            \* what the loop does next: "input", "receive" or "over"

clientVars == <<running, playing, clientId, playerInput, step>>

vars == <<sessionVars, clientVars>>

Init ==
    /\ alive = FALSE
    /\ up = <<"CLIENT_JOIN">>
    /\ down = << >>
    /\ running = TRUE
    /\ playing = FALSE
    /\ clientId = -1
    /\ playerInput = FALSE
    /\ step = "input"

\* handleInput(), and sendPlayerInput() if there is something to send.
HandleInput(key) ==
    LET joins == key = "r" /\ ~playing
        typed == playerInput \/ key = "arrow"
        sends == playing /\ typed
    IN /\ step = "input"
       /\ up' = up \o (IF joins THEN <<"CLIENT_JOIN">> ELSE << >>)
                   \o (IF sends THEN <<"CLIENT_INPUT">> ELSE << >>)
       /\ WithinBounds
       /\ running' = (key # "q")
       /\ playerInput' = (typed /\ ~sends)
       /\ step' = "receive"
       /\ UNCHANGED <<alive, down, playing, clientId>>

\* Wrong: the id of a dead snake is kept.
ReceiveUpdatesKeepsId(n) ==
    LET batch == SubSeq(down, 1, n)
        id == IF IsWelcomed(batch) THEN Me ELSE clientId
        absent == LatestState(batch) = "STATE_WITHOUT"
                    \/ (LatestState(batch) = "STATE_WITH" /\ id # Me)
    IN /\ step = "receive"
       /\ down' = SubSeq(down, n + 1, Len(down))
       /\ playing' = ((playing \/ IsWelcomed(batch)) /\ ~absent)
       /\ clientId' = id
       /\ step' = IF running THEN "input" ELSE "over"
       /\ UNCHANGED <<alive, up, running, playerInput>>

\* receiveUpdates(), with handleServerWelcome() and handleGameStateMessage().
ReceiveUpdates(n) ==
    LET batch == SubSeq(down, 1, n)
        id == IF IsWelcomed(batch) THEN Me ELSE clientId
        absent == LatestState(batch) = "STATE_WITHOUT"
                    \/ (LatestState(batch) = "STATE_WITH" /\ id # Me)
    IN /\ step = "receive"
       /\ down' = SubSeq(down, n + 1, Len(down))
       /\ playing' = ((playing \/ IsWelcomed(batch)) /\ ~absent)
       /\ clientId' = IF absent THEN -1 ELSE id
       /\ step' = IF running THEN "input" ELSE "over"
       /\ UNCHANGED <<alive, up, running, playerInput>>

Next ==
    \/ \E key \in {"none", "arrow", "r", "q"} : HandleInput(key)
    \/ \E n \in 0..Len(down) : ReceiveUpdates(n)
    \/ Server /\ UNCHANGED clientVars

Spec == Init /\ [][Next]_vars

-----------------------------------------------------------------------------
\* Every variable has its type, and the client has an id exactly while it believes to
\* be playing (handleServerWelcome(), handleGameStateMessage()).
TypeOK ==
    /\ SessionTypeOK
    /\ running \in BOOLEAN /\ playing \in BOOLEAN /\ playerInput \in BOOLEAN
    /\ clientId = IF playing THEN Me ELSE -1
    /\ step \in {"input", "receive", "over"}

\* The client never takes itself for alive without the server about to tell it
\* otherwise, however joins, deaths and rejoins fall into its batches.
NoGhost == playing /\ ~alive => DeathUnderWay

-----------------------------------------------------------------------------
\* handleClientJoin(): "send a SERVER_WELCOME message back to the client, confirming
\* that they are playing".  A client that reads a welcome, and no GAME_STATE sent after
\* it, is playing.
WelcomeMeansPlaying ==
    [][step = "receive" /\ step' # "receive" =>
          \A n \in 1..Len(down) :
             down' = SubSeq(down, n + 1, Len(down)) /\ down[n] = "SERVER_WELCOME"
                => playing']_vars
=============================================================================
