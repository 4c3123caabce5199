----------------------------- MODULE BotSession -----------------------------
(***************************************************************************)
(* SnakeBot.cpp: the loop of the headless client, which joins again        *)
(* whenever it learns that its snake has died.  Where it steers is left    *)
(* out: module Session reduces the game to being in it.                    *)
(***************************************************************************)
EXTENDS Session

VARIABLES
    clientId,               \* Me or -1
    awaitingJoin,
    gameStateHasChanged,
    present,                \* gameState.players contains Me
    step                    \* what the loop does next: "join", "receive" or "steer"

botVars == <<clientId, awaitingJoin, gameStateHasChanged, present, step>>

vars == <<sessionVars, botVars>>

Init ==
    /\ alive = FALSE
    /\ up = << >>
    /\ down = << >>
    /\ clientId = -1
    /\ awaitingJoin = FALSE
    /\ gameStateHasChanged = TRUE
    /\ present = FALSE
    /\ step = "join"

\* Wrong: it does not matter that a join is under way.
NeedsToJoinAgain == clientId = -1

NeedsToJoin == clientId = -1 /\ ~awaitingJoin

\* createBot(), when it is time for it.
CreateBot ==
    /\ step = "join"
    /\ up' = IF NeedsToJoin THEN Append(up, "CLIENT_JOIN") ELSE up
    /\ WithinBounds
    /\ awaitingJoin' = (awaitingJoin \/ NeedsToJoin)
    /\ step' = "receive"
    /\ UNCHANGED <<alive, down, clientId, gameStateHasChanged, present>>

\* Wrong: the bot goes on waiting for the welcome it has read.
StillAwaitingForEver(batch) == awaitingJoin

StillAwaiting(batch) == awaitingJoin /\ ~IsWelcomed(batch)

\* receiveUpdates(), with handleServerWelcome() and handleGameStateMessage().
ReceiveUpdates(n) ==
    LET batch == SubSeq(down, 1, n)
        latest == LatestState(batch)
        id == IF IsWelcomed(batch) THEN Me ELSE clientId
    IN /\ step = "receive"
       /\ down' = SubSeq(down, n + 1, Len(down))
       /\ clientId' = IF latest = "STATE_WITHOUT" THEN -1 ELSE id
       /\ awaitingJoin' = StillAwaiting(batch)
       /\ present' = CASE latest = "STATE_WITH" -> TRUE
                       [] latest = "STATE_WITHOUT" -> FALSE
                       [] latest = "none" -> present
       /\ gameStateHasChanged' = (gameStateHasChanged \/ latest # "none")
       /\ step' = "steer"
       /\ UNCHANGED <<alive, up>>

\* Wrong: the flag stays up when there was nothing to send.
AnsweredIfPresent == clientId # -1 /\ present

\* run() takes the flag down for a bot in the game, whether it sent something or not.
Answered == clientId # -1

\* sendInput(), once for each GAME_STATE the bot's snake is in.
Steer ==
    /\ step = "steer"
    /\ up' = IF clientId # -1 /\ gameStateHasChanged /\ present
               THEN Append(up, "CLIENT_INPUT") ELSE up
    /\ WithinBounds
    /\ gameStateHasChanged' = (gameStateHasChanged /\ ~Answered)
    /\ step' = "join"
    /\ UNCHANGED <<alive, down, clientId, awaitingJoin, present>>

Bot ==
    \/ CreateBot
    \/ \E n \in 0..Len(down) : ReceiveUpdates(n)
    \/ Steer

Next ==
    \/ Bot
    \/ Server /\ UNCHANGED botVars

Spec == Init /\ [][Next]_vars

(***************************************************************************)
(* Fairness.  Both loops run on, and TCP delivers: neither side finds the  *)
(* stream empty for ever when there is something in it.                    *)
(***************************************************************************)
BotReads == \E n \in 1..Len(down) : ReceiveUpdates(n)

FairSpec ==
    /\ Spec
    /\ WF_vars(Bot)
    /\ SF_vars(BotReads)
    /\ SF_vars(ServerReads /\ UNCHANGED botVars)

-----------------------------------------------------------------------------
\* Every variable has its type, and a bot that is in the game has no GAME_STATE left to
\* answer when it reads the next (run()).
TypeOK ==
    /\ SessionTypeOK
    /\ clientId \in {-1, Me}
    /\ awaitingJoin \in BOOLEAN /\ gameStateHasChanged \in BOOLEAN /\ present \in BOOLEAN
    /\ step \in {"join", "receive", "steer"}
    /\ gameStateHasChanged => clientId = -1 \/ step = "steer"

\* The bot never takes itself for alive without the server about to tell it otherwise.
NoGhost == clientId # -1 /\ ~alive => DeathUnderWay

\* The bot awaits a welcome exactly while its join or the answer is under way: it can
\* neither wait in vain nor flood the server with joins (createBot(), handleServerWelcome()).
OneJoinAtATime ==
    Count(up, "CLIENT_JOIN") + Count(down, "SERVER_WELCOME") = IF awaitingJoin THEN 1 ELSE 0

\* The bot is never out of the game for good: again and again it has a snake, or
\* the server gives it one, be it one that dies as it is born.
BotReturns ==
    []<><<\/ alive \/ alive'
          \/ Count(down', "SERVER_WELCOME") > Count(down, "SERVER_WELCOME")>>_vars
=============================================================================
