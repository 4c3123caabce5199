------------------------------ MODULE GameFeed ------------------------------
(***************************************************************************)
(* The engine together with what it publishes: the content of the last     *)
(* GAME_STATE that broadcastGameState() handed to the network.             *)
(***************************************************************************)
EXTENDS SnakeServer

VARIABLE sent       \* the last GAME_STATE broadcast

feedVars == <<players, food, boosts, highScore, phase, stateChanged, sent>>

\* Wrong: the pending direction is published.
BuildGameStateAhead ==
    [players   |-> [c \in DOMAIN players |->
                      [segs      |-> players[c].segs,
                       direction |-> players[c].nextDirection,
                       score     |-> players[c].score]],
     food      |-> food,
     boosts    |-> boosts,
     highScore |-> highScore]

BuildGameState ==
    [players   |-> [c \in DOMAIN players |->
                      [segs      |-> players[c].segs,
                       direction |-> players[c].direction,
                       score     |-> players[c].score]],
     food      |-> food,
     boosts    |-> boosts,
     highScore |-> highScore]

FeedInit ==
    /\ Init
    /\ sent = [players |-> << >>, food |-> {}, boosts |-> {}, highScore |-> 0]

PublishGameState == BroadcastGameState /\ sent' = BuildGameState

FeedNext ==
    \/ Advance /\ UNCHANGED sent
    \/ PublishGameState

FeedSpec == FeedInit /\ [][FeedNext]_feedVars

\* Iterations end, though the clock may stand still.
EndingFeedSpec ==
    /\ FeedSpec
    /\ IterationsEnd

FairFeedSpec ==
    /\ FeedSpec
    /\ Fairness

-----------------------------------------------------------------------------
\* Between two iterations of the loop a client that has read everything knows the
\* snakes, the directions, the boosts and the scores as they are, although inputs
\* change players without a broadcast; only food that replaceFood() has added since
\* may be missing (run(), buildGameState()).
FeedIsCurrent ==
    phase = "poll" =>
        /\ sent.players = BuildGameState.players
        /\ sent.boosts = boosts
        /\ sent.highScore = highScore
        /\ sent.food \subseteq food

\* Food that replaceFood() adds without a broadcast does not stay invisible while
\* somebody is playing.
FoodIsShown ==
    \A cell \in DropCells :
        (cell \in food) ~> \/ cell \in sent.food
                           \/ cell \notin food
                           \/ DOMAIN players = {}

\* The scoreboard's view of the engine.
Board == INSTANCE Scoreboard WITH
    scores  <- [c \in DOMAIN players |-> players[c].score],
    best    <- highScore,
    shown   <- [scores |-> [c \in DOMAIN sent.players |-> sent.players[c].score],
                best   |-> sent.highScore],
    pending <- stateChanged \/ phase = "collide"

\* The engine and its broadcasts keep the scoreboard's promise: scores grow by one
\* point at a time, joining twice changes nothing, and every join, departure, death
\* and score is announced.
ImplementsScoreboard == Board!Spec
=============================================================================
