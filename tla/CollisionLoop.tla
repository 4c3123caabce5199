---------------------------- MODULE CollisionLoop ----------------------------
(***************************************************************************)
(* checkCollisions() as the code runs it: one player after another, in the *)
(* order of an unordered_map, each turn reading and writing the players,   *)
(* the food, the boosts and the high score that the turns before have      *)
(* left; then destroyPlayers(), one victim at a time; then                 *)
(* placeSpeedBoost().  Everything else is module SnakeServer, whose        *)
(* CheckCollisions decides about all players at once: the loop implements  *)
(* it, so that the order of the map does not matter.                       *)
(***************************************************************************)
EXTENDS SnakeServer

VARIABLES
    before,     \* <<the game as the loop found it>> while the loop runs, else << >>
    toExamine,  \* the players whose turn is still to come
    toDestroy   \* clientIdsToDestroy

loopVars == <<vars, before, toExamine, toDestroy>>

LoopInit ==
    /\ Init
    /\ before = << >>
    /\ toExamine = {}
    /\ toDestroy = << >>

IsLooping == before # << >>

StartLoop ==
    /\ phase = "collide" /\ ~IsLooping
    /\ before' = <<[players |-> players, food |-> food,
                    boosts |-> boosts, highScore |-> highScore]>>
    /\ toExamine' = DOMAIN players
    /\ UNCHANGED <<vars, toDestroy>>

\* Wrong: bodies are read off the snakes as they are now, some of them grown already.
OccupiedNow == UNION {BodyCells(players[c].segs) : c \in DOMAIN players}

\* occupiedCellsBodies is as updateSnakes() has left it, whatever has grown since.
Occupied ==
    UNION {BodyCells(before[1].players[c].segs) : c \in DOMAIN before[1].players}

FirstInCell(cell) ==
    CHOOSE c \in PlayerHeadsInCell(cell) :
        \A d \in PlayerHeadsInCell(cell) \ {c} : ArrivedBefore(c, d)

\* One turn of the loop for player c, with the chain of else-ifs.
Examine(c) ==
    LET cell == HeadCell(c)
        meets == Cardinality(PlayerHeadsInCell(cell)) > 1
        dies == \/ HitsWall(c)
                \/ cell \in Occupied
                \/ meets /\ c # FirstInCell(cell)
        feeds == ~dies /\ ~meets /\ cell \in food
        speeds == ~dies /\ ~meets /\ ~feeds /\ cell \in boosts
    IN /\ c \in toExamine
       /\ toExamine' = toExamine \ {c}
       /\ toDestroy' = IF dies THEN Append(toDestroy, c) ELSE toDestroy
       /\ players' = [players EXCEPT ![c] =
                        IF feeds THEN FeedPlayer(@) ELSE IF speeds THEN BoostPlayer(@) ELSE @]
       /\ food' = IF feeds THEN food \ {cell} ELSE food
       /\ boosts' = IF speeds THEN boosts \ {cell} ELSE boosts
       /\ highScore' = IF players'[c].score > highScore THEN players'[c].score ELSE highScore
       /\ UNCHANGED <<phase, stateChanged, before>>

\* One turn of destroyPlayers().
DestroyNext ==
    /\ toExamine = {} /\ toDestroy # << >>
    /\ \E drops \in SUBSET BodyCells(players[Head(toDestroy)].segs) : food' = food \cup drops
    /\ players' = [c \in DOMAIN players \ {Head(toDestroy)} |-> players[c]]
    /\ toDestroy' = Tail(toDestroy)
    /\ UNCHANGED <<boosts, highScore, phase, stateChanged, before, toExamine>>

PlaceSpeedBoost ==
    /\ IsLooping /\ toExamine = {} /\ toDestroy = << >>
    /\ boosts' \in BoostPlacements(boosts)
    /\ phase' = "broadcast"
    /\ stateChanged' = TRUE
    /\ before' = << >>
    /\ UNCHANGED <<players, food, highScore, toExamine, toDestroy>>

\* The steps of the engine outside the loop.
OtherStep ==
    \/ \E elapsed \in 0..MaxElapsed : PollMessages(elapsed)
    \/ \E c \in Clients, cell \in SpawnCells : HandleClientJoin(c, cell)
    \/ \E c \in Clients, key \in Keys : HandleClientInput(c, key)
    \/ \E c \in Clients : HandleClientDisconnect(c)
    \/ UpdateSnakes
    \/ BroadcastGameState

LoopNext ==
    \/ StartLoop
    \/ \E c \in Clients : Examine(c)
    \/ DestroyNext
    \/ PlaceSpeedBoost
    \/ OtherStep /\ UNCHANGED <<before, toExamine, toDestroy>>

LoopSpec == LoopInit /\ [][LoopNext]_loopVars

-----------------------------------------------------------------------------
\* To the engine's other parts the check happens at once, at its end.
Engine == INSTANCE SnakeServer WITH
    players   <- IF IsLooping THEN before[1].players ELSE players,
    food      <- IF IsLooping THEN before[1].food ELSE food,
    boosts    <- IF IsLooping THEN before[1].boosts ELSE boosts,
    highScore <- IF IsLooping THEN before[1].highScore ELSE highScore

\* Whatever the order of the hash map, the loop decides about every player as if it
\* decided about all at once (checkCollisions(), destroyPlayers()).
ImplementsEngine == Engine!Spec
=============================================================================
