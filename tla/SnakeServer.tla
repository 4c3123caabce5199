---------------------------- MODULE SnakeServer ----------------------------
(***************************************************************************)
(* The game engine: SnakeServer::run() of src/snake_server/SnakeServer.cpp *)
(* with every handler its loop calls.  One iteration of the loop is        *)
(*                                                                         *)
(*   PollMessages, HandleClientJoin / HandleClientInput /                  *)
(*   HandleClientDisconnect ..., UpdateSnakes,                             *)
(*   [CheckCollisions (and placeSpeedBoost)], [BroadcastGameState]         *)
(*                                                                         *)
(* and "phase" is the place in that iteration.                             *)
(*                                                                         *)
(* Times are relative: nextMoveIn is nextMoveTime - timer.currentTick()    *)
(* and boostLeft is boostExpireTime - timer.currentTick(), cut off at 0.   *)
(* The code only compares them with the current tick and with each other,  *)
(* the latter after every snake whose time has come has been given a new   *)
(* one, so nothing it computes is lost.  Random draws are choices.         *)
(* Names and colours are left out.                                         *)
(***************************************************************************)
EXTENDS Arena, FiniteSets

CONSTANTS
    Clients,                    \* client ids, as NetworkServer hands them out
    SpawnMargin,                \* the 5 of createNewPlayer
    MinFood,                    \* MIN_FOOD_IN_ARENA
    MovementFrequency,          \* MOVEMENT_FREQUENCY_MS, in clock units
    BoostedMovementFrequency,   \* BOOSTED_MOVEMENT_FREQUENCY_MS
    BoostDuration,              \* SPEED_BOOST_DURATION_MS
    MaxElapsed,                 \* bound: clock units between two polls
    MaxLength                   \* bound: a snake this long leaves the game

ASSUME ClientsAssumption == Clients \subseteq Nat /\ IsFiniteSet(Clients)

ASSUME SpawnAssumption ==
    /\ SpawnMargin \in Nat
    /\ 1 + SpawnMargin <= Width - 1 - SpawnMargin
    /\ 1 + SpawnMargin <= Height - 1 - SpawnMargin

ASSUME FoodAssumption ==
    /\ MinFood \in Nat
    /\ MinFood <= (Width - 1) * (Height - 1)

ASSUME TimeAssumption ==
    /\ MovementFrequency \in Nat
    /\ BoostedMovementFrequency \in 1..MovementFrequency
    /\ BoostDuration \in Nat \ {0}
    /\ MaxElapsed \in Nat

ASSUME LengthAssumption == MaxLength \in Nat

VARIABLES
    players,        \* clientIdToPlayerMap
    food,           \* the keys of foodMap
    boosts,         \* the keys of speedBoostMap
    highScore,      \* serverHighScore.second
    phase,          \* where run() is in its loop
    stateChanged    \* run()'s local flag

vars == <<players, food, boosts, highScore, phase, stateChanged>>

Phases == {"poll", "dispatch", "collide", "broadcast"}

SpawnCells ==
    ((1 + SpawnMargin)..(Width - 1 - SpawnMargin))
        \X ((1 + SpawnMargin)..(Height - 1 - SpawnMargin))

\* What a CLIENT_INPUT may carry; "?" is any other byte, such as the pathfinder's
\* answer for a boxed-in bot.
Keys == Directions \cup {"?"}

PlayerType ==
    [segs              : Seq(CellsAndWalls),
     tailPrev          : Cells,
     direction         : Directions,
     nextDirection     : Directions,
     score             : Nat,
     movementFrequency : {MovementFrequency, BoostedMovementFrequency},
     nextMoveIn        : 0..MovementFrequency,
     boosted           : BOOLEAN,
     boostLeft         : 0..BoostDuration]

Init ==
    /\ players = << >>
    /\ food = {}
    /\ boosts = {}
    /\ highScore = 0
    /\ phase = "poll"
    /\ stateChanged = FALSE

-----------------------------------------------------------------------------
(* Reading messages: pollMessages(), the timer's tick and replaceFood().   *)

Remaining(left, elapsed) == IF left > elapsed THEN left - elapsed ELSE 0

Elapse(p, elapsed) ==
    [p EXCEPT !.nextMoveIn = Remaining(p.nextMoveIn, elapsed),
              !.boostLeft  = Remaining(p.boostLeft, elapsed)]

\* The sets of cells replaceFood() may add: it draws cells until there is enough
\* food, and a draw that hits a cell with food changes nothing.
Replacements ==
    {new \in SUBSET (DropCells \ food) :
        Cardinality(new) = IF Cardinality(food) < MinFood
                              THEN MinFood - Cardinality(food) ELSE 0}

PollMessages(elapsed) ==
    /\ phase = "poll"
    /\ players' = [c \in DOMAIN players |-> Elapse(players[c], elapsed)]
    /\ \E new \in Replacements : food' = food \cup new
    /\ phase' = "dispatch"
    /\ UNCHANGED <<boosts, highScore, stateChanged>>

-----------------------------------------------------------------------------
(* The dispatch loop.  Messages come in any number and order: what order   *)
(* the network gives them is told by ServerLoop.  A CLIENT_DISCONNECT is   *)
(* synthesised, or sent by a client, which may then go on sending.         *)

NewPlayer(cell) ==
    [segs |-> <<cell>>, tailPrev |-> cell,
     direction |-> "^", nextDirection |-> "^", score |-> 1,
     movementFrequency |-> MovementFrequency, nextMoveIn |-> MovementFrequency,
     boosted |-> FALSE, boostLeft |-> 0]

\* Wrong: a second join overwrites the snake, as operator[] would.
HandleClientJoinOverwrites(c, cell) ==
    /\ phase = "dispatch"
    /\ players' = [d \in DOMAIN players \cup {c} |->
                     IF d # c THEN players[d] ELSE NewPlayer(cell)]
    /\ stateChanged' = TRUE
    /\ UNCHANGED <<food, boosts, highScore, phase>>

\* createNewPlayer emplaces: a client that is already playing keeps its snake.
HandleClientJoin(c, cell) ==
    /\ phase = "dispatch"
    /\ players' = [d \in DOMAIN players \cup {c} |->
                     IF d \in DOMAIN players THEN players[d] ELSE NewPlayer(cell)]
    /\ stateChanged' = TRUE
    /\ UNCHANGED <<food, boosts, highScore, phase>>

\* A wrong Turn, for the checks to catch: the guard reads the pending direction,
\* so two quick inputs within one move turn the snake around.
TurnFromPending(p, key) ==
    IF key \in Directions /\ p.nextDirection # Opposite(key)
       THEN [p EXCEPT !.nextDirection = key] ELSE p

Turn(p, key) ==
    IF key \in Directions /\ p.direction # Opposite(key)
       THEN [p EXCEPT !.nextDirection = key] ELSE p

\* An input from a client without a snake is ignored.
HandleClientInput(c, key) ==
    /\ phase = "dispatch"
    /\ players' = [d \in DOMAIN players |->
                     IF d = c THEN Turn(players[d], key) ELSE players[d]]
    /\ UNCHANGED <<food, boosts, highScore, phase, stateChanged>>

\* Wrong: the departure is not announced.
HandleClientDisconnectQuietly(c) ==
    /\ phase = "dispatch"
    /\ players' = [d \in DOMAIN players \ {c} |-> players[d]]
    /\ UNCHANGED <<food, boosts, highScore, phase, stateChanged>>

HandleClientDisconnect(c) ==
    /\ phase = "dispatch"
    /\ players' = [d \in DOMAIN players \ {c} |-> players[d]]
    /\ stateChanged' = TRUE
    /\ UNCHANGED <<food, boosts, highScore, phase>>

-----------------------------------------------------------------------------
(* updateSnakes(): expire boosts and move every snake whose time has come. *)

\* Wrong: an expired boost leaves the snake fast.
ExpireBoostKeepsPace(p) ==
    IF p.boosted /\ p.boostLeft <= 0 THEN [p EXCEPT !.boosted = FALSE] ELSE p

ExpireBoost(p) ==
    IF p.boosted /\ p.boostLeft <= 0
       THEN [p EXCEPT !.boosted = FALSE, !.movementFrequency = MovementFrequency]
       ELSE p

MoveSnake(p) ==
    [p EXCEPT !.direction  = p.nextDirection,
              !.segs       = MoveTo(p.segs, Step(HeadOf(p.segs), p.nextDirection)),
              !.tailPrev   = TailPrevAfterMove(p.segs),
              !.nextMoveIn = p.movementFrequency]

UpdateSnake(p) ==
    IF p.nextMoveIn <= 0 THEN MoveSnake(ExpireBoost(p)) ELSE ExpireBoost(p)

DueToMove == {c \in DOMAIN players : players[c].nextMoveIn <= 0}

\* Bound: the user of a snake of MaxLength leaves before the snakes move on.
WithinLengthBound == \A c \in DOMAIN players : Len(players[c].segs) < MaxLength

UpdateSnakes ==
    /\ phase = "dispatch"
    /\ WithinLengthBound
    /\ players' = [c \in DOMAIN players |-> UpdateSnake(players[c])]
    /\ phase' = CASE DueToMove # {} -> "collide"
                  [] DueToMove = {} /\ stateChanged -> "broadcast"
                  [] DueToMove = {} /\ ~stateChanged -> "poll"
    /\ UNCHANGED <<food, boosts, highScore, stateChanged>>

-----------------------------------------------------------------------------
(* checkCollisions(), destroyPlayers() and placeSpeedBoost().              *)

HeadCell(c) == HeadOf(players[c].segs)

\* Wrong: the differential update of the todo in updateSnakes(), of moved snakes only.
OccupiedByMovedBodies ==
    UNION {BodyCells(players[c].segs) :
              c \in {d \in DOMAIN players :
                       players[d].nextMoveIn = players[d].movementFrequency}}

\* occupiedCellsBodies, as updateSnakes() leaves it: growth comes after it.
OccupiedByBodies == UNION {BodyCells(players[c].segs) : c \in DOMAIN players}

PlayerHeadsInCell(cell) == {c \in DOMAIN players : HeadCell(c) = cell}

\* Wrong: no tie break on the client id.
ArrivedStrictlyBefore(a, b) == players[a].nextMoveIn < players[b].nextMoveIn

\* The order of the head-on comparator.
ArrivedBefore(a, b) ==
    \/ players[a].nextMoveIn < players[b].nextMoveIn
    \/ players[a].nextMoveIn = players[b].nextMoveIn /\ a < b

\* Wrong: the lower boundary is off by one.
HitsWallButOne(c) ==
    LET x == HeadCell(c)[1]
        y == HeadCell(c)[2]
    IN x <= 0 \/ y <= 0 \/ x >= Width + 1 \/ y > Height + 1

HitsWall(c) == HeadCell(c) \notin Cells

HitsBody(c) == HeadCell(c) \in OccupiedByBodies

MeetsHead(c) == PlayerHeadsInCell(HeadCell(c)) # {c}

Destroyed ==
    {c \in DOMAIN players :
        \/ HitsWall(c)
        \/ HitsBody(c)
        \/ \E d \in PlayerHeadsInCell(HeadCell(c)) : ArrivedBefore(d, c)}

\* Wrong: the food check stands on its own, outside the else-if chain.
FeedsAnyway(c) == HeadCell(c) \in food

\* The survivor of a head-on collision has used up its turn in the else-if chain.
Feeds(c) == c \notin Destroyed /\ ~MeetsHead(c) /\ HeadCell(c) \in food

Boosts(c) == c \notin Destroyed /\ ~MeetsHead(c) /\ HeadCell(c) \in boosts \ food

FeedPlayer(p) ==
    [p EXCEPT !.segs = Grow(p.segs, p.tailPrev), !.score = p.score + 1]

BoostPlayer(p) ==
    [p EXCEPT !.boosted = TRUE,
              !.movementFrequency = BoostedMovementFrequency,
              !.boostLeft = BoostDuration]

AfterCollision(c) ==
    IF Feeds(c) THEN FeedPlayer(players[c])
    ELSE IF Boosts(c) THEN BoostPlayer(players[c])
    ELSE players[c]

\* Each body segment of a destroyed snake may turn into food, the head never.
FoodFromBodies == UNION {BodyCells(players[c].segs) : c \in Destroyed}

\* Wrong: the high score is taken before feeding.
ScoresBeforeFeeding == {players[c].score : c \in DOMAIN players}

\* The scores the high score is compared with: after feeding, and those of the
\* snakes about to be destroyed too.
ScoresSeen == {AfterCollision(c).score : c \in DOMAIN players}

NewHighScore(old) ==
    CHOOSE s \in ScoresSeen \cup {old} : \A t \in ScoresSeen \cup {old} : t <= s

\* Wrong: a boost is placed without looking for one.
BoostPlacementsUnchecked(left) == {left} \cup {left \cup {cell} : cell \in DropCells}

\* placeSpeedBoost: at most one boost in the arena, and only now and then.
BoostPlacements(left) ==
    IF left = {} THEN {{}} \cup {{cell} : cell \in DropCells} ELSE {left}

\* Wrong: run() forgets that the snakes have moved.
CheckCollisionsQuietly ==
    /\ phase = "collide"
    /\ players' = [c \in DOMAIN players \ Destroyed |-> AfterCollision(c)]
    /\ food' = food \ {HeadCell(c) : c \in {d \in DOMAIN players : Feeds(d)}}
    /\ boosts' = boosts \ {HeadCell(c) : c \in {d \in DOMAIN players : Boosts(d)}}
    /\ highScore' = NewHighScore(highScore)
    /\ phase' = IF stateChanged THEN "broadcast" ELSE "poll"
    /\ UNCHANGED stateChanged

CheckCollisions ==
    /\ phase = "collide"
    /\ players' = [c \in DOMAIN players \ Destroyed |-> AfterCollision(c)]
    /\ \E drops \in SUBSET FoodFromBodies :
          food' = (food \ {HeadCell(c) : c \in {d \in DOMAIN players : Feeds(d)}}) \cup drops
    /\ boosts' \in BoostPlacements(
          boosts \ {HeadCell(c) : c \in {d \in DOMAIN players : Boosts(d)}})
    /\ highScore' = NewHighScore(highScore)
    /\ phase' = "broadcast"
    /\ stateChanged' = TRUE

-----------------------------------------------------------------------------
(* The end of the iteration: the flag goes out of scope.                   *)

BroadcastGameState ==
    /\ phase = "broadcast"
    /\ phase' = "poll"
    /\ stateChanged' = FALSE
    /\ UNCHANGED <<players, food, boosts, highScore>>

\* Every step of the loop but the broadcast.
Advance ==
    \/ \E elapsed \in 0..MaxElapsed : PollMessages(elapsed)
    \/ \E c \in Clients, cell \in SpawnCells : HandleClientJoin(c, cell)
    \/ \E c \in Clients, key \in Keys : HandleClientInput(c, key)
    \/ \E c \in Clients : HandleClientDisconnect(c)
    \/ UpdateSnakes
    \/ CheckCollisions

Next == Advance \/ BroadcastGameState

Spec == Init /\ [][Next]_vars

(***************************************************************************)
(* Fairness.  run() is one thread, and every batch of messages is finite:  *)
(* an iteration that has begun comes to its end.  It never blocks for good *)
(* either, since epoll_wait returns after at most                          *)
(* EPOLL_BLOCKING_TIMEOUT_MS; and the steady clock advances: not every     *)
(* tick can find it where it was.                                          *)
(***************************************************************************)
IterationsEnd == []<>(phase = "poll")

TimePasses == \E elapsed \in 1..MaxElapsed : PollMessages(elapsed)

Fairness ==
    /\ IterationsEnd
    /\ WF_vars(\E elapsed \in 0..MaxElapsed : PollMessages(elapsed))
    /\ SF_vars(TimePasses)

FairSpec == Spec /\ Fairness

-----------------------------------------------------------------------------
(* Invariants.                                                             *)

\* Every variable has its type: there is at most one speed boost in the arena, and
\* food lies in it (placeFood, placeSpeedBoost, destroyPlayers).
TypeOK ==
    /\ DOMAIN players \subseteq Clients
    /\ players \in [DOMAIN players -> PlayerType]
    /\ \A c \in DOMAIN players : players[c].segs # << >>
    /\ food \subseteq Cells
    /\ boosts \subseteq DropCells
    /\ \A a, b \in boosts : a = b
    /\ highScore \in Nat
    /\ phase \in Phases
    /\ stateChanged \in BOOLEAN

\* No segment and no future segment lies outside the arena, so that
\* occupiedCellsBodies.at(...) in updateOccupiedCells() and checkCollisions() never
\* throws; a head is outside only between updateSnakes() and checkCollisions().
BodiesInArena ==
    \A c \in DOMAIN players :
        /\ BodyCells(players[c].segs) \subseteq Cells
        /\ players[c].tailPrev \in Cells
        /\ phase # "collide" => HeadCell(c) \in Cells

\* The segment behind the head, or the place where growth would put it, is where the
\* head came from (or under the head, before the first move), and the pending
\* direction does not point that way: what handleClientInput() must keep between
\* moves for moveSnake() never to turn a snake around.
NeckBehind(p) ==
    LET neck == IF Len(p.segs) > 1 THEN p.segs[2] ELSE p.tailPrev
    IN /\ neck \in {HeadOf(p.segs), Step(HeadOf(p.segs), Opposite(p.direction))}
       /\ p.nextDirection # Opposite(p.direction)

NecksBehind == \A c \in DOMAIN players : NeckBehind(players[c])

\* The clocks of a snake agree: it is fast exactly while boosted, and once
\* updateSnakes() has run no boost is overdue and no snake is still due to move.
ClocksAgree ==
    \A c \in DOMAIN players :
        LET p == players[c] IN
        /\ p.movementFrequency =
             IF p.boosted THEN BoostedMovementFrequency ELSE MovementFrequency
        /\ phase \in {"collide", "broadcast", "poll"} =>
             p.nextMoveIn > 0 /\ (p.boosted => p.boostLeft > 0)

\* The high score covers every snake that has eaten: only the initial score of a
\* newcomer may still be above it (checkCollisions() updates it after feeding).
HighScoreCovers ==
    \A c \in DOMAIN players :
        players[c].score > highScore => Len(players[c].segs) = 1

-----------------------------------------------------------------------------
(* Action properties.                                                      *)

\* A snake never turns back into its own neck, whatever the order and number of
\* inputs between two moves (handleClientInput() and moveSnake()).
NoReversal ==
    [][\A c \in DOMAIN players \cap DOMAIN players' :
          Len(players[c].segs) > 1 /\ HeadCell(c)' # HeadCell(c)
             => HeadCell(c)' # players[c].segs[2]]_vars

\* Of the heads that meet in a cell no body lies on, exactly one survives
\* (the head-on branch of checkCollisions(), all players together).
HeadOnLeavesOne ==
    [][phase = "collide" =>
          \A cell \in Cells \ OccupiedByBodies :
             PlayerHeadsInCell(cell) # {} =>
                \E c \in DOMAIN players' : PlayerHeadsInCell(cell) \cap DOMAIN players' = {c}]_vars

\* After a collision check no head is left on a body, except on the tail a snake has
\* grown in this very check: occupiedCellsBodies does not know it yet.
NoOverlapButGrowth ==
    [][phase = "collide" =>
          \A c, d \in DOMAIN players' :
             HeadCell(c)' \in BodyCells(players'[d].segs) =>
                /\ players'[d].score > players[d].score
                /\ HeadCell(c)' = players[d].tailPrev]_vars

\* Every piece of food that disappears has made exactly one surviving snake one
\* segment longer, and no snake grows without one (checkCollisions(), feedPlayer(),
\* destroyPlayers() with its food drops).
FoodFeedsOne ==
    [][LET grown == {c \in DOMAIN players \cap DOMAIN players' :
                        Len(players'[c].segs) > Len(players[c].segs)}
       IN /\ {HeadCell(c) : c \in grown} = food \ food'
          /\ \A c, d \in grown : HeadCell(c) = HeadCell(d) => c = d
          /\ \A c \in grown : players'[c].segs = Grow(players[c].segs, players[c].tailPrev)]_vars

-----------------------------------------------------------------------------
(* Liveness.                                                               *)

\* No snake stands still for ever: it moves again and again, or it leaves the game
\* (run(), pollMessages(), updateSnakes()), whatever its client sends meanwhile.
EverySnakeMoves ==
    \A c \in Clients :
        []<><<\/ c \notin DOMAIN players
              \/ c \notin DOMAIN players'
              \/ HeadCell(c)' # HeadCell(c)>>_vars
=============================================================================
