----------------------------- MODULE Pathfinder -----------------------------
(***************************************************************************)
(* Pathfinder.cpp: the bot's map of distances to food and boosts, and the  *)
(* move it reads off the map.  rebuildMap() clears the map, marks goals    *)
(* and bodies, and searches breadth first; a step here is one turn of the  *)
(* loop of computePaths().  Bodies are taken to stay where they are.       *)
(***************************************************************************)
EXTENDS Arena

CONSTANT MaxGoals           \* bound: food and boosts in the arena

ASSUME GoalsAssumption == MaxGoals \in Nat

VARIABLES
    goals,          \* the cells of food and speedBoosts, in that order
    impassable,     \* the cells of all segments of all players
    dijkstraMap,
    toVisit         \* the queue of computePaths()

vars == <<goals, impassable, dijkstraMap, toVisit>>

\* INT_MAX: more than any distance in the arena.
Unvisited == Width * Height

\* Wrong: bodies are marked first, so that food under a body makes it passable.
PopulatePlayersAndFood(food, bodies) ==
    [cell \in Cells |->
        CASE \E i \in 1..Len(food) : food[i] = cell -> 0
          [] cell \in bodies /\ (\A i \in 1..Len(food) : food[i] # cell) -> -1
          [] OTHER -> Unvisited]

PopulateFoodAndPlayers(food, bodies) ==
    [cell \in Cells |->
        CASE cell \in bodies -> -1
          [] cell \notin bodies /\ (\E i \in 1..Len(food) : food[i] = cell) -> 0
          [] OTHER -> Unvisited]

\* A goal under a body is no seed; a boost in the same cell as food is a second one.
Seeds(map, food) == {i \in 1..Len(food) : map[food[i]] = 0}

\* The one way to count up the numbers of a set, all of them at most n.
Ascending(set, n) ==
    {order \in UNION {[1..m -> set] : m \in 0..n} :
        /\ {order[i] : i \in DOMAIN order} = set
        /\ \A i, j \in DOMAIN order : i < j => order[i] < order[j]}

\* The parameters bound what a GAME_STATE may hold: goals and bodies anywhere.
RebuildMap(food, bodies) ==
    /\ goals = food
    /\ impassable = bodies
    /\ dijkstraMap = PopulateFoodAndPlayers(food, bodies)
    /\ \E order \in Ascending(Seeds(dijkstraMap, food), Len(food)) :
          toVisit = [i \in DOMAIN order |-> food[order[i]]]

Init ==
    \E n \in 0..MaxGoals : \E food \in [1..n -> Cells], bodies \in SUBSET Cells :
        RebuildMap(food, bodies)

\* The order in which computePaths() looks at the neighbours, and in which
\* calculateNextMove() prefers them.
Order == <<"^", "v", "<", ">">>

\* checkNeighbour() for one of the four neighbours.
IsNew(cell) == cell \in Cells /\ dijkstraMap[cell] = Unvisited

NewNeighbour(cell) == IF IsNew(cell) THEN <<cell>> ELSE << >>

NewNeighbours(here) ==
    NewNeighbour(Step(here, Order[1])) \o NewNeighbour(Step(here, Order[2]))
        \o NewNeighbour(Step(here, Order[3])) \o NewNeighbour(Step(here, Order[4]))

\* Wrong: the search goes depth first.
QueueInFront(here) == NewNeighbours(here) \o Tail(toVisit)

QueueAfter(here) == Tail(toVisit) \o NewNeighbours(here)

VisitNext ==
    /\ toVisit # << >>
    /\ LET here == Head(toVisit)
       IN /\ dijkstraMap' =
               [cell \in Cells |->
                  IF IsNew(cell) /\ \E d \in Directions : cell = Step(here, d)
                     THEN dijkstraMap[here] + 1 ELSE dijkstraMap[cell]]
          /\ toVisit' = QueueAfter(here)
    /\ UNCHANGED <<goals, impassable>>

Next == VisitNext

Spec == Init /\ [][Next]_vars

-----------------------------------------------------------------------------
(* calculateNextMove(), for a head and the direction of its last move.     *)

Rank(d) == CHOOSE i \in 1..4 : Order[i] = d

Candidates(head, direction) ==
    {d \in Directions :
        /\ d # Opposite(direction)
        /\ Step(head, d) \in Cells
        /\ dijkstraMap[Step(head, d)] >= 0}

\* Wrong: the first candidate is never replaced by a better one.
IsPreferredByRank(head, d, e) == Rank(d) <= Rank(e)

\* Strictly lower values win, so of equal ones the first.
IsPreferred(head, d, e) ==
    LET value(f) == dijkstraMap[Step(head, f)]
    IN value(d) < value(e) \/ (value(d) = value(e) /\ Rank(d) <= Rank(e))

CalculateNextMove(head, direction) ==
    LET moves == Candidates(head, direction)
    IN IF moves = {} THEN "?"
       ELSE CHOOSE d \in moves : \A e \in moves : IsPreferred(head, d, e)

-----------------------------------------------------------------------------
(* The reference: distances on the graph of free cells.                    *)

Free == Cells \ impassable

Goals == {goals[i] : i \in 1..Len(goals)} \cap Free

\* One step to a free cell, or none.
Walk(cell, d) ==
    IF d \in Directions /\ Step(cell, d) \in Free THEN Step(cell, d) ELSE cell

\* The cells at most one step away from a set of cells.
Spread(cells) == {Walk(cell, d) : cell \in cells, d \in Directions \cup {"?"}}

\* The cells at most n steps away from a goal.
Within[n \in 0..Unvisited] == IF n = 0 THEN Goals ELSE Spread(Within[n - 1])

Distances ==
    LET within == [n \in 0..Unvisited |-> Within[n]]
    IN [cell \in Cells |->
          CASE cell \in impassable -> -1
            [] cell \in within[Unvisited] ->
                 CHOOSE n \in 0..Unvisited : cell \in within[n] /\ (n = 0 \/ cell \notin within[n - 1])
            [] OTHER -> Unvisited]

\* When the queue is empty the map holds every free cell's true distance to the nearest
\* goal that no body covers, INT_MAX where there is no way (rebuildMap()).
MapIsDistance ==
    toVisit = << >> => dijkstraMap = Distances

\* The move leads neither into a wall nor into a body the bot knows of nor back into
\* its own neck, whatever is in the map (calculateNextMove()).
AvoidsBodies ==
    \A head \in impassable, direction \in Directions :
        LET move == CalculateNextMove(head, direction)
        IN move # "?" => move # Opposite(direction) /\ Step(head, move) \in Free

\* The bot gives up only when boxed in, and otherwise takes the first step of a shortest
\* way to food or a boost, or of any way when there is none to them.
TakesShortestWay ==
    toVisit = << >> =>
        LET distance == Distances IN
        \A head \in impassable, direction \in Directions :
            LET open == {d \in Directions \ {Opposite(direction)} : Step(head, d) \in Free}
                move == CalculateNextMove(head, direction)
            IN IF open = {} THEN move = "?"
               ELSE \A d \in open : distance[Step(head, move)] <= distance[Step(head, d)]
=============================================================================
