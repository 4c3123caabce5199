-------------------------- MODULE PathfinderProofs --------------------------
(***************************************************************************)
(* The breadth-first search of Pathfinder.cpp is right in every arena: its *)
(* map is the distance to the nearest goal, and the bot's move leads along *)
(* a shortest way.  The invariant of the search is SearchInv.              *)
(***************************************************************************)
EXTENDS Pathfinder, FiniteSets, FiniteSetTheorems, WellFoundedInduction, TLAPS

-----------------------------------------------------------------------------
(* The invariant.                                                          *)

IsVisited(cell) == cell \in Cells /\ dijkstraMap[cell] \in 0..Unvisited - 1

Typed ==
    /\ goals \in Seq(Cells)
    /\ impassable \subseteq Cells
    /\ dijkstraMap \in [Cells -> -1..Unvisited]
    /\ toVisit \in Seq(Cells)

Marked ==
    \A cell \in Cells :
        /\ dijkstraMap[cell] = -1 <=> cell \in impassable
        /\ dijkstraMap[cell] = 0 <=> cell \in Goals

\* The distance of the i-th cell of the queue.
Level(i) == dijkstraMap[toVisit[i]]

\* The queue is sorted by distance, and no cell is more than one step further away than
\* the head of the queue.
Sorted ==
    /\ \A i \in 1..Len(toVisit) : IsVisited(toVisit[i])
    /\ \A i, j \in 1..Len(toVisit) : i <= j => Level(i) <= Level(j)
    /\ toVisit # << >> =>
          \A cell \in Cells : IsVisited(cell) => dijkstraMap[cell] <= Level(1) + 1

\* Whoever has been reached has been reached from a neighbour one step nearer.
Linked ==
    \A cell \in Cells :
        IsVisited(cell) /\ dijkstraMap[cell] > 0 =>
            \E d \in Directions :
                /\ IsVisited(Step(cell, d))
                /\ dijkstraMap[Step(cell, d)] = dijkstraMap[cell] - 1

\* The neighbours of a cell have been reached, on the way over this cell or a shorter one.
Settled(cell) ==
    \A d \in Directions :
        Step(cell, d) \in Free =>
            /\ IsVisited(Step(cell, d))
            /\ dijkstraMap[Step(cell, d)] <= dijkstraMap[cell] + 1

\* What has been reached is settled or waits in the queue.
Closed ==
    \A cell \in Cells :
        IsVisited(cell) =>
            (\E i \in 1..Len(toVisit) : toVisit[i] = cell) \/ Settled(cell)

SearchInv == Typed /\ Marked /\ Sorted /\ Linked /\ Closed

-----------------------------------------------------------------------------
(* Numbers, cells and sequences.                                           *)

LEMMA LeastNumber ==
    ASSUME NEW S, S \subseteq Nat, S # {}
    PROVE  \E m \in S : \A n \in S : m <= n
  <1>1. PICK m \in S : \A n \in S : ~(<<n, m>> \in OpToRel(<, Nat))
    BY NatLessThanWellFounded, WFMin
  <1>2. \A n \in S : ~(n < m)
    BY <1>1 DEF OpToRel
  <1>. QED BY <1>2, SMT

LEMMA UnvisitedPositive == Unvisited \in Nat /\ Unvisited >= 4
  <1>1. \A w, h \in Nat : w >= 2 /\ h >= 2 => w * h \in Nat /\ w * h >= 4
    <2> SUFFICES ASSUME NEW w \in Nat, NEW h \in Nat, w >= 2, h >= 2
                 PROVE  w * h \in Nat /\ w * h >= 4
      OBVIOUS
    <2>1. w * h >= 2 * h
      BY SMT
    <2>. QED BY <2>1, SMT
  <1>. QED BY <1>1, ArenaAssumption DEF Unvisited

\* A step can be taken back.
LEMMA StepBack ==
    ASSUME NEW cell \in Cells, NEW d \in Directions
    PROVE  /\ Opposite(d) \in Directions
           /\ Step(Step(cell, d), Opposite(d)) = cell
  <1>1. cell = <<cell[1], cell[2]>> /\ cell[1] \in Int /\ cell[2] \in Int
    BY ArenaAssumption DEF Cells
  <1>2. Opposite(d) \in Directions
    BY DEF Directions, Opposite
  <1>3. CASE d = "^"
    <2>1. Step(cell, d) = <<cell[1], cell[2] - 1>> /\ Opposite(d) = "v"
      BY <1>3 DEF Step, Opposite
    <2>2. \A c : Step(c, "v") = <<c[1], c[2] + 1>>
      BY DEF Step
    <2>3. Step(Step(cell, d), Opposite(d)) = <<cell[1], (cell[2] - 1) + 1>>
      BY <2>1, <2>2
    <2>4. cell[1] = cell[1] /\ (cell[2] - 1) + 1 = cell[2]
      BY <1>1, SMT
    <2>. QED BY <1>1, <1>2, <2>3, <2>4
  <1>4. CASE d = "v"
    <2>1. Step(cell, d) = <<cell[1], cell[2] + 1>> /\ Opposite(d) = "^"
      BY <1>4 DEF Step, Opposite
    <2>2. \A c : Step(c, "^") = <<c[1], c[2] - 1>>
      BY DEF Step
    <2>3. Step(Step(cell, d), Opposite(d)) = <<cell[1], (cell[2] + 1) - 1>>
      BY <2>1, <2>2
    <2>4. cell[1] = cell[1] /\ (cell[2] + 1) - 1 = cell[2]
      BY <1>1, SMT
    <2>. QED BY <1>1, <1>2, <2>3, <2>4
  <1>5. CASE d = "<"
    <2>1. Step(cell, d) = <<cell[1] - 1, cell[2]>> /\ Opposite(d) = ">"
      BY <1>5 DEF Step, Opposite
    <2>2. \A c : Step(c, ">") = <<c[1] + 1, c[2]>>
      BY DEF Step
    <2>3. Step(Step(cell, d), Opposite(d)) = <<(cell[1] - 1) + 1, cell[2]>>
      BY <2>1, <2>2
    <2>4. (cell[1] - 1) + 1 = cell[1] /\ cell[2] = cell[2]
      BY <1>1, SMT
    <2>. QED BY <1>1, <1>2, <2>3, <2>4
  <1>6. CASE d = ">"
    <2>1. Step(cell, d) = <<cell[1] + 1, cell[2]>> /\ Opposite(d) = "<"
      BY <1>6 DEF Step, Opposite
    <2>2. \A c : Step(c, "<") = <<c[1] - 1, c[2]>>
      BY DEF Step
    <2>3. Step(Step(cell, d), Opposite(d)) = <<(cell[1] + 1) - 1, cell[2]>>
      BY <2>1, <2>2
    <2>4. (cell[1] + 1) - 1 = cell[1] /\ cell[2] = cell[2]
      BY <1>1, SMT
    <2>. QED BY <1>1, <1>2, <2>3, <2>4
  <1>. QED BY <1>2, <1>3, <1>4, <1>5, <1>6 DEF Directions

LEMMA CellsFinite == IsFiniteSet(Cells) /\ Cardinality(Cells) = Unvisited
  <1>1. /\ IsFiniteSet(1..Width) /\ Cardinality(1..Width) = Width
        /\ IsFiniteSet(1..Height) /\ Cardinality(1..Height) = Height
    <2>1. 1 \in Int /\ Width \in Int /\ Height \in Int
      BY ArenaAssumption
    <2>2. /\ IsFiniteSet(1..Width) /\ IsFiniteSet(1..Height)
          /\ Cardinality(1..Width) = IF 1 > Width THEN 0 ELSE Width - 1 + 1
          /\ Cardinality(1..Height) = IF 1 > Height THEN 0 ELSE Height - 1 + 1
      BY <2>1, FS_Interval
    <2>. QED BY <2>2, ArenaAssumption, SMT
  <1>2. /\ IsFiniteSet((1..Width) \X (1..Height))
        /\ Cardinality((1..Width) \X (1..Height))
              = Cardinality(1..Width) * Cardinality(1..Height)
    BY <1>1, FS_Product, Zenon
  <1>. QED BY <1>1, <1>2, Zenon DEF Cells, Unvisited

Elements(s) == {s[i] : i \in 1..Len(s)}

LEMMA ConcatElements ==
    ASSUME NEW S, NEW s \in Seq(S), NEW t \in Seq(S)
    PROVE  s \o t \in Seq(S) /\ Elements(s \o t) = Elements(s) \cup Elements(t)
  <1>1. /\ s \o t \in Seq(S) /\ Len(s \o t) = Len(s) + Len(t)
        /\ \A i \in 1..Len(s) + Len(t) :
              (s \o t)[i] = IF i <= Len(s) THEN s[i] ELSE t[i - Len(s)]
    BY SMT
  <1>2. Elements(s \o t) \subseteq Elements(s) \cup Elements(t)
    BY <1>1, SMT DEF Elements
  <1>3. Elements(s) \subseteq Elements(s \o t)
    BY <1>1, SMT DEF Elements
  <1>4. ASSUME NEW j \in 1..Len(t) PROVE t[j] \in Elements(s \o t)
    <2>1. j + Len(s) \in 1..Len(s) + Len(t) /\ (s \o t)[j + Len(s)] = t[j]
      BY <1>1, SMT
    <2>. QED BY <1>1, <2>1 DEF Elements
  <1>. QED BY <1>1, <1>2, <1>3, <1>4 DEF Elements

-----------------------------------------------------------------------------
(* INT_MAX is out of reach: a cell at distance n has cells at the distances *)
(* 0 to n - 1 behind it, all of them different.                            *)

LEMMA LevelsReached ==
    ASSUME Typed, Linked, NEW cell, IsVisited(cell),
           NEW k \in 0..dijkstraMap[cell]
    PROVE  \E c \in Cells : dijkstraMap[c] = k
  <1> DEFINE n == dijkstraMap[cell]
             missing == {j \in 0..n : \A c \in Cells : dijkstraMap[c] # n - j}
  <1>1. n \in 0..Unvisited - 1 /\ cell \in Cells
    BY DEF IsVisited
  <1>2. SUFFICES ASSUME missing # {}
                 PROVE  FALSE
    <2>1. n - k \in 0..n /\ n - (n - k) = k
      BY <1>1, UnvisitedPositive, SMT
    <2>2. missing = {} => n - k \notin missing
      OBVIOUS
    <2>. QED BY <2>1, <2>2
  <1>3. PICK j \in missing : \A i \in missing : j <= i
    <2>1. missing \subseteq Nat
      BY <1>1, SMT
    <2>. QED BY <1>2, <2>1, LeastNumber
  <1>4. j \in 0..n /\ n - 0 = n
    BY <1>1, UnvisitedPositive, SMT
  <1>5. j # 0
    BY <1>1, <1>3, <1>4
  <1>6. j - 1 \in 0..n /\ ~(j <= j - 1) /\ n - (j - 1) > 0 /\ n - (j - 1) - 1 = n - j
        /\ n - (j - 1) \in 0..Unvisited - 1
    BY <1>1, <1>4, <1>5, UnvisitedPositive, SMT
  <1>7. j - 1 \notin missing
    BY <1>3, <1>6
  <1>8. PICK c \in Cells : dijkstraMap[c] = n - (j - 1)
    BY <1>6, <1>7
  <1>9. IsVisited(c) /\ dijkstraMap[c] > 0
    BY <1>6, <1>8 DEF IsVisited
  <1>10. PICK d \in Directions : IsVisited(Step(c, d)) /\ dijkstraMap[Step(c, d)] = dijkstraMap[c] - 1
    BY <1>9 DEF Linked
  <1>11. Step(c, d) \in Cells /\ dijkstraMap[Step(c, d)] = n - j
    BY <1>6, <1>8, <1>10 DEF IsVisited
  <1>. QED BY <1>3, <1>11

LEMMA LevelsFit ==
    ASSUME Typed, Linked, NEW cell, IsVisited(cell),
           NEW other \in Cells, dijkstraMap[other] = Unvisited
    PROVE  dijkstraMap[cell] + 1 \in 1..Unvisited - 1
  <1> DEFINE n == dijkstraMap[cell]
             at == [k \in 0..n + 1 |->
                      IF k <= n THEN CHOOSE c \in Cells : dijkstraMap[c] = k ELSE other]
  <1>1. n \in Nat /\ n < Unvisited
    BY UnvisitedPositive, SMT DEF IsVisited
  <1>2. \A k \in 0..n : at[k] \in Cells /\ dijkstraMap[at[k]] = k
    <2> SUFFICES ASSUME NEW k \in 0..n
                 PROVE  at[k] \in Cells /\ dijkstraMap[at[k]] = k
      OBVIOUS
    <2>1. k \in 0..n + 1 /\ k <= n
      BY <1>1, SMT
    <2>2. \E c \in Cells : dijkstraMap[c] = k
      BY LevelsReached
    <2>. QED BY <2>1, <2>2
  <1>3. n + 1 \in 0..n + 1 /\ ~(n + 1 <= n)
    BY <1>1, SMT
  <1>4. at[n + 1] = other
    BY <1>3
  <1>5. \A k \in 0..n + 1 : k \in 0..n \/ k = n + 1
    BY <1>1, SMT
  <1>6. at \in [0..n + 1 -> Cells]
    <2>1. at = [k \in 0..n + 1 |-> at[k]]
      OBVIOUS
    <2> HIDE DEF at
    <2>2. \A k \in 0..n + 1 : at[k] \in Cells
      BY <1>2, <1>4, <1>5
    <2>. QED BY <2>1, <2>2
  <1>7. \A k, l \in 0..n + 1 : at[k] = at[l] => k = l
    <2> HIDE DEF at
    <2>1. \A k \in 0..n : k # Unvisited
      BY <1>1, SMT
    <2>. QED BY <1>2, <1>4, <1>5, <2>1
  <1>8. at \in Injection(0..n + 1, Cells)
    <2> HIDE DEF at
    <2>. QED BY <1>6, <1>7 DEF Injection, IsInjective
  <1>9. Cardinality(0..n + 1) <= Unvisited
    BY <1>8, CellsFinite, FS_Injection
  <1>10. Cardinality(0..n + 1) = n + 2
    <2>1. 0 \in Int /\ n + 1 \in Int
      BY <1>1, SMT
    <2>2. Cardinality(0..n + 1) = IF 0 > n + 1 THEN 0 ELSE (n + 1) - 0 + 1
      BY <2>1, FS_Interval
    <2>. QED BY <1>1, <2>2, SMT
  <1>. QED BY <1>1, <1>9, <1>10, UnvisitedPositive, SMT

-----------------------------------------------------------------------------
(* Where the search starts.                                                *)

LEMMA InitSearch == Init => SearchInv
  <1> SUFFICES ASSUME NEW n \in 0..MaxGoals, NEW food \in [1..n -> Cells],
                      NEW bodies \in SUBSET Cells, RebuildMap(food, bodies)
               PROVE  SearchInv
    BY DEF Init
  <1>1. n \in Nat /\ 0 \in 0..Unvisited - 1 /\ Unvisited \notin 0..Unvisited - 1
        /\ -1 \notin 0..Unvisited - 1 /\ 0 # -1 /\ Unvisited # 0 /\ Unvisited # -1
        /\ {-1, 0, Unvisited} \subseteq -1..Unvisited
    BY GoalsAssumption, UnvisitedPositive, SMT
  <1>2. food \in Seq(Cells) /\ Len(food) = n
    BY <1>1, SMT
  <1>3. goals = food /\ impassable = bodies
        /\ dijkstraMap = PopulateFoodAndPlayers(food, bodies)
    BY DEF RebuildMap
  <1>4. \A cell \in Cells :
          /\ cell \in impassable => dijkstraMap[cell] = -1
          /\ cell \in Goals => dijkstraMap[cell] = 0
          /\ cell \notin impassable /\ cell \notin Goals => dijkstraMap[cell] = Unvisited
    <2>1. \A cell \in Cells :
            dijkstraMap[cell] =
              CASE cell \in bodies -> -1
                [] cell \notin bodies /\ (\E i \in 1..Len(food) : food[i] = cell) -> 0
                [] OTHER -> Unvisited
      BY <1>3 DEF PopulateFoodAndPlayers
    <2>2. \A cell \in Cells :
            cell \in Goals <=> cell \notin bodies /\ \E i \in 1..Len(food) : food[i] = cell
      BY <1>3 DEF Goals, Free
    <2>. QED BY <1>3, <2>1, <2>2
  <1>5. dijkstraMap \in [Cells -> -1..Unvisited]
    <2>1. \A cell \in Cells : dijkstraMap[cell] \in {-1, 0, Unvisited}
      BY <1>4
    <2>2. dijkstraMap = [cell \in Cells |-> dijkstraMap[cell]]
      BY <1>3 DEF PopulateFoodAndPlayers
    <2>. QED BY <1>1, <2>1, <2>2
  <1>6. Marked
    <2>1. Goals \cap impassable = {}
      BY DEF Goals, Free
    <2>. QED BY <1>1, <1>4, <2>1 DEF Marked
  <1>7. \A cell : IsVisited(cell) => cell \in Goals /\ dijkstraMap[cell] = 0
    BY <1>1, <1>4 DEF IsVisited
  <1>8. PICK order \in Ascending(Seeds(dijkstraMap, food), Len(food)) :
          toVisit = [i \in DOMAIN order |-> food[order[i]]]
    BY DEF RebuildMap
  <1>9. PICK m \in 0..n : order \in [1..m -> Seeds(dijkstraMap, food)]
    BY <1>2, <1>8 DEF Ascending
  <1>10. /\ toVisit \in Seq(Cells) /\ Len(toVisit) = m
         /\ \A i \in 1..m : toVisit[i] = food[order[i]] /\ order[i] \in Seeds(dijkstraMap, food)
    <2>1. DOMAIN order = 1..m /\ m \in Nat
      BY <1>1, <1>9, SMT
    <2>2. \A i \in 1..m : order[i] \in 1..n
      BY <1>2, <1>9 DEF Seeds
    <2>3. toVisit \in [1..m -> Cells]
      BY <1>8, <2>1, <2>2
    <2>4. toVisit \in Seq(Cells) /\ Len(toVisit) = m
      BY <2>1, <2>3, SMT
    <2>. QED BY <1>8, <1>9, <2>1, <2>4
  <1>11. Typed
    BY <1>2, <1>3, <1>5, <1>10 DEF Typed
  <1>12. \A i \in 1..Len(toVisit) : IsVisited(toVisit[i]) /\ Level(i) = 0
    <2>1. \A i \in 1..m : food[order[i]] \in Cells /\ dijkstraMap[food[order[i]]] = 0
      BY <1>2, <1>10 DEF Seeds
    <2>. QED BY <1>1, <1>10, <2>1 DEF IsVisited, Level
  <1>13. Sorted
    <2>1. \A i, j \in 1..Len(toVisit) : Level(i) <= Level(j)
      BY <1>12, SMT
    <2>2. ASSUME toVisit # << >> PROVE Level(1) = 0
      <3>1. 1 \in 1..Len(toVisit)
        BY <1>10, <2>2, SMT
      <3>. QED BY <1>12, <3>1
    <2>3. toVisit # << >> =>
             \A cell \in Cells : IsVisited(cell) => dijkstraMap[cell] <= Level(1) + 1
      BY <1>7, <2>2, SMT
    <2>. QED BY <1>12, <2>1, <2>3 DEF Sorted
  <1>14. Linked
    BY <1>7, SMT DEF Linked
  <1>15. Closed
    <2> SUFFICES ASSUME NEW cell \in Cells, IsVisited(cell)
                 PROVE  \E i \in 1..Len(toVisit) : toVisit[i] = cell
      BY DEF Closed
    <2>1. PICK i \in 1..Len(food) : food[i] = cell
      BY <1>3, <1>7 DEF Goals
    <2>2. i \in Seeds(dijkstraMap, food)
      BY <1>7, <2>1 DEF Seeds
    <2>3. PICK j \in DOMAIN order : order[j] = i
      BY <1>8, <2>2 DEF Ascending
    <2>. QED BY <1>9, <1>10, <2>1, <2>3
  <1>. QED BY <1>6, <1>11, <1>13, <1>14, <1>15 DEF SearchInv

-----------------------------------------------------------------------------
(* A turn of the search.                                                   *)

\* The cells one step away from a cell.
Neighbours(cell) == {Step(cell, d) : d \in Directions}

LEMMA NewNeighboursAre ==
    ASSUME NEW here
    PROVE  /\ NewNeighbours(here) \in Seq(Cells)
           /\ Elements(NewNeighbours(here)) = {cell \in Neighbours(here) : IsNew(cell)}
  <1> DEFINE new(d) == NewNeighbour(Step(here, d))
             found(d) == {cell \in {Step(here, d)} : IsNew(cell)}
  <1>1. ASSUME NEW d
        PROVE  new(d) \in Seq(Cells) /\ Elements(new(d)) = found(d)
    <2>1. CASE IsNew(Step(here, d))
      <3>1. new(d) = <<Step(here, d)>> /\ Step(here, d) \in Cells
        BY <2>1 DEF NewNeighbour, IsNew
      <3>2. Len(new(d)) = 1 /\ new(d)[1] = Step(here, d) /\ new(d) \in Seq(Cells)
        BY <3>1
      <3>3. 1..1 = {1}
        BY SMT
      <3>. QED BY <2>1, <3>2, <3>3 DEF Elements
    <2>2. CASE ~IsNew(Step(here, d))
      <3>1. new(d) = << >>
        BY <2>2 DEF NewNeighbour
      <3>2. Len(<< >>) = 0 /\ << >> \in Seq(Cells) /\ 1..0 = {}
        BY SMT
      <3>. QED BY <2>2, <3>1, <3>2 DEF Elements
    <2>. QED BY <2>1, <2>2
  <1>2. NewNeighbours(here) = ((new("^") \o new("v")) \o new("<")) \o new(">")
    BY DEF NewNeighbours, Order
  <1> HIDE DEF new, found
  <1> DEFINE two == new("^") \o new("v")
             three == two \o new("<")
  <1>3. two \in Seq(Cells) /\ Elements(two) = found("^") \cup found("v")
    BY <1>1, ConcatElements
  <1> HIDE DEF two
  <1>4. three \in Seq(Cells) /\ Elements(three) = Elements(two) \cup found("<")
    BY <1>1, <1>3, ConcatElements
  <1> HIDE DEF three
  <1>5. /\ NewNeighbours(here) \in Seq(Cells)
        /\ Elements(NewNeighbours(here)) = Elements(three) \cup found(">")
    <2>1. NewNeighbours(here) = three \o new(">")
      BY <1>2 DEF two, three
    <2>. QED BY <1>1, <1>4, <2>1, ConcatElements
  <1>6. {cell \in Neighbours(here) : IsNew(cell)}
          = found("^") \cup found("v") \cup found("<") \cup found(">")
    BY DEF Neighbours, Directions, found
  <1>. QED BY <1>3, <1>4, <1>5, <1>6

LEMMA VisitSearch ==
    ASSUME SearchInv, VisitNext
    PROVE  SearchInv'
  <1>0. PICK here : here = toVisit[1]
    OBVIOUS
  <1> DEFINE rest == Tail(toVisit)
             new == NewNeighbours(here)
             reached(cell) == IsNew(cell) /\ cell \in Neighbours(here)
  <1>1. /\ goals' = goals /\ impassable' = impassable
        /\ toVisit # << >>
        /\ toVisit' = rest \o new
        /\ dijkstraMap' = [cell \in Cells |-> IF reached(cell) THEN Level(1) + 1
                                              ELSE dijkstraMap[cell]]
    <2>1. Head(toVisit) = here
      BY <1>0 DEF SearchInv, Typed
    <2>2. \A cell : (\E d \in Directions : cell = Step(here, d)) <=> cell \in Neighbours(here)
      BY DEF Neighbours
    <2>. QED BY <1>0, <2>1, <2>2 DEF VisitNext, QueueAfter, Level
  <1>2. /\ toVisit \in Seq(Cells) /\ Len(toVisit) \in Nat /\ 1 \in 1..Len(toVisit)
        /\ rest \in Seq(Cells) /\ Len(rest) = Len(toVisit) - 1
        /\ \A i \in 1..Len(rest) : rest[i] = toVisit[i + 1] /\ i + 1 \in 1..Len(toVisit)
    BY <1>1, SMT DEF SearchInv, Typed
  <1>3. new \in Seq(Cells) /\ Elements(new) = {cell \in Neighbours(here) : IsNew(cell)}
    BY NewNeighboursAre
  <1> HIDE DEF rest, new
  <1>4. /\ toVisit' \in Seq(Cells) /\ Len(toVisit') = Len(rest) + Len(new)
        /\ \A i \in 1..Len(toVisit') :
              toVisit'[i] = IF i <= Len(rest) THEN rest[i] ELSE new[i - Len(rest)]
    BY <1>1, <1>2, <1>3, SMT
  <1>5. IsVisited(here) /\ Level(1) = dijkstraMap[here]
    BY <1>0, <1>2 DEF SearchInv, Sorted, Level
  <1>6. \A cell : reached(cell) => /\ cell \in Cells /\ dijkstraMap[cell] = Unvisited
                                   /\ ~IsVisited(cell) /\ Level(1) + 1 \in 1..Unvisited - 1
    <2> SUFFICES ASSUME NEW cell, reached(cell)
                 PROVE  /\ cell \in Cells /\ dijkstraMap[cell] = Unvisited
                        /\ ~IsVisited(cell) /\ Level(1) + 1 \in 1..Unvisited - 1
      OBVIOUS
    <2>1. cell \in Cells /\ dijkstraMap[cell] = Unvisited
      BY DEF IsNew
    <2>2. Level(1) + 1 \in 1..Unvisited - 1
      BY <1>5, <2>1, LevelsFit DEF SearchInv
    <2>3. ~(Unvisited \in 0..Unvisited - 1)
      BY UnvisitedPositive, SMT
    <2>. QED BY <2>1, <2>2, <2>3 DEF IsVisited
  \* What has been reached keeps its value, and what is reached now is one step behind.
  <1>7. \A cell \in Cells :
          IF reached(cell) THEN dijkstraMap'[cell] = Level(1) + 1 /\ IsVisited(cell)'
          ELSE dijkstraMap'[cell] = dijkstraMap[cell] /\ (IsVisited(cell)' <=> IsVisited(cell))
    <2> SUFFICES ASSUME NEW cell \in Cells
                 PROVE  IF reached(cell)
                          THEN dijkstraMap'[cell] = Level(1) + 1 /\ IsVisited(cell)'
                          ELSE /\ dijkstraMap'[cell] = dijkstraMap[cell]
                               /\ IsVisited(cell)' <=> IsVisited(cell)
      OBVIOUS
    <2>1. Unvisited' = Unvisited /\ Cells' = Cells /\ 1..Unvisited - 1 \subseteq 0..Unvisited - 1
      BY SMT DEF Unvisited, Cells
    <2>2. reached(cell) => dijkstraMap'[cell] = Level(1) + 1
      BY <1>1
    <2>3. ~reached(cell) => dijkstraMap'[cell] = dijkstraMap[cell]
      BY <1>1
    <2> HIDE DEF reached
    <2>. QED BY <1>6, <2>1, <2>2, <2>3 DEF IsVisited
  <1>8. \A cell : IsVisited(cell) => ~reached(cell) /\ cell \in Cells
    BY <1>6 DEF IsVisited
  <1>9. \A cell : IsVisited(cell)' => cell \in Cells /\ (IsVisited(cell) \/ reached(cell))
    <2>1. \A cell : IsVisited(cell)' => cell \in Cells
      BY DEF IsVisited
    <2>. QED BY <1>7, <2>1
  <1> HIDE DEF reached
  <1>10. \A cell \in Cells : IsVisited(cell) => dijkstraMap[cell] \in Nat /\ dijkstraMap[cell] <= Level(1) + 1
    <2>1. \A cell \in Cells : IsVisited(cell) => dijkstraMap[cell] \in Nat
      BY UnvisitedPositive, SMT DEF IsVisited
    <2>. QED BY <1>1, <2>1 DEF SearchInv, Sorted
  <1>11. Level(1) \in Nat
    BY <1>5, <1>10 DEF IsVisited
  <1>12. Typed'
    <2>1. \A cell \in Cells : dijkstraMap'[cell] \in -1..Unvisited
      <3> SUFFICES ASSUME NEW cell \in Cells
                   PROVE  dijkstraMap'[cell] \in -1..Unvisited
        OBVIOUS
      <3>1. dijkstraMap[cell] \in -1..Unvisited
        BY DEF SearchInv, Typed
      <3>2. reached(cell) => Level(1) + 1 \in -1..Unvisited
        BY <1>6, UnvisitedPositive, SMT
      <3>. QED BY <1>7, <3>1, <3>2
    <2>2. dijkstraMap' = [cell \in Cells |-> dijkstraMap'[cell]]
      BY <1>1
    <2>3. dijkstraMap' \in [Cells -> -1..Unvisited]
      BY <2>1, <2>2
    <2>. QED BY <1>1, <1>4, <2>3 DEF SearchInv, Typed, Cells, Unvisited
  <1>13. Marked'
    <2> SUFFICES ASSUME NEW cell \in Cells
                 PROVE  /\ dijkstraMap'[cell] = -1 <=> cell \in impassable
                        /\ dijkstraMap'[cell] = 0 <=> cell \in Goals
      BY <1>1 DEF Marked, Goals, Free, Cells
    <2>1. dijkstraMap[cell] = -1 <=> cell \in impassable
      BY DEF SearchInv, Marked
    <2>2. dijkstraMap[cell] = 0 <=> cell \in Goals
      BY DEF SearchInv, Marked
    <2>3. ASSUME reached(cell)
          PROVE  dijkstraMap[cell] \notin {-1, 0} /\ dijkstraMap'[cell] \notin {-1, 0}
      <3>1. dijkstraMap[cell] = Unvisited /\ dijkstraMap'[cell] = Level(1) + 1
        BY <1>6, <1>7, <2>3
      <3>. QED BY <1>11, <3>1, UnvisitedPositive, SMT
    <2>. QED BY <1>7, <2>1, <2>2, <2>3
  <1>14. Sorted'
    <2>1. ASSUME NEW i \in 1..Len(toVisit'), i <= Len(rest)
          PROVE  /\ i + 1 \in 1..Len(toVisit)
                 /\ IsVisited(toVisit[i])' /\ Level(i)' = Level(i + 1)
      <3>1. toVisit'[i] = toVisit[i + 1] /\ i + 1 \in 1..Len(toVisit)
        BY <1>2, <1>4, <2>1, SMT
      <3>2. IsVisited(toVisit[i + 1])
        BY <3>1 DEF SearchInv, Sorted
      <3>. QED BY <1>7, <1>8, <3>1, <3>2 DEF Level
    <2>2. ASSUME NEW i \in 1..Len(toVisit'), ~(i <= Len(rest))
          PROVE  IsVisited(toVisit[i])' /\ Level(i)' = Level(1) + 1
      <3>1. toVisit'[i] = new[i - Len(rest)] /\ i - Len(rest) \in 1..Len(new)
        BY <1>2, <1>3, <1>4, <2>2, SMT
      <3>2. reached(toVisit'[i])
        BY <1>3, <3>1 DEF Elements, reached
      <3>. QED BY <1>6, <1>7, <3>2 DEF Level
    <2>3. \A i, j \in 1..Len(toVisit) : i <= j => Level(i) <= Level(j)
      BY DEF SearchInv, Sorted
    <2>4. \A i \in 1..Len(toVisit) : Level(i) \in Nat /\ Level(i) <= Level(1) + 1
      BY <1>8, <1>10 DEF SearchInv, Sorted, Level
    <2>5. \A i, j \in 1..Len(toVisit') : i <= j => Level(i)' <= Level(j)'
      <3> SUFFICES ASSUME NEW i \in 1..Len(toVisit'), NEW j \in 1..Len(toVisit'), i <= j
                   PROVE  Level(i)' <= Level(j)'
        OBVIOUS
      <3>1. i \in Int /\ j \in Int /\ Len(rest) \in Int
        BY <1>2, SMT
      <3>2. CASE j <= Len(rest)
        <4>1. i <= Len(rest) /\ i + 1 <= j + 1
          BY <3>1, <3>2, SMT
        <4>2. Level(i)' = Level(i + 1) /\ i + 1 \in 1..Len(toVisit)
          BY <2>1, <4>1
        <4>3. Level(j)' = Level(j + 1) /\ j + 1 \in 1..Len(toVisit)
          BY <2>1, <3>2
        <4>. QED BY <2>3, <4>1, <4>2, <4>3
      <3>3. CASE ~(j <= Len(rest)) /\ i <= Len(rest)
        BY <2>1, <2>2, <2>4, <3>3
      <3>4. CASE ~(j <= Len(rest)) /\ ~(i <= Len(rest))
        BY <1>11, <2>2, <3>4, SMT
      <3>. QED BY <3>2, <3>3, <3>4
    <2>6. ASSUME toVisit' # << >>, NEW cell \in Cells, IsVisited(cell)'
          PROVE  dijkstraMap'[cell] <= Level(1)' + 1
      <3>1. 1 \in 1..Len(toVisit')
        BY <1>4, <2>6, SMT
      <3>2. Level(1)' \in Nat /\ Level(1) <= Level(1)'
        <4>1. CASE 1 <= Len(rest)
          <5>1. Level(1)' = Level(1 + 1) /\ 1 + 1 \in 1..Len(toVisit)
            BY <2>1, <3>1, <4>1
          <5>2. Level(1) <= Level(1 + 1)
            BY <1>2, <2>3, <5>1, SMT
          <5>. QED BY <2>4, <5>1, <5>2
        <4>2. CASE ~(1 <= Len(rest))
          BY <1>11, <2>2, <3>1, <4>2, SMT
        <4>. QED BY <4>1, <4>2
      <3>3. dijkstraMap'[cell] \in Nat /\ dijkstraMap'[cell] <= Level(1) + 1
        BY <1>7, <1>9, <1>10, <1>11, <2>6, SMT
      <3>. QED BY <1>11, <3>2, <3>3, SMT
    <2>7. \A i \in 1..Len(toVisit') : IsVisited(toVisit[i])'
      BY <2>1, <2>2
    <2>. QED BY <2>5, <2>6, <2>7 DEF Sorted, Cells
  <1>15. Linked'
    <2> SUFFICES ASSUME NEW cell \in Cells, IsVisited(cell)', dijkstraMap'[cell] > 0
                 PROVE  \E d \in Directions :
                           /\ IsVisited(Step(cell, d))'
                           /\ dijkstraMap'[Step(cell, d)] = dijkstraMap'[cell] - 1
      BY DEF Linked, Cells
    <2>1. CASE reached(cell)
      <3>1. PICK d \in Directions : cell = Step(here, d)
        BY <2>1 DEF reached, Neighbours
      <3>2. Opposite(d) \in Directions /\ Step(cell, Opposite(d)) = here
        BY <1>5, <1>8, <3>1, StepBack
      <3>3. IsVisited(here)' /\ dijkstraMap'[here] = Level(1)
        BY <1>5, <1>7, <1>8
      <3>4. dijkstraMap'[cell] - 1 = Level(1)
        BY <1>7, <1>11, <2>1, SMT
      <3>. QED BY <3>2, <3>3, <3>4
    <2>2. CASE ~reached(cell)
      <3>1. IsVisited(cell) /\ dijkstraMap[cell] > 0 /\ dijkstraMap'[cell] = dijkstraMap[cell]
        BY <1>7, <2>2
      <3>2. PICK d \in Directions : /\ IsVisited(Step(cell, d))
                                    /\ dijkstraMap[Step(cell, d)] = dijkstraMap[cell] - 1
        BY <3>1 DEF SearchInv, Linked
      <3>. QED BY <1>7, <1>8, <3>1, <3>2
    <2>. QED BY <2>1, <2>2
  <1>16. Closed'
    <2> SUFFICES ASSUME NEW cell \in Cells, IsVisited(cell)',
                        \A i \in 1..Len(toVisit') : toVisit'[i] # cell,
                        NEW d \in Directions, Step(cell, d) \in Free
                 PROVE  /\ IsVisited(Step(cell, d))'
                        /\ dijkstraMap'[Step(cell, d)] <= dijkstraMap'[cell] + 1
      BY <1>1 DEF Closed, Settled, Free, Cells
    <2>1. ~reached(cell)
      <3> SUFFICES ASSUME reached(cell)
                   PROVE  FALSE
        OBVIOUS
      <3>1. PICK k \in 1..Len(new) : new[k] = cell
        BY <1>3 DEF Elements, reached
      <3>2. /\ Len(rest) + k \in 1..Len(toVisit')
            /\ ~(Len(rest) + k <= Len(rest)) /\ (Len(rest) + k) - Len(rest) = k
        BY <1>2, <1>3, <1>4, SMT
      <3>. QED BY <1>4, <3>1, <3>2
    <2>2. IsVisited(cell) /\ dijkstraMap'[cell] = dijkstraMap[cell]
      BY <1>7, <2>1
    <2>3. Step(cell, d) \in Cells /\ Step(cell, d) \notin impassable
      BY DEF Free
    <2>4. CASE cell = here
      <3>1. Step(cell, d) \in Neighbours(here)
        BY <2>4 DEF Neighbours
      <3>2. CASE reached(Step(cell, d))
        BY <1>5, <1>7, <1>11, <2>2, <2>3, <2>4, <3>2, SMT
      <3>3. CASE ~reached(Step(cell, d))
        <4>1. dijkstraMap[Step(cell, d)] # Unvisited
          BY <2>3, <3>1, <3>3 DEF reached, IsNew
        <4>2. dijkstraMap[Step(cell, d)] # -1 /\ dijkstraMap[Step(cell, d)] \in -1..Unvisited
          BY <2>3 DEF SearchInv, Typed, Marked
        <4>3. IsVisited(Step(cell, d))
          BY <2>3, <4>1, <4>2, UnvisitedPositive, SMT DEF IsVisited
        <4>. QED BY <1>5, <1>7, <1>10, <2>2, <2>3, <2>4, <3>3, <4>3
      <3>. QED BY <3>2, <3>3
    <2>5. CASE cell # here
      <3>1. \A i \in 1..Len(toVisit) : toVisit[i] # cell
        <4> SUFFICES ASSUME NEW i \in 1..Len(toVisit), toVisit[i] = cell
                     PROVE  FALSE
          OBVIOUS
        <4>1. i # 1
          BY <1>0, <2>5
        <4>2. i - 1 \in 1..Len(rest) /\ (i - 1) + 1 = i /\ i - 1 \in 1..Len(toVisit') /\ i - 1 <= Len(rest)
          BY <1>2, <1>3, <1>4, <4>1, SMT
        <4>. QED BY <1>2, <1>4, <4>2
      <3>2. IsVisited(Step(cell, d)) /\ dijkstraMap[Step(cell, d)] <= dijkstraMap[cell] + 1
        BY <2>2, <3>1 DEF SearchInv, Closed, Settled
      <3>. QED BY <1>7, <1>8, <2>2, <3>2
    <2>. QED BY <2>4, <2>5
  <1>. QED BY <1>12, <1>13, <1>14, <1>15, <1>16 DEF SearchInv

LEMMA SearchAlways == Spec => []SearchInv
  <1>1. SearchInv /\ [Next]_vars => SearchInv'
    <2> SUFFICES ASSUME SearchInv, [Next]_vars
                 PROVE  SearchInv'
      OBVIOUS
    <2>1. CASE VisitNext
      BY <2>1, VisitSearch
    <2>2. CASE UNCHANGED vars
      BY <2>2 DEF vars, SearchInv, Typed, Marked, Sorted, Linked, Closed, Settled, Level,
                  IsVisited, Goals, Free, Cells, Unvisited
    <2>. QED BY <2>1, <2>2 DEF Next
  <1>. QED BY InitSearch, <1>1, PTL DEF Spec

-----------------------------------------------------------------------------
(* The reference.  Within is defined by recursion: that there is a function *)
(* that meets its equation is a theorem, by induction on its domain.       *)

LEMMA WithinUpTo ==
    ASSUME NEW n \in Nat
    PROVE  \E f : f = [m \in 0..n |-> IF m = 0 THEN Goals ELSE Spread(f[m - 1])]
  <1> DEFINE Unfolds(f, k) == f = [m \in 0..k |-> IF m = 0 THEN Goals ELSE Spread(f[m - 1])]
             bad == {k \in Nat : \A f : ~Unfolds(f, k)}
  <1>1. SUFFICES ASSUME bad # {}
                 PROVE  FALSE
    OBVIOUS
  <1>2. PICK k \in bad : \A j \in bad : k <= j
    <2>1. bad \subseteq Nat
      OBVIOUS
    <2> HIDE DEF bad
    <2>. QED BY <1>1, <2>1, LeastNumber
  <1>3. k # 0
    <2>1. 0..0 = {0}
      BY SMT
    <2>2. Unfolds([m \in 0..0 |-> Goals], 0)
      BY <2>1
    <2>. QED BY <2>2
  <1>4. k - 1 \in Nat /\ ~(k <= k - 1)
    BY <1>3, SMT
  <1>5. PICK f : Unfolds(f, k - 1)
    <2>1. k - 1 \notin bad
      <3> HIDE DEF bad
      <3>. QED BY <1>2, <1>4, Zenon
    <2> HIDE DEF Unfolds
    <2>. QED BY <1>4, <2>1, Zenon
  <1> DEFINE g == [m \in 0..k |-> IF m = k THEN Spread(f[k - 1]) ELSE f[m]]
  <1>6. ASSUME NEW m \in 0..k
        PROVE  g[m] = IF m = 0 THEN Goals ELSE Spread(g[m - 1])
    <2>1. CASE m = k
      <3>1. k - 1 \in 0..k /\ k - 1 # k /\ k \in 0..k
        BY <1>4, SMT
      <3>. QED BY <1>3, <2>1, <3>1
    <2>2. CASE m # k
      <3>1. m \in 0..k - 1 /\ (m # 0 => m - 1 \in 0..k /\ m - 1 # k)
        BY <1>4, <2>2, SMT
      <3>2. f[m] = IF m = 0 THEN Goals ELSE Spread(f[m - 1])
        BY <1>5, <3>1
      <3>. QED BY <2>2, <3>1, <3>2
    <2>. QED BY <2>1, <2>2
  <1>7. Unfolds(g, k)
    BY <1>6
  <1>. QED BY <1>2, <1>7

LEMMA WithinUnfolds ==
    ASSUME NEW n \in 0..Unvisited
    PROVE  Within[n] = IF n = 0 THEN Goals ELSE Spread(Within[n - 1])
  <1>1. \E f : f = [m \in 0..Unvisited |-> IF m = 0 THEN Goals ELSE Spread(f[m - 1])]
    BY UnvisitedPositive, WithinUpTo
  <1>2. Within = [m \in 0..Unvisited |-> IF m = 0 THEN Goals ELSE Spread(Within[m - 1])]
    BY <1>1, Zenon DEF Within
  <1>. QED BY <1>2

LEMMA SpreadIs ==
    ASSUME NEW cells, cells \subseteq Free
    PROVE  \A cell : cell \in Spread(cells) <=>
              \/ cell \in cells
              \/ cell \in Free /\ \E near \in cells, d \in Directions : cell = Step(near, d)
  <1>1. "?" \notin Directions
    BY DEF Directions
  <1>2. \A cell \in cells : Walk(cell, "?") = cell
    BY <1>1 DEF Walk
  <1>3. \A cell, d : Walk(cell, d) = cell \/ (d \in Directions /\ Walk(cell, d) = Step(cell, d)
                                               /\ Walk(cell, d) \in Free)
    BY DEF Walk
  <1>4. \A cell, d : d \in Directions /\ Step(cell, d) \in Free => Walk(cell, d) = Step(cell, d)
    BY DEF Walk
  <1>5. ASSUME NEW cell, cell \in Spread(cells)
        PROVE  \/ cell \in cells
               \/ cell \in Free /\ \E near \in cells, d \in Directions : cell = Step(near, d)
    <2>1. PICK near \in cells, d \in Directions \cup {"?"} : cell = Walk(near, d)
      BY <1>5 DEF Spread
    <2>. QED BY <1>3, <2>1
  <1>6. \A cell \in cells : cell \in Spread(cells)
    BY <1>2 DEF Spread
  <1>7. ASSUME NEW near \in cells, NEW d \in Directions, Step(near, d) \in Free
        PROVE  Step(near, d) \in Spread(cells)
    BY <1>4, <1>7 DEF Spread
  <1>. QED BY <1>5, <1>6, <1>7

\* What is within n steps of a goal is what the search has given at most n.
LEMMA WithinIsReached ==
    ASSUME SearchInv, toVisit = << >>, NEW n \in 0..Unvisited
    PROVE  \A cell : cell \in Within[n] <=> IsVisited(cell) /\ dijkstraMap[cell] <= n
  <1> DEFINE Right(k) == \A cell : cell \in Within[k] <=> IsVisited(cell) /\ dijkstraMap[cell] <= k
             wrong == {k \in 0..Unvisited : ~Right(k)}
  <1>1. SUFFICES ASSUME wrong # {}
                 PROVE  FALSE
    OBVIOUS
  <1>2. PICK k \in wrong : \A j \in wrong : k <= j
    <2>1. wrong \subseteq Nat
      BY UnvisitedPositive, SMT
    <2> HIDE DEF wrong
    <2>. QED BY <1>1, <2>1, LeastNumber
  <1>3. k \in 0..Unvisited /\ k \in Nat
    BY UnvisitedPositive, SMT
  <1>4. \A cell : IsVisited(cell) => /\ cell \in Free /\ cell \in Cells
                                     /\ dijkstraMap[cell] \in Nat
                                     /\ dijkstraMap[cell] <= Unvisited - 1
    <2> SUFFICES ASSUME NEW cell, IsVisited(cell)
                 PROVE  /\ cell \in Free /\ cell \in Cells
                        /\ dijkstraMap[cell] \in Nat /\ dijkstraMap[cell] <= Unvisited - 1
      OBVIOUS
    <2>1. /\ cell \in Cells /\ dijkstraMap[cell] \in Nat /\ dijkstraMap[cell] # -1
          /\ dijkstraMap[cell] <= Unvisited - 1
      BY UnvisitedPositive, SMT DEF IsVisited
    <2>. QED BY <2>1 DEF Free, SearchInv, Marked
  <1>5. CASE k = 0
    <2>1. Within[k] = Goals
      BY <1>3, <1>5, WithinUnfolds
    <2>2. \A cell : IsVisited(cell) /\ dijkstraMap[cell] <= 0 <=> cell \in Cells /\ dijkstraMap[cell] = 0
      <3>1. 0 \in 0..Unvisited - 1
        BY UnvisitedPositive, SMT
      <3>2. \A cell : IsVisited(cell) /\ dijkstraMap[cell] <= 0 => cell \in Cells /\ dijkstraMap[cell] = 0
        BY <1>4, SMT
      <3>. QED BY <3>1, <3>2 DEF IsVisited
    <2>3. Goals \subseteq Cells
      BY DEF Goals, Free
    <2>4. Right(k)
      BY <1>5, <2>1, <2>2, <2>3 DEF SearchInv, Marked
    <2>. QED BY <1>2, <2>4
  <1>6. CASE k # 0
    <2>1. k - 1 \in 0..Unvisited /\ ~(k <= k - 1)
      BY <1>3, <1>6, UnvisitedPositive, SMT
    <2>2. Right(k - 1)
      BY <1>2, <2>1
    <2>3. Within[k] = Spread(Within[k - 1])
      BY <1>3, <1>6, WithinUnfolds
    <2>4. \A cell : cell \in Within[k] <=>
             \/ cell \in Within[k - 1]
             \/ cell \in Free /\ \E near \in Within[k - 1], d \in Directions : cell = Step(near, d)
      <3>1. Within[k - 1] \subseteq Free
        BY <1>4, <2>2
      <3>. QED BY <2>3, <3>1, SpreadIs
    <2>5. ASSUME NEW cell, cell \in Within[k]
          PROVE  IsVisited(cell) /\ dijkstraMap[cell] <= k
      <3>1. CASE cell \in Within[k - 1]
        BY <1>3, <1>4, <2>2, <3>1, SMT
      <3>2. CASE cell \in Free /\ \E near \in Within[k - 1], d \in Directions : cell = Step(near, d)
        <4>1. PICK near \in Within[k - 1], d \in Directions : cell = Step(near, d)
          BY <3>2
        <4>2. IsVisited(near) /\ dijkstraMap[near] <= k - 1
          BY <2>2
        <4>3. \A i \in 1..Len(toVisit) : FALSE
          BY SMT
        <4>4. Settled(near)
          BY <1>4, <4>2, <4>3 DEF SearchInv, Closed
        <4>5. IsVisited(cell) /\ dijkstraMap[cell] <= dijkstraMap[near] + 1
          BY <3>2, <4>1, <4>4 DEF Settled
        <4>. QED BY <1>3, <1>4, <4>2, <4>5, SMT
      <3>. QED BY <2>4, <2>5, <3>1, <3>2
    <2>6. ASSUME NEW cell, IsVisited(cell), dijkstraMap[cell] <= k
          PROVE  cell \in Within[k]
      <3>1. CASE dijkstraMap[cell] <= k - 1
        BY <2>2, <2>4, <2>6, <3>1
      <3>2. CASE ~(dijkstraMap[cell] <= k - 1)
        <4>1. cell \in Cells /\ cell \in Free /\ dijkstraMap[cell] = k /\ k > 0
          BY <1>3, <1>4, <1>6, <2>6, <3>2, SMT
        <4>2. PICK d \in Directions : /\ IsVisited(Step(cell, d))
                                      /\ dijkstraMap[Step(cell, d)] = dijkstraMap[cell] - 1
          BY <2>6, <4>1 DEF SearchInv, Linked
        <4>3. k - 1 <= k - 1
          BY <1>3, SMT
        <4>4. Step(cell, d) \in Within[k - 1]
          BY <2>2, <4>1, <4>2, <4>3
        <4>5. Opposite(d) \in Directions /\ Step(Step(cell, d), Opposite(d)) = cell
          BY <4>1, StepBack
        <4>. QED BY <2>4, <4>1, <4>4, <4>5
      <3>. QED BY <3>1, <3>2
    <2>7. Right(k)
      BY <2>5, <2>6
    <2>. QED BY <1>2, <2>7
  <1>. QED BY <1>5, <1>6

LEMMA MapWhenDone ==
    ASSUME SearchInv
    PROVE  MapIsDistance
  <1> SUFFICES ASSUME toVisit = << >>
               PROVE  dijkstraMap = Distances
    BY DEF MapIsDistance
  <1> DEFINE within == [n \in 0..Unvisited |-> Within[n]]
             distance(cell) ==
               CASE cell \in impassable -> -1
                 [] cell \in within[Unvisited] ->
                      CHOOSE n \in 0..Unvisited :
                         cell \in within[n] /\ (n = 0 \/ cell \notin within[n - 1])
                 [] OTHER -> Unvisited
  <1>1. \A n \in 0..Unvisited : \A cell :
           cell \in within[n] <=> IsVisited(cell) /\ dijkstraMap[cell] <= n
    BY WithinIsReached
  <1>2. Distances = [cell \in Cells |-> distance(cell)]
    BY DEF Distances
  <1>3. Unvisited \in 0..Unvisited
    BY UnvisitedPositive, SMT
  <1> HIDE DEF within
  <1>4. ASSUME NEW cell \in Cells
        PROVE  dijkstraMap[cell] = distance(cell)
    <2>1. dijkstraMap[cell] \in -1..Unvisited /\ (dijkstraMap[cell] = -1 <=> cell \in impassable)
      BY DEF SearchInv, Typed, Marked
    <2>2. CASE cell \in impassable
      <3>1. ~IsVisited(cell)
        BY <2>1, <2>2, UnvisitedPositive, SMT DEF IsVisited
      <3>2. cell \notin within[Unvisited]
        BY <1>1, <1>3, <3>1
      <3>. QED BY <2>1, <2>2, <3>2
    <2>3. CASE cell \notin impassable /\ IsVisited(cell)
      <3> DEFINE P(n) == cell \in within[n] /\ (n = 0 \/ cell \notin within[n - 1])
      <3>1. dijkstraMap[cell] \in 0..Unvisited /\ dijkstraMap[cell] <= Unvisited
        BY <2>1, <2>3, UnvisitedPositive, SMT DEF IsVisited
      <3>2. \A n \in 0..Unvisited : P(n) <=> n = dijkstraMap[cell]
        <4> SUFFICES ASSUME NEW n \in 0..Unvisited
                     PROVE  P(n) <=> n = dijkstraMap[cell]
          OBVIOUS
        <4>1. n # 0 => n - 1 \in 0..Unvisited
          BY UnvisitedPositive, SMT
        <4>2. P(n) <=> dijkstraMap[cell] <= n /\ (n = 0 \/ ~(dijkstraMap[cell] <= n - 1))
          BY <1>1, <2>3, <4>1
        <4>. QED BY <3>1, <4>2, UnvisitedPositive, SMT
      <3>3. (CHOOSE n \in 0..Unvisited : P(n)) = dijkstraMap[cell]
        <4> HIDE DEF P
        <4>. QED BY <3>1, <3>2
      <3>4. cell \in within[Unvisited]
        BY <1>1, <1>3, <2>3, <3>1
      <3>5. distance(cell) = CHOOSE n \in 0..Unvisited : P(n)
        BY <2>3, <3>4
      <3>. QED BY <3>3, <3>5
    <2>4. CASE cell \notin impassable /\ ~IsVisited(cell)
      <3>1. cell \notin within[Unvisited]
        BY <1>1, <1>3, <2>4
      <3>2. dijkstraMap[cell] = Unvisited
        BY <2>1, <2>4, UnvisitedPositive, SMT DEF IsVisited
      <3>. QED BY <2>4, <3>1, <3>2
    <2>. QED BY <2>2, <2>3, <2>4
  <1> HIDE DEF distance
  <1>. QED BY <1>2, <1>4 DEF SearchInv, Typed

-----------------------------------------------------------------------------
(* The move.                                                               *)

LEMMA Ranks == Rank("^") = 1 /\ Rank("v") = 2 /\ Rank("<") = 3 /\ Rank(">") = 4
  <1>1. Order[1] = "^" /\ Order[2] = "v" /\ Order[3] = "<" /\ Order[4] = ">"
    BY DEF Order
  <1>2. \A i \in 1..4 : i = 1 \/ i = 2 \/ i = 3 \/ i = 4
    BY SMT
  <1>3. 1 \in 1..4 /\ 2 \in 1..4 /\ 3 \in 1..4 /\ 4 \in 1..4
    BY SMT
  <1>4. \A i \in 1..4 : /\ Order[i] = "^" <=> i = 1
                        /\ Order[i] = "v" <=> i = 2
                        /\ Order[i] = "<" <=> i = 3
                        /\ Order[i] = ">" <=> i = 4
    BY <1>1, <1>2
  <1>5. (CHOOSE i \in 1..4 : Order[i] = "^") = 1
    BY <1>3, <1>4
  <1>6. (CHOOSE i \in 1..4 : Order[i] = "v") = 2
    BY <1>3, <1>4
  <1>7. (CHOOSE i \in 1..4 : Order[i] = "<") = 3
    BY <1>3, <1>4
  <1>8. (CHOOSE i \in 1..4 : Order[i] = ">") = 4
    BY <1>3, <1>4
  <1>. QED BY <1>5, <1>6, <1>7, <1>8 DEF Rank

\* A cell may be entered when its value is not negative, which is when it is free.
LEMMA CandidatesAreOpen ==
    ASSUME SearchInv, NEW head, NEW direction
    PROVE  Candidates(head, direction) =
              {d \in Directions \ {Opposite(direction)} : Step(head, d) \in Free}
  <1>1. \A cell \in Cells : dijkstraMap[cell] >= 0 <=> cell \in Free
    <2>1. \A cell \in Cells : dijkstraMap[cell] \in -1..Unvisited
      BY DEF SearchInv, Typed
    <2>2. \A cell \in Cells : dijkstraMap[cell] >= 0 <=> dijkstraMap[cell] # -1
      BY <2>1, UnvisitedPositive, SMT
    <2>. QED BY <2>2 DEF SearchInv, Marked, Free
  <1>2. Free \subseteq Cells
    BY DEF Free
  <1>. QED BY <1>1, <1>2 DEF Candidates

\* A best candidate exists: the least of four times the value plus the rank.
LEMMA BestMove ==
    ASSUME SearchInv, NEW head, NEW direction, Candidates(head, direction) # {}
    PROVE  /\ CalculateNextMove(head, direction) \in Candidates(head, direction)
           /\ \A d \in Candidates(head, direction) :
                 dijkstraMap[Step(head, CalculateNextMove(head, direction))]
                     <= dijkstraMap[Step(head, d)]
  <1> DEFINE moves == Candidates(head, direction)
             value(d) == dijkstraMap[Step(head, d)]
             weight(d) == 4 * value(d) + Rank(d)
             weights == {weight(d) : d \in moves}
  <1>1. \A d \in moves : value(d) \in Nat /\ Rank(d) \in 1..4
    <2>1. \A d \in moves : value(d) \in -1..Unvisited /\ value(d) >= 0
      BY DEF Candidates, SearchInv, Typed
    <2>2. \A d \in moves : d \in Directions
      BY DEF Candidates
    <2>3. \A d \in Directions : Rank(d) \in 1..4
      BY Ranks, SMT DEF Directions
    <2>. QED BY <2>1, <2>2, <2>3, UnvisitedPositive, SMT
  <1> HIDE DEF value, moves
  <1>2. weights \subseteq Nat /\ weights # {}
    <2>1. \A d \in moves : weight(d) \in Nat
      BY <1>1, SMT
    <2>2. moves # {}
      BY DEF moves
    <2>. QED BY <2>1, <2>2
  <1>3. PICK w \in weights : \A v \in weights : w <= v
    <2> HIDE DEF weights
    <2>. QED BY <1>2, LeastNumber
  <1>4. PICK d \in moves : w = weight(d)
    OBVIOUS
  <1>5. \A e \in moves : weight(d) <= weight(e)
    BY <1>3, <1>4
  <1>6. \A e, f \in moves : IsPreferred(head, e, f) <=>
           value(e) < value(f) \/ (value(e) = value(f) /\ Rank(e) <= Rank(f))
    BY DEF IsPreferred, value
  <1>7. \A e \in moves : value(d) < value(e) \/ (value(d) = value(e) /\ Rank(d) <= Rank(e))
    BY <1>1, <1>5, SMT
  <1>8. \A e \in moves : IsPreferred(head, d, e)
    BY <1>6, <1>7
  <1>9. CalculateNextMove(head, direction)
           = CHOOSE f \in moves : \A e \in moves : IsPreferred(head, f, e)
    BY DEF CalculateNextMove, moves
  <1>10. PICK best : best = CalculateNextMove(head, direction)
    OBVIOUS
  <1>11. best \in moves /\ \A e \in moves : IsPreferred(head, best, e)
    BY <1>8, <1>9, <1>10
  <1>12. \A e \in moves : value(best) <= value(e)
    BY <1>1, <1>6, <1>11, SMT
  <1>. QED BY <1>10, <1>11, <1>12 DEF value, moves

LEMMA MovesAvoidBodies ==
    ASSUME SearchInv
    PROVE  AvoidsBodies
  <1> SUFFICES ASSUME NEW head \in impassable, NEW direction \in Directions,
                      CalculateNextMove(head, direction) # "?"
               PROVE  /\ CalculateNextMove(head, direction) # Opposite(direction)
                      /\ Step(head, CalculateNextMove(head, direction)) \in Free
    BY DEF AvoidsBodies
  <1>1. Candidates(head, direction) # {}
    BY DEF CalculateNextMove
  <1>2. CalculateNextMove(head, direction) \in Candidates(head, direction)
    BY <1>1, BestMove
  <1>. QED BY <1>2, CandidatesAreOpen

LEMMA MovesTakeShortestWay ==
    ASSUME SearchInv
    PROVE  TakesShortestWay
  <1> SUFFICES ASSUME toVisit = << >>, NEW head \in impassable, NEW direction \in Directions
               PROVE  LET open == {d \in Directions \ {Opposite(direction)} : Step(head, d) \in Free}
                          move == CalculateNextMove(head, direction)
                      IN IF open = {} THEN move = "?"
                         ELSE \A d \in open : Distances[Step(head, move)] <= Distances[Step(head, d)]
    BY DEF TakesShortestWay
  <1> DEFINE open == {d \in Directions \ {Opposite(direction)} : Step(head, d) \in Free}
  <1>1. open = Candidates(head, direction)
    BY CandidatesAreOpen
  <1>2. dijkstraMap = Distances
    BY MapWhenDone DEF MapIsDistance
  <1>3. open = {} => CalculateNextMove(head, direction) = "?"
    BY <1>1 DEF CalculateNextMove
  <1>4. open # {} => \A d \in open :
           dijkstraMap[Step(head, CalculateNextMove(head, direction))] <= dijkstraMap[Step(head, d)]
    BY <1>1, BestMove
  <1>. QED BY <1>2, <1>3, <1>4

-----------------------------------------------------------------------------
(* The theorems.                                                           *)

\* rebuildMap() computes, in every arena and for every placement of food, boosts and
\* bodies, the distance of each free cell to the nearest goal, INT_MAX where none can
\* be reached: the queue order, the early marking and the four neighbours are right.
THEOREM MapIsDistanceAlways == Spec => []MapIsDistance
  BY SearchAlways, MapWhenDone, PTL

\* calculateNextMove() never leads into a wall, a body or the own neck, whatever part of
\* the map has been computed.
THEOREM AvoidsBodiesAlways == Spec => []AvoidsBodies
  BY SearchAlways, MovesAvoidBodies, PTL

\* On a finished map calculateNextMove() takes the first step of a shortest way, and
\* gives up only when no free cell is next to the head.
THEOREM TakesShortestWayAlways == Spec => []TakesShortestWay
  BY SearchAlways, MovesTakeShortestWay, PTL
=============================================================================
