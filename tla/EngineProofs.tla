---------------------------- MODULE EngineProofs ----------------------------
(***************************************************************************)
(* The engine, for every arena, every set of clients, every timing and     *)
(* every order of the hash map.                                            *)
(*                                                                         *)
(* The engine itself: the invariant Inv with the types, the necks and the  *)
(* arena, then the clocks, the high score, and who ends up where after a   *)
(* collision check.                                                        *)
(*                                                                         *)
(* Above it: the last broadcast is current whenever the loop polls, and    *)
(* the engine with its broadcasts (GameFeed) takes only steps that module  *)
(* Scoreboard allows.                                                      *)
(*                                                                         *)
(* Below it: the collision check as the code runs it (CollisionLoop),      *)
(* looking at one player after another and destroying one victim after     *)
(* another, comes to what CheckCollisions does at once.                    *)
(***************************************************************************)
EXTENDS GameFeed, CollisionLoop, FiniteSetTheorems, WellFoundedInduction, TLAPS

-----------------------------------------------------------------------------
(* The grid.                                                               *)

\* One step from a cell of the arena ends in the arena or on its walls.
LEMMA StepFromArena ==
    ASSUME NEW cell \in Cells, NEW d \in Directions
    PROVE  Step(cell, d) \in CellsAndWalls
  BY ArenaAssumption, SMT DEF Cells, CellsAndWalls, Directions, Step

LEMMA CellsType == Cells \subseteq CellsAndWalls
  BY ArenaAssumption, SMT DEF Cells, CellsAndWalls

LEMMA OppositeType ==
    ASSUME NEW d \in Directions
    PROVE  Opposite(d) \in Directions
  BY DEF Directions, Opposite

\* A step is undone by the opposite step only.
LEMMA StepBack ==
    ASSUME NEW cell \in Cells, NEW d \in Directions, NEW e \in Directions
    PROVE  /\ Step(cell, d) # cell
           /\ Step(Step(cell, d), Opposite(d)) = cell
           /\ e # Opposite(d) => Step(cell, e) # Step(cell, Opposite(d))
  BY ArenaAssumption, SMT DEF Cells, Directions, Step, Opposite

-----------------------------------------------------------------------------
(* The linked list.                                                        *)

\* A move keeps the length, puts the head on the new cell and every other segment
\* where its predecessor was.
LEMMA MoveToShape ==
    ASSUME NEW segs \in Seq(CellsAndWalls), segs # << >>, NEW cell \in CellsAndWalls,
           NEW new, new = MoveTo(segs, cell)
    PROVE  /\ new \in Seq(CellsAndWalls)
           /\ Len(new) = Len(segs)
           /\ new[1] = cell
           /\ \A i \in 2..Len(segs) : new[i] = segs[i - 1]
           /\ new # << >>
  <1>1. Len(segs) \in Nat /\ Len(segs) >= 1
    BY SMT
  <1>2. \A i \in 1..Len(segs) : (IF i = 1 THEN cell ELSE segs[i - 1]) \in CellsAndWalls
    BY <1>1, SMT
  <1>3. new \in [1..Len(segs) -> CellsAndWalls]
    BY <1>2 DEF MoveTo
  <1>4. new \in Seq(CellsAndWalls) /\ Len(new) = Len(segs)
    BY <1>1, <1>3, SMT
  <1>5. new[1] = cell
    BY <1>1, SMT DEF MoveTo
  <1>6. \A i \in 2..Len(segs) : new[i] = segs[i - 1]
    BY <1>1, SMT DEF MoveTo
  <1>. QED BY <1>1, <1>4, <1>5, <1>6, SMT

\* Growing appends one segment and disturbs none.
LEMMA GrowShape ==
    ASSUME NEW segs \in Seq(CellsAndWalls), segs # << >>, NEW tailPrev \in CellsAndWalls,
           NEW new, new = Grow(segs, tailPrev)
    PROVE  /\ new \in Seq(CellsAndWalls)
           /\ Len(new) = Len(segs) + 1
           /\ new[Len(segs) + 1] = tailPrev
           /\ \A i \in 1..Len(segs) : new[i] = segs[i]
           /\ new # << >>
  BY SMT DEF Grow

-----------------------------------------------------------------------------
(* One snake.  The inductive invariant is Inv; PlayerOK is what it says of *)
(* a snake whatever the phase.                                             *)

Inv == TypeOK /\ BodiesInArena /\ NecksBehind

PlayerOK(p) ==
    /\ p \in PlayerType
    /\ p.segs # << >>
    /\ BodyCells(p.segs) \subseteq Cells
    /\ NeckBehind(p)

HeadIn(p) == HeadOf(p.segs) \in Cells

LEMMA PlayerFields ==
    ASSUME NEW p \in PlayerType
    PROVE  /\ p.segs \in Seq(CellsAndWalls)
           /\ p.tailPrev \in Cells
           /\ p.direction \in Directions
           /\ p.nextDirection \in Directions
           /\ p.score \in Nat
           /\ p.movementFrequency \in {MovementFrequency, BoostedMovementFrequency}
           /\ p.nextMoveIn \in 0..MovementFrequency
           /\ p.boosted \in BOOLEAN
           /\ p.boostLeft \in 0..BoostDuration
  BY DEF PlayerType

LEMMA ElapseOK ==
    ASSUME NEW p, PlayerOK(p), NEW elapsed \in Nat
    PROVE  /\ PlayerOK(Elapse(p, elapsed))
           /\ HeadOf(Elapse(p, elapsed).segs) = HeadOf(p.segs)
  <1> DEFINE q == Elapse(p, elapsed)
  <1>1. p \in PlayerType
    BY DEF PlayerOK
  <1>2. /\ Remaining(p.nextMoveIn, elapsed) \in 0..MovementFrequency
        /\ Remaining(p.boostLeft, elapsed) \in 0..BoostDuration
    BY <1>1, PlayerFields, TimeAssumption, SMT DEF Remaining
  <1>3. q \in PlayerType
    BY <1>1, <1>2 DEF PlayerType, Elapse
  <1>4. /\ q.segs = p.segs /\ q.tailPrev = p.tailPrev
        /\ q.direction = p.direction /\ q.nextDirection = p.nextDirection
    BY <1>1 DEF PlayerType, Elapse
  <1>. QED BY <1>3, <1>4 DEF PlayerOK, NeckBehind

LEMMA NewPlayerOK ==
    ASSUME NEW cell \in SpawnCells
    PROVE  PlayerOK(NewPlayer(cell)) /\ HeadIn(NewPlayer(cell))
  <1> DEFINE q == NewPlayer(cell)
  <1>1. cell \in Cells /\ cell \in CellsAndWalls
    BY ArenaAssumption, SpawnAssumption, SMT DEF SpawnCells, Cells, CellsAndWalls
  <1>2. q \in PlayerType
    BY <1>1, TimeAssumption, SMT DEF PlayerType, NewPlayer, Directions
  <1>3. /\ q.segs = <<cell>> /\ q.tailPrev = cell
        /\ q.direction = "^" /\ q.nextDirection = "^"
    BY DEF NewPlayer
  <1>4. Len(<<cell>>) = 1 /\ HeadOf(<<cell>>) = cell /\ BodyCells(<<cell>>) = {}
    BY SMT DEF HeadOf, BodyCells
  <1>5. "^" # Opposite("^")
    BY DEF Opposite
  <1>6. <<cell>> # << >>
    BY SMT
  <1>. QED BY <1>1, <1>2, <1>3, <1>4, <1>5, <1>6 DEF PlayerOK, NeckBehind, HeadIn

LEMMA TurnOK ==
    ASSUME NEW p, PlayerOK(p), NEW key
    PROVE  PlayerOK(Turn(p, key)) /\ Turn(p, key).segs = p.segs
  <1> SUFFICES ASSUME key \in Directions, p.direction # Opposite(key)
               PROVE  PlayerOK([p EXCEPT !.nextDirection = key])
                      /\ [p EXCEPT !.nextDirection = key].segs = p.segs
    BY DEF Turn
  <1> DEFINE q == [p EXCEPT !.nextDirection = key]
  <1>1. p \in PlayerType
    BY DEF PlayerOK
  <1>2. q \in PlayerType
    BY <1>1 DEF PlayerType
  <1>3. /\ q.segs = p.segs /\ q.tailPrev = p.tailPrev
        /\ q.direction = p.direction /\ q.nextDirection = key
    BY <1>1 DEF PlayerType
  <1>4. key # Opposite(p.direction)
    BY <1>1, PlayerFields DEF Directions, Opposite
  <1>. QED BY <1>2, <1>3, <1>4 DEF PlayerOK, NeckBehind

LEMMA ExpireBoostOK ==
    ASSUME NEW p, PlayerOK(p)
    PROVE  /\ PlayerOK(ExpireBoost(p))
           /\ ExpireBoost(p).segs = p.segs
           /\ ExpireBoost(p).direction = p.direction
           /\ ExpireBoost(p).nextDirection = p.nextDirection
           /\ ExpireBoost(p).nextMoveIn = p.nextMoveIn
  <1> DEFINE q == [p EXCEPT !.boosted = FALSE, !.movementFrequency = MovementFrequency]
  <1>1. p \in PlayerType
    BY DEF PlayerOK
  <1>2. q \in PlayerType
    BY <1>1 DEF PlayerType
  <1>3. /\ q.segs = p.segs /\ q.tailPrev = p.tailPrev
        /\ q.direction = p.direction /\ q.nextDirection = p.nextDirection
        /\ q.nextMoveIn = p.nextMoveIn
    BY <1>1 DEF PlayerType
  <1>4. PlayerOK(q)
    BY <1>2, <1>3 DEF PlayerOK, NeckBehind
  <1>. QED BY <1>3, <1>4 DEF ExpireBoost

\* A snake with its head in the arena may step on a wall, but drags nothing there,
\* and ends up with its neck behind it.
LEMMA MoveSnakeOK ==
    ASSUME NEW p, PlayerOK(p), HeadIn(p)
    PROVE  /\ PlayerOK(MoveSnake(p))
           /\ HeadOf(MoveSnake(p).segs) = Step(HeadOf(p.segs), p.nextDirection)
           /\ Len(MoveSnake(p).segs) = Len(p.segs)
  <1> DEFINE cell == Step(HeadOf(p.segs), p.nextDirection)
             q == MoveSnake(p)
  <1>1. p \in PlayerType /\ p.segs # << >> /\ HeadOf(p.segs) \in Cells
        /\ p.segs \in Seq(CellsAndWalls) /\ p.nextDirection \in Directions
    BY PlayerFields DEF PlayerOK, HeadIn
  <1>2. cell \in CellsAndWalls
    BY <1>1, StepFromArena
  <1>3. /\ q.segs = MoveTo(p.segs, cell)
        /\ q.tailPrev = TailPrevAfterMove(p.segs)
        /\ q.direction = p.nextDirection
        /\ q.nextDirection = p.nextDirection
    BY <1>1 DEF MoveSnake, PlayerType
  <1>. HIDE DEF cell, q
  <1>4. /\ q.segs \in Seq(CellsAndWalls)
        /\ Len(q.segs) = Len(p.segs)
        /\ q.segs[1] = cell
        /\ \A i \in 2..Len(p.segs) : q.segs[i] = p.segs[i - 1]
        /\ q.segs # << >>
    <2>1. MoveTo(p.segs, cell) = q.segs
      BY <1>3
    <2>2. p.segs \in Seq(CellsAndWalls) /\ p.segs # << >> /\ cell \in CellsAndWalls
      BY <1>1, <1>2
    <2>. QED BY <2>1, <2>2, MoveToShape, Zenon
  <1>5. Len(p.segs) \in Nat /\ Len(p.segs) >= 1
    BY <1>1, SMT
  <1>6. \A i \in 1..Len(p.segs) : p.segs[i] \in Cells
    BY <1>1, <1>5, SMT DEF PlayerOK, BodyCells, HeadOf
  <1>7. q.tailPrev \in Cells
    BY <1>3, <1>5, <1>6, SMT DEF TailPrevAfterMove
  <1>8. BodyCells(q.segs) \subseteq Cells
    BY <1>4, <1>5, <1>6, SMT DEF BodyCells
  <1>9. p.movementFrequency \in 0..MovementFrequency
    BY <1>1, PlayerFields, TimeAssumption, SMT
  <1>10. q \in PlayerType
    BY <1>1, <1>3, <1>4, <1>7, <1>9 DEF PlayerType, MoveSnake, q
  <1>11. NeckBehind(q)
    <2>1. (IF Len(q.segs) > 1 THEN q.segs[2] ELSE q.tailPrev) = HeadOf(p.segs)
      <3>1. CASE ~(Len(p.segs) > 1)
        <4>0. PICK n \in Nat : n = Len(p.segs)
          BY <1>5
        <4>1. ~(n > 1) /\ n >= 1
          BY <4>0, <3>1, <1>5
        <4>2. n = 1
          BY <4>1, SMT
        <4>. QED BY <3>1, <4>0, <4>2, <1>3, <1>4 DEF TailPrevAfterMove, HeadOf
      <3>2. CASE Len(p.segs) > 1
        <4>1. 2 \in 2..Len(p.segs) /\ 2 - 1 = 1
          BY <3>2, <1>5, SMT
        <4>2. q.segs[2] = p.segs[1]
          BY <4>1, <1>4
        <4>. QED BY <3>2, <4>2, <1>4 DEF HeadOf
      <3>. QED BY <3>1, <3>2
    <2>2. Step(HeadOf(q.segs), Opposite(q.direction)) = HeadOf(p.segs)
      BY <1>1, <1>3, <1>4, StepBack DEF HeadOf, cell
    <2>3. p.nextDirection # Opposite(p.nextDirection)
      BY <1>1 DEF Directions, Opposite
    <2>. QED BY <2>1, <2>2, <2>3, <1>3 DEF NeckBehind
  <1>. QED BY <1>4, <1>8, <1>10, <1>11 DEF PlayerOK, HeadOf, q, cell

LEMMA UpdateSnakeOK ==
    ASSUME NEW p, PlayerOK(p), HeadIn(p)
    PROVE  /\ PlayerOK(UpdateSnake(p))
           /\ ~(p.nextMoveIn <= 0) => UpdateSnake(p).segs = p.segs
           /\ p.nextMoveIn <= 0 =>
                HeadOf(UpdateSnake(p).segs) = Step(HeadOf(p.segs), p.nextDirection)
  <1>1. PlayerOK(ExpireBoost(p)) /\ ExpireBoost(p).segs = p.segs
        /\ ExpireBoost(p).nextDirection = p.nextDirection
    BY ExpireBoostOK
  <1>2. HeadIn(ExpireBoost(p))
    BY <1>1 DEF HeadIn
  <1>3. /\ PlayerOK(MoveSnake(ExpireBoost(p)))
        /\ HeadOf(MoveSnake(ExpireBoost(p)).segs) = Step(HeadOf(p.segs), p.nextDirection)
    BY <1>1, <1>2, MoveSnakeOK
  <1>. QED BY <1>1, <1>3 DEF UpdateSnake

LEMMA FeedPlayerOK ==
    ASSUME NEW p, PlayerOK(p)
    PROVE  /\ PlayerOK(FeedPlayer(p))
           /\ HeadOf(FeedPlayer(p).segs) = HeadOf(p.segs)
           /\ FeedPlayer(p).score = p.score + 1
  <1> DEFINE q == FeedPlayer(p)
  <1>1. p \in PlayerType /\ p.segs # << >> /\ p.segs \in Seq(CellsAndWalls)
        /\ p.tailPrev \in Cells /\ p.score \in Nat
    BY PlayerFields DEF PlayerOK
  <1>2. p.tailPrev \in CellsAndWalls
    BY <1>1, CellsType
  <1>3. /\ q.segs = Grow(p.segs, p.tailPrev) /\ q.tailPrev = p.tailPrev
        /\ q.direction = p.direction /\ q.nextDirection = p.nextDirection
        /\ q.score = p.score + 1
    BY <1>1 DEF FeedPlayer, PlayerType
  <1>. HIDE DEF q
  <1>4. /\ q.segs \in Seq(CellsAndWalls)
        /\ Len(q.segs) = Len(p.segs) + 1
        /\ q.segs[Len(p.segs) + 1] = p.tailPrev
        /\ \A i \in 1..Len(p.segs) : q.segs[i] = p.segs[i]
        /\ q.segs # << >>
    <2>1. Grow(p.segs, p.tailPrev) = q.segs
      BY <1>3
    <2>2. p.segs \in Seq(CellsAndWalls) /\ p.segs # << >> /\ p.tailPrev \in CellsAndWalls
      BY <1>1, <1>2
    <2>. QED BY <2>1, <2>2, GrowShape, Zenon
  <1>5. Len(p.segs) \in Nat /\ Len(p.segs) >= 1
    BY <1>1, SMT
  <1>6. p.score + 1 \in Nat
    BY <1>1, SMT
  <1>7. q \in PlayerType
    BY <1>1, <1>3, <1>4, <1>6 DEF PlayerType, FeedPlayer, q
  <1>8. HeadOf(q.segs) = HeadOf(p.segs)
    BY <1>4, <1>5, SMT DEF HeadOf
  <1>9. BodyCells(q.segs) \subseteq Cells
    <2>1. \A i \in 2..Len(p.segs) : p.segs[i] \in Cells
      BY DEF PlayerOK, BodyCells
    <2>2. \A i \in 2..Len(q.segs) : q.segs[i] \in Cells
      BY <2>1, <1>1, <1>4, <1>5, SMT
    <2>. QED BY <2>2 DEF BodyCells
  <1>10. (IF Len(q.segs) > 1 THEN q.segs[2] ELSE q.tailPrev)
            = (IF Len(p.segs) > 1 THEN p.segs[2] ELSE p.tailPrev)
    BY <1>3, <1>4, <1>5, SMT
  <1>11. NeckBehind(q)
    BY <1>3, <1>8, <1>10 DEF PlayerOK, NeckBehind
  <1>. QED BY <1>3, <1>4, <1>7, <1>8, <1>9, <1>11 DEF PlayerOK, q

LEMMA BoostPlayerOK ==
    ASSUME NEW p, PlayerOK(p)
    PROVE  /\ PlayerOK(BoostPlayer(p))
           /\ BoostPlayer(p).segs = p.segs
           /\ BoostPlayer(p).score = p.score
  <1> DEFINE q == BoostPlayer(p)
  <1>1. p \in PlayerType
    BY DEF PlayerOK
  <1>2. BoostDuration \in 0..BoostDuration
    BY TimeAssumption, SMT
  <1>3. q \in PlayerType
    BY <1>1, <1>2 DEF PlayerType, BoostPlayer
  <1>4. /\ q.segs = p.segs /\ q.tailPrev = p.tailPrev /\ q.score = p.score
        /\ q.direction = p.direction /\ q.nextDirection = p.nextDirection
    BY <1>1 DEF PlayerType, BoostPlayer
  <1>. QED BY <1>3, <1>4 DEF PlayerOK, NeckBehind

LEMMA AfterCollisionOK ==
    ASSUME NEW c, PlayerOK(players[c])
    PROVE  /\ PlayerOK(AfterCollision(c))
           /\ HeadOf(AfterCollision(c).segs) = HeadCell(c)
           /\ AfterCollision(c).score \in Nat
  <1>1. players[c].score \in Nat /\ players[c].score + 1 \in Nat
    BY PlayerFields, SMT DEF PlayerOK
  <1>. QED BY <1>1, FeedPlayerOK, BoostPlayerOK DEF AfterCollision, HeadCell

-----------------------------------------------------------------------------
(* Finite sets have a first element in every total preorder: the high      *)
(* score is well defined, and so is the winner of a head-on collision.     *)

LEMMA FirstOfFinite ==
    ASSUME NEW D, IsFiniteSet(D), D # {}, NEW R,
           \A a, b \in D : <<a, b>> \in R \/ <<b, a>> \in R,
           \A a, b, c \in D : <<a, b>> \in R /\ <<b, c>> \in R => <<a, c>> \in R
    PROVE  \E m \in D : \A d \in D : <<m, d>> \in R
  <1> DEFINE HasFirst(A) == \E m \in A : \A d \in A : <<m, d>> \in R
             T == {A \in SUBSET D : A # {} /\ ~HasFirst(A)}
  <1> SUFFICES ASSUME D \in T PROVE FALSE
    OBVIOUS
  <1>1. T \subseteq FiniteSubsetsOf(D)
    BY FS_Subset DEF FiniteSubsetsOf
  <1>2. PICK A \in T : \A B \in T : <<B, A>> \notin StrictSubsetOrdering(D)
    <2> HIDE DEF T
    <2>. QED BY <1>1, FS_StrictSubsetOrderingWellFounded, WFMin
  <1>3. PICK x \in A : TRUE
    BY <1>2
  <1> DEFINE B == A \ {x}
  <1>4. B \in SUBSET D /\ A \in SUBSET D /\ <<B, A>> \in StrictSubsetOrdering(D)
    BY <1>2, <1>3 DEF StrictSubsetOrdering
  <1>5. <<x, x>> \in R
    BY <1>3, <1>4
  <1>6. CASE B = {}
    <2>1. A = {x}
      BY <1>3, <1>6
    <2>. QED BY <1>2, <1>5, <2>1
  <1>7. CASE B # {}
    <2>1. PICK m \in B : \A d \in B : <<m, d>> \in R
      BY <1>2, <1>4, <1>7
    <2>2. CASE <<m, x>> \in R
      <3>1. \A d \in A : <<m, d>> \in R
        BY <2>1, <2>2
      <3>. QED BY <3>1, <1>2, <2>1
    <2>3. CASE <<x, m>> \in R
      <3>1. \A d \in A : <<x, d>> \in R
        BY <1>3, <1>4, <1>5, <2>1, <2>3
      <3>. QED BY <3>1, <1>2, <1>3
    <2>. QED BY <1>3, <1>4, <2>1, <2>2, <2>3
  <1>. QED BY <1>6, <1>7

LEMMA GreatestValue ==
    ASSUME NEW D, IsFiniteSet(D), D # {}, NEW f, \A d \in D : f[d] \in Nat
    PROVE  \E m \in D : \A d \in D : f[d] <= f[m]
  <1> DEFINE R == {ss \in D \X D : f[ss[2]] <= f[ss[1]]}
  <1>0. \A a, b \in D : <<a, b>> \in R <=> f[b] <= f[a]
    OBVIOUS
  <1>1. \A a, b \in D : f[b] <= f[a] \/ f[a] <= f[b]
    BY SMT
  <1>2. \A a, b, c \in D : f[b] <= f[a] /\ f[c] <= f[b] => f[c] <= f[a]
    BY SMT
  <1> HIDE DEF R
  <1>3. \A a, b \in D : <<a, b>> \in R \/ <<b, a>> \in R
    BY <1>0, <1>1
  <1>4. \A a, b, c \in D : <<a, b>> \in R /\ <<b, c>> \in R => <<a, c>> \in R
    BY <1>0, <1>2
  <1>5. \E m \in D : \A d \in D : <<m, d>> \in R
    BY <1>3, <1>4, FirstOfFinite
  <1>. QED BY <1>0, <1>5

LEMMA NewHighScoreType ==
    ASSUME TypeOK, \A c \in DOMAIN players : AfterCollision(c).score \in Nat
    PROVE  /\ NewHighScore(highScore) \in ScoresSeen \cup {highScore}
           /\ \A t \in ScoresSeen \cup {highScore} : t <= NewHighScore(highScore)
           /\ NewHighScore(highScore) \in Nat
  <1> DEFINE D == DOMAIN players
             S == ScoresSeen \cup {highScore}
             f == [c \in D |-> AfterCollision(c).score]
  <1>1. S \subseteq Nat
    BY DEF ScoresSeen, TypeOK
  <1>2. \E s \in S : \A t \in S : t <= s
    <2>1. CASE D = {}
      <3>1. S = {highScore} /\ highScore \in Nat
        BY <2>1 DEF ScoresSeen, TypeOK
      <3>2. highScore <= highScore
        BY <3>1, SMT
      <3>. QED BY <3>1, <3>2
    <2>2. CASE D # {}
      <3>1. IsFiniteSet(D)
        BY FS_Subset, ClientsAssumption DEF TypeOK
      <3>2. \A d \in D : f[d] \in Nat /\ f[d] = AfterCollision(d).score
        OBVIOUS
      <3>3. PICK m \in D : \A d \in D : f[d] <= f[m]
        <4> HIDE DEF f, D
        <4>. QED BY <2>2, <3>1, <3>2, GreatestValue
      <3>4. \A t \in ScoresSeen : t <= f[m]
        BY <3>2, <3>3 DEF ScoresSeen
      <3>5. f[m] \in ScoresSeen /\ f[m] \in Nat /\ highScore \in Nat
        BY <3>2, <3>3 DEF ScoresSeen, TypeOK
      <3> HIDE DEF f
      <3>6. CASE highScore <= f[m]
        BY <3>4, <3>5, <3>6
      <3>7. CASE ~(highScore <= f[m])
        <4>1. \A t \in ScoresSeen : t <= highScore
          BY <1>1, <3>4, <3>5, <3>7, SMT
        <4>2. highScore <= highScore
          BY <3>5, SMT
        <4>. QED BY <4>1, <4>2
      <3>. QED BY <3>6, <3>7
    <2>. QED BY <2>1, <2>2
  <1>3. NewHighScore(highScore) = CHOOSE s \in S : \A t \in S : t <= s
    BY DEF NewHighScore
  <1>. HIDE DEF S
  <1>4. NewHighScore(highScore) \in S /\ \A t \in S : t <= NewHighScore(highScore)
    BY <1>2, <1>3
  <1>. QED BY <1>1, <1>4 DEF S

-----------------------------------------------------------------------------
(* The invariant is inductive.                                             *)

\* Inv, snake by snake.
SnakesOK ==
    \A c \in DOMAIN players :
        PlayerOK(players[c]) /\ (phase # "collide" => HeadIn(players[c]))

LEMMA InvSnakes == Inv => SnakesOK
  BY DEF Inv, TypeOK, BodiesInArena, NecksBehind, SnakesOK, PlayerOK, HeadIn, HeadCell

\* What is left to show of a step: its snakes, and the small variables.
SmallTypes ==
    /\ DOMAIN players \subseteq Clients
    /\ food \subseteq Cells
    /\ boosts \subseteq DropCells
    /\ \A a, b \in boosts : a = b
    /\ highScore \in Nat
    /\ phase \in Phases
    /\ stateChanged \in BOOLEAN

PlayersIsFunction == players = [c \in DOMAIN players |-> players[c]]

LEMMA SnakesInv == PlayersIsFunction /\ SnakesOK /\ SmallTypes => Inv
  <1> SUFFICES ASSUME PlayersIsFunction, SnakesOK, SmallTypes PROVE Inv
    OBVIOUS
  <1>1. players \in [DOMAIN players -> PlayerType]
    BY DEF SnakesOK, PlayerOK, PlayersIsFunction
  <1>2. TypeOK
    BY <1>1 DEF TypeOK, SmallTypes, SnakesOK, PlayerOK
  <1>3. BodiesInArena
    BY PlayerFields DEF BodiesInArena, SnakesOK, PlayerOK, HeadIn, HeadCell
  <1>4. NecksBehind
    BY DEF NecksBehind, SnakesOK, PlayerOK
  <1>. QED BY <1>2, <1>3, <1>4 DEF Inv

LEMMA InvInit == Init => Inv
  <1> SUFFICES ASSUME Init PROVE Inv
    OBVIOUS
  <1>1. DOMAIN players = {}
    BY SMT DEF Init
  <1>2. players \in [DOMAIN players -> PlayerType]
    BY <1>1, SMT DEF Init
  <1>3. TypeOK
    BY <1>1, <1>2 DEF Init, TypeOK, Phases
  <1>. QED BY <1>1, <1>3 DEF Inv, BodiesInArena, NecksBehind

LEMMA InvNext == Inv /\ [Next]_vars => Inv'
  <1> SUFFICES ASSUME Inv, [Next]_vars PROVE Inv'
    OBVIOUS
  <1>0. SnakesOK /\ TypeOK /\ SmallTypes
    BY InvSnakes DEF Inv, TypeOK, SmallTypes
  <1>1. ASSUME NEW elapsed \in 0..MaxElapsed, PollMessages(elapsed)
        PROVE  Inv'
    <2>1. elapsed \in Nat
      BY TimeAssumption, SMT
    <2>2. /\ players' = [c \in DOMAIN players |-> Elapse(players[c], elapsed)]
          /\ DOMAIN players' = DOMAIN players
          /\ phase = "poll" /\ phase' = "dispatch"
      BY <1>1 DEF PollMessages
    <2>3. \A c \in DOMAIN players : PlayerOK(players'[c]) /\ HeadIn(players'[c])
      BY <1>0, <2>1, <2>2, ElapseOK DEF SnakesOK, HeadIn
    <2>4. SnakesOK' /\ PlayersIsFunction'
      BY <2>2, <2>3 DEF SnakesOK, PlayersIsFunction
    <2>5. DropCells \subseteq Cells
      BY ArenaAssumption, SMT DEF DropCells, Cells
    <2>6. food' \subseteq Cells
      BY <1>0, <1>1, <2>5 DEF PollMessages, Replacements, SmallTypes
    <2>7. SmallTypes'
      BY <1>0, <1>1, <2>2, <2>6 DEF PollMessages, Phases, SmallTypes
    <2>. QED BY <2>4, <2>7, SnakesInv, PTL
  <1>2. ASSUME NEW c \in Clients, NEW cell \in SpawnCells, HandleClientJoin(c, cell)
        PROVE  Inv'
    <2>1. /\ players' = [d \in DOMAIN players \cup {c} |->
                           IF d \in DOMAIN players THEN players[d] ELSE NewPlayer(cell)]
          /\ DOMAIN players' = DOMAIN players \cup {c}
          /\ phase = "dispatch" /\ phase' = "dispatch"
      BY <1>2 DEF HandleClientJoin
    <2>2. \A d \in DOMAIN players' : PlayerOK(players'[d]) /\ HeadIn(players'[d])
      BY <1>0, <2>1, NewPlayerOK DEF SnakesOK
    <2>3. SnakesOK' /\ PlayersIsFunction'
      BY <2>1, <2>2 DEF SnakesOK, PlayersIsFunction
    <2>4. SmallTypes'
      BY <1>0, <1>2, <2>1 DEF HandleClientJoin, SmallTypes
    <2>. QED BY <2>3, <2>4, SnakesInv, PTL
  <1>3. ASSUME NEW c \in Clients, NEW key \in Keys, HandleClientInput(c, key)
        PROVE  Inv'
    <2>1. /\ players' = [d \in DOMAIN players |->
                           IF d = c THEN Turn(players[d], key) ELSE players[d]]
          /\ DOMAIN players' = DOMAIN players
          /\ phase = "dispatch" /\ phase' = "dispatch"
      BY <1>3 DEF HandleClientInput
    <2>2. \A d \in DOMAIN players : PlayerOK(players'[d]) /\ HeadIn(players'[d])
      BY <1>0, <2>1, TurnOK DEF SnakesOK, HeadIn
    <2>3. SnakesOK' /\ PlayersIsFunction'
      BY <2>1, <2>2 DEF SnakesOK, PlayersIsFunction
    <2>4. SmallTypes'
      BY <1>0, <1>3, <2>1 DEF HandleClientInput, SmallTypes
    <2>. QED BY <2>3, <2>4, SnakesInv, PTL
  <1>4. ASSUME NEW c \in Clients, HandleClientDisconnect(c)
        PROVE  Inv'
    <2>1. /\ players' = [d \in DOMAIN players \ {c} |-> players[d]]
          /\ DOMAIN players' = DOMAIN players \ {c}
          /\ phase # "collide" /\ phase' = "dispatch"
      BY <1>4 DEF HandleClientDisconnect
    <2>2. SnakesOK' /\ PlayersIsFunction'
      BY <1>0, <2>1 DEF SnakesOK, PlayersIsFunction
    <2>3. SmallTypes'
      BY <1>0, <1>4, <2>1 DEF HandleClientDisconnect, SmallTypes, Phases
    <2>. QED BY <2>2, <2>3, SnakesInv, PTL
  <1>5. ASSUME UpdateSnakes
        PROVE  Inv'
    <2>1. /\ players' = [c \in DOMAIN players |-> UpdateSnake(players[c])]
          /\ DOMAIN players' = DOMAIN players
          /\ phase # "collide"
      BY <1>5 DEF UpdateSnakes
    <2>2. \A c \in DOMAIN players : PlayerOK(players[c]) /\ HeadIn(players[c])
      BY <1>0, <2>1 DEF SnakesOK
    <2>3. \A c \in DOMAIN players : PlayerOK(players'[c])
      BY <2>1, <2>2, UpdateSnakeOK
    <2>4. phase' # "collide" => \A c \in DOMAIN players : HeadIn(players'[c])
      <3> SUFFICES ASSUME phase' # "collide", NEW c \in DOMAIN players
                   PROVE  HeadIn(players'[c])
        OBVIOUS
      <3>1. DueToMove = {}
        BY <1>5 DEF UpdateSnakes
      <3>2. ~(players[c].nextMoveIn <= 0)
        BY <3>1 DEF DueToMove
      <3>. QED BY <2>1, <2>2, <3>2, UpdateSnakeOK DEF HeadIn
    <2>5. SnakesOK' /\ PlayersIsFunction'
      BY <2>1, <2>3, <2>4 DEF SnakesOK, PlayersIsFunction
    <2>6. SmallTypes'
      <3>1. phase' \in Phases
        BY <1>0, <1>5 DEF UpdateSnakes, Phases, TypeOK
      <3>. QED BY <1>0, <1>5, <2>1, <3>1 DEF UpdateSnakes, SmallTypes
    <2>. QED BY <2>5, <2>6, SnakesInv, PTL
  <1>6. ASSUME CheckCollisions
        PROVE  Inv'
    <2>1. /\ players' = [c \in DOMAIN players \ Destroyed |-> AfterCollision(c)]
          /\ DOMAIN players' = DOMAIN players \ Destroyed
          /\ phase' = "broadcast"
      BY <1>6 DEF CheckCollisions
    <2>2. \A c \in DOMAIN players :
             /\ PlayerOK(AfterCollision(c))
             /\ HeadOf(AfterCollision(c).segs) = HeadCell(c)
             /\ AfterCollision(c).score \in Nat
      BY <1>0, AfterCollisionOK DEF SnakesOK
    <2>3. \A c \in DOMAIN players' : PlayerOK(players'[c]) /\ HeadIn(players'[c])
      BY <2>1, <2>2 DEF Destroyed, HitsWall, HeadIn
    <2>4. SnakesOK' /\ PlayersIsFunction'
      BY <2>1, <2>3 DEF SnakesOK, PlayersIsFunction
    <2>5. FoodFromBodies \subseteq Cells
      BY <1>0 DEF FoodFromBodies, Destroyed, SnakesOK, PlayerOK
    <2>6. food' \subseteq Cells
      BY <1>0, <1>6, <2>5 DEF CheckCollisions, SmallTypes
    <2>7. boosts' \subseteq DropCells /\ \A a, b \in boosts' : a = b
      BY <1>0, <1>6 DEF CheckCollisions, SmallTypes, BoostPlacements
    <2>8. highScore' \in Nat
      BY <1>0, <1>6, <2>2, NewHighScoreType DEF CheckCollisions
    <2>9. SmallTypes'
      BY <1>0, <1>6, <2>1, <2>6, <2>7, <2>8 DEF CheckCollisions, SmallTypes, Phases
    <2>. QED BY <2>4, <2>9, SnakesInv, PTL
  <1>7. ASSUME BroadcastGameState
        PROVE  Inv'
    <2>1. /\ players' = players /\ phase = "broadcast" /\ phase' = "poll"
      BY <1>7 DEF BroadcastGameState
    <2>2. SnakesOK' /\ PlayersIsFunction'
      BY <1>0, <2>1 DEF SnakesOK, PlayersIsFunction, TypeOK
    <2>3. SmallTypes'
      BY <1>0, <1>7, <2>1 DEF BroadcastGameState, SmallTypes, Phases
    <2>. QED BY <2>2, <2>3, SnakesInv, PTL
  <1>8. CASE UNCHANGED vars
    BY <1>8 DEF vars, Inv, TypeOK, BodiesInArena, NecksBehind, HeadCell
  <1>. QED BY <1>1, <1>2, <1>3, <1>4, <1>5, <1>6, <1>7, <1>8 DEF Next, Advance

LEMMA InvAlways == Spec => []Inv
  BY InvInit, InvNext, PTL DEF Spec

\* TypeOK: every variable keeps its type, in every arena and for every set of clients.
THEOREM TypeCorrect == Spec => []TypeOK
  <1>1. Inv => TypeOK
    BY DEF Inv
  <1>. QED BY <1>1, InvAlways, PTL

\* BodiesInArena: updateOccupiedCells() and checkCollisions() never index
\* occupiedCellsBodies out of range, and no head is outside but between the two.
THEOREM ArenaSafe == Spec => []BodiesInArena
  <1>1. Inv => BodiesInArena
    BY DEF Inv
  <1>. QED BY <1>1, InvAlways, PTL

-----------------------------------------------------------------------------
(* A snake never turns around.                                             *)

\* The heads that a step of the engine moves are those of updateSnakes(), and each
\* goes one step in its snake's pending direction.
LEMMA HeadSteps ==
    ASSUME Inv, Next, NEW c \in DOMAIN players \cap DOMAIN players'
    PROVE  \/ HeadCell(c)' = HeadCell(c)
           \/ HeadCell(c)' = Step(HeadCell(c), players[c].nextDirection)
  <1>0. SnakesOK
    BY InvSnakes
  <1>. USE DEF HeadCell
  <1>1. ASSUME NEW elapsed \in 0..MaxElapsed, PollMessages(elapsed)
        PROVE  HeadCell(c)' = HeadCell(c)
    <2>1. elapsed \in Nat
      BY TimeAssumption, SMT
    <2>. QED BY <1>0, <1>1, <2>1, ElapseOK DEF PollMessages, SnakesOK
  <1>2. ASSUME NEW d \in Clients, NEW cell \in SpawnCells, HandleClientJoin(d, cell)
        PROVE  HeadCell(c)' = HeadCell(c)
    BY <1>2 DEF HandleClientJoin
  <1>3. ASSUME NEW d \in Clients, NEW key \in Keys, HandleClientInput(d, key)
        PROVE  HeadCell(c)' = HeadCell(c)
    BY <1>0, <1>3, TurnOK DEF HandleClientInput, SnakesOK
  <1>4. ASSUME NEW d \in Clients, HandleClientDisconnect(d)
        PROVE  HeadCell(c)' = HeadCell(c)
    BY <1>4 DEF HandleClientDisconnect
  <1>5. ASSUME UpdateSnakes
        PROVE  \/ HeadCell(c)' = HeadCell(c)
               \/ HeadCell(c)' = Step(HeadCell(c), players[c].nextDirection)
    <2>1. PlayerOK(players[c]) /\ HeadIn(players[c])
      BY <1>0, <1>5 DEF SnakesOK, UpdateSnakes
    <2>2. players'[c] = UpdateSnake(players[c])
      BY <1>5 DEF UpdateSnakes
    <2>. QED BY <2>1, <2>2, UpdateSnakeOK
  <1>6. ASSUME CheckCollisions
        PROVE  HeadCell(c)' = HeadCell(c)
    BY <1>0, <1>6, AfterCollisionOK DEF CheckCollisions, SnakesOK
  <1>7. ASSUME BroadcastGameState
        PROVE  HeadCell(c)' = HeadCell(c)
    BY <1>7 DEF BroadcastGameState
  <1>. QED BY <1>1, <1>2, <1>3, <1>4, <1>5, <1>6, <1>7 DEF Next, Advance

\* NoReversal: however many inputs arrive between two moves and in whatever order,
\* no snake moves into its own neck.
THEOREM NeverReverses == Spec => NoReversal
  <1> DEFINE Forward ==
        \A c \in DOMAIN players \cap DOMAIN players' :
          Len(players[c].segs) > 1 /\ HeadCell(c)' # HeadCell(c)
             => HeadCell(c)' # players[c].segs[2]
  <1>1. Inv /\ Next => Forward
    <2> SUFFICES ASSUME Inv, Next, NEW c \in DOMAIN players \cap DOMAIN players',
                        Len(players[c].segs) > 1, HeadCell(c)' # HeadCell(c)
                 PROVE  HeadCell(c)' # players[c].segs[2]
      OBVIOUS
    <2>1. HeadCell(c)' = Step(HeadCell(c), players[c].nextDirection)
      BY HeadSteps
    <2>2. PlayerOK(players[c]) /\ players[c].direction \in Directions
          /\ players[c].nextDirection \in Directions
      BY InvSnakes, PlayerFields DEF SnakesOK, PlayerOK
    <2>3. /\ players[c].segs[2] \in {HeadCell(c), Step(HeadCell(c), Opposite(players[c].direction))}
          /\ players[c].nextDirection # Opposite(players[c].direction)
      BY <2>2 DEF PlayerOK, NeckBehind, HeadCell
    <2>4. HeadCell(c) \in Cells
      <3>1. CASE phase # "collide"
        BY <3>1, InvSnakes DEF SnakesOK, HeadIn, HeadCell
      <3>2. CASE phase = "collide"
        <4>1. CheckCollisions
          BY <3>2 DEF Next, Advance, PollMessages, HandleClientJoin, HandleClientInput,
                      HandleClientDisconnect, UpdateSnakes, BroadcastGameState
        <4>2. players'[c] = AfterCollision(c)
          BY <4>1 DEF CheckCollisions
        <4>. QED BY <4>2, <2>2, AfterCollisionOK DEF HeadCell
      <3>. QED BY <3>1, <3>2
    <2>5. Step(HeadCell(c), players[c].nextDirection)
             # Step(HeadCell(c), Opposite(players[c].direction))
      BY <2>2, <2>3, <2>4, StepBack
    <2>. QED BY <2>1, <2>3, <2>5
  <1>2. Inv /\ [Next]_vars => [Forward]_vars
    BY <1>1
  <1>. QED BY <1>2, InvAlways, PTL DEF Spec, NoReversal

-----------------------------------------------------------------------------
(* Head-on collisions.                                                     *)

\* ArrivedBefore orders the players strictly and totally.
LEMMA FirstArrival ==
    ASSUME TypeOK, NEW K \in SUBSET DOMAIN players, K # {}
    PROVE  \E m \in K : \A d \in K : /\ ~ArrivedBefore(d, m)
                                     /\ d # m => ArrivedBefore(m, d)
  <1> DEFINE t == [c \in K |-> players[c].nextMoveIn]
             R == {ss \in K \X K : ~ArrivedBefore(ss[2], ss[1])}
  <1>0. \A a, b \in K : <<a, b>> \in R <=> ~ArrivedBefore(b, a)
    OBVIOUS
  <1>1. \A c \in K : c \in Nat /\ t[c] \in Nat /\ t[c] = players[c].nextMoveIn
    <2>1. \A c \in K : c \in Nat /\ players[c].nextMoveIn \in 0..MovementFrequency
      BY ClientsAssumption, PlayerFields DEF TypeOK
    <2>2. \A c \in K : players[c].nextMoveIn \in Nat
      BY <2>1, TimeAssumption, SMT
    <2>. QED BY <2>1, <2>2
  <1>2. \A a, b \in K : ArrivedBefore(a, b) <=> t[a] < t[b] \/ (t[a] = t[b] /\ a < b)
    BY <1>1 DEF ArrivedBefore
  <1> HIDE DEF t, R
  <1>3. \A a, b \in K : ~ArrivedBefore(b, a) \/ ~ArrivedBefore(a, b)
    BY <1>1, <1>2, SMT
  <1>4. \A a, b, c \in K :
           ~ArrivedBefore(b, a) /\ ~ArrivedBefore(c, b) => ~ArrivedBefore(c, a)
    BY <1>1, <1>2, SMT
  <1>5. \A a, b \in K : ~ArrivedBefore(b, a) /\ a # b => ArrivedBefore(a, b)
    BY <1>1, <1>2, SMT
  <1>6. IsFiniteSet(K)
    BY FS_Subset, ClientsAssumption DEF TypeOK
  <1>7. PICK m \in K : \A d \in K : <<m, d>> \in R
    <2>1. \A a, b \in K : <<a, b>> \in R \/ <<b, a>> \in R
      BY <1>0, <1>3
    <2>2. \A a, b, c \in K : <<a, b>> \in R /\ <<b, c>> \in R => <<a, c>> \in R
      BY <1>0, <1>4
    <2>. QED BY <2>1, <2>2, <1>6, FirstOfFinite
  <1>. QED BY <1>0, <1>5, <1>7

\* HeadOnLeavesOne: in a cell no body lies on, however many heads meet there and
\* whenever they came, exactly one of the snakes lives on.
THEOREM HeadOnSparesOne == Spec => HeadOnLeavesOne
  <1> DEFINE OneLeft ==
        phase = "collide" =>
          \A cell \in Cells \ OccupiedByBodies :
             PlayerHeadsInCell(cell) # {} =>
                \E c \in DOMAIN players' : PlayerHeadsInCell(cell) \cap DOMAIN players' = {c}
  <1>1. Inv /\ Next => OneLeft
    <2> SUFFICES ASSUME Inv, Next, phase = "collide",
                        NEW cell \in Cells \ OccupiedByBodies,
                        PlayerHeadsInCell(cell) # {}
                 PROVE  \E c \in DOMAIN players' :
                           PlayerHeadsInCell(cell) \cap DOMAIN players' = {c}
      OBVIOUS
    <2>1. CheckCollisions
      BY DEF Next, Advance, PollMessages, HandleClientJoin, HandleClientInput,
             HandleClientDisconnect, UpdateSnakes, BroadcastGameState
    <2>2. DOMAIN players' = DOMAIN players \ Destroyed
      BY <2>1 DEF CheckCollisions
    <2> DEFINE K == PlayerHeadsInCell(cell)
    <2>3. K \in SUBSET DOMAIN players /\ \A d \in K : HeadCell(d) = cell
      BY DEF PlayerHeadsInCell
    <2>4. PICK m \in K : \A d \in K : ~ArrivedBefore(d, m) /\ (d # m => ArrivedBefore(m, d))
      BY <2>3, FirstArrival DEF Inv
    <2>5. m \notin Destroyed
      BY <2>3, <2>4 DEF Destroyed, HitsWall, HitsBody
    <2>6. \A d \in K : d # m => d \in Destroyed
      BY <2>3, <2>4 DEF Destroyed
    <2>. QED BY <2>2, <2>3, <2>5, <2>6
  <1>2. Inv /\ [Next]_vars => [OneLeft]_vars
    BY <1>1
  <1>. QED BY <1>2, InvAlways, PTL DEF Spec, HeadOnLeavesOne

-----------------------------------------------------------------------------
(* The fields of one snake that the clocks and the scores are about.       *)

\* The pace of a snake, and its clocks once updateSnakes() has run.
PaceOK(p) ==
    p.movementFrequency = IF p.boosted THEN BoostedMovementFrequency ELSE MovementFrequency

ClocksOK(p) == p.nextMoveIn > 0 /\ (p.boosted => p.boostLeft > 0)

Eater(p) == Len(p.segs) > 1

SameScore(p, q) == q.score = p.score /\ Len(q.segs) = Len(p.segs)

LEMMA ElapseFields ==
    ASSUME NEW p \in PlayerType, NEW elapsed \in Nat
    PROVE  /\ PaceOK(p) => PaceOK(Elapse(p, elapsed))
           /\ SameScore(p, Elapse(p, elapsed))
  <1> DEFINE q == Elapse(p, elapsed)
  <1>1. /\ q.movementFrequency = p.movementFrequency /\ q.boosted = p.boosted
        /\ q.score = p.score /\ q.segs = p.segs
    BY DEF PlayerType, Elapse
  <1>. QED BY <1>1 DEF PaceOK, SameScore

LEMMA TurnFields ==
    ASSUME NEW p \in PlayerType, NEW key
    PROVE  /\ PaceOK(p) => PaceOK(Turn(p, key))
           /\ SameScore(p, Turn(p, key))
  <1> DEFINE q == [p EXCEPT !.nextDirection = key]
  <1>1. /\ q.movementFrequency = p.movementFrequency /\ q.boosted = p.boosted
        /\ q.score = p.score /\ q.segs = p.segs
    BY DEF PlayerType
  <1>. QED BY <1>1 DEF Turn, PaceOK, SameScore

LEMMA NewPlayerFields ==
    ASSUME NEW cell
    PROVE  PaceOK(NewPlayer(cell)) /\ ~Eater(NewPlayer(cell)) /\ NewPlayer(cell).score = 1
  <1>1. /\ NewPlayer(cell).movementFrequency = MovementFrequency
        /\ NewPlayer(cell).boosted = FALSE
        /\ NewPlayer(cell).score = 1
        /\ NewPlayer(cell).segs = <<cell>>
    BY DEF NewPlayer
  <1>2. ~(Len(<<cell>>) > 1)
    BY SMT
  <1>. QED BY <1>1, <1>2 DEF PaceOK, Eater

LEMMA ExpireBoostFields ==
    ASSUME NEW p \in PlayerType
    PROVE  /\ ExpireBoost(p) \in PlayerType
           /\ PaceOK(p) => PaceOK(ExpireBoost(p))
           /\ ExpireBoost(p).boosted => ExpireBoost(p).boostLeft > 0
           /\ ExpireBoost(p).nextMoveIn = p.nextMoveIn
           /\ ExpireBoost(p).segs = p.segs /\ ExpireBoost(p).score = p.score
  <1> DEFINE q == [p EXCEPT !.boosted = FALSE, !.movementFrequency = MovementFrequency]
  <1>1. /\ q \in PlayerType
        /\ q.movementFrequency = MovementFrequency /\ q.boosted = FALSE
        /\ q.nextMoveIn = p.nextMoveIn /\ q.score = p.score /\ q.segs = p.segs
    BY DEF PlayerType
  <1>2. CASE p.boosted /\ p.boostLeft <= 0
    BY <1>1, <1>2 DEF ExpireBoost, PaceOK
  <1>3. CASE ~(p.boosted /\ p.boostLeft <= 0)
    <2>1. ExpireBoost(p) = p
      BY <1>3 DEF ExpireBoost
    <2>2. p.boosted => p.boostLeft > 0
      BY <1>3, PlayerFields, TimeAssumption, SMT
    <2>. QED BY <2>1, <2>2
  <1>. QED BY <1>2, <1>3

LEMMA MoveSnakeFields ==
    ASSUME NEW p \in PlayerType
    PROVE  /\ PaceOK(p) => PaceOK(MoveSnake(p))
           /\ MoveSnake(p).nextMoveIn = p.movementFrequency
           /\ MoveSnake(p).boosted = p.boosted /\ MoveSnake(p).boostLeft = p.boostLeft
           /\ SameScore(p, MoveSnake(p))
  <1> DEFINE q == MoveSnake(p)
             cell == Step(HeadOf(p.segs), p.nextDirection)
  <1>1. /\ q.movementFrequency = p.movementFrequency /\ q.boosted = p.boosted
        /\ q.boostLeft = p.boostLeft /\ q.nextMoveIn = p.movementFrequency
        /\ q.score = p.score /\ q.segs = MoveTo(p.segs, cell)
    BY DEF PlayerType, MoveSnake
  <1>2. p.segs \in Seq(CellsAndWalls)
    BY PlayerFields
  <1> HIDE DEF cell
  <1>3. Len(MoveTo(p.segs, cell)) = Len(p.segs)
    BY <1>2, SMT DEF MoveTo
  <1>. QED BY <1>1, <1>3 DEF PaceOK, SameScore

LEMMA UpdateSnakeFields ==
    ASSUME NEW p \in PlayerType
    PROVE  /\ PaceOK(p) => PaceOK(UpdateSnake(p))
           /\ ClocksOK(UpdateSnake(p))
           /\ SameScore(p, UpdateSnake(p))
  <1> DEFINE q == ExpireBoost(p)
  <1>1. /\ q \in PlayerType /\ (PaceOK(p) => PaceOK(q))
        /\ q.boosted => q.boostLeft > 0
        /\ q.nextMoveIn = p.nextMoveIn /\ SameScore(p, q)
    BY ExpireBoostFields DEF SameScore
  <1>2. p.nextMoveIn \in Nat /\ q.movementFrequency > 0
    BY <1>1, PlayerFields, TimeAssumption, SMT
  <1> HIDE DEF q
  <1>3. CASE p.nextMoveIn <= 0
    <2>1. UpdateSnake(p) = MoveSnake(q)
      BY <1>3 DEF UpdateSnake, q
    <2>. QED BY <1>1, <1>2, <2>1, MoveSnakeFields DEF ClocksOK, SameScore
  <1>4. CASE ~(p.nextMoveIn <= 0)
    <2>1. UpdateSnake(p) = q
      BY <1>4 DEF UpdateSnake, q
    <2>2. p.nextMoveIn > 0
      BY <1>2, <1>4, SMT
    <2>. QED BY <1>1, <2>1, <2>2 DEF ClocksOK
  <1>. QED BY <1>3, <1>4

LEMMA AfterCollisionFields ==
    ASSUME NEW c, players[c] \in PlayerType
    PROVE  /\ PaceOK(players[c]) => PaceOK(AfterCollision(c))
           /\ ClocksOK(players[c]) => ClocksOK(AfterCollision(c))
  <1> DEFINE p == players[c]
             q == FeedPlayer(p)
             r == BoostPlayer(p)
  <1>1. /\ q.movementFrequency = p.movementFrequency /\ q.boosted = p.boosted
        /\ q.boostLeft = p.boostLeft /\ q.nextMoveIn = p.nextMoveIn
    BY DEF PlayerType, FeedPlayer
  <1>2. /\ r.movementFrequency = BoostedMovementFrequency /\ r.boosted = TRUE
        /\ r.boostLeft = BoostDuration /\ r.nextMoveIn = p.nextMoveIn
    BY DEF PlayerType, BoostPlayer
  <1>3. BoostDuration > 0
    BY TimeAssumption, SMT
  <1>4. AfterCollision(c) \in {p, q, r}
    BY DEF AfterCollision
  <1> HIDE DEF q, r
  <1>. QED BY <1>1, <1>2, <1>3, <1>4 DEF PaceOK, ClocksOK

-----------------------------------------------------------------------------
(* The clocks and the high score.                                          *)

Rules == Inv /\ ClocksAgree /\ HighScoreCovers

LEMMA RulesInit == Init => Rules
  <1> SUFFICES ASSUME Init PROVE Rules
    OBVIOUS
  <1>1. DOMAIN players = {}
    BY SMT DEF Init
  <1>. QED BY <1>1, InvInit DEF Rules, ClocksAgree, HighScoreCovers

\* ClocksAgree and HighScoreCovers, snake by snake.
LEMMA SnakesRules ==
    /\ ClocksAgree <=>
         \A c \in DOMAIN players :
            /\ PaceOK(players[c])
            /\ phase \in {"collide", "broadcast", "poll"} => ClocksOK(players[c])
    /\ HighScoreCovers <=>
         \A c \in DOMAIN players : players[c].score > highScore => Len(players[c].segs) = 1
  BY DEF ClocksAgree, HighScoreCovers, PaceOK, ClocksOK

\* A step that leaves the scores and lengths of the snakes as they are, and the high score.
ScoresStay ==
    /\ DOMAIN players' \subseteq DOMAIN players
    /\ \A c \in DOMAIN players' : SameScore(players[c], players'[c])
    /\ highScore' = highScore

LEMMA ScoresStayCovers == HighScoreCovers /\ ScoresStay => HighScoreCovers'
  BY DEF HighScoreCovers, ScoresStay, SameScore

LEMMA RulesNext == Rules /\ [Next]_vars => Rules'
  <1> SUFFICES ASSUME Rules, [Next]_vars PROVE Rules'
    OBVIOUS
  <1>0. /\ Inv /\ Inv' /\ HighScoreCovers
        /\ \A c \in DOMAIN players :
              /\ players[c] \in PlayerType
              /\ PaceOK(players[c])
              /\ phase \in {"collide", "broadcast", "poll"} => ClocksOK(players[c])
    BY InvNext, InvSnakes, SnakesRules DEF Rules, SnakesOK, PlayerOK
  <1> SUFFICES ClocksAgree' /\ HighScoreCovers'
    BY <1>0 DEF Rules
  <1> DEFINE Clocks ==
        \A c \in DOMAIN players' :
           /\ PaceOK(players'[c])
           /\ phase' \in {"collide", "broadcast", "poll"} => ClocksOK(players'[c])
  <1>a. Clocks => ClocksAgree'
    BY DEF ClocksAgree, PaceOK, ClocksOK
  <1>1. ASSUME NEW elapsed \in 0..MaxElapsed, PollMessages(elapsed)
        PROVE  ClocksAgree' /\ HighScoreCovers'
    <2>1. elapsed \in Nat
      BY TimeAssumption, SMT
    <2>2. /\ players' = [c \in DOMAIN players |-> Elapse(players[c], elapsed)]
          /\ phase' = "dispatch" /\ highScore' = highScore
      BY <1>1 DEF PollMessages
    <2>3. Clocks /\ ScoresStay
      BY <1>0, <2>1, <2>2, ElapseFields DEF ScoresStay
    <2>. QED BY <1>0, <1>a, <2>3, ScoresStayCovers
  <1>2. ASSUME NEW c \in Clients, NEW cell \in SpawnCells, HandleClientJoin(c, cell)
        PROVE  ClocksAgree' /\ HighScoreCovers'
    <2>1. /\ players' = [d \in DOMAIN players \cup {c} |->
                           IF d \in DOMAIN players THEN players[d] ELSE NewPlayer(cell)]
          /\ phase' = "dispatch" /\ highScore' = highScore
      BY <1>2 DEF HandleClientJoin
    <2>2. Clocks
      BY <1>0, <2>1, NewPlayerFields
    <2>3. Len(NewPlayer(cell).segs) = 1
      BY SMT DEF NewPlayer
    <2>4. HighScoreCovers'
      BY <1>0, <2>1, <2>3 DEF HighScoreCovers
    <2>. QED BY <1>a, <2>2, <2>4
  <1>3. ASSUME NEW c \in Clients, NEW key \in Keys, HandleClientInput(c, key)
        PROVE  ClocksAgree' /\ HighScoreCovers'
    <2>1. /\ players' = [d \in DOMAIN players |->
                           IF d = c THEN Turn(players[d], key) ELSE players[d]]
          /\ phase' = "dispatch" /\ highScore' = highScore
      BY <1>3 DEF HandleClientInput
    <2>2. Clocks /\ ScoresStay
      BY <1>0, <2>1, TurnFields DEF ScoresStay, SameScore
    <2>. QED BY <1>0, <1>a, <2>2, ScoresStayCovers
  <1>4. ASSUME NEW c \in Clients, HandleClientDisconnect(c)
        PROVE  ClocksAgree' /\ HighScoreCovers'
    <2>1. /\ players' = [d \in DOMAIN players \ {c} |-> players[d]]
          /\ phase' = "dispatch" /\ highScore' = highScore
      BY <1>4 DEF HandleClientDisconnect
    <2>2. Clocks /\ ScoresStay
      BY <1>0, <2>1 DEF ScoresStay, SameScore
    <2>. QED BY <1>0, <1>a, <2>2, ScoresStayCovers
  <1>5. ASSUME UpdateSnakes
        PROVE  ClocksAgree' /\ HighScoreCovers'
    <2>1. /\ players' = [c \in DOMAIN players |-> UpdateSnake(players[c])]
          /\ highScore' = highScore
      BY <1>5 DEF UpdateSnakes
    <2>2. Clocks /\ ScoresStay
      BY <1>0, <2>1, UpdateSnakeFields DEF ScoresStay
    <2>. QED BY <1>0, <1>a, <2>2, ScoresStayCovers
  <1>6. ASSUME CheckCollisions
        PROVE  ClocksAgree' /\ HighScoreCovers'
    <2>1. /\ players' = [c \in DOMAIN players \ Destroyed |-> AfterCollision(c)]
          /\ phase = "collide" /\ highScore' = NewHighScore(highScore)
      BY <1>6 DEF CheckCollisions
    <2>2. Clocks
      BY <1>0, <2>1, AfterCollisionFields
    <2>3. \A c \in DOMAIN players : AfterCollision(c).score \in Nat
      BY <1>0, InvSnakes, AfterCollisionOK DEF SnakesOK
    <2>4. \A c \in DOMAIN players : AfterCollision(c).score <= NewHighScore(highScore)
      BY <1>0, <2>3, NewHighScoreType DEF ScoresSeen, Inv
    <2>5. NewHighScore(highScore) \in Nat
      BY <1>0, <2>3, NewHighScoreType DEF Inv
    <2>6. \A c \in DOMAIN players' : ~(players'[c].score > highScore')
      BY <2>1, <2>3, <2>4, <2>5, SMT
    <2>. QED BY <1>a, <2>2, <2>6 DEF HighScoreCovers
  <1>7. ASSUME BroadcastGameState \/ UNCHANGED vars
        PROVE  ClocksAgree' /\ HighScoreCovers'
    <2>1. /\ players' = players /\ highScore' = highScore
          /\ phase \in {"collide", "broadcast", "poll"}
               <=> phase' \in {"collide", "broadcast", "poll"}
      BY <1>7 DEF BroadcastGameState, vars
    <2>2. Clocks /\ ScoresStay
      BY <1>0, <2>1 DEF ScoresStay, SameScore
    <2>. QED BY <1>0, <1>a, <2>2, ScoresStayCovers
  <1>. QED BY <1>1, <1>2, <1>3, <1>4, <1>5, <1>6, <1>7 DEF Next, Advance

LEMMA RulesAlways == Spec => []Rules
  BY RulesInit, RulesNext, PTL DEF Spec

\* NecksBehind: between two moves no order of inputs gets a snake's pending direction
\* to point at its neck, nor at the place where growth would put one.
THEOREM NecksStayBehind == Spec => []NecksBehind
  <1>1. Inv => NecksBehind
    BY DEF Inv
  <1>. QED BY <1>1, InvAlways, PTL

\* ClocksAgree: a snake is fast exactly while its boost lasts, and after updateSnakes()
\* neither an overdue boost nor an overdue move is left, whatever the elapsed times.
THEOREM ClocksAlwaysAgree == Spec => []ClocksAgree
  <1>1. Rules => ClocksAgree
    BY DEF Rules
  <1>. QED BY <1>1, RulesAlways, PTL

\* HighScoreCovers: nobody who has eaten has more points than the high score.
THEOREM HighScoreAlwaysCovers == Spec => []HighScoreCovers
  <1>1. Rules => HighScoreCovers
    BY DEF Rules
  <1>. QED BY <1>1, RulesAlways, PTL

-----------------------------------------------------------------------------
(* Who is where after a collision check.                                   *)

\* Growing adds the new tail to the body, and nothing else.
LEMMA GrownBody ==
    ASSUME NEW p, PlayerOK(p)
    PROVE  BodyCells(FeedPlayer(p).segs) = BodyCells(p.segs) \cup {p.tailPrev}
  <1> DEFINE longer == FeedPlayer(p).segs
  <1>1. /\ p \in PlayerType /\ p.segs \in Seq(CellsAndWalls) /\ p.segs # << >>
        /\ p.tailPrev \in CellsAndWalls
    BY PlayerFields, CellsType DEF PlayerOK
  <1>2. longer = Append(p.segs, p.tailPrev)
    BY <1>1 DEF FeedPlayer, PlayerType, Grow
  <1>3. PICK n \in Nat : n = Len(p.segs) /\ n >= 1
    BY <1>1, SMT
  <1> HIDE DEF longer
  <1>4. /\ Len(longer) = n + 1 /\ longer[n + 1] = p.tailPrev
        /\ \A i \in 1..n : longer[i] = p.segs[i]
    BY <1>1, <1>2, <1>3, SMT
  <1>5. 2..(n + 1) = (2..n) \cup {n + 1} /\ 2..n \subseteq 1..n
    BY <1>3, SMT
  <1>6. BodyCells(longer) = {longer[i] : i \in 2..(n + 1)}
    BY <1>4 DEF BodyCells
  <1>7. BodyCells(p.segs) = {p.segs[i] : i \in 2..n}
    BY <1>3 DEF BodyCells
  <1>8. {longer[i] : i \in 2..(n + 1)} = {p.segs[i] : i \in 2..n} \cup {p.tailPrev}
    <2>1. {longer[i] : i \in 2..n} = {p.segs[i] : i \in 2..n}
      BY <1>4, <1>5
    <2>2. n + 1 \in 2..(n + 1)
      BY <1>5
    <2>. QED BY <1>4, <1>5, <2>1, <2>2
  <1>. QED BY <1>6, <1>7, <1>8 DEF longer

\* What checkCollisions() does to the snakes it spares.
LEMMA AfterCollisionShape ==
    ASSUME NEW c, PlayerOK(players[c])
    PROVE  /\ Feeds(c) =>
                /\ AfterCollision(c).segs = Grow(players[c].segs, players[c].tailPrev)
                /\ Len(AfterCollision(c).segs) > Len(players[c].segs)
                /\ AfterCollision(c).score > players[c].score
           /\ ~Feeds(c) => AfterCollision(c).segs = players[c].segs
  <1> DEFINE p == players[c]
             q == FeedPlayer(p)
             n == Len(p.segs)
  <1>1. p \in PlayerType /\ p.segs \in Seq(CellsAndWalls) /\ p.segs # << >>
        /\ p.tailPrev \in CellsAndWalls /\ p.score \in Nat
    BY PlayerFields, CellsType DEF PlayerOK
  <1>2. q.segs = Grow(p.segs, p.tailPrev) /\ q.score = p.score + 1
    BY <1>1 DEF FeedPlayer, PlayerType
  <1>3. Len(Grow(p.segs, p.tailPrev)) = n + 1 /\ n \in Nat
    BY <1>1, SMT DEF Grow
  <1> HIDE DEF p, q, n
  <1>4. n + 1 > n /\ p.score + 1 > p.score
    BY <1>1, <1>3, SMT
  <1>5. BoostPlayer(p).segs = p.segs
    BY BoostPlayerOK DEF p
  <1>6. /\ Feeds(c) => AfterCollision(c) = q
        /\ ~Feeds(c) => AfterCollision(c) \in {p, BoostPlayer(p)}
    BY DEF AfterCollision, p, q
  <1>. QED BY <1>2, <1>3, <1>4, <1>5, <1>6 DEF p, n

\* NoOverlapButGrowth: a snake that survives a collision check lies on nobody's body,
\* with the one exception the code has: a tail that grew under its head in that check.
THEOREM OverlapOnlyByGrowth == Spec => NoOverlapButGrowth
  <1> DEFINE Apart ==
        phase = "collide" =>
          \A c, d \in DOMAIN players' :
             HeadCell(c)' \in BodyCells(players'[d].segs) =>
                /\ players'[d].score > players[d].score
                /\ HeadCell(c)' = players[d].tailPrev
  <1>1. Inv /\ Next => Apart
    <2> SUFFICES ASSUME Inv, Next, phase = "collide",
                        NEW c \in DOMAIN players', NEW d \in DOMAIN players',
                        HeadCell(c)' \in BodyCells(players'[d].segs)
                 PROVE  /\ players'[d].score > players[d].score
                        /\ HeadCell(c)' = players[d].tailPrev
      OBVIOUS
    <2>1. CheckCollisions
      BY DEF Next, Advance, PollMessages, HandleClientJoin, HandleClientInput,
             HandleClientDisconnect, UpdateSnakes, BroadcastGameState
    <2>2. /\ c \in DOMAIN players \ Destroyed /\ d \in DOMAIN players
          /\ players'[c] = AfterCollision(c) /\ players'[d] = AfterCollision(d)
      BY <2>1 DEF CheckCollisions
    <2>3. PlayerOK(players[c]) /\ PlayerOK(players[d])
      BY <2>2, InvSnakes DEF SnakesOK
    <2>4. HeadCell(c)' = HeadCell(c)
      BY <2>2, <2>3, AfterCollisionOK DEF HeadCell
    <2>5. HeadCell(c) \notin BodyCells(players[d].segs)
      BY <2>2 DEF Destroyed, HitsBody, OccupiedByBodies
    <2>6. Feeds(d) /\ players'[d].score > players[d].score
      BY <2>2, <2>3, <2>4, <2>5, AfterCollisionShape
    <2>7. players'[d] = FeedPlayer(players[d])
      BY <2>2, <2>6 DEF AfterCollision
    <2>. QED BY <2>3, <2>4, <2>5, <2>6, <2>7, GrownBody
  <1>2. Inv /\ [Next]_vars => [Apart]_vars
    BY <1>1
  <1>. QED BY <1>2, InvAlways, PTL DEF Spec, NoOverlapButGrowth

\* Only a collision check changes the length of a snake or takes food away.
LEMMA NobodyEatsBefore ==
    ASSUME Inv, Next, ~CheckCollisions
    PROVE  /\ food \subseteq food'
           /\ \A c \in DOMAIN players \cap DOMAIN players' :
                 ~(Len(players'[c].segs) > Len(players[c].segs))
  <1> DEFINE Stays ==
        \A c \in DOMAIN players \cap DOMAIN players' : SameScore(players[c], players'[c])
  <1>0. \A c \in DOMAIN players :
           players[c] \in PlayerType /\ Len(players[c].segs) \in Nat
    BY InvSnakes, PlayerFields, SMT DEF SnakesOK, PlayerOK
  <1>a. Stays => \A c \in DOMAIN players \cap DOMAIN players' :
                    ~(Len(players'[c].segs) > Len(players[c].segs))
    BY <1>0, SMT DEF SameScore
  <1> SUFFICES food \subseteq food' /\ Stays
    BY <1>a
  <1>1. ASSUME NEW elapsed \in 0..MaxElapsed, PollMessages(elapsed)
        PROVE  food \subseteq food' /\ Stays
    <2>1. elapsed \in Nat
      BY TimeAssumption, SMT
    <2>. QED BY <1>0, <1>1, <2>1, ElapseFields DEF PollMessages
  <1>2. ASSUME NEW c \in Clients, NEW cell \in SpawnCells, HandleClientJoin(c, cell)
        PROVE  food \subseteq food' /\ Stays
    BY <1>2 DEF HandleClientJoin, SameScore
  <1>3. ASSUME NEW c \in Clients, NEW key \in Keys, HandleClientInput(c, key)
        PROVE  food \subseteq food' /\ Stays
    BY <1>0, <1>3, TurnFields DEF HandleClientInput, SameScore
  <1>4. ASSUME NEW c \in Clients, HandleClientDisconnect(c)
        PROVE  food \subseteq food' /\ Stays
    BY <1>4 DEF HandleClientDisconnect, SameScore
  <1>5. ASSUME UpdateSnakes
        PROVE  food \subseteq food' /\ Stays
    BY <1>0, <1>5, UpdateSnakeFields DEF UpdateSnakes
  <1>6. ASSUME BroadcastGameState
        PROVE  food \subseteq food' /\ Stays
    BY <1>6 DEF BroadcastGameState, SameScore
  <1>. QED BY <1>1, <1>2, <1>3, <1>4, <1>5, <1>6 DEF Next, Advance

\* FoodFeedsOne: what disappears from foodMap has fed exactly one survivor, although
\* the same check turns the bodies of the dead into food.
THEOREM FoodFeedsExactlyOne == Spec => FoodFeedsOne
  <1> DEFINE Grown == {c \in DOMAIN players \cap DOMAIN players' :
                         Len(players'[c].segs) > Len(players[c].segs)}
             Fed ==
               /\ {HeadCell(c) : c \in Grown} = food \ food'
               /\ \A c, d \in Grown : HeadCell(c) = HeadCell(d) => c = d
               /\ \A c \in Grown : players'[c].segs = Grow(players[c].segs, players[c].tailPrev)
  <1>1. ASSUME Inv, Next, ~CheckCollisions PROVE Fed
    <2>1. Grown = {} /\ food \ food' = {}
      BY <1>1, NobodyEatsBefore
    <2> HIDE DEF Grown
    <2>. QED BY <2>1
  <1>2. ASSUME Inv, CheckCollisions PROVE Fed
    <2> DEFINE Eaters == {c \in DOMAIN players : Feeds(c)}
               Eaten == {HeadCell(c) : c \in Eaters}
    <2>1. /\ DOMAIN players' = DOMAIN players \ Destroyed
          /\ \A c \in DOMAIN players' : players'[c] = AfterCollision(c)
      BY <1>2 DEF CheckCollisions
    <2>2. PICK drops \in SUBSET FoodFromBodies : food' = (food \ Eaten) \cup drops
      BY <1>2 DEF CheckCollisions
    <2>3. \A c \in DOMAIN players :
             /\ Feeds(c) =>
                  /\ AfterCollision(c).segs = Grow(players[c].segs, players[c].tailPrev)
                  /\ Len(AfterCollision(c).segs) > Len(players[c].segs)
             /\ ~Feeds(c) => ~(Len(AfterCollision(c).segs) > Len(players[c].segs))
      <3>1. \A c \in DOMAIN players : PlayerOK(players[c]) /\ Len(players[c].segs) \in Nat
        BY <1>2, InvSnakes, PlayerFields, SMT DEF SnakesOK, PlayerOK
      <3>2. \A n \in Nat : ~(n > n)
        BY SMT
      <3>. QED BY <3>1, <3>2, AfterCollisionShape
    <2>4. Grown = Eaters
      BY <2>1, <2>3 DEF Feeds
    <2>5. Eaten \subseteq food /\ Eaten \cap FoodFromBodies = {}
      BY DEF Feeds, Destroyed, HitsBody, OccupiedByBodies, FoodFromBodies
    <2>6. food \ food' = Eaten
      BY <2>2, <2>5
    <2>7. \A c, d \in Eaters : HeadCell(c) = HeadCell(d) => c = d
      BY DEF Feeds, MeetsHead, PlayerHeadsInCell
    <2>8. \A c \in Eaters : players'[c].segs = Grow(players[c].segs, players[c].tailPrev)
      BY <2>1, <2>3 DEF Feeds
    <2> HIDE DEF Grown, Eaters
    <2>. QED BY <2>4, <2>6, <2>7, <2>8
  <1>3. Inv /\ [Next]_vars => [Fed]_vars
    BY <1>1, <1>2
  <1>. QED BY <1>3, InvAlways, PTL DEF Spec, FoodFeedsOne

-----------------------------------------------------------------------------
(* The feed.                                                               *)

\* What the last broadcast shows is what there is.
Current ==
    /\ sent.players = BuildGameState.players
    /\ sent.boosts = boosts
    /\ sent.highScore = highScore
    /\ sent.food \subseteq food

\* The flag of run() is down when the loop polls and up when it broadcasts, and as
\* long as it is down nothing has changed since the last broadcast.
FlagCounts ==
    /\ phase = "poll" => stateChanged = FALSE
    /\ phase = "broadcast" => stateChanged = TRUE
    /\ phase \in {"poll", "dispatch"} /\ stateChanged = FALSE => Current

FeedInv == Inv /\ FlagCounts

LEMMA StepOfEngine == [FeedNext]_feedVars => [Next]_vars
  BY DEF FeedNext, PublishGameState, Next, feedVars, vars

LEMMA FeedInvInit == FeedInit => FeedInv
  <1> SUFFICES ASSUME FeedInit PROVE FeedInv
    OBVIOUS
  <1>1. Inv /\ stateChanged = FALSE /\ phase = "poll"
    BY InvInit DEF FeedInit, Init
  <1>2. Current
    <2>1. players = << >> /\ food = {} /\ boosts = {} /\ highScore = 0
      BY DEF FeedInit, Init
    <2>2. BuildGameState.players = [c \in {} |->
             [segs |-> players[c].segs, direction |-> players[c].direction,
              score |-> players[c].score]]
      BY <2>1, SMT DEF BuildGameState
    <2>3. BuildGameState.players = << >>
      BY <2>2, SMT
    <2>. QED BY <2>1, <2>3 DEF FeedInit, Current
  <1>. QED BY <1>1, <1>2 DEF FeedInv, FlagCounts

\* What is published of a snake.
SameShown(p, q) == q.segs = p.segs /\ q.direction = p.direction /\ q.score = p.score

LEMMA ElapseShown ==
    ASSUME NEW p \in PlayerType, NEW elapsed
    PROVE  SameShown(p, Elapse(p, elapsed))
  BY DEF PlayerType, Elapse, SameShown

LEMMA TurnShown ==
    ASSUME NEW p \in PlayerType, NEW key
    PROVE  SameShown(p, Turn(p, key))
  BY DEF PlayerType, Turn, SameShown

\* A snake that is not due to move.
LEMMA WaitShown ==
    ASSUME NEW p \in PlayerType, ~(p.nextMoveIn <= 0)
    PROVE  SameShown(p, UpdateSnake(p))
  BY DEF PlayerType, UpdateSnake, ExpireBoost, SameShown

\* A step that shows on no screen.
LEMMA CurrentStays ==
    ASSUME Current, DOMAIN players' = DOMAIN players,
           \A c \in DOMAIN players : SameShown(players[c], players'[c]),
           boosts' = boosts, highScore' = highScore, food \subseteq food', sent' = sent
    PROVE  Current'
  <1>1. BuildGameState.players' = BuildGameState.players
    BY DEF BuildGameState, SameShown
  <1>. QED BY <1>1 DEF Current

LEMMA FeedInvNext == FeedInv /\ [FeedNext]_feedVars => FeedInv'
  <1> SUFFICES ASSUME FeedInv, [FeedNext]_feedVars PROVE FeedInv'
    OBVIOUS
  <1>0. /\ Inv /\ Inv' /\ FlagCounts
        /\ \A c \in DOMAIN players : players[c] \in PlayerType
    BY StepOfEngine, InvNext, InvSnakes DEF FeedInv, SnakesOK, PlayerOK
  <1> SUFFICES FlagCounts'
    BY <1>0 DEF FeedInv
  <1>1. ASSUME NEW elapsed \in 0..MaxElapsed, PollMessages(elapsed), UNCHANGED sent
        PROVE  FlagCounts'
    <2>1. Current /\ phase' = "dispatch" /\ boosts' = boosts /\ highScore' = highScore
          /\ food \subseteq food'
      BY <1>0, <1>1 DEF PollMessages, FlagCounts
    <2>2. players' = [c \in DOMAIN players |-> Elapse(players[c], elapsed)]
      BY <1>1 DEF PollMessages
    <2>3. \A c \in DOMAIN players : SameShown(players[c], players'[c])
      BY <1>0, <2>2, ElapseShown
    <2>. QED BY <1>1, <2>1, <2>2, <2>3, CurrentStays DEF FlagCounts
  <1>2. ASSUME NEW c \in Clients, NEW cell \in SpawnCells, HandleClientJoin(c, cell)
        PROVE  FlagCounts'
    BY <1>2 DEF HandleClientJoin, FlagCounts
  <1>3. ASSUME NEW c \in Clients, NEW key \in Keys, HandleClientInput(c, key), UNCHANGED sent
        PROVE  FlagCounts'
    <2>1. /\ phase = "dispatch" /\ phase' = "dispatch" /\ stateChanged' = stateChanged
          /\ boosts' = boosts /\ highScore' = highScore /\ food' = food
          /\ players' = [d \in DOMAIN players |->
                           IF d = c THEN Turn(players[d], key) ELSE players[d]]
      BY <1>3 DEF HandleClientInput
    <2>2. \A d \in DOMAIN players : SameShown(players[d], players'[d])
      BY <1>0, <2>1, TurnShown DEF SameShown
    <2>3. Current => Current'
      BY <1>3, <2>1, <2>2, CurrentStays
    <2>. QED BY <1>0, <2>1, <2>3 DEF FlagCounts
  <1>4. ASSUME NEW c \in Clients, HandleClientDisconnect(c)
        PROVE  FlagCounts'
    BY <1>4 DEF HandleClientDisconnect, FlagCounts
  <1>5. ASSUME UpdateSnakes, UNCHANGED sent
        PROVE  FlagCounts'
    <2>1. /\ phase = "dispatch" /\ stateChanged' = stateChanged
          /\ boosts' = boosts /\ highScore' = highScore /\ food' = food
          /\ players' = [c \in DOMAIN players |-> UpdateSnake(players[c])]
      BY <1>5 DEF UpdateSnakes
    <2>2. stateChanged \in BOOLEAN
      BY <1>0 DEF Inv, TypeOK
    <2>3. CASE DueToMove # {}
      <3>1. phase' = "collide"
        BY <1>5, <2>3 DEF UpdateSnakes
      <3>. QED BY <3>1 DEF FlagCounts
    <2>4. CASE DueToMove = {} /\ stateChanged = TRUE
      <3>1. phase' = "broadcast"
        BY <1>5, <2>4 DEF UpdateSnakes
      <3>. QED BY <2>1, <2>4, <3>1 DEF FlagCounts
    <2>5. CASE DueToMove = {} /\ stateChanged = FALSE
      <3>1. phase' = "poll"
        BY <1>5, <2>5 DEF UpdateSnakes
      <3>2. Current
        BY <1>0, <2>1, <2>5 DEF FlagCounts
      <3>3. \A c \in DOMAIN players : ~(players[c].nextMoveIn <= 0)
        BY <2>5 DEF DueToMove
      <3>4. \A c \in DOMAIN players : SameShown(players[c], players'[c])
        BY <1>0, <2>1, <3>3, WaitShown
      <3>5. Current'
        BY <1>5, <2>1, <3>2, <3>4, CurrentStays
      <3>. QED BY <2>1, <2>5, <3>1, <3>5 DEF FlagCounts
    <2>. QED BY <2>2, <2>3, <2>4, <2>5
  <1>6. ASSUME CheckCollisions
        PROVE  FlagCounts'
    BY <1>6 DEF CheckCollisions, FlagCounts
  <1>7. ASSUME PublishGameState
        PROVE  FlagCounts'
    <2>1. /\ sent' = BuildGameState /\ phase' = "poll" /\ stateChanged' = FALSE
          /\ players' = players /\ food' = food /\ boosts' = boosts /\ highScore' = highScore
      BY <1>7 DEF PublishGameState, BroadcastGameState
    <2>2. Current'
      BY <2>1 DEF Current, BuildGameState
    <2>. QED BY <2>1, <2>2 DEF FlagCounts
  <1>8. ASSUME UNCHANGED feedVars
        PROVE  FlagCounts'
    BY <1>0, <1>8 DEF feedVars, FlagCounts, Current, BuildGameState
  <1>. QED BY <1>1, <1>2, <1>3, <1>4, <1>5, <1>6, <1>7, <1>8 DEF FeedNext, Advance

LEMMA FeedInvAlways == FeedSpec => []FeedInv
  BY FeedInvInit, FeedInvNext, PTL DEF FeedSpec

\* FeedIsCurrent: run()'s flag misses no change that shows, although inputs, overdue
\* boosts and new food change the game without raising it.
THEOREM FeedAlwaysCurrent == FeedSpec => []FeedIsCurrent
  <1>1. FeedInv => FeedIsCurrent
    <2> SUFFICES ASSUME FeedInv PROVE FeedIsCurrent
      OBVIOUS
    <2>. QED BY DEF FeedInv, FlagCounts, Current, FeedIsCurrent
  <1>. QED BY <1>1, FeedInvAlways, PTL

-----------------------------------------------------------------------------
(* The scoreboard.  Its variables are, under the refinement mapping:       *)

Scores == [c \in DOMAIN players |-> players[c].score]

Shown ==
    [scores |-> [c \in DOMAIN sent.players |-> sent.players[c].score],
     best   |-> sent.highScore]

Pending == stateChanged \/ phase = "collide"

LEMMA MappedInit == FeedInit => Board!Init
  <1> SUFFICES ASSUME FeedInit PROVE Board!Init
    OBVIOUS
  <1>1. /\ players = << >> /\ highScore = 0 /\ phase = "poll" /\ stateChanged = FALSE
        /\ sent = [players |-> << >>, food |-> {}, boosts |-> {}, highScore |-> 0]
    BY DEF FeedInit, Init
  <1>2. DOMAIN << >> = {} /\ << >> = [c \in {} |-> << >>[c].score]
    BY SMT
  <1>3. Scores = << >> /\ Shown = [scores |-> << >>, best |-> 0] /\ ~Pending
    BY <1>1, <1>2 DEF Scores, Shown, Pending
  <1>. QED BY <1>1, <1>3 DEF Board!Init, Scores, Shown, Pending

LEMMA SameScores ==
    ASSUME DOMAIN players' = DOMAIN players,
           \A c \in DOMAIN players : players'[c].score = players[c].score
    PROVE  Scores' = Scores
  BY DEF Scores

\* The high score after a check, as the scoreboard computes it: the points before the
\* round do not count beside those after it.
LEMMA MappedBest ==
    ASSUME Inv, NEW Scoring, Scoring = {c \in DOMAIN players : Feeds(c)}
    PROVE  NewHighScore(highScore)
             = Board!Better({Scores[c] : c \in DOMAIN Scores}
                              \cup {Scores[c] + 1 : c \in Scoring}, highScore)
  <1> DEFINE D == DOMAIN players
             best == NewHighScore(highScore)
             S == ({Scores[c] : c \in D} \cup {Scores[c] + 1 : c \in Scoring}) \cup {highScore}
  <1>1. /\ DOMAIN Scores = D
        /\ \A c \in D : Scores[c] = players[c].score /\ Scores[c] \in Nat
    BY InvSnakes, PlayerFields DEF Scores, SnakesOK, PlayerOK
  <1>2. \A c \in D :
           /\ AfterCollision(c).score \in Nat
           /\ c \in Scoring => AfterCollision(c).score = Scores[c] + 1
           /\ c \notin Scoring => AfterCollision(c).score = Scores[c]
    <2> SUFFICES ASSUME NEW c \in D
                 PROVE  /\ AfterCollision(c).score \in Nat
                        /\ c \in Scoring => AfterCollision(c).score = Scores[c] + 1
                        /\ c \notin Scoring => AfterCollision(c).score = Scores[c]
      OBVIOUS
    <2>1. PlayerOK(players[c])
      BY InvSnakes DEF SnakesOK
    <2>. QED BY <1>1, <2>1, AfterCollisionOK, FeedPlayerOK, BoostPlayerOK DEF AfterCollision
  <1>3. /\ best \in ScoresSeen \cup {highScore}
        /\ \A t \in ScoresSeen \cup {highScore} : t <= best
        /\ best \in Nat /\ highScore \in Nat
    BY <1>2, NewHighScoreType DEF Inv, TypeOK
  <1> HIDE DEF best
  <1>4. best \in S
    BY <1>2, <1>3 DEF ScoresSeen
  <1>5. \A t \in S : t \in Nat /\ t <= best
    <2>1. \A c \in D : AfterCollision(c).score <= best
      BY <1>3 DEF ScoresSeen
    <2>2. \A c \in Scoring : c \in D /\ Scores[c] + 1 <= best
      BY <1>2, <2>1
    <2>3. \A c \in D : Scores[c] <= best
      <3> SUFFICES ASSUME NEW c \in D PROVE Scores[c] <= best
        OBVIOUS
      <3>1. \A n, m \in Nat : n + 1 <= m => n <= m
        BY SMT
      <3>. QED BY <1>1, <1>2, <1>3, <2>1, <3>1
    <2>4. \A n \in Nat : n + 1 \in Nat
      BY SMT
    <2>. QED BY <1>1, <1>3, <2>2, <2>3, <2>4
  <1> HIDE DEF S
  <1>6. \A s \in S : (\A t \in S : t <= s) => s = best
    <2>1. \A n, m \in Nat : n <= m /\ m <= n => n = m
      BY SMT
    <2>. QED BY <1>4, <1>5, <2>1
  <1>7. best = CHOOSE s \in S : \A t \in S : t <= s
    BY <1>4, <1>5, <1>6
  <1>. QED BY <1>1, <1>7 DEF Board!Better, S, best

LEMMA MappedNext == FeedInv /\ [FeedNext]_feedVars => [Board!Next]_Board!scoreboardVars
  <1> SUFFICES ASSUME FeedInv, [FeedNext]_feedVars
               PROVE  Board!Next \/ UNCHANGED Board!scoreboardVars
    OBVIOUS
  <1>0. /\ Inv /\ FlagCounts
        /\ \A c \in DOMAIN players : players[c] \in PlayerType
    BY InvSnakes DEF FeedInv, SnakesOK, PlayerOK
  <1> DEFINE Stutter == UNCHANGED <<Scores, highScore, Shown, Pending>>
  <1>a. Stutter => UNCHANGED Board!scoreboardVars
    BY DEF Board!scoreboardVars, Scores, Shown, Pending
  <1>1. ASSUME NEW elapsed \in 0..MaxElapsed, PollMessages(elapsed), UNCHANGED sent
        PROVE  Stutter
    <2>1. Scores' = Scores
      BY <1>0, <1>1, ElapseShown, SameScores DEF PollMessages, SameShown
    <2>. QED BY <1>1, <2>1 DEF PollMessages, Shown, Pending
  <1>2. ASSUME NEW c \in Clients, NEW cell \in SpawnCells, HandleClientJoin(c, cell),
               UNCHANGED sent
        PROVE  Board!Join(c)
    <2>1. Scores' = [d \in DOMAIN Scores \cup {c} |->
                       IF d \in DOMAIN Scores THEN Scores[d] ELSE 1]
      BY <1>2, NewPlayerFields DEF HandleClientJoin, Scores
    <2>2. Pending' /\ Shown' = Shown /\ highScore' = highScore
      BY <1>2 DEF HandleClientJoin, Shown, Pending
    <2>. QED BY <2>1, <2>2 DEF Board!Join, Board!Playing, Scores, Shown, Pending
  <1>3. ASSUME NEW c \in Clients, NEW key \in Keys, HandleClientInput(c, key), UNCHANGED sent
        PROVE  Stutter
    <2>1. Scores' = Scores
      BY <1>0, <1>3, TurnShown, SameScores DEF HandleClientInput, SameShown
    <2>. QED BY <1>3, <2>1 DEF HandleClientInput, Shown, Pending
  <1>4. ASSUME NEW c \in Clients, HandleClientDisconnect(c), UNCHANGED sent
        PROVE  Board!Leave(c)
    <2>1. Scores' = [d \in DOMAIN Scores \ {c} |-> Scores[d]]
      BY <1>4 DEF HandleClientDisconnect, Scores
    <2>2. Pending' /\ Shown' = Shown /\ highScore' = highScore
      BY <1>4 DEF HandleClientDisconnect, Shown, Pending
    <2>. QED BY <2>1, <2>2 DEF Board!Leave, Board!Playing, Scores, Shown, Pending
  <1>5. ASSUME UpdateSnakes, UNCHANGED sent
        PROVE  Board!Stir \/ Stutter
    <2>1. Scores' = Scores
      BY <1>0, <1>5, UpdateSnakeFields, SameScores DEF UpdateSnakes, SameScore
    <2>2. /\ phase = "dispatch" /\ stateChanged' = stateChanged
          /\ highScore' = highScore /\ Shown' = Shown
          /\ DueToMove # {} => phase' = "collide"
          /\ DueToMove = {} => phase' # "collide"
      BY <1>0, <1>5 DEF UpdateSnakes, Shown, Inv, TypeOK
    <2>3. CASE DueToMove # {}
      <3>1. Pending'
        BY <2>2, <2>3 DEF Pending
      <3>. QED BY <2>1, <2>2, <3>1 DEF Board!Stir, Scores, Shown, Pending
    <2>4. CASE DueToMove = {}
      <3>1. Pending' = Pending
        BY <2>2, <2>4 DEF Pending
      <3>. QED BY <2>1, <2>2, <3>1
    <2>. QED BY <2>3, <2>4
  <1>6. ASSUME CheckCollisions, UNCHANGED sent
        PROVE  \E dead \in SUBSET DOMAIN Scores : \E scoring \in SUBSET (DOMAIN Scores \ dead) :
                  Board!Round(dead, scoring)
    <2> DEFINE Scoring == {c \in DOMAIN players : Feeds(c)}
    <2>1. /\ DOMAIN Scores = DOMAIN players
          /\ Destroyed \subseteq DOMAIN Scores /\ Scoring \subseteq DOMAIN Scores \ Destroyed
      BY DEF Scores, Destroyed, Feeds
    <2>2. \A c \in DOMAIN players :
             AfterCollision(c).score = IF c \in Scoring THEN Scores[c] + 1 ELSE Scores[c]
      <3>1. \A c \in DOMAIN players : PlayerOK(players[c])
        BY <1>0, InvSnakes DEF SnakesOK
      <3>. QED BY <3>1, FeedPlayerOK, BoostPlayerOK DEF AfterCollision, Scores
    <2>3. Scores' = [c \in DOMAIN Scores \ Destroyed |->
                       IF c \in Scoring THEN Scores[c] + 1 ELSE Scores[c]]
      BY <1>6, <2>1, <2>2 DEF CheckCollisions, Scores
    <2>4. highScore' = Board!Better({Scores[c] : c \in DOMAIN Scores}
                                      \cup {Scores[c] + 1 : c \in Scoring}, highScore)
      BY <1>0, <1>6, MappedBest DEF CheckCollisions
    <2>5. Pending /\ Pending' = Pending /\ Shown' = Shown
      BY <1>6 DEF CheckCollisions, Pending, Shown
    <2> HIDE DEF Scoring
    <2>. QED BY <2>1, <2>3, <2>4, <2>5, Zenon DEF Board!Round, Board!Playing, Scores, Shown, Pending
  <1>7. ASSUME PublishGameState
        PROVE  Board!Announce
    <2>1. /\ phase = "broadcast" /\ phase' = "poll" /\ stateChanged' = FALSE
          /\ players' = players /\ highScore' = highScore /\ sent' = BuildGameState
      BY <1>7 DEF PublishGameState, BroadcastGameState
    <2>2. Pending /\ ~Pending' /\ Scores' = Scores
      BY <1>0, <2>1 DEF FlagCounts, Pending, Scores
    <2>3. /\ DOMAIN BuildGameState.players = DOMAIN players
          /\ \A c \in DOMAIN players : BuildGameState.players[c].score = players[c].score
          /\ BuildGameState.highScore = highScore
      BY DEF BuildGameState
    <2>4. Shown' = [scores |-> Scores, best |-> highScore]
      BY <2>1, <2>3 DEF Shown, Scores
    <2>. QED BY <2>1, <2>2, <2>4 DEF Board!Announce, Scores, Shown, Pending
  <1>8. ASSUME UNCHANGED feedVars
        PROVE  Stutter
    BY <1>8 DEF feedVars, Scores, Shown, Pending
  <1>. QED BY <1>a, <1>1, <1>2, <1>3, <1>4, <1>5, <1>6, <1>7, <1>8
           DEF FeedNext, Advance, Board!Next, Board!Playing, Scores

\* The engine and its broadcasts take only steps the scoreboard of module Scoreboard
\* allows, whatever the arena and the players: the safety part of ImplementsScoreboard.
THEOREM StepsOfScoreboard == FeedSpec => Board!Init /\ [][Board!Next]_Board!scoreboardVars
  BY MappedInit, MappedNext, FeedInvAlways, PTL DEF FeedSpec


-----------------------------------------------------------------------------
(* The invariant of the loop.                                              *)

Found == before[1]

FoundHead(c) == HeadOf(Found.players[c].segs)

\* The players that have had their turn, the victims that are still in the game, and
\* those that have left it.
Done == DOMAIN Found.players \ toExamine

Doomed == {toDestroy[i] : i \in 1..Len(toDestroy)}

Gone == (Done \cap Engine!Destroyed) \ Doomed

FoundOK ==
    /\ DOMAIN Found.players \subseteq Clients
    /\ \A c \in DOMAIN Found.players : PlayerOK(Found.players[c])
    /\ Found.highScore \in Nat

Turns ==
    /\ toExamine \subseteq DOMAIN Found.players
    /\ toDestroy \in Seq(Clients)
    /\ \A i, j \in 1..Len(toDestroy) : toDestroy[i] = toDestroy[j] => i = j
    /\ Doomed \subseteq Done \cap Engine!Destroyed
    /\ toExamine # {} => Gone = {}

SnakesSoFar ==
    /\ DOMAIN players = DOMAIN Found.players \ Gone
    /\ \A c \in DOMAIN players :
          players[c] = IF c \in toExamine THEN Found.players[c] ELSE Engine!AfterCollision(c)

FoodSoFar ==
    \E drops \in SUBSET UNION {BodyCells(Found.players[c].segs) : c \in Gone} :
        food = (Found.food \ {FoundHead(c) : c \in {d \in Done : Engine!Feeds(d)}}) \cup drops

BoostsSoFar ==
    boosts = Found.boosts \ {FoundHead(c) : c \in {d \in Done : Engine!Boosts(d)}}

ScoreSoFar ==
    LET seen == {Engine!AfterCollision(c).score : c \in Done} \cup {Found.highScore}
    IN highScore \in seen /\ \A s \in seen : s <= highScore

InLoop ==
    /\ phase = "collide"
    /\ FoundOK /\ Turns /\ SnakesSoFar /\ FoodSoFar /\ BoostsSoFar /\ ScoreSoFar

LoopInv ==
    /\ Inv
    /\ PlayersIsFunction
    /\ IF IsLooping THEN InLoop ELSE toExamine = {} /\ toDestroy = << >>

-----------------------------------------------------------------------------
(* What the engine decides about the players as the loop has found them.   *)

LEMMA EngineView ==
    ASSUME IsLooping
    PROVE  /\ \A c : Engine!HeadCell(c) = FoundHead(c)
           /\ Engine!OccupiedByBodies = Occupied
           /\ \A cell : Engine!PlayerHeadsInCell(cell)
                          = {c \in DOMAIN Found.players : FoundHead(c) = cell}
           /\ \A a, b : Engine!ArrivedBefore(a, b) <=>
                 \/ Found.players[a].nextMoveIn < Found.players[b].nextMoveIn
                 \/ Found.players[a].nextMoveIn = Found.players[b].nextMoveIn /\ a < b
           /\ Engine!Destroyed =
                {c \in DOMAIN Found.players :
                    \/ FoundHead(c) \notin Cells
                    \/ FoundHead(c) \in Occupied
                    \/ \E d \in Engine!PlayerHeadsInCell(FoundHead(c)) : Engine!ArrivedBefore(d, c)}
           /\ \A c : Engine!Feeds(c) <=>
                 /\ c \notin Engine!Destroyed
                 /\ Engine!PlayerHeadsInCell(FoundHead(c)) = {c}
                 /\ FoundHead(c) \in Found.food
           /\ \A c : Engine!Boosts(c) <=>
                 /\ c \notin Engine!Destroyed
                 /\ Engine!PlayerHeadsInCell(FoundHead(c)) = {c}
                 /\ FoundHead(c) \in Found.boosts \ Found.food
           /\ \A c : Engine!AfterCollision(c) =
                 IF Engine!Feeds(c) THEN FeedPlayer(Found.players[c])
                 ELSE IF Engine!Boosts(c) THEN BoostPlayer(Found.players[c])
                 ELSE Found.players[c]
  <1>1. \A c : Engine!HeadCell(c) = FoundHead(c)
    BY DEF Engine!HeadCell, Engine!HeadOf, HeadOf, FoundHead, Found
  <1>2. Engine!OccupiedByBodies = Occupied
    BY DEF Engine!OccupiedByBodies, Engine!BodyCells, Occupied, BodyCells
  <1>3. \A cell : Engine!PlayerHeadsInCell(cell)
                    = {c \in DOMAIN Found.players : FoundHead(c) = cell}
    BY <1>1 DEF Engine!PlayerHeadsInCell, Found
  <1>4. \A a, b : Engine!ArrivedBefore(a, b) <=>
           \/ Found.players[a].nextMoveIn < Found.players[b].nextMoveIn
           \/ Found.players[a].nextMoveIn = Found.players[b].nextMoveIn /\ a < b
    BY DEF Engine!ArrivedBefore, Found
  <1>5. Engine!Destroyed =
           {c \in DOMAIN Found.players :
               \/ FoundHead(c) \notin Cells
               \/ FoundHead(c) \in Occupied
               \/ \E d \in Engine!PlayerHeadsInCell(FoundHead(c)) : Engine!ArrivedBefore(d, c)}
    BY <1>1, <1>2 DEF Engine!Destroyed, Engine!HitsWall, Engine!HitsBody, Engine!Cells, Cells, Found
  <1>6. \A c : Engine!Feeds(c) <=>
           /\ c \notin Engine!Destroyed
           /\ Engine!PlayerHeadsInCell(FoundHead(c)) = {c}
           /\ FoundHead(c) \in Found.food
    BY <1>1 DEF Engine!Feeds, Engine!MeetsHead, Found
  <1>7. \A c : Engine!Boosts(c) <=>
           /\ c \notin Engine!Destroyed
           /\ Engine!PlayerHeadsInCell(FoundHead(c)) = {c}
           /\ FoundHead(c) \in Found.boosts \ Found.food
    BY <1>1 DEF Engine!Boosts, Engine!MeetsHead, Found
  <1>8. \A c : Engine!AfterCollision(c) =
           IF Engine!Feeds(c) THEN FeedPlayer(Found.players[c])
           ELSE IF Engine!Boosts(c) THEN BoostPlayer(Found.players[c])
           ELSE Found.players[c]
    BY DEF Engine!AfterCollision, Engine!FeedPlayer, FeedPlayer, Engine!BoostPlayer, BoostPlayer,
           Engine!Grow, Grow, Found
  <1>. QED BY <1>1, <1>2, <1>3, <1>4, <1>5, <1>6, <1>7, <1>8

\* What the loop has found stays what it is until the check is over.
LEMMA ViewStays ==
    ASSUME IsLooping, before' = before
    PROVE  /\ IsLooping' /\ Found' = Found /\ Occupied' = Occupied
           /\ \A c : FoundHead(c)' = FoundHead(c)
           /\ Engine!Destroyed' = Engine!Destroyed
           /\ \A c : Engine!Feeds(c)' <=> Engine!Feeds(c)
           /\ \A c : Engine!Boosts(c)' <=> Engine!Boosts(c)
           /\ \A c : Engine!AfterCollision(c)' = Engine!AfterCollision(c)
           /\ FoundOK => FoundOK'
  <1>1. IsLooping' /\ Found' = Found
    BY DEF IsLooping, Found
  <1>2. Occupied' = Occupied
    BY DEF Occupied
  <1>3. \A c : FoundHead(c)' = FoundHead(c)
    BY <1>1 DEF FoundHead
  <1>4. \A c : Engine!HeadCell(c)' = Engine!HeadCell(c)
    BY <1>1 DEF Engine!HeadCell
  <1>5. Engine!OccupiedByBodies' = Engine!OccupiedByBodies
    BY <1>1 DEF Engine!OccupiedByBodies
  <1>6. \A cell : Engine!PlayerHeadsInCell(cell)' = Engine!PlayerHeadsInCell(cell)
    BY <1>1, <1>4 DEF Engine!PlayerHeadsInCell
  <1>7. \A a, b : Engine!ArrivedBefore(a, b)' <=> Engine!ArrivedBefore(a, b)
    BY <1>1 DEF Engine!ArrivedBefore
  <1>8. Engine!Destroyed' = Engine!Destroyed
    BY <1>1, <1>4, <1>5, <1>6, <1>7 DEF Engine!Destroyed, Engine!HitsWall, Engine!HitsBody
  <1>9. \A c : Engine!Feeds(c)' <=> Engine!Feeds(c)
    BY <1>1, <1>4, <1>6, <1>8 DEF Engine!Feeds, Engine!MeetsHead
  <1>10. \A c : Engine!Boosts(c)' <=> Engine!Boosts(c)
    BY <1>1, <1>4, <1>6, <1>8 DEF Engine!Boosts, Engine!MeetsHead
  <1>11. \A c : Engine!AfterCollision(c)' = Engine!AfterCollision(c)
    BY <1>1, <1>9, <1>10 DEF Engine!AfterCollision
  <1>12. FoundOK => FoundOK'
    BY <1>1 DEF FoundOK
  <1>. QED BY <1>1, <1>2, <1>3, <1>8, <1>9, <1>10, <1>11, <1>12

\* What the engine makes of a snake has the snake's head and its next move.
LEMMA AfterOK ==
    ASSUME IsLooping, FoundOK, NEW c \in DOMAIN Found.players
    PROVE  /\ PlayerOK(Engine!AfterCollision(c))
           /\ HeadOf(Engine!AfterCollision(c).segs) = FoundHead(c)
           /\ Engine!AfterCollision(c).nextMoveIn = Found.players[c].nextMoveIn
           /\ Engine!AfterCollision(c).score \in Nat
           /\ c \in Engine!Destroyed => Engine!AfterCollision(c) = Found.players[c]
  <1> DEFINE p == Found.players[c]
  <1>1. PlayerOK(p) /\ p \in PlayerType /\ FoundHead(c) = HeadOf(p.segs)
    BY DEF FoundOK, PlayerOK, FoundHead
  <1>2. Engine!AfterCollision(c) = IF Engine!Feeds(c) THEN FeedPlayer(p)
                                   ELSE IF Engine!Boosts(c) THEN BoostPlayer(p) ELSE p
    BY EngineView
  <1> HIDE DEF p
  <1>3. FeedPlayer(p).nextMoveIn = p.nextMoveIn /\ BoostPlayer(p).nextMoveIn = p.nextMoveIn
    BY <1>1 DEF PlayerType, FeedPlayer, BoostPlayer
  <1>4. p.score \in Nat /\ p.score + 1 \in Nat
    BY <1>1, PlayerFields, SMT
  <1>5. /\ PlayerOK(FeedPlayer(p)) /\ HeadOf(FeedPlayer(p).segs) = HeadOf(p.segs)
        /\ FeedPlayer(p).score = p.score + 1
        /\ PlayerOK(BoostPlayer(p)) /\ BoostPlayer(p).segs = p.segs
        /\ BoostPlayer(p).score = p.score
    BY <1>1, FeedPlayerOK, BoostPlayerOK
  <1>6. Engine!Feeds(c) \/ Engine!Boosts(c) => c \notin Engine!Destroyed
    BY EngineView
  <1>7. Engine!AfterCollision(c) \in {FeedPlayer(p), BoostPlayer(p), p}
    BY <1>2
  <1>8. c \in Engine!Destroyed => Engine!AfterCollision(c) = p
    BY <1>2, <1>6
  <1>. QED BY <1>1, <1>3, <1>4, <1>5, <1>7, <1>8 DEF p

\* No turn of the loop moves a head or changes the order in which heads arrive.
LEMMA SnakesNow ==
    ASSUME LoopInv, IsLooping, NEW c \in DOMAIN players
    PROVE  /\ c \in DOMAIN Found.players /\ c \in Clients
           /\ PlayerOK(players[c])
           /\ HeadCell(c) = FoundHead(c)
           /\ players[c].nextMoveIn = Found.players[c].nextMoveIn
  <1>1. FoundOK /\ SnakesSoFar
    BY DEF LoopInv, InLoop
  <1>2. c \in DOMAIN Found.players /\ c \in Clients
    BY <1>1 DEF SnakesSoFar, FoundOK
  <1>3. CASE players[c] = Found.players[c]
    BY <1>1, <1>2, <1>3 DEF FoundOK, HeadCell, FoundHead
  <1>4. CASE players[c] = Engine!AfterCollision(c)
    BY <1>1, <1>2, <1>4, AfterOK DEF HeadCell
  <1>. QED BY <1>1, <1>2, <1>3, <1>4 DEF SnakesSoFar

\* One turn decides about its player as the engine does about all at once, whatever the
\* turns before it have eaten and grown.
LEMMA TurnDecides ==
    ASSUME LoopInv, IsLooping, NEW c \in toExamine
    PROVE  LET cell == HeadCell(c)
               meets == Cardinality(PlayerHeadsInCell(cell)) > 1
           IN /\ c \in DOMAIN players /\ players[c] = Found.players[c]
              /\ cell = FoundHead(c)
              /\ HitsWall(c) \/ cell \in Occupied \/ (meets /\ c # FirstInCell(cell))
                    <=> c \in Engine!Destroyed
              /\ Engine!Feeds(c)
                    <=> c \notin Engine!Destroyed /\ ~meets /\ cell \in food
              /\ Engine!Boosts(c)
                    <=> /\ c \notin Engine!Destroyed /\ ~meets
                        /\ cell \notin food /\ cell \in boosts
  <1> DEFINE cell == HeadCell(c)
             heads == PlayerHeadsInCell(cell)
             meets == Cardinality(heads) > 1
  <1>1. FoundOK /\ Turns /\ SnakesSoFar /\ FoodSoFar /\ BoostsSoFar /\ Inv
    BY DEF LoopInv, InLoop
  <1>2. DOMAIN players = DOMAIN Found.players /\ Gone = {} /\ c \in DOMAIN players
    BY <1>1 DEF Turns, SnakesSoFar
  <1>3. players[c] = Found.players[c] /\ cell = FoundHead(c)
    BY <1>1, <1>2, SnakesNow DEF SnakesSoFar
  <1>4. /\ heads = Engine!PlayerHeadsInCell(FoundHead(c))
        /\ heads = {d \in DOMAIN Found.players : FoundHead(d) = FoundHead(c)}
        /\ c \in heads /\ heads \subseteq DOMAIN players
    BY <1>2, <1>3, SnakesNow, EngineView DEF PlayerHeadsInCell
  <1>5. \A a, b \in heads : ArrivedBefore(a, b) <=> Engine!ArrivedBefore(a, b)
    BY <1>4, SnakesNow, EngineView DEF ArrivedBefore
  <1>6. IsFiniteSet(heads)
    BY <1>1, <1>4, FS_Subset, ClientsAssumption DEF Inv, TypeOK
  <1> HIDE DEF heads, cell
  <1>7. meets <=> heads # {c}
    <2>1. Cardinality({c}) = 1 /\ IsFiniteSet({c})
      BY FS_Singleton
    <2>2. heads = {c} => ~meets
      BY <2>1
    <2>3. ASSUME heads # {c} PROVE meets
      <3>1. {c} \subseteq heads
        BY <1>4
      <3>2. Cardinality({c}) <= Cardinality(heads) /\ Cardinality(heads) \in Nat
            /\ Cardinality({c}) # Cardinality(heads)
        BY <1>6, <2>3, <3>1, FS_Subset, FS_CardinalityType
      <3>. QED BY <2>1, <3>2, SMT
    <2>. QED BY <2>2, <2>3
  <1>8. c # FirstInCell(cell) <=> \E d \in heads : ArrivedBefore(d, c)
    <2>1. heads \in SUBSET DOMAIN players /\ heads # {}
      BY <1>4
    <2>2. PICK m \in heads : \A d \in heads : ~ArrivedBefore(d, m) /\ (d # m => ArrivedBefore(m, d))
      BY <1>1, <2>1, FirstArrival DEF Inv
    <2>3. FirstInCell(cell) = CHOOSE x \in heads : \A d \in heads \ {x} : ArrivedBefore(x, d)
      BY DEF FirstInCell, heads
    <2>4. \A x \in heads : (\A d \in heads \ {x} : ArrivedBefore(x, d)) <=> x = m
      BY <2>2
    <2>5. FirstInCell(cell) = m
      BY <2>2, <2>3, <2>4
    <2>. QED BY <1>4, <2>2, <2>5
  <1>9. ~(\E d \in heads : ArrivedBefore(d, c)) \/ meets
    <2>1. ~ArrivedBefore(c, c)
      <3>1. c \in Nat /\ players[c].nextMoveIn \in Nat
        <4>1. players[c] \in PlayerType /\ c \in Clients
          BY <1>2, SnakesNow DEF PlayerOK
        <4>2. players[c].nextMoveIn \in 0..MovementFrequency
          BY <4>1, PlayerFields
        <4>. QED BY <4>1, <4>2, ClientsAssumption, TimeAssumption, SMT
      <3>. QED BY <3>1, SMT DEF ArrivedBefore
    <2>. QED BY <1>7, <2>1
  <1>10. HitsWall(c) \/ cell \in Occupied \/ (meets /\ c # FirstInCell(cell))
           <=> c \in Engine!Destroyed
    <2>1. c \in Engine!Destroyed <=> \/ FoundHead(c) \notin Cells
                                    \/ FoundHead(c) \in Occupied
                                    \/ \E d \in heads : Engine!ArrivedBefore(d, c)
      BY <1>2, <1>4, EngineView
    <2>2. (\E d \in heads : Engine!ArrivedBefore(d, c)) <=> \E d \in heads : ArrivedBefore(d, c)
      BY <1>4, <1>5
    <2>3. HitsWall(c) <=> FoundHead(c) \notin Cells
      BY <1>3 DEF HitsWall, cell
    <2>. QED BY <1>3, <1>8, <1>9, <2>1, <2>2, <2>3
  <1>11. ~meets => \A d \in Done : FoundHead(d) # cell
    <2>1. \A d \in Done : d # c /\ d \in DOMAIN Found.players
      BY DEF Done
    <2>. QED BY <1>3, <1>4, <1>7, <2>1
  <1>12. ~meets => (cell \in food <=> cell \in Found.food)
    <2>1. PICK drops \in SUBSET UNION {BodyCells(Found.players[d].segs) : d \in Gone} :
            food = (Found.food \ {FoundHead(d) : d \in {e \in Done : Engine!Feeds(e)}}) \cup drops
      BY <1>1 DEF FoodSoFar
    <2>2. drops = {}
      BY <1>2, <2>1
    <2>. QED BY <1>11, <2>1, <2>2
  <1>13. ~meets => (cell \in boosts <=> cell \in Found.boosts)
    BY <1>1, <1>11 DEF BoostsSoFar
  <1>14. Engine!Feeds(c) <=> c \notin Engine!Destroyed /\ ~meets /\ cell \in food
    BY <1>3, <1>4, <1>7, <1>12, EngineView
  <1>15. Engine!Boosts(c) <=> c \notin Engine!Destroyed /\ ~meets /\ cell \notin food /\ cell \in boosts
    BY <1>3, <1>4, <1>7, <1>12, <1>13, EngineView
  <1>. QED BY <1>2, <1>3, <1>10, <1>14, <1>15 DEF cell, heads

-----------------------------------------------------------------------------
(* The steps of the loop keep the invariant.                               *)

\* A turn, in the words of the engine.
LEMMA TurnSteps ==
    ASSUME LoopInv, IsLooping, NEW c, Examine(c)
    PROVE  /\ c \in toExamine /\ c \in DOMAIN players
           /\ before' = before /\ phase' = phase /\ stateChanged' = stateChanged
           /\ toExamine' = toExamine \ {c}
           /\ toDestroy' = IF c \in Engine!Destroyed THEN Append(toDestroy, c) ELSE toDestroy
           /\ players' = [players EXCEPT ![c] = Engine!AfterCollision(c)]
           /\ food' = IF Engine!Feeds(c) THEN food \ {FoundHead(c)} ELSE food
           /\ boosts' = IF Engine!Boosts(c) THEN boosts \ {FoundHead(c)} ELSE boosts
           /\ highScore' = IF Engine!AfterCollision(c).score > highScore
                             THEN Engine!AfterCollision(c).score ELSE highScore
  <1> DEFINE cell == HeadCell(c)
             meets == Cardinality(PlayerHeadsInCell(cell)) > 1
             dies == HitsWall(c) \/ cell \in Occupied \/ (meets /\ c # FirstInCell(cell))
             feeds == ~dies /\ ~meets /\ cell \in food
             speeds == ~dies /\ ~meets /\ ~feeds /\ cell \in boosts
  <1>1. c \in toExamine
    BY DEF Examine
  <1>2. /\ c \in DOMAIN players /\ players[c] = Found.players[c] /\ cell = FoundHead(c)
        /\ dies <=> c \in Engine!Destroyed
        /\ Engine!Feeds(c) <=> c \notin Engine!Destroyed /\ ~meets /\ cell \in food
        /\ Engine!Boosts(c) <=> /\ c \notin Engine!Destroyed /\ ~meets
                                /\ cell \notin food /\ cell \in boosts
    BY <1>1, TurnDecides
  <1>3. (feeds <=> Engine!Feeds(c)) /\ (speeds <=> Engine!Boosts(c))
    BY <1>2
  <1>4. /\ before' = before /\ phase' = phase /\ stateChanged' = stateChanged
        /\ toExamine' = toExamine \ {c}
        /\ toDestroy' = IF dies THEN Append(toDestroy, c) ELSE toDestroy
        /\ players' = [players EXCEPT ![c] =
                         IF feeds THEN FeedPlayer(@) ELSE IF speeds THEN BoostPlayer(@) ELSE @]
        /\ food' = IF feeds THEN food \ {cell} ELSE food
        /\ boosts' = IF speeds THEN boosts \ {cell} ELSE boosts
        /\ highScore' = IF players'[c].score > highScore THEN players'[c].score ELSE highScore
    BY DEF Examine
  <1> HIDE DEF dies, feeds, speeds, meets, cell
  <1>5. (IF feeds THEN FeedPlayer(players[c]) ELSE IF speeds THEN BoostPlayer(players[c])
         ELSE players[c]) = Engine!AfterCollision(c)
    BY <1>2, <1>3, EngineView
  <1>6. players' = [players EXCEPT ![c] = Engine!AfterCollision(c)]
    BY <1>4, <1>5
  <1>7. players'[c] = Engine!AfterCollision(c)
    BY <1>2, <1>6 DEF LoopInv, PlayersIsFunction
  <1>. QED BY <1>1, <1>2, <1>3, <1>4, <1>6, <1>7

LEMMA ExamineStep ==
    ASSUME LoopInv, IsLooping, NEW c, Examine(c)
    PROVE  LoopInv'
  <1> DEFINE after == Engine!AfterCollision(c)
             dies == c \in Engine!Destroyed
  <1>1. /\ Inv /\ PlayersIsFunction /\ phase = "collide"
        /\ FoundOK /\ Turns /\ SnakesSoFar /\ FoodSoFar /\ BoostsSoFar /\ ScoreSoFar
    BY DEF LoopInv, InLoop
  <1>2. /\ c \in toExamine /\ c \in DOMAIN players /\ c \in DOMAIN Found.players
        /\ c \in Clients /\ Gone = {} /\ DOMAIN players = DOMAIN Found.players
        /\ toExamine \subseteq DOMAIN Found.players
    BY <1>1, TurnSteps, SnakesNow DEF Turns, SnakesSoFar
  <1>3. /\ before' = before /\ phase' = phase /\ stateChanged' = stateChanged
        /\ toExamine' = toExamine \ {c}
        /\ toDestroy' = IF dies THEN Append(toDestroy, c) ELSE toDestroy
        /\ players' = [players EXCEPT ![c] = after]
        /\ food' = IF Engine!Feeds(c) THEN food \ {FoundHead(c)} ELSE food
        /\ boosts' = IF Engine!Boosts(c) THEN boosts \ {FoundHead(c)} ELSE boosts
        /\ highScore' = IF after.score > highScore THEN after.score ELSE highScore
    BY TurnSteps
  <1>4. /\ IsLooping' /\ Found' = Found
        /\ \A d : FoundHead(d)' = FoundHead(d)
        /\ Engine!Destroyed' = Engine!Destroyed
        /\ \A d : Engine!Feeds(d)' <=> Engine!Feeds(d)
        /\ \A d : Engine!Boosts(d)' <=> Engine!Boosts(d)
        /\ \A d : Engine!AfterCollision(d)' = Engine!AfterCollision(d)
        /\ FoundOK'
    BY <1>1, <1>3, ViewStays
  <1>5. PlayerOK(after) /\ after.score \in Nat
    BY <1>1, <1>2, AfterOK
  <1> HIDE DEF after
  <1>6. /\ DOMAIN players' = DOMAIN players /\ PlayersIsFunction'
        /\ \A d \in DOMAIN players : players'[d] = IF d = c THEN after ELSE players[d]
    BY <1>1, <1>2, <1>3 DEF PlayersIsFunction
  <1>7. Done' = Done \cup {c} /\ c \notin Done
    BY <1>2, <1>3, <1>4 DEF Done
  <1>8. Inv'
    <2>1. SnakesOK'
      BY <1>1, <1>3, <1>5, <1>6, SnakesNow DEF SnakesOK
    <2>2. SmallTypes'
      <3>1. SmallTypes
        BY <1>1 DEF Inv, TypeOK, SmallTypes
      <3>. QED BY <1>3, <1>5, <1>6, <3>1 DEF SmallTypes
    <2>3. PlayersIsFunction' /\ SnakesOK' /\ SmallTypes' => Inv'
      BY SnakesInv, PTL
    <2>. QED BY <1>6, <2>1, <2>2, <2>3
  <1>9. Doomed' = (IF dies THEN Doomed \cup {c} ELSE Doomed) /\ Turns'
    <2>1. toDestroy \in Seq(Clients) /\ Len(toDestroy) \in Nat /\ Doomed \subseteq Done \cap Engine!Destroyed
      BY <1>1 DEF Turns
    <2>2. CASE dies
      <3>1. /\ toDestroy' \in Seq(Clients) /\ Len(toDestroy') = Len(toDestroy) + 1
            /\ \A i \in 1..Len(toDestroy) : toDestroy'[i] = toDestroy[i]
            /\ toDestroy'[Len(toDestroy) + 1] = c
        BY <1>2, <1>3, <2>1, <2>2, SMT
      <3>2. /\ \A i \in 1..Len(toDestroy') : i \in 1..Len(toDestroy) \/ i = Len(toDestroy) + 1
            /\ \A i \in 1..Len(toDestroy) : i \in 1..Len(toDestroy')
            /\ Len(toDestroy) + 1 \in 1..Len(toDestroy')
        BY <2>1, <3>1, SMT
      <3>3. \A i \in 1..Len(toDestroy) : toDestroy[i] # c
        BY <1>7, <2>1 DEF Doomed
      <3>4. Doomed' = Doomed \cup {c}
        BY <3>1, <3>2 DEF Doomed
      <3>5. \A i, j \in 1..Len(toDestroy') : toDestroy'[i] = toDestroy'[j] => i = j
        <4>1. \A i, j \in 1..Len(toDestroy) : toDestroy[i] = toDestroy[j] => i = j
          BY <1>1 DEF Turns
        <4>. QED BY <3>1, <3>2, <3>3, <4>1
      <3>6. Gone' = {}
        BY <1>2, <1>4, <1>7, <3>4 DEF Gone
      <3>. QED BY <1>2, <1>3, <1>4, <1>7, <2>1, <2>2, <3>1, <3>4, <3>5, <3>6 DEF Turns
    <2>3. CASE ~dies
      <3>1. toDestroy' = toDestroy /\ Doomed' = Doomed
        BY <1>3, <2>3 DEF Doomed
      <3>2. Gone' = {}
        BY <1>2, <1>4, <1>7, <2>3, <3>1 DEF Gone
      <3>. QED BY <1>1, <1>2, <1>3, <1>4, <1>7, <2>3, <3>1, <3>2 DEF Turns
    <2>. QED BY <2>2, <2>3
  <1>10. Gone' = {}
    BY <1>2, <1>4, <1>7, <1>9 DEF Gone
  <1>11. SnakesSoFar'
    BY <1>1, <1>2, <1>3, <1>4, <1>6, <1>10 DEF SnakesSoFar, after
  <1>12. FoodSoFar'
    <2>1. food = Found.food \ {FoundHead(d) : d \in {e \in Done : Engine!Feeds(e)}}
      BY <1>1, <1>2 DEF FoodSoFar
    <2>2. food' = Found.food \ {FoundHead(d) : d \in {e \in Done' : Engine!Feeds(e)}}
      BY <1>3, <1>7, <2>1
    <2>3. food' = (Found.food \ {FoundHead(d) : d \in {e \in Done : Engine!Feeds(e)}})' \cup {}
      BY <1>4, <2>2
    <2>4. {} \in SUBSET UNION {BodyCells(Found.players[d].segs) : d \in Gone}'
      OBVIOUS
    <2>. QED BY <2>3, <2>4 DEF FoodSoFar
  <1>13. BoostsSoFar'
    <2>1. boosts' = Found.boosts \ {FoundHead(d) : d \in {e \in Done' : Engine!Boosts(e)}}
      BY <1>1, <1>3, <1>7 DEF BoostsSoFar
    <2>. QED BY <1>4, <2>1 DEF BoostsSoFar
  <1>14. ScoreSoFar'
    <2> DEFINE seen == {Engine!AfterCollision(d).score : d \in Done} \cup {Found.highScore}
    <2>1. highScore \in seen /\ \A s \in seen : s <= highScore
      BY <1>1 DEF ScoreSoFar
    <2>2. seen \subseteq Nat
      BY <1>1, AfterOK DEF FoundOK, Done
    <2>3. ({Engine!AfterCollision(d).score : d \in Done} \cup {Found.highScore})'
             = seen \cup {after.score}
      BY <1>4, <1>7 DEF after
    <2> HIDE DEF seen
    <2>4. highScore' \in seen \cup {after.score} /\ \A s \in seen \cup {after.score} : s <= highScore'
      BY <1>3, <1>5, <2>1, <2>2, SMT
    <2>. QED BY <2>3, <2>4 DEF ScoreSoFar
  <1>. QED BY <1>1, <1>3, <1>4, <1>6, <1>8, <1>9, <1>11, <1>12, <1>13, <1>14 DEF LoopInv, InLoop

LEMMA DestroyStep ==
    ASSUME LoopInv, IsLooping, DestroyNext
    PROVE  LoopInv'
  <1>0. PICK victim : victim = toDestroy[1]
    OBVIOUS
  <1>1. /\ Inv /\ PlayersIsFunction /\ phase = "collide"
        /\ FoundOK /\ Turns /\ SnakesSoFar /\ FoodSoFar /\ BoostsSoFar /\ ScoreSoFar
    BY DEF LoopInv, InLoop
  <1>2. /\ toDestroy \in Seq(Clients) /\ Len(toDestroy) \in Nat /\ 1 \in 1..Len(toDestroy)
        /\ Tail(toDestroy) \in Seq(Clients) /\ Len(Tail(toDestroy)) = Len(toDestroy) - 1
        /\ \A i \in 1..Len(Tail(toDestroy)) :
              /\ Tail(toDestroy)[i] = toDestroy[i + 1]
              /\ i + 1 \in 1..Len(toDestroy) /\ i + 1 # 1
        /\ Head(toDestroy) = victim
    <2>1. toDestroy \in Seq(Clients) /\ toDestroy # << >>
      BY <1>1 DEF Turns, DestroyNext
    <2>. QED BY <1>0, <2>1, SMT
  <1>3. /\ before' = before /\ phase' = phase /\ stateChanged' = stateChanged
        /\ toExamine = {} /\ toExamine' = {}
        /\ toDestroy' = Tail(toDestroy)
        /\ players' = [c \in DOMAIN players \ {victim} |-> players[c]]
        /\ boosts' = boosts /\ highScore' = highScore
        /\ \E drops \in SUBSET BodyCells(players[victim].segs) : food' = food \cup drops
    BY <1>2 DEF DestroyNext
  <1>4. /\ IsLooping' /\ Found' = Found
        /\ \A d : FoundHead(d)' = FoundHead(d)
        /\ Engine!Destroyed' = Engine!Destroyed
        /\ \A d : Engine!Feeds(d)' <=> Engine!Feeds(d)
        /\ \A d : Engine!Boosts(d)' <=> Engine!Boosts(d)
        /\ \A d : Engine!AfterCollision(d)' = Engine!AfterCollision(d)
        /\ FoundOK'
    BY <1>1, <1>3, ViewStays
  <1>5. Done' = Done /\ Done = DOMAIN Found.players
    BY <1>3, <1>4 DEF Done
  <1>6. victim \in Doomed /\ Doomed \subseteq Done \cap Engine!Destroyed
    BY <1>0, <1>1, <1>2 DEF Turns, Doomed
  <1>7. Doomed' = Doomed \ {victim}
    <2>1. \A i \in 1..Len(toDestroy') : toDestroy'[i] \in Doomed /\ toDestroy'[i] # victim
      BY <1>0, <1>1, <1>2, <1>3 DEF Turns, Doomed
    <2>2. ASSUME NEW i \in 1..Len(toDestroy), toDestroy[i] # victim
          PROVE  toDestroy[i] \in Doomed'
      <3>1. i - 1 \in 1..Len(Tail(toDestroy)) /\ (i - 1) + 1 = i
        BY <1>0, <1>2, <2>2, SMT
      <3>. QED BY <1>2, <1>3, <3>1 DEF Doomed
    <2>. QED BY <2>1, <2>2 DEF Doomed
  <1>8. Gone' = Gone \cup {victim} /\ victim \notin Gone /\ victim \in DOMAIN players
    BY <1>1, <1>4, <1>5, <1>6, <1>7 DEF Gone, SnakesSoFar
  <1>9. players[victim] = Found.players[victim]
    BY <1>1, <1>3, <1>5, <1>6, <1>8, AfterOK DEF SnakesSoFar
  <1>10. Turns'
    <2>1. \A i, j \in 1..Len(toDestroy') : toDestroy'[i] = toDestroy'[j] => i = j
      <3>1. \A i, j \in 1..Len(Tail(toDestroy)) : i + 1 = j + 1 => i = j
        BY SMT
      <3>2. \A i, j \in 1..Len(Tail(toDestroy)) :
               Tail(toDestroy)[i] = Tail(toDestroy)[j] => i + 1 = j + 1
        BY <1>1, <1>2 DEF Turns
      <3>. QED BY <1>3, <3>1, <3>2
    <2>. QED BY <1>2, <1>3, <1>4, <1>5, <1>6, <1>7, <2>1 DEF Turns
  <1>11. SnakesSoFar' /\ PlayersIsFunction'
    <2>1. DOMAIN players' = DOMAIN players \ {victim}
          /\ \A c \in DOMAIN players' : players'[c] = players[c]
      BY <1>3
    <2>2. PlayersIsFunction'
      BY <1>3, <2>1 DEF PlayersIsFunction
    <2>. QED BY <1>1, <1>3, <1>4, <1>8, <2>1, <2>2 DEF SnakesSoFar
  <1>12. FoodSoFar'
    <2>1. PICK drops \in SUBSET UNION {BodyCells(Found.players[c].segs) : c \in Gone} :
            food = (Found.food \ {FoundHead(c) : c \in {d \in Done : Engine!Feeds(d)}}) \cup drops
      BY <1>1 DEF FoodSoFar
    <2>2. PICK more \in SUBSET BodyCells(Found.players[victim].segs) : food' = food \cup more
      BY <1>3, <1>9
    <2>3. drops \cup more \in SUBSET UNION {BodyCells(Found.players[c].segs) : c \in Gone}'
      BY <1>4, <1>8
    <2>4. food' = (Found.food \ {FoundHead(c) : c \in {d \in Done : Engine!Feeds(d)}})'
                    \cup (drops \cup more)
      BY <1>4, <1>5, <2>1, <2>2
    <2>. QED BY <2>3, <2>4 DEF FoodSoFar
  <1>13. BoostsSoFar' /\ ScoreSoFar'
    BY <1>1, <1>3, <1>4, <1>5 DEF BoostsSoFar, ScoreSoFar
  <1>14. Inv'
    <2>1. SnakesOK'
      BY <1>1, <1>3, SnakesNow DEF SnakesOK
    <2>2. SmallTypes'
      <3>1. SmallTypes /\ BodyCells(players[victim].segs) \subseteq Cells
        BY <1>1, <1>8 DEF Inv, TypeOK, BodiesInArena, SmallTypes
      <3>2. food' \subseteq Cells
        BY <1>3, <3>1 DEF SmallTypes
      <3>3. DOMAIN players' \subseteq DOMAIN players
        BY <1>3
      <3>. QED BY <1>3, <3>1, <3>2, <3>3 DEF SmallTypes, Cells
    <2>3. PlayersIsFunction' /\ SnakesOK' /\ SmallTypes' => Inv'
      BY SnakesInv, PTL
    <2>. QED BY <1>11, <2>1, <2>2, <2>3
  <1>. QED BY <1>1, <1>3, <1>4, <1>10, <1>11, <1>12, <1>13, <1>14 DEF LoopInv, InLoop

\* The last step of the loop is the check of the engine.
LEMMA PlaceStep ==
    ASSUME LoopInv, PlaceSpeedBoost
    PROVE  LoopInv' /\ Engine!CheckCollisions
  <1>1. /\ IsLooping /\ Inv /\ PlayersIsFunction /\ phase = "collide"
        /\ FoundOK /\ Turns /\ SnakesSoFar /\ FoodSoFar /\ BoostsSoFar /\ ScoreSoFar
    BY DEF LoopInv, InLoop, PlaceSpeedBoost
  <1>2. /\ toExamine = {} /\ toDestroy = << >> /\ toExamine' = {} /\ toDestroy' = << >>
        /\ boosts' \in BoostPlacements(boosts) /\ ~IsLooping'
        /\ phase' = "broadcast" /\ stateChanged' = TRUE
        /\ players' = players /\ food' = food /\ highScore' = highScore
    BY DEF PlaceSpeedBoost, IsLooping
  <1>3. Done = DOMAIN Found.players /\ Gone = Engine!Destroyed
    <2>1. Doomed = {}
      BY <1>2, SMT DEF Doomed
    <2>. QED BY <1>1, <1>2, <2>1, EngineView DEF Gone, Done
  <1>4. \A c \in DOMAIN players : c \in DOMAIN Found.players /\ c \notin Engine!Destroyed
    BY <1>1, <1>3 DEF SnakesSoFar
  <1>5. LoopInv'
    <2>1. SnakesOK'
      <3>1. \A c \in DOMAIN players : HeadCell(c) \in Cells
        BY <1>1, <1>4, SnakesNow, EngineView
      <3>. QED BY <1>1, <1>2, <3>1, SnakesNow DEF SnakesOK, HeadIn, HeadCell, Cells
    <2>2. SmallTypes'
      <3>1. SmallTypes
        BY <1>1 DEF Inv, TypeOK, SmallTypes
      <3>2. boosts' \subseteq DropCells /\ \A a, b \in boosts' : a = b
        BY <1>2, <3>1 DEF BoostPlacements, SmallTypes
      <3>. QED BY <1>2, <3>1, <3>2 DEF SmallTypes, Phases
    <2>3. PlayersIsFunction' /\ SnakesOK' /\ SmallTypes' => Inv'
      BY SnakesInv, PTL
    <2>4. PlayersIsFunction'
      BY <1>1, <1>2 DEF PlayersIsFunction
    <2>. QED BY <1>2, <2>1, <2>2, <2>3, <2>4 DEF LoopInv
  <1>6. players' = [c \in DOMAIN Found.players \ Engine!Destroyed |-> Engine!AfterCollision(c)]
    <2>1. DOMAIN players = DOMAIN Found.players \ Engine!Destroyed
          /\ \A c \in DOMAIN players : players[c] = Engine!AfterCollision(c)
      BY <1>1, <1>2, <1>3 DEF SnakesSoFar
    <2>. QED BY <1>1, <1>2, <2>1 DEF PlayersIsFunction
  <1>7. \E drops \in SUBSET Engine!FoodFromBodies :
           food' = (Found.food \ {Engine!HeadCell(c) :
                                     c \in {d \in DOMAIN Found.players : Engine!Feeds(d)}}) \cup drops
    <2>1. Engine!FoodFromBodies = UNION {BodyCells(Found.players[c].segs) : c \in Engine!Destroyed}
      BY <1>1 DEF Engine!FoodFromBodies, Engine!BodyCells, BodyCells, Found
    <2>2. {Engine!HeadCell(c) : c \in {d \in DOMAIN Found.players : Engine!Feeds(d)}}
            = {FoundHead(c) : c \in {d \in DOMAIN Found.players : Engine!Feeds(d)}}
      BY <1>1, EngineView
    <2>. QED BY <1>1, <1>2, <1>3, <2>1, <2>2 DEF FoodSoFar
  <1>8. boosts' \in Engine!BoostPlacements(
           Found.boosts \ {Engine!HeadCell(c) : c \in {d \in DOMAIN Found.players : Engine!Boosts(d)}})
    <2>1. {Engine!HeadCell(c) : c \in {d \in DOMAIN Found.players : Engine!Boosts(d)}}
            = {FoundHead(c) : c \in {d \in DOMAIN Found.players : Engine!Boosts(d)}}
      BY <1>1, EngineView
    <2>2. boosts = Found.boosts
             \ {Engine!HeadCell(c) : c \in {d \in DOMAIN Found.players : Engine!Boosts(d)}}
      BY <1>1, <1>3, <2>1 DEF BoostsSoFar
    <2>3. \A left : Engine!BoostPlacements(left) = BoostPlacements(left)
      BY DEF Engine!BoostPlacements, Engine!DropCells, BoostPlacements, DropCells
    <2>. QED BY <1>2, <2>2, <2>3
  <1>9. highScore' = Engine!NewHighScore(Found.highScore)
    <2> DEFINE seen == {Engine!AfterCollision(c).score : c \in DOMAIN Found.players}
                          \cup {Found.highScore}
    <2>1. highScore \in seen /\ \A s \in seen : s <= highScore
      BY <1>1, <1>3 DEF ScoreSoFar
    <2>2. seen \subseteq Nat
      BY <1>1, AfterOK DEF FoundOK
    <2>3. Engine!NewHighScore(Found.highScore) = CHOOSE s \in seen : \A t \in seen : t <= s
      BY <1>1 DEF Engine!NewHighScore, Engine!ScoresSeen, Found
    <2> HIDE DEF seen
    <2>4. \A s \in seen : (\A t \in seen : t <= s) <=> s = highScore
      BY <2>1, <2>2, SMT
    <2>. QED BY <1>2, <2>1, <2>3, <2>4
  <1>10. Engine!CheckCollisions
    BY <1>1, <1>2, <1>6, <1>7, <1>8, <1>9 DEF Engine!CheckCollisions, Found
  <1>. QED BY <1>5, <1>10

LEMMA StartStep ==
    ASSUME LoopInv, StartLoop
    PROVE  LoopInv'
  <1>1. /\ ~IsLooping /\ Inv /\ PlayersIsFunction /\ toDestroy = << >> /\ phase = "collide"
        /\ before' = <<[players |-> players, food |-> food,
                        boosts |-> boosts, highScore |-> highScore]>>
        /\ toExamine' = DOMAIN players /\ toDestroy' = toDestroy
        /\ UNCHANGED vars
    BY DEF LoopInv, StartLoop
  <1>2. /\ IsLooping' /\ Found'.players = players /\ Found'.food = food
        /\ Found'.boosts = boosts /\ Found'.highScore = highScore
    BY <1>1 DEF IsLooping, Found
  <1>3. players' = players /\ food' = food /\ boosts' = boosts /\ highScore' = highScore
        /\ phase' = phase /\ stateChanged' = stateChanged
    BY <1>1 DEF vars
  <1>4. Inv' /\ PlayersIsFunction'
    <2>1. Inv'
      BY <1>1, <1>3 DEF Inv, TypeOK, BodiesInArena, NecksBehind, HeadCell, CellsAndWalls, Cells,
                        DropCells, PlayerType, Phases, NeckBehind
    <2>. QED BY <1>1, <1>3, <2>1 DEF PlayersIsFunction
  <1>5. FoundOK'
    <2>1. SnakesOK /\ DOMAIN players \subseteq Clients /\ highScore \in Nat
      BY <1>1, InvSnakes DEF Inv, TypeOK
    <2>. QED BY <1>2, <2>1 DEF FoundOK, SnakesOK
  <1>6. Done' = {} /\ Doomed' = {} /\ Gone' = {}
    <2>1. Done' = {}
      BY <1>1, <1>2 DEF Done
    <2>2. Doomed' = {}
      BY <1>1, SMT DEF Doomed
    <2>. QED BY <2>1, <2>2 DEF Gone
  <1>7. Turns'
    BY <1>1, <1>2, <1>6, SMT DEF Turns
  <1>8. SnakesSoFar'
    BY <1>1, <1>2, <1>3, <1>6 DEF SnakesSoFar
  <1>9. FoodSoFar'
    <2>1. food' = (Found.food \ {FoundHead(c) : c \in {d \in Done : Engine!Feeds(d)}})' \cup {}
      BY <1>2, <1>3, <1>6
    <2>2. {} \in SUBSET UNION {BodyCells(Found.players[c].segs) : c \in Gone}'
      OBVIOUS
    <2>. QED BY <2>1, <2>2 DEF FoodSoFar
  <1>10. BoostsSoFar'
    BY <1>2, <1>3, <1>6 DEF BoostsSoFar
  <1>11. ScoreSoFar'
    <2>1. highScore \in Nat /\ highScore <= highScore
      BY <1>1, SMT DEF Inv, TypeOK
    <2>. QED BY <1>2, <1>3, <1>6, <2>1 DEF ScoreSoFar
  <1>. QED BY <1>1, <1>2, <1>3, <1>4, <1>5, <1>7, <1>8, <1>9, <1>10, <1>11 DEF LoopInv, InLoop

\* Between two checks the loop is the engine.
LEMMA OtherSteps ==
    ASSUME ~IsLooping, ~IsLooping', OtherStep
    PROVE  Engine!Next /\ Next
  <1>1. ASSUME NEW elapsed \in 0..MaxElapsed, PollMessages(elapsed)
        PROVE  Engine!PollMessages(elapsed)
    <2>1. \A p : Engine!Elapse(p, elapsed) = Elapse(p, elapsed)
      BY DEF Elapse, Remaining, Engine!Elapse, Engine!Remaining
    <2>2. Engine!Replacements = Replacements
      <3>1. \A set : Engine!Cardinality(set) = Cardinality(set)
        BY Zenon DEF Cardinality, Engine!Cardinality
      <3>. QED BY <3>1 DEF Replacements, DropCells, Engine!Replacements, Engine!DropCells
    <2>. QED BY <1>1, <2>1, <2>2 DEF PollMessages, Engine!PollMessages
  <1>2. ASSUME NEW c \in Clients, NEW cell \in SpawnCells, HandleClientJoin(c, cell)
        PROVE  Engine!HandleClientJoin(c, cell)
    BY <1>2 DEF HandleClientJoin, NewPlayer, Engine!HandleClientJoin, Engine!NewPlayer
  <1>3. ASSUME NEW c \in Clients, NEW key \in Keys, HandleClientInput(c, key)
        PROVE  Engine!HandleClientInput(c, key)
    BY <1>3 DEF HandleClientInput, Turn, Opposite, Directions, Engine!HandleClientInput,
                Engine!Turn, Engine!Opposite, Engine!Directions
  <1>4. ASSUME NEW c \in Clients, HandleClientDisconnect(c)
        PROVE  Engine!HandleClientDisconnect(c)
    BY <1>4 DEF HandleClientDisconnect, Engine!HandleClientDisconnect
  <1>5. ASSUME UpdateSnakes
        PROVE  Engine!UpdateSnakes
    <2>1. \A p : Engine!UpdateSnake(p) = UpdateSnake(p)
      BY DEF UpdateSnake, MoveSnake, ExpireBoost, HeadOf, Step, MoveTo, TailPrevAfterMove,
             Engine!UpdateSnake, Engine!MoveSnake, Engine!ExpireBoost, Engine!HeadOf,
             Engine!Step, Engine!MoveTo, Engine!TailPrevAfterMove
    <2>2. Engine!DueToMove = DueToMove
      BY DEF DueToMove, Engine!DueToMove
    <2>3. Engine!WithinLengthBound <=> WithinLengthBound
      BY DEF WithinLengthBound, Engine!WithinLengthBound
    <2>. QED BY <1>5, <2>1, <2>2, <2>3 DEF UpdateSnakes, Engine!UpdateSnakes
  <1>6. ASSUME BroadcastGameState
        PROVE  Engine!BroadcastGameState
    BY <1>6 DEF BroadcastGameState, Engine!BroadcastGameState
  <1>7. Engine!SpawnCells = SpawnCells /\ Engine!Keys = Keys
    BY DEF SpawnCells, Keys, Directions, Engine!SpawnCells, Engine!Keys, Engine!Directions
  <1>8. Engine!Next
    BY <1>1, <1>2, <1>3, <1>4, <1>5, <1>6, <1>7 DEF OtherStep, Engine!Next, Engine!Advance
  <1>9. Next
    BY DEF OtherStep, Next, Advance
  <1>. QED BY <1>8, <1>9

\* No step of the engine outside the loop is enabled while it runs.
LEMMA LoopRunsAlone ==
    ASSUME LoopInv, IsLooping, OtherStep
    PROVE  FALSE
  <1>1. phase = "collide"
    BY DEF LoopInv, InLoop
  <1>. QED BY <1>1 DEF OtherStep, PollMessages, HandleClientJoin, HandleClientInput,
              HandleClientDisconnect, UpdateSnakes, BroadcastGameState

LEMMA OtherFunction ==
    ASSUME LoopInv, OtherStep
    PROVE  PlayersIsFunction'
  <1>1. PlayersIsFunction
    BY DEF LoopInv
  <1>. QED BY <1>1 DEF OtherStep, PollMessages, HandleClientJoin, HandleClientInput,
              HandleClientDisconnect, UpdateSnakes, BroadcastGameState, PlayersIsFunction

-----------------------------------------------------------------------------
(* The refinement.                                                         *)

LEMMA LoopBegins == LoopInit => LoopInv /\ Engine!Init
  <1> SUFFICES ASSUME LoopInit PROVE LoopInv /\ Engine!Init
    OBVIOUS
  <1>1. ~IsLooping /\ Init /\ toExamine = {} /\ toDestroy = << >>
    BY DEF LoopInit, IsLooping
  <1>2. PlayersIsFunction
    <2>1. players = << >> /\ << >> = [c \in {} |-> << >>[c]] /\ DOMAIN << >> = {}
      BY <1>1, SMT DEF Init
    <2>. QED BY <2>1 DEF PlayersIsFunction
  <1>3. Engine!Init
    BY <1>1 DEF Init, Engine!Init
  <1>. QED BY <1>1, <1>2, <1>3, InvInit DEF LoopInv

LEMMA LoopSteps == LoopInv /\ [LoopNext]_loopVars => LoopInv' /\ [Engine!Next]_Engine!vars
  <1> SUFFICES ASSUME LoopInv, [LoopNext]_loopVars
               PROVE  LoopInv' /\ (Engine!Next \/ UNCHANGED Engine!vars)
    OBVIOUS
  <1>1. ASSUME StartLoop
        PROVE  LoopInv' /\ UNCHANGED Engine!vars
    <2>1. /\ ~IsLooping /\ UNCHANGED vars
          /\ before' = <<[players |-> players, food |-> food,
                          boosts |-> boosts, highScore |-> highScore]>>
      BY <1>1 DEF StartLoop
    <2>2. IsLooping'
      BY <2>1 DEF IsLooping
    <2>3. UNCHANGED Engine!vars
      BY <2>1, <2>2 DEF vars, Engine!vars
    <2>. QED BY <1>1, <2>3, StartStep
  <1>2. ASSUME NEW c, Examine(c)
        PROVE  LoopInv' /\ UNCHANGED Engine!vars
    <2>1. IsLooping /\ before' = before /\ phase' = phase /\ stateChanged' = stateChanged
      BY <1>2 DEF LoopInv, Examine
    <2>. QED BY <1>2, <2>1, ExamineStep DEF Engine!vars, IsLooping
  <1>3. ASSUME DestroyNext
        PROVE  LoopInv' /\ UNCHANGED Engine!vars
    <2>1. IsLooping /\ before' = before /\ phase' = phase /\ stateChanged' = stateChanged
      BY <1>3 DEF LoopInv, DestroyNext
    <2>. QED BY <1>3, <2>1, DestroyStep DEF Engine!vars, IsLooping
  <1>4. ASSUME PlaceSpeedBoost
        PROVE  LoopInv' /\ Engine!Next
    BY <1>4, PlaceStep DEF Engine!Next, Engine!Advance
  <1>5. ASSUME OtherStep, UNCHANGED <<before, toExamine, toDestroy>>
        PROVE  LoopInv' /\ Engine!Next
    <2>1. ~IsLooping /\ ~IsLooping'
      BY <1>5, LoopRunsAlone DEF IsLooping
    <2>2. Engine!Next /\ Next
      BY <1>5, <2>1, OtherSteps
    <2>3. Inv'
      BY <2>2, InvNext DEF LoopInv
    <2>. QED BY <1>5, <2>1, <2>2, <2>3, OtherFunction DEF LoopInv
  <1>6. ASSUME UNCHANGED loopVars
        PROVE  LoopInv' /\ UNCHANGED Engine!vars
    <2>1. UNCHANGED vars /\ before' = before /\ toExamine' = toExamine /\ toDestroy' = toDestroy
      BY <1>6 DEF loopVars
    <2>2. UNCHANGED Engine!vars
      BY <2>1 DEF vars, Engine!vars, IsLooping
    <2>3. Inv'
      BY <2>1, InvNext DEF LoopInv
    <2>4. players' = players /\ food' = food /\ boosts' = boosts /\ highScore' = highScore
          /\ phase' = phase
      BY <2>1 DEF vars
    <2>5. PlayersIsFunction'
      BY <2>4 DEF LoopInv, PlayersIsFunction
    <2>6. CASE IsLooping
      <3>1. /\ IsLooping' /\ Found' = Found
            /\ \A d : FoundHead(d)' = FoundHead(d)
            /\ Engine!Destroyed' = Engine!Destroyed
            /\ \A d : Engine!Feeds(d)' <=> Engine!Feeds(d)
            /\ \A d : Engine!Boosts(d)' <=> Engine!Boosts(d)
            /\ \A d : Engine!AfterCollision(d)' = Engine!AfterCollision(d)
            /\ FoundOK'
        BY <2>1, <2>6, ViewStays DEF LoopInv, InLoop
      <3>2. InLoop
        BY <2>6 DEF LoopInv
      <3>3. Done' = Done /\ Doomed' = Doomed
        BY <2>1, <3>1 DEF Done, Doomed
      <3>4. Gone' = Gone
        BY <3>1, <3>3 DEF Gone
      <3>5. Turns' /\ SnakesSoFar'
        BY <2>1, <2>4, <3>1, <3>2, <3>3, <3>4 DEF InLoop, Turns, SnakesSoFar
      <3>6. FoodSoFar' /\ BoostsSoFar' /\ ScoreSoFar'
        BY <2>1, <2>4, <3>1, <3>2, <3>3, <3>4 DEF InLoop, FoodSoFar, BoostsSoFar, ScoreSoFar
      <3>7. InLoop'
        BY <2>4, <3>1, <3>2, <3>5, <3>6 DEF InLoop
      <3>. QED BY <2>2, <2>3, <2>5, <3>1, <3>7 DEF LoopInv
    <2>7. CASE ~IsLooping
      <3>1. ~IsLooping' /\ toExamine' = {} /\ toDestroy' = << >>
        BY <2>1, <2>7 DEF LoopInv, IsLooping
      <3>. QED BY <2>2, <2>3, <2>5, <3>1 DEF LoopInv
    <2>. QED BY <2>2, <2>6, <2>7
  <1>. QED BY <1>1, <1>2, <1>3, <1>4, <1>5, <1>6 DEF LoopNext

\* ImplementsEngine: whatever the order in which the hash map yields the players and
\* however many they are, the loop of checkCollisions() with destroyPlayers() and
\* placeSpeedBoost() does in the end exactly what the engine does in one step.
THEOREM LoopImplementsEngine == LoopSpec => ImplementsEngine
  <1>1. LoopInv /\ [LoopNext]_loopVars => LoopInv'
    BY LoopSteps
  <1>2. LoopInv /\ [LoopNext]_loopVars => [Engine!Next]_Engine!vars
    BY LoopSteps
  <1>. QED BY <1>1, <1>2, LoopBegins, PTL DEF LoopSpec, ImplementsEngine, Engine!Spec
=============================================================================
