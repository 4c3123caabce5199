---------------------------- MODULE ReplayProofs ----------------------------
(***************************************************************************)
(* A replay reproduces the recording and comes to its end, for every arena,*)
(* generator, seed and recording.                                          *)
(*                                                                         *)
(* The invariant gives the log a history (Account): the iterations that    *)
(* wrote its records, and the engine after each of them.  The live engine  *)
(* is not the one of the history: it has also run iterations that wrote    *)
(* nothing.  Those have at most drawn food and counted down clocks (Lags), *)
(* so that the next iteration that does write makes up for them, and what  *)
(* it writes and leaves is what the engine of the history would            *)
(* (SilentIteration, LoudIteration).  From there nextBatch() cuts the      *)
(* recording where the history has its joints (BatchIs).                   *)
(***************************************************************************)
EXTENDS Replay, SequenceTheorems, WellFoundedInduction, TLAPS

-----------------------------------------------------------------------------
(* Induction and recursion up to a number.                                 *)

LEMMA LeastNumber ==
    ASSUME NEW S, S \subseteq Nat, S # {}
    PROVE  \E m \in S : \A n \in S : m <= n
  <1>1. PICK m \in S : \A n \in S : ~(<<n, m>> \in OpToRel(<, Nat))
    BY NatLessThanWellFounded, WFMin
  <1>2. \A n \in S : ~(n < m)
    BY <1>1 DEF OpToRel
  <1>. QED BY <1>2

LEMMA UpTo ==
    ASSUME NEW n \in Nat, NEW P, 0 \in P, \A i \in 1..n : i - 1 \in P => i \in P
    PROVE  \A i \in 0..n : i \in P
  <1> DEFINE bad == {i \in 0..n : i \notin P}
  <1>1. SUFFICES ASSUME bad # {}
                 PROVE  FALSE
    OBVIOUS
  <1>2. PICK k \in bad : \A j \in bad : k <= j
    <2>1. bad \subseteq Nat
      OBVIOUS
    <2> HIDE DEF bad
    <2>. QED BY <1>1, <2>1, LeastNumber
  <1>3. k \in 0..n /\ k \notin P /\ k # 0
    OBVIOUS
  <1>4. k \in 1..n /\ k - 1 \in 0..n /\ ~(k <= k - 1)
    BY <1>3, SMT
  <1>5. k - 1 \notin bad
    <2> HIDE DEF bad
    <2>. QED BY <1>2, <1>4
  <1>. QED BY <1>3, <1>4, <1>5

\* A function that is defined by recursion on its argument exists.
Recursive(f, base, step, n) ==
    f = [i \in 0..n |-> IF i = 0 THEN base ELSE step[<<f[i - 1], i>>]]

LEMMA Recursion ==
    ASSUME NEW S, NEW base \in S, NEW step \in [S \X Nat -> S], NEW n \in Nat
    PROVE  \E f \in [0..n -> S] : Recursive(f, base, step, n)
  <1> DEFINE Is(f, k) == Recursive(f, base, step, k)
             P == {k \in Nat : \E f \in [0..k -> S] : Is(f, k)}
  <1>1. 0 \in P
    <2>1. 0..0 = {0}
      BY SMT
    <2>2. Is([i \in 0..0 |-> base], 0) /\ [i \in 0..0 |-> base] \in [0..0 -> S]
      BY <2>1 DEF Recursive
    <2>. QED BY <2>2
  <1>2. ASSUME NEW k \in 1..n, k - 1 \in P
        PROVE  k \in P
    <2>1. PICK f \in [0..k - 1 -> S] : Is(f, k - 1)
      BY <1>2
    <2> DEFINE g == [i \in 0..k |-> IF i = k THEN step[<<f[k - 1], k>>] ELSE f[i]]
    <2>2. k - 1 \in 0..k - 1 /\ k \in Nat
      BY SMT
    <2>3. step[<<f[k - 1], k>>] \in S
      BY <2>2
    <2>4. \A i \in 0..k : i # k => i \in 0..k - 1
      BY SMT
    <2>5. g \in [0..k -> S]
      BY <2>3, <2>4
    <2>6. ASSUME NEW i \in 0..k
          PROVE  g[i] = IF i = 0 THEN base ELSE step[<<g[i - 1], i>>]
      <3>1. CASE i = k
        <4>1. k - 1 \in 0..k /\ k - 1 # k /\ k # 0
          BY SMT
        <4>. QED BY <3>1, <4>1
      <3>2. CASE i # k
        <4>1. i \in 0..k - 1 /\ (i # 0 => i - 1 \in 0..k /\ i - 1 # k)
          BY <3>2, SMT
        <4>2. f[i] = IF i = 0 THEN base ELSE step[<<f[i - 1], i>>]
          BY <2>1, <4>1 DEF Recursive
        <4>. QED BY <3>2, <4>1, <4>2
      <3>. QED BY <3>1, <3>2
    <2>7. Is(g, k)
      <3> HIDE DEF g
      <3>1. DOMAIN g = 0..k /\ g = [i \in 0..k |-> g[i]]
        BY <2>5
      <3>. QED BY <2>6, <3>1 DEF Recursive
    <2>. QED BY <2>2, <2>5, <2>7
  <1>3. n \in P
    <2> HIDE DEF P
    <2>1. \A i \in 0..n : i \in P
      BY <1>1, <1>2, UpTo
    <2>. QED BY <2>1
  <1>. QED BY <1>3

-----------------------------------------------------------------------------
(* Types.                                                                  *)

Points == Int \X Int

Snakes ==
    [segs              : {s \in Seq(Points) : s # << >>},
     tailPrev          : Points,
     direction         : Rules!Directions,
     nextDirection     : Rules!Directions,
     score             : Nat,
     movementFrequency : Nat,
     nextMoveIn        : Nat,
     boosted           : BOOLEAN,
     boostLeft         : Nat]

Engines ==
    [tick : Nat, sequence : Nat, seed : Seeds, gen : 0..Period - 1, playing : BOOLEAN,
     snake : Snakes, food : SUBSET Points, boosts : SUBSET Points]

LEMMA DrawTyped ==
    ASSUME NEW e \in Engines
    PROVE  /\ Draw(e) = [e EXCEPT !.gen = (e.gen + 1) % Period]
           /\ Draw(e) \in Engines
           /\ Drawn(e) \in Nat /\ DrawnCell(e) \in Points
  <1>1. (e.gen + 1) % Period \in 0..Period - 1
    <2>1. \A n \in Nat, k \in Nat \ {0} : n % k \in 0..k - 1
      BY SMT
    <2>2. e.gen \in 0..Period - 1
      BY DEF Engines
    <2>3. e.gen + 1 \in Nat
      BY <2>2, ReplayAssumption
    <2>. QED BY <2>1, <2>3, ReplayAssumption
  <1>2. Drawn(e) \in Nat
    <2>1. e.seed \in [0..Period - 1 -> Outcomes] /\ e.gen \in 0..Period - 1
      BY DEF Engines, Seeds
    <2>. QED BY <2>1, ReplayAssumption DEF Drawn
  <1>3. DrawnCell(e) \in Points
    <2>1. \A n \in Nat, k \in Nat, m \in Nat : k >= 2 /\ m >= 2 =>
             1 + (n % (k - 1)) \in Int /\ 1 + ((n \div (k - 1)) % (m - 1)) \in Int
      BY SMT
    <2>. QED BY <1>2, <2>1, ReplayAssumption DEF DrawnCell, Points
  <1>. QED BY <1>1, <1>2, <1>3 DEF Draw, Engines

LEMMA PlaceFoodTyped ==
    ASSUME NEW e \in Engines
    PROVE  PlaceFood(e) \in Engines
  <1>1. Draw(e) \in Engines /\ DrawnCell(e) \in Points
    BY DrawTyped
  <1>2. e.food \cup {DrawnCell(e)} \in SUBSET Points
    BY <1>1 DEF Engines
  <1>3. [Draw(e) EXCEPT !.food = e.food \cup {DrawnCell(e)}] \in Engines
    BY <1>1, <1>2 DEF Engines
  <1>. QED BY <1>3 DEF PlaceFood

LEMMA ReplaceFoodUnfolds ==
    ASSUME NEW e \in Engines
    PROVE  \E f \in [0..Period -> Engines] :
              /\ f[0] = e /\ (\A i \in 1..Period : f[i] = PlaceFood(f[i - 1]))
              /\ ReplaceFood(e) = f[Period]
  <1> DEFINE step == [x \in Engines \X Nat |-> PlaceFood(x[1])]
             Is(f) == f = [i \in 0..Period |-> IF i = 0 THEN e ELSE PlaceFood(f[i - 1])]
  <1>1. step \in [Engines \X Nat -> Engines]
    BY PlaceFoodTyped
  <1>2. \E f \in [0..Period -> Engines] : Recursive(f, e, step, Period)
    <2>1. Period \in Nat
      BY ReplayAssumption
    <2> HIDE DEF step
    <2>. QED BY <1>1, <2>1, Recursion, Zenon
  <1>3. PICK g \in [0..Period -> Engines] : Recursive(g, e, step, Period)
    <2> HIDE DEF step
    <2>. QED BY <1>2
  <1>4. \A i \in 0..Period : i # 0 => i - 1 \in 0..Period /\ i \in Nat
    BY ReplayAssumption, SMT
  <1>5. ASSUME NEW i \in 0..Period
        PROVE  g[i] = IF i = 0 THEN e ELSE PlaceFood(g[i - 1])
    BY <1>3, <1>4 DEF Recursive
  <1>6. Is(g)
    BY <1>3, <1>5 DEF Recursive
  <1>7. PICK f : f = CHOOSE h : Is(h)
    OBVIOUS
  <1>8. Is(f)
    <2> HIDE DEF Is
    <2>. QED BY <1>6, <1>7, Zenon
  <1>9. ReplaceFood(e) = f[Period]
    BY <1>7 DEF ReplaceFood
  <1>10. 0 \in 0..Period /\ Period \in 0..Period /\ (\A i \in 1..Period : i \in 0..Period /\ i # 0)
    BY ReplayAssumption, SMT
  <1>11. f[0] = e /\ (\A i \in 1..Period : f[i] = PlaceFood(f[i - 1]))
    BY <1>8, <1>10
  <1>12. f \in [0..Period -> Engines]
    <2>1. \A i \in 0..Period : i \in {j \in 0..Period : f[j] \in Engines}
      <3> DEFINE P == {j \in 0..Period : f[j] \in Engines}
      <3>1. 0 \in P
        BY <1>10, <1>11
      <3>2. ASSUME NEW i \in 1..Period, i - 1 \in P
            PROVE  i \in P
        BY <1>10, <1>11, <3>2, PlaceFoodTyped
      <3> HIDE DEF P
      <3>. QED BY <3>1, <3>2, UpTo, ReplayAssumption DEF P
    <2>2. DOMAIN f = 0..Period /\ f = [i \in 0..Period |-> f[i]]
      BY <1>8
    <2>. QED BY <2>1, <2>2
  <1>. QED BY <1>9, <1>11, <1>12

LEMMA DestroyTyped ==
    ASSUME NEW e \in Engines
    PROVE  Destroy(e) \in Engines /\ Destroy(e).tick = e.tick
  <1> DEFINE body == Tail(e.snake.segs)
             step == [x \in Engines \X Nat |->
                        IF x[2] \in 1..Len(body) THEN DropFood(x[1], body[x[2]]) ELSE x[1]]
             Is(f) == f = [i \in 0..Len(body) |->
                             IF i = 0 THEN e ELSE DropFood(f[i - 1], body[i])]
  <1>1. body \in Seq(Points)
    <2>1. e.snake \in Snakes
      BY DEF Engines
    <2>2. e.snake.segs \in Seq(Points) /\ e.snake.segs # << >>
      BY <2>1 DEF Snakes
    <2>. QED BY <2>2, HeadTailProperties
  <1>2. Len(body) \in Nat /\ \A i \in 1..Len(body) : body[i] \in Points
    <2> HIDE DEF body
    <2>. QED BY <1>1, LenProperties, ElementOfSeq
  <1>3. ASSUME NEW d \in Engines, NEW i \in 1..Len(body)
        PROVE  DropFood(d, body[i]) \in Engines /\ DropFood(d, body[i]).tick = d.tick
    <2>1. Draw(d) \in Engines /\ Draw(d).tick = d.tick
      <3> HIDE DEF body, step, Is
      <3>1. Draw(d) \in Engines
        BY DrawTyped, Zenon
      <3>2. Draw(d) = [d EXCEPT !.gen = (d.gen + 1) % Period]
        BY DrawTyped, Zenon
      <3>. QED BY <3>1, <3>2 DEF Engines
    <2>2. d.food \cup {body[i]} \in SUBSET Points
      BY <1>2 DEF Engines
    <2>3. /\ [Draw(d) EXCEPT !.food = d.food \cup {body[i]}] \in Engines
          /\ [Draw(d) EXCEPT !.food = d.food \cup {body[i]}].tick = d.tick
      <3> HIDE DEF body
      <3>. QED BY <2>1, <2>2 DEF Engines
    <2>. QED BY <2>1, <2>3 DEF DropFood
  <1>4. step \in [Engines \X Nat -> Engines]
    BY <1>3
  <1>5. PICK g \in [0..Len(body) -> Engines] : Recursive(g, e, step, Len(body))
    <2> HIDE DEF step, body
    <2>. QED BY <1>2, <1>4, Recursion, Zenon
  <1>6. \A i \in 0..Len(body) : i # 0 => i - 1 \in 0..Len(body) /\ i \in 1..Len(body) /\ i \in Nat
    <2> HIDE DEF body
    <2>. QED BY <1>2, SMT
  <1>7. ASSUME NEW i \in 0..Len(body)
        PROVE  g[i] = IF i = 0 THEN e ELSE DropFood(g[i - 1], body[i])
    <2> HIDE DEF body
    <2>. QED BY <1>5, <1>6 DEF Recursive
  <1>8. Is(g)
    <2> HIDE DEF body
    <2>. QED BY <1>5, <1>7 DEF Recursive
  <1>9. PICK f : f = CHOOSE h : Is(h)
    OBVIOUS
  <1>10. Is(f)
    <2> HIDE DEF Is
    <2>. QED BY <1>8, <1>9, Zenon
  <1>11. Destroy(e) = [f[Len(body)] EXCEPT !.playing = FALSE]
    BY <1>9 DEF Destroy
  <1>12. \A i \in 0..Len(body) : i \in {j \in 0..Len(body) : f[j] \in Engines /\ f[j].tick = e.tick}
    <2> DEFINE P == {j \in 0..Len(body) : f[j] \in Engines /\ f[j].tick = e.tick}
    <2> HIDE DEF body
    <2>1. 0 \in P
      BY <1>2, <1>10, SMT
    <2>2. ASSUME NEW i \in 1..Len(body), i - 1 \in P
          PROVE  i \in P
      <3>1. i \in 0..Len(body) /\ i # 0
        BY <1>2, SMT
      <3>2. f[i] = DropFood(f[i - 1], body[i])
        BY <1>10, <3>1
      <3>. QED BY <1>3, <2>2, <3>1, <3>2
    <2> HIDE DEF P
    <2>. QED BY <1>2, <2>1, <2>2, UpTo DEF P
  <1>13. Len(body) \in 0..Len(body)
    <2> HIDE DEF body
    <2>. QED BY <1>2, SMT
  <1>14. f[Len(body)] \in Engines /\ f[Len(body)].tick = e.tick
    <2> HIDE DEF body
    <2>. QED BY <1>12, <1>13
  <1>15. /\ [f[Len(body)] EXCEPT !.playing = FALSE] \in Engines
         /\ [f[Len(body)] EXCEPT !.playing = FALSE].tick = e.tick
    <2> HIDE DEF body
    <2>. QED BY <1>14 DEF Engines
  <1>. QED BY <1>11, <1>15

LEMMA SnakeTyped ==
    ASSUME NEW s \in Snakes
    PROVE  /\ \A elapsed \in Nat : Rules!Elapse(s, elapsed) \in Snakes
           /\ \A key \in Rules!Directions : Rules!Turn(s, key) \in Snakes
           /\ Rules!ExpireBoost(s) \in Snakes /\ Rules!UpdateSnake(s) \in Snakes
           /\ Rules!FeedPlayer(s) \in Snakes /\ Rules!BoostPlayer(s) \in Snakes
  <1>1. ASSUME NEW elapsed \in Nat
        PROVE  Rules!Elapse(s, elapsed) \in Snakes
    <2>1. Rules!Remaining(s.nextMoveIn, elapsed) \in Nat /\ Rules!Remaining(s.boostLeft, elapsed) \in Nat
      BY DEF Snakes, Rules!Remaining
    <2>. QED BY <2>1 DEF Snakes, Rules!Elapse
  <1>2. ASSUME NEW key \in Rules!Directions
        PROVE  Rules!Turn(s, key) \in Snakes
    BY DEF Snakes, Rules!Turn
  <1>3. ASSUME NEW t \in Snakes
        PROVE  Rules!ExpireBoost(t) \in Snakes
    BY ReplayAssumption DEF Snakes, Rules!ExpireBoost
  <1>4. ASSUME NEW t \in Snakes
        PROVE  Rules!MoveSnake(t) \in Snakes
    <2>1. t.segs \in Seq(Points) /\ t.segs # << >> /\ Len(t.segs) \in Nat \ {0}
          /\ (\A i \in 1..Len(t.segs) : t.segs[i] \in Points)
      BY EmptySeq, LenProperties, ElementOfSeq DEF Snakes
    <2> DEFINE cell == Rules!Step(Rules!HeadOf(t.segs), t.nextDirection)
               segs == Rules!MoveTo(t.segs, cell)
    <2>2. t.nextDirection \in Rules!Directions
      BY DEF Snakes
    <2>3. cell \in Points
      <3>1. 1 \in 1..Len(t.segs)
        BY <2>1, SMT
      <3>2. PICK x \in Int, y \in Int : t.segs[1] = <<x, y>>
        BY <2>1, <3>1 DEF Points
      <3>. QED BY <2>2, <3>2 DEF Rules!Step, Rules!HeadOf, Rules!Directions, Points
    <2>4. segs \in Seq(Points) /\ segs # << >>
      <3> HIDE DEF cell
      <3>1. \A i \in 1..Len(t.segs) : i # 1 => i - 1 \in 1..Len(t.segs)
        BY <2>1, SMT
      <3>2. segs \in [1..Len(t.segs) -> Points]
        BY <2>1, <2>3, <3>1 DEF Rules!MoveTo
      <3>3. segs \in Seq(Points) /\ Len(segs) = Len(t.segs)
        <4> HIDE DEF segs
        <4>. QED BY <2>1, <3>2, SMT
      <3>. QED BY <2>1, <3>3, EmptySeq
    <2>5. Rules!TailPrevAfterMove(t.segs) \in Points
      BY <2>1, SMT DEF Rules!TailPrevAfterMove
    <2>6. Rules!MoveSnake(t) = [t EXCEPT !.direction = t.nextDirection, !.segs = segs,
                                         !.tailPrev = Rules!TailPrevAfterMove(t.segs),
                                         !.nextMoveIn = t.movementFrequency]
      BY DEF Rules!MoveSnake
    <2>7. t.movementFrequency \in Nat
      BY DEF Snakes
    <2> HIDE DEF segs
    <2>. QED BY <2>2, <2>4, <2>5, <2>6, <2>7 DEF Snakes
  <1>5. Rules!UpdateSnake(s) \in Snakes
    BY <1>3, <1>4 DEF Rules!UpdateSnake
  <1>6. Rules!FeedPlayer(s) \in Snakes
    <2>1. s.segs \in Seq(Points) /\ s.tailPrev \in Points /\ s.score + 1 \in Nat
      BY DEF Snakes
    <2>2. Append(s.segs, s.tailPrev) \in Seq(Points) /\ Append(s.segs, s.tailPrev) # << >>
      BY <2>1, AppendProperties, EmptySeq
    <2>. QED BY <2>1, <2>2 DEF Snakes, Rules!FeedPlayer, Rules!Grow
  <1>7. Rules!BoostPlayer(s) \in Snakes
    BY ReplayAssumption DEF Snakes, Rules!BoostPlayer
  <1>. QED BY <1>1, <1>2, <1>3, <1>5, <1>6, <1>7

LEMMA NewPlayerTyped ==
    ASSUME NEW cell \in Points
    PROVE  Rules!NewPlayer(cell) \in Snakes
  <1>1. <<cell>> \in Seq(Points) /\ <<cell>> # << >>
    BY EmptySeq
  <1>. QED BY <1>1, ReplayAssumption DEF Snakes, Rules!NewPlayer, Rules!Directions

LEMMA SetTickTyped ==
    ASSUME NEW e \in Engines, NEW t \in Nat, e.tick <= t
    PROVE  SetTick(e, t) \in Engines
  <1>1. t - e.tick \in Nat /\ e.snake \in Snakes
    BY DEF Engines
  <1>2. Rules!Elapse(e.snake, t - e.tick) \in Snakes
    BY <1>1, SnakeTyped
  <1> DEFINE s == Rules!Elapse(e.snake, t - e.tick)
  <1>3. SetTick(e, t) = [e EXCEPT !.tick = t, !.snake = s]
    BY DEF SetTick
  <1> HIDE DEF s
  <1>. QED BY <1>2, <1>3 DEF Engines, s

LEMMA JoinTyped ==
    ASSUME NEW e \in Engines
    PROVE  Join(e) \in Engines /\ Join(e).tick = e.tick
  <1>1. /\ DrawnCell(e) \in Points /\ Draw(e) \in Engines /\ e.snake \in Snakes
        /\ Draw(e).tick = e.tick
    BY DrawTyped DEF Engines
  <1>2. Rules!NewPlayer(DrawnCell(e)) \in Snakes
    BY <1>1, NewPlayerTyped
  <1> DEFINE s == IF e.playing THEN e.snake ELSE Rules!NewPlayer(DrawnCell(e))
  <1>3. s \in Snakes
    BY <1>1, <1>2
  <1>4. Join(e) = [Draw(e) EXCEPT !.playing = TRUE, !.snake = s]
    BY DEF Join
  <1> HIDE DEF s
  <1>. QED BY <1>1, <1>3, <1>4 DEF Engines

LEMMA CollisionsTyped ==
    ASSUME NEW e \in Engines
    PROVE  /\ CheckCollisions(e) \in Engines /\ CheckCollisions(e).tick = e.tick
           /\ PlaceSpeedBoost(e) \in Engines /\ PlaceSpeedBoost(e).tick = e.tick
  <1>1. e.snake \in Snakes /\ e.food \in SUBSET Points
    BY DEF Engines
  <1>2. Rules!FeedPlayer(e.snake) \in Snakes /\ Rules!BoostPlayer(e.snake) \in Snakes
    BY <1>1, SnakeTyped
  <1> DEFINE head == Rules!HeadOf(e.snake.segs)
  <1>3. /\ [e EXCEPT !.snake = Rules!FeedPlayer(e.snake), !.food = e.food \ {head}] \in Engines
        /\ [e EXCEPT !.snake = Rules!FeedPlayer(e.snake), !.food = e.food \ {head}].tick = e.tick
    <2> HIDE DEF head
    <2>1. e.food \ {head} \in SUBSET Points
      BY <1>1
    <2>. QED BY <1>2, <2>1 DEF Engines
  <1>4. /\ [e EXCEPT !.snake = Rules!BoostPlayer(e.snake), !.boosts = {}] \in Engines
        /\ [e EXCEPT !.snake = Rules!BoostPlayer(e.snake), !.boosts = {}].tick = e.tick
    BY <1>2 DEF Engines
  <1>5. Destroy(e) \in Engines /\ Destroy(e).tick = e.tick
    BY DestroyTyped
  <1>6. CheckCollisions(e) \in Engines /\ CheckCollisions(e).tick = e.tick
    <2>1. CASE head \notin Rules!Cells \/ head \in Rules!BodyCells(e.snake.segs)
      <3>1. CheckCollisions(e) = Destroy(e)
        BY <2>1 DEF CheckCollisions
      <3>. QED BY <3>1, <1>5
    <2>2. CASE ~(head \notin Rules!Cells \/ head \in Rules!BodyCells(e.snake.segs))
      <3>1. \/ CheckCollisions(e) = [e EXCEPT !.snake = Rules!FeedPlayer(e.snake), !.food = e.food \ {head}]
            \/ CheckCollisions(e) = [e EXCEPT !.snake = Rules!BoostPlayer(e.snake), !.boosts = {}]
            \/ CheckCollisions(e) = e
        BY <2>2 DEF CheckCollisions
      <3> HIDE DEF head
      <3>. QED BY <3>1, <1>3, <1>4
    <2>. QED BY <2>1, <2>2
  <1>7. PlaceSpeedBoost(e) \in Engines /\ PlaceSpeedBoost(e).tick = e.tick
    <2>1. Draw(e) \in Engines /\ Draw(e).tick = e.tick
      BY DrawTyped DEF Engines
    <2>2. Draw(Draw(e)) \in Engines /\ DrawnCell(Draw(e)) \in Points /\ Draw(Draw(e)).tick = e.tick
      BY <2>1, DrawTyped DEF Engines
    <2>3. /\ [Draw(Draw(e)) EXCEPT !.boosts = {DrawnCell(Draw(e))}] \in Engines
          /\ [Draw(Draw(e)) EXCEPT !.boosts = {DrawnCell(Draw(e))}].tick = e.tick
      BY <2>2 DEF Engines
    <2>. QED BY <2>1, <2>3 DEF PlaceSpeedBoost
  <1>. QED BY <1>6, <1>7

LEMMA ReplaceFoodTyped ==
    ASSUME NEW e \in Engines
    PROVE  ReplaceFood(e) \in Engines
  <1>1. PICK f \in [0..Period -> Engines] : ReplaceFood(e) = f[Period]
    BY ReplaceFoodUnfolds
  <1>2. Period \in 0..Period
    BY ReplayAssumption, SMT
  <1>. QED BY <1>1, <1>2

\* What an iteration has to do with: the engine, the records it has written, its flag.
Contents ==
    {Nothing} \cup [key : Rules!Directions] \cup [seed : Seeds]
        \cup [snake : {<< >>} \cup (Seq(Points) \X Rules!Directions \X Nat),
              food : SUBSET Points, boosts : SUBSET Points]

Types ==
    {"CLIENT_JOIN", "CLIENT_INPUT", "CLIENT_DISCONNECT", "SERVER_WELCOME", "GAME_STATE", "SERVER_CONFIG"}

Records == [type : Types, sequence : Nat, transactTime : Nat, content : Contents]

Runs == [e : Engines, records : Seq(Records), stateChanged : BOOLEAN]

Stamped(e) == [e EXCEPT !.sequence = e.sequence + 1]

LEMMA WriteTyped ==
    ASSUME NEW r \in Runs, NEW type \in Types, NEW content \in Contents
    PROVE  /\ Write(r, type, content) \in Runs
           /\ Write(r, type, content).e = Stamped(r.e)
           /\ Write(r, type, content).records =
                 Append(r.records, [type |-> type, sequence |-> r.e.sequence,
                                    transactTime |-> r.e.tick, content |-> content])
           /\ Write(r, type, content).stateChanged = r.stateChanged
  <1> DEFINE record == [type |-> type, sequence |-> r.e.sequence,
                        transactTime |-> r.e.tick, content |-> content]
             e == [r.e EXCEPT !.sequence = r.e.sequence + 1]
  <1>1. r.e \in Engines /\ r.records \in Seq(Records)
    BY DEF Runs
  <1>2. record \in Records
    BY <1>1 DEF Records, Engines
  <1>3. Append(r.records, record) \in Seq(Records)
    BY <1>1, <1>2, AppendProperties
  <1>4. e \in Engines
    BY <1>1 DEF Engines
  <1>5. Write(r, type, content) = [r EXCEPT !.e = e, !.records = Append(r.records, record)]
    BY DEF Write, Runs
  <1> HIDE DEF record, e
  <1>6. /\ [r EXCEPT !.e = e, !.records = Append(r.records, record)] \in Runs
        /\ [r EXCEPT !.e = e, !.records = Append(r.records, record)].e = e
        /\ [r EXCEPT !.e = e, !.records = Append(r.records, record)].records = Append(r.records, record)
        /\ [r EXCEPT !.e = e, !.records = Append(r.records, record)].stateChanged = r.stateChanged
    BY <1>3, <1>4 DEF Runs
  <1>. QED BY <1>5, <1>6 DEF record, e, Stamped

LEMMA MessageTyped ==
    ASSUME NEW msg \in Messages
    PROVE  /\ msg.type \in {"CLIENT_JOIN", "CLIENT_INPUT", "CLIENT_DISCONNECT"}
           /\ msg.content \in Contents
           /\ msg.type = "CLIENT_INPUT" => msg.content.key \in Rules!Directions
           /\ msg = Message(msg.type, msg.content)
  <1>1. CASE msg \in {Message(type, Nothing) : type \in {"CLIENT_JOIN", "CLIENT_DISCONNECT"}}
    <2>1. PICK type \in {"CLIENT_JOIN", "CLIENT_DISCONNECT"} : msg = Message(type, Nothing)
      BY <1>1
    <2>2. msg.type = type /\ msg.content = Nothing
      BY <2>1 DEF Message
    <2>3. Nothing \in Contents
      BY DEF Contents
    <2>. QED BY <2>1, <2>2, <2>3
  <1>2. CASE msg \in {Message("CLIENT_INPUT", [key |-> key]) : key \in Rules!Directions}
    <2>1. PICK key \in Rules!Directions : msg = Message("CLIENT_INPUT", [key |-> key])
      BY <1>2
    <2> DEFINE content == [key |-> key]
    <2>2. content \in [key : Rules!Directions] /\ content.key = key
      OBVIOUS
    <2>3. msg = Message("CLIENT_INPUT", content)
      BY <2>1
    <2> HIDE DEF content
    <2>4. msg.type = "CLIENT_INPUT" /\ msg.content = content
      BY <2>3 DEF Message
    <2>. QED BY <2>2, <2>3, <2>4 DEF Contents
  <1>. QED BY <1>1, <1>2 DEF Messages

RecordOf(msg, e) ==
    [type |-> msg.type, sequence |-> e.sequence, transactTime |-> e.tick, content |-> msg.content]

Answer(e) ==
    [type |-> "SERVER_WELCOME", sequence |-> e.sequence + 1, transactTime |-> e.tick,
     content |-> Nothing]

\* What dispatching a message does, field by field.
LEMMA DispatchIs ==
    ASSUME NEW r \in Runs, NEW msg \in Messages
    PROVE  LET d == Dispatch(r, msg)
               w == Stamped(r.e)
               first == Append(r.records, RecordOf(msg, r.e))
           IN /\ d \in Runs
              /\ w \in Engines
              /\ msg.type = "CLIENT_JOIN" =>
                    /\ d.e = Stamped(Join(w))
                    /\ d.stateChanged = TRUE
                    /\ d.records = Append(first, Answer(r.e))
              /\ msg.type = "CLIENT_INPUT" =>
                    /\ w.playing =>
                          d.e = [w EXCEPT !.snake = Rules!Turn(w.snake, msg.content.key)]
                    /\ ~w.playing => d.e = w
                    /\ d.stateChanged = r.stateChanged
                    /\ d.records = first
              /\ msg.type = "CLIENT_DISCONNECT" =>
                    /\ d.e = [w EXCEPT !.playing = FALSE]
                    /\ d.stateChanged = TRUE
                    /\ d.records = first
  <1> DEFINE d == Dispatch(r, msg)
             e1 == Stamped(r.e)
             first == Append(r.records, RecordOf(msg, r.e))
             w == Write(r, msg.type, msg.content)
  <1>1. msg.type \in Types /\ msg.content \in Contents
    <2>1. msg.type \in {"CLIENT_JOIN", "CLIENT_INPUT", "CLIENT_DISCONNECT"} /\ msg.content \in Contents
      BY MessageTyped
    <2>. QED BY <2>1 DEF Types
  <1>2. w \in Runs /\ w.e = e1 /\ w.records = first /\ w.stateChanged = r.stateChanged
    BY <1>1, WriteTyped DEF RecordOf
  <1>3. e1 \in Engines
    BY <1>2 DEF Runs
  <1>4. ASSUME msg.type = "CLIENT_JOIN"
        PROVE  /\ d \in Runs
               /\ d.e = Stamped(Join(e1))
               /\ d.stateChanged = TRUE
               /\ d.records = Append(first, Answer(r.e))
    <2> DEFINE v == [w EXCEPT !.e = Join(w.e), !.stateChanged = TRUE]
    <2>1. Join(e1) \in Engines
      BY <1>3, JoinTyped
    <2>2. d = Write(v, "SERVER_WELCOME", Nothing)
      BY <1>4 DEF Dispatch
    <2>3. v \in Runs /\ v.e = Join(e1) /\ v.records = first /\ v.stateChanged = TRUE
      <3> HIDE DEF w, e1, first
      <3>1. Join(w.e) \in Engines
        BY <1>2, <2>1
      <3>. QED BY <3>1, <1>2 DEF Runs
    <2>4. Nothing \in Contents /\ "SERVER_WELCOME" \in Types
      BY DEF Contents, Types
    <2>5. Join(e1).sequence = e1.sequence /\ Join(e1).tick = e1.tick
      <3> HIDE DEF e1
      <3>1. Draw(e1) \in Engines /\ Draw(e1).sequence = e1.sequence /\ Draw(e1).tick = e1.tick
        BY <1>3, DrawTyped DEF Engines
      <3>. QED BY <3>1 DEF Join, Engines
    <2>6. e1.sequence = r.e.sequence + 1 /\ e1.tick = r.e.tick
      BY DEF Runs, Engines, Stamped
    <2> HIDE DEF v, w, d, first, e1
    <2>7. /\ d \in Runs
          /\ d.e = Stamped(v.e)
          /\ d.records = Append(v.records, [type |-> "SERVER_WELCOME", sequence |-> v.e.sequence,
                                            transactTime |-> v.e.tick, content |-> Nothing])
          /\ d.stateChanged = v.stateChanged
      BY <2>2, <2>3, <2>4, WriteTyped
    <2>8. Answer(r.e) = [type |-> "SERVER_WELCOME", sequence |-> v.e.sequence,
                         transactTime |-> v.e.tick, content |-> Nothing]
      BY <2>3, <2>5, <2>6 DEF Answer
    <2>. QED BY <2>3, <2>7, <2>8
  <1>5. ASSUME msg.type = "CLIENT_INPUT"
        PROVE  /\ d \in Runs
               /\ e1.playing => d.e = [e1 EXCEPT !.snake = Rules!Turn(e1.snake, msg.content.key)]
               /\ ~e1.playing => d.e = e1
               /\ d.stateChanged = r.stateChanged
               /\ d.records = first
    <2>1. d = IF w.e.playing THEN [w EXCEPT !.e.snake = Rules!Turn(w.e.snake, msg.content.key)] ELSE w
      BY <1>5 DEF Dispatch
    <2> DEFINE s == Rules!Turn(e1.snake, msg.content.key)
               v == [w EXCEPT !.e = [w.e EXCEPT !.snake = s]]
    <2>2. s \in Snakes
      <3>1. e1.snake \in Snakes
        BY <1>3 DEF Engines
      <3> HIDE DEF e1
      <3>. QED BY <3>1, <1>5, MessageTyped, SnakeTyped
    <2> HIDE DEF w, e1, s, first
    <2>3. [e1 EXCEPT !.snake = s] \in Engines
      BY <1>3, <2>2 DEF Engines
    <2>4. v \in Runs /\ v.e = [e1 EXCEPT !.snake = s] /\ v.stateChanged = r.stateChanged
          /\ v.records = first
      BY <2>3, <1>2 DEF Runs
    <2>5. w.e.playing => d = v
      BY <2>1, <1>2 DEF s
    <2>. QED BY <2>1, <2>4, <2>5, <1>2 DEF s
  <1>6. ASSUME msg.type = "CLIENT_DISCONNECT"
        PROVE  /\ d \in Runs
               /\ d.e = [e1 EXCEPT !.playing = FALSE]
               /\ d.stateChanged = TRUE
               /\ d.records = first
    <2>1. d = [w EXCEPT !.e.playing = FALSE, !.stateChanged = TRUE]
      BY <1>6 DEF Dispatch
    <2> HIDE DEF w, e1, first
    <2>2. [e1 EXCEPT !.playing = FALSE] \in Engines
      BY <1>3 DEF Engines
    <2>3. d = [w EXCEPT !.e = [w.e EXCEPT !.playing = FALSE], !.stateChanged = TRUE]
      BY <2>1, <1>2 DEF Runs
    <2>. QED BY <2>2, <2>3, <1>2 DEF Runs
  <1>7. msg.type \in {"CLIENT_JOIN", "CLIENT_INPUT", "CLIENT_DISCONNECT"}
    BY MessageTyped
  <1> HIDE DEF d, w, e1, first
  <1>8. d \in Runs
    BY <1>4, <1>5, <1>6, <1>7
  <1>. QED BY <1>3, <1>4, <1>5, <1>6, <1>8 DEF d, e1, first

Turned(e, key) == [e EXCEPT !.snake = Rules!Turn(e.snake, key)]

LEMMA InputIs ==
    ASSUME NEW r \in Runs, NEW msg \in Messages, msg.type = "CLIENT_INPUT",
           NEW w, w = Stamped(r.e),
           NEW key, key = msg.content.key
    PROVE  /\ w.playing => Dispatch(r, msg).e = Turned(w, key)
           /\ ~w.playing => Dispatch(r, msg).e = w
           /\ Dispatch(r, msg).stateChanged = r.stateChanged
           /\ Dispatch(r, msg).records = Append(r.records, RecordOf(msg, r.e))
  <1> DEFINE v == Stamped(r.e)
  <1>1. /\ v.playing => Dispatch(r, msg).e = [v EXCEPT !.snake = Rules!Turn(v.snake, msg.content.key)]
        /\ ~v.playing => Dispatch(r, msg).e = v
        /\ Dispatch(r, msg).stateChanged = r.stateChanged
        /\ Dispatch(r, msg).records = Append(r.records, RecordOf(msg, r.e))
    BY DispatchIs
  <1>2. w = v
    OBVIOUS
  <1> HIDE DEF v
  <1>. QED BY <1>1, <1>2 DEF Turned

LEMMA DispatchAllUnfolds ==
    ASSUME NEW r \in Runs, NEW messages \in Seq(Messages)
    PROVE  \E f \in [0..Len(messages) -> Runs] :
              /\ f[0] = r
              /\ \A i \in 1..Len(messages) : f[i] = Dispatch(f[i - 1], messages[i])
              /\ DispatchAll(r, messages) = f[Len(messages)]
  <1> DEFINE n == Len(messages)
             step == [x \in Runs \X Nat |->
                        IF x[2] \in 1..n THEN Dispatch(x[1], messages[x[2]]) ELSE x[1]]
             Is(f) == f = [i \in 0..Len(messages) |->
                             IF i = 0 THEN r ELSE Dispatch(f[i - 1], messages[i])]
  <1>1. n \in Nat /\ \A i \in 1..n : messages[i] \in Messages
    BY LenProperties, ElementOfSeq
  <1>2. ASSUME NEW p \in Runs, NEW i \in 1..n
        PROVE  Dispatch(p, messages[i]) \in Runs
    BY <1>1, DispatchIs
  <1>3. step \in [Runs \X Nat -> Runs]
    BY <1>2
  <1>4. PICK g \in [0..n -> Runs] : Recursive(g, r, step, n)
    <2> HIDE DEF step, n
    <2>. QED BY <1>1, <1>3, Recursion, Zenon
  <1>5. \A i \in 0..n : i # 0 => i - 1 \in 0..n /\ i \in 1..n /\ i \in Nat
    <2> HIDE DEF n
    <2>. QED BY <1>1, SMT
  <1>6. ASSUME NEW i \in 0..n
        PROVE  g[i] = IF i = 0 THEN r ELSE Dispatch(g[i - 1], messages[i])
    <2> HIDE DEF n
    <2>. QED BY <1>4, <1>5 DEF Recursive
  <1>7. Is(g)
    BY <1>4, <1>6 DEF Recursive
  <1>8. PICK f : f = CHOOSE h : Is(h)
    OBVIOUS
  <1>9. Is(f)
    <2> HIDE DEF Is
    <2>. QED BY <1>7, <1>8, Zenon
  <1>10. DispatchAll(r, messages) = f[n]
    BY <1>8 DEF DispatchAll
  <1>11. 0 \in 0..n /\ n \in 0..n /\ (\A i \in 1..n : i \in 0..n /\ i # 0)
    <2> HIDE DEF n
    <2>. QED BY <1>1, SMT
  <1>12. f[0] = r /\ \A i \in 1..n : f[i] = Dispatch(f[i - 1], messages[i])
    BY <1>9, <1>11
  <1>13. f \in [0..n -> Runs]
    <2> DEFINE P == {j \in 0..n : f[j] \in Runs}
    <2>1. \A i \in 0..n : i \in P
      <3> HIDE DEF n
      <3>1. 0 \in P
        BY <1>11, <1>12
      <3>2. ASSUME NEW i \in 1..n, i - 1 \in P
            PROVE  i \in P
        BY <1>2, <1>11, <1>12, <3>2
      <3> HIDE DEF P
      <3>. QED BY <1>1, <3>1, <3>2, UpTo
    <2>2. DOMAIN f = 0..n /\ f = [i \in 0..n |-> f[i]]
      BY <1>9
    <2>. QED BY <2>1, <2>2
  <1>. QED BY <1>10, <1>12, <1>13

\* updateSnakes(), checkCollisions() and placeSpeedBoost(), of one snake.
Moves(e) == e.playing /\ e.snake.nextMoveIn <= 0

Updated(e) == [e EXCEPT !.snake = Rules!UpdateSnake(e.snake)]

LEMMA UpdatedTyped ==
    ASSUME NEW e \in Engines
    PROVE  Updated(e) \in Engines /\ Updated(e).tick = e.tick
  <1>1. Rules!UpdateSnake(e.snake) \in Snakes
    BY SnakeTyped DEF Engines
  <1>. QED BY <1>1 DEF Updated, Engines

LEMMA UpdateSnakesIs ==
    ASSUME NEW r \in Runs
    PROVE  LET u == UpdateSnakes(r)
           IN /\ u \in Runs /\ u.records = r.records /\ u.e.tick = r.e.tick
              /\ Moves(r.e) => /\ u.e = PlaceSpeedBoost(CheckCollisions(Updated(r.e)))
                               /\ u.stateChanged = TRUE
              /\ r.e.playing /\ ~Moves(r.e) => u.e = Updated(r.e) /\ u.stateChanged = r.stateChanged
              /\ ~r.e.playing => u = r
  <1> DEFINE v == [r EXCEPT !.e = Updated(r.e)]
             u == UpdateSnakes(r)
  <1>1. r.e \in Engines /\ Updated(r.e) \in Engines /\ Updated(r.e).tick = r.e.tick
    BY UpdatedTyped DEF Runs
  <1>2. v \in Runs /\ v.e = Updated(r.e) /\ v.records = r.records /\ v.stateChanged = r.stateChanged
    BY <1>1 DEF Runs
  <1>3. v = [r EXCEPT !.e.snake = Rules!UpdateSnake(r.e.snake)]
    BY DEF Updated, Runs
  <1>4. CASE Moves(r.e)
    <2> DEFINE e == PlaceSpeedBoost(CheckCollisions(Updated(r.e)))
    <2>1. e \in Engines /\ e.tick = r.e.tick
      BY <1>1, CollisionsTyped
    <2>2. u = [v EXCEPT !.e = PlaceSpeedBoost(CheckCollisions(v.e)), !.stateChanged = TRUE]
      BY <1>3, <1>4, Zenon DEF UpdateSnakes, Moves
    <2>3. u = [v EXCEPT !.e = e, !.stateChanged = TRUE]
      BY <1>2, <2>2
    <2> HIDE DEF u, v, e
    <2>4. u \in Runs /\ u.records = r.records /\ u.e = e /\ u.stateChanged = TRUE
          /\ u.e.tick = r.e.tick
      BY <1>2, <2>1, <2>3 DEF Runs
    <2>. QED BY <1>4, <2>4 DEF u, e, Moves
  <1>5. CASE r.e.playing /\ ~Moves(r.e)
    <2>1. u = v
      BY <1>3, <1>5 DEF UpdateSnakes, Moves
    <2>2. u.e = Updated(r.e) /\ u.e.tick = r.e.tick /\ u \in Runs /\ u.records = r.records
          /\ u.stateChanged = r.stateChanged
      <3> HIDE DEF u, v
      <3>. QED BY <1>1, <1>2, <2>1
    <2>. QED BY <1>5, <2>2, Zenon
  <1>6. CASE ~r.e.playing
    <2>1. u = r
      BY <1>6 DEF UpdateSnakes
    <2>. QED BY <1>6, <2>1 DEF Moves
  <1>. QED BY <1>4, <1>5, <1>6

LEMMA GameStateTyped ==
    ASSUME NEW e \in Engines
    PROVE  GameState(e) \in Contents
  <1> DEFINE shown == IF e.playing THEN <<e.snake.segs, e.snake.direction, e.snake.score>> ELSE << >>
  <1>1. e.snake \in Snakes /\ e.food \in SUBSET Points /\ e.boosts \in SUBSET Points
    BY DEF Engines
  <1>2. e.snake.segs \in Seq(Points) /\ e.snake.direction \in Rules!Directions /\ e.snake.score \in Nat
    BY <1>1 DEF Snakes
  <1>3. shown \in {<< >>} \cup (Seq(Points) \X Rules!Directions \X Nat)
    BY <1>2
  <1>4. GameState(e) = [snake |-> shown, food |-> e.food, boosts |-> e.boosts]
    BY DEF GameState
  <1> HIDE DEF shown
  <1>. QED BY <1>1, <1>3, <1>4 DEF Contents

LEMMA BroadcastIs ==
    ASSUME NEW r \in Runs
    PROVE  LET b == BroadcastGameState(r)
           IN /\ b \in Runs /\ b.stateChanged = r.stateChanged
              /\ r.stateChanged =>
                    /\ b.e = Stamped(r.e)
                    /\ b.records = Append(r.records, [type |-> "GAME_STATE", sequence |-> r.e.sequence,
                                                      transactTime |-> r.e.tick,
                                                      content |-> GameState(r.e)])
              /\ ~r.stateChanged => b = r
  <1>1. r.e \in Engines
    BY DEF Runs
  <1>2. GameState(r.e) \in Contents /\ "GAME_STATE" \in Types
    BY <1>1, GameStateTyped DEF Types
  <1>3. CASE r.stateChanged
    <2>1. BroadcastGameState(r) = Write(r, "GAME_STATE", GameState(r.e))
      BY <1>3 DEF BroadcastGameState
    <2> DEFINE w == Write(r, "GAME_STATE", GameState(r.e))
    <2>2. /\ w \in Runs /\ w.stateChanged = r.stateChanged /\ w.e = Stamped(r.e)
          /\ w.records = Append(r.records, [type |-> "GAME_STATE", sequence |-> r.e.sequence,
                                            transactTime |-> r.e.tick, content |-> GameState(r.e)])
      BY <1>2, WriteTyped
    <2>3. BroadcastGameState(r) = w
      BY <2>1
    <2> HIDE DEF w
    <2>. QED BY <1>3, <2>2, <2>3, Zenon
  <1>4. CASE ~r.stateChanged
    BY <1>4 DEF BroadcastGameState
  <1>. QED BY <1>3, <1>4

LEMMA StartedTyped ==
    ASSUME NEW e \in Engines
    PROVE  /\ Started(e) \in Runs /\ Started(e).e = e /\ Started(e).records = << >>
           /\ Started(e).stateChanged = FALSE
  <1>1. << >> \in Seq(Records)
    BY EmptySeq
  <1>. QED BY <1>1 DEF Started, Runs

-----------------------------------------------------------------------------
(* replaceFood(): what it depends on, and that doing it twice does nothing *)
(* more.                                                                   *)

Enough(food) == Cardinality(food) >= MinFood

SameButDraws(a, b) ==
    /\ a.tick = b.tick /\ a.sequence = b.sequence /\ a.seed = b.seed /\ a.playing = b.playing
    /\ a.snake = b.snake /\ a.boosts = b.boosts

SameDraws(a, b) == a.seed = b.seed /\ a.gen = b.gen /\ a.food = b.food

LEMMA PlaceFoodIs ==
    ASSUME NEW e \in Engines
    PROVE  /\ SameButDraws(PlaceFood(e), e)
           /\ Enough(e.food) => PlaceFood(e) = e
           /\ ~Enough(e.food) => /\ PlaceFood(e).gen = (e.gen + 1) % Period
                                 /\ PlaceFood(e).food = e.food \cup {DrawnCell(e)}
  <1> DEFINE d == Draw(e)
             food == e.food \cup {DrawnCell(e)}
  <1>1. d = [e EXCEPT !.gen = (e.gen + 1) % Period]
    BY DEF Draw
  <1>2. CASE Enough(e.food)
    <2>1. PlaceFood(e) = e
      BY <1>2 DEF PlaceFood, Enough
    <2>. QED BY <1>2, <2>1 DEF SameButDraws
  <1>3. CASE ~Enough(e.food)
    <2>1. PlaceFood(e) = [d EXCEPT !.food = food]
      BY <1>3 DEF PlaceFood, Enough
    <2> HIDE DEF d, food
    <2>2. /\ SameButDraws(PlaceFood(e), e)
          /\ PlaceFood(e).gen = (e.gen + 1) % Period
          /\ PlaceFood(e).food = food
      BY <1>1, <2>1 DEF Engines, SameButDraws
    <2>. QED BY <1>3, <2>2 DEF food
  <1>. QED BY <1>2, <1>3

LEMMA DrawsAlike ==
    ASSUME NEW a, NEW b, a.seed = b.seed, a.gen = b.gen
    PROVE  Drawn(a) = Drawn(b) /\ DrawnCell(a) = DrawnCell(b) /\ IsLucky(a) = IsLucky(b)
  <1>1. Drawn(a) = Drawn(b)
    BY DEF Drawn
  <1>. QED BY <1>1 DEF DrawnCell, IsLucky

LEMMA ReplaceFoodKeeps ==
    ASSUME NEW e \in Engines
    PROVE  SameButDraws(ReplaceFood(e), e)
  <1>1. PICK f \in [0..Period -> Engines] :
              /\ f[0] = e /\ (\A i \in 1..Period : f[i] = PlaceFood(f[i - 1]))
              /\ ReplaceFood(e) = f[Period]
    BY ReplaceFoodUnfolds
  <1> DEFINE P == {i \in 0..Period : SameButDraws(f[i], e)}
  <1>2. Period \in Nat /\ 0 \in 0..Period /\ Period \in 0..Period
        /\ (\A i \in 1..Period : i \in 0..Period /\ i - 1 \in 0..Period)
    BY ReplayAssumption, SMT
  <1>3. 0 \in P
    BY <1>1, <1>2 DEF SameButDraws
  <1>4. ASSUME NEW i \in 1..Period, i - 1 \in P
        PROVE  i \in P
    <2>1. f[i - 1] \in Engines /\ f[i] = PlaceFood(f[i - 1])
      BY <1>1, <1>2
    <2>2. SameButDraws(f[i], f[i - 1])
      BY <2>1, PlaceFoodIs
    <2>. QED BY <1>2, <1>4, <2>2 DEF SameButDraws
  <1>5. Period \in P
    <2> HIDE DEF P
    <2>. QED BY <1>2, <1>3, <1>4, UpTo
  <1>. QED BY <1>1, <1>5

LEMMA ReplaceFoodSame ==
    ASSUME NEW a \in Engines, NEW b \in Engines, SameDraws(a, b)
    PROVE  SameDraws(ReplaceFood(a), ReplaceFood(b))
  <1>1. PICK f \in [0..Period -> Engines] :
              /\ f[0] = a /\ (\A i \in 1..Period : f[i] = PlaceFood(f[i - 1]))
              /\ ReplaceFood(a) = f[Period]
    BY ReplaceFoodUnfolds
  <1>2. PICK g \in [0..Period -> Engines] :
              /\ g[0] = b /\ (\A i \in 1..Period : g[i] = PlaceFood(g[i - 1]))
              /\ ReplaceFood(b) = g[Period]
    BY ReplaceFoodUnfolds
  <1> DEFINE P == {i \in 0..Period : SameDraws(f[i], g[i])}
  <1>3. Period \in Nat /\ 0 \in 0..Period /\ Period \in 0..Period
        /\ (\A i \in 1..Period : i \in 0..Period /\ i - 1 \in 0..Period)
    BY ReplayAssumption, SMT
  <1>4. 0 \in P
    BY <1>1, <1>2, <1>3
  <1>5. ASSUME NEW i \in 1..Period, i - 1 \in P
        PROVE  i \in P
    <2>1. PICK x \in Engines : x = f[i - 1] /\ f[i] = PlaceFood(x)
      BY <1>1, <1>3
    <2>2. PICK y \in Engines : y = g[i - 1] /\ g[i] = PlaceFood(y)
      BY <1>2, <1>3
    <2>3. SameDraws(x, y)
      BY <1>5, <2>1, <2>2
    <2>4. DrawnCell(x) = DrawnCell(y)
      BY <2>3, DrawsAlike DEF SameDraws
    <2>5. SameDraws(PlaceFood(x), PlaceFood(y))
      <3>1. PlaceFood(x).seed = x.seed /\ PlaceFood(y).seed = y.seed
        BY PlaceFoodIs DEF SameButDraws
      <3>2. CASE Enough(x.food)
        BY <2>3, <3>2, PlaceFoodIs DEF SameDraws
      <3>3. CASE ~Enough(x.food)
        <4>1. /\ PlaceFood(x).gen = (x.gen + 1) % Period
              /\ PlaceFood(x).food = x.food \cup {DrawnCell(x)}
          BY <3>3, PlaceFoodIs
        <4>2. /\ PlaceFood(y).gen = (y.gen + 1) % Period
              /\ PlaceFood(y).food = y.food \cup {DrawnCell(y)}
          BY <2>3, <3>3, PlaceFoodIs DEF SameDraws
        <4>. QED BY <2>3, <2>4, <3>1, <4>1, <4>2 DEF SameDraws
      <3>. QED BY <3>2, <3>3
    <2>. QED BY <1>3, <2>1, <2>2, <2>5
  <1>6. Period \in P
    <2> HIDE DEF P
    <2>. QED BY <1>3, <1>4, <1>5, UpTo
  <1>. QED BY <1>1, <1>2, <1>6

Wrap(n) == IF n < Period THEN n ELSE n - Period

LEMMA WrapsAround ==
    ASSUME NEW gen \in 0..Period - 1, NEW i \in 1..Period
    PROVE  (Wrap(gen + (i - 1)) + 1) % Period = Wrap(gen + i)
  <1>1. \A p \in Nat, n \in Nat : p # 0 => /\ n + 1 < p => (n + 1) % p = n + 1
                                           /\ n + 1 = p => (n + 1) % p = 0
    BY SMT
  <1>2. Period \in Nat \ {0}
    BY ReplayAssumption
  <1>3. PICK n \in Nat : n = Wrap(gen + (i - 1))
    <2>1. Wrap(gen + (i - 1)) \in Nat
      BY <1>2, SMT DEF Wrap
    <2>. QED BY <2>1
  <1>4. n < Period /\ Wrap(gen + i) = IF n + 1 = Period THEN 0 ELSE n + 1
    BY <1>2, <1>3, SMT DEF Wrap
  <1>. QED BY <1>1, <1>2, <1>3, <1>4

\* Draws that never find enough food go through all of the seed.
LEMMA WithoutEnough ==
    ASSUME NEW e \in Engines, NEW f \in [0..Period -> Engines],
           f[0] = e, \A i \in 1..Period : f[i] = PlaceFood(f[i - 1]),
           ~Enough(f[Period].food)
    PROVE  /\ \A i \in 0..Period : f[i].gen = Wrap(e.gen + i) /\ f[i].seed = e.seed
           /\ \A i \in 1..Period : f[i].food = f[i - 1].food \cup {DrawnCell(f[i - 1])}
           /\ \A i \in 0..Period : f[i].food \subseteq f[Period].food
  <1>1. Period \in Nat \ {0} /\ 0 \in 0..Period /\ Period \in 0..Period
        /\ (\A i \in 1..Period : /\ i \in 0..Period /\ i - 1 \in 0..Period
                                 /\ Period - i \in 0..Period /\ Period - (i - 1) \in 1..Period
                                 /\ Period - (i - 1) - 1 = Period - i)
    BY ReplayAssumption, SMT
  <1>2. \A i \in 0..Period : i \in {j \in 0..Period : ~Enough(f[Period - j].food)
                                                      /\ f[Period - j].food \subseteq f[Period].food}
    <2> DEFINE P == {j \in 0..Period : ~Enough(f[Period - j].food)
                                       /\ f[Period - j].food \subseteq f[Period].food}
    <2>1. 0 \in P
      BY <1>1
    <2>2. ASSUME NEW i \in 1..Period, i - 1 \in P
          PROVE  i \in P
      <3>1. PICK x \in Engines : x = f[Period - i] /\ f[Period - (i - 1)] = PlaceFood(x)
        BY <1>1
      <3>2. ~Enough(PlaceFood(x).food) /\ PlaceFood(x).food \subseteq f[Period].food
        BY <2>2, <3>1
      <3>3. ~Enough(x.food)
        BY <3>2, PlaceFoodIs
      <3>4. x.food \subseteq PlaceFood(x).food
        BY <3>3, PlaceFoodIs
      <3>. QED BY <1>1, <3>1, <3>2, <3>3, <3>4
    <2> HIDE DEF P
    <2>3. \A i \in 0..Period : i \in P
      BY <1>1, <2>1, <2>2, UpTo
    <2>. QED BY <2>3 DEF P
  <1>3. ASSUME NEW i \in 0..Period
        PROVE  ~Enough(f[i].food) /\ f[i].food \subseteq f[Period].food
    <2>1. Period - i \in 0..Period /\ Period - (Period - i) = i
      BY <1>1, SMT
    <2>. QED BY <1>2, <2>1
  <1>4. ASSUME NEW i \in 1..Period
        PROVE  /\ f[i].food = f[i - 1].food \cup {DrawnCell(f[i - 1])}
               /\ f[i].gen = (f[i - 1].gen + 1) % Period /\ f[i].seed = f[i - 1].seed
    <2>1. PICK x \in Engines : x = f[i - 1] /\ f[i] = PlaceFood(x) /\ ~Enough(x.food)
      BY <1>1, <1>3
    <2>. QED BY <2>1, PlaceFoodIs DEF SameButDraws
  <1>5. \A i \in 0..Period : i \in {j \in 0..Period : f[j].gen = Wrap(e.gen + j) /\ f[j].seed = e.seed}
    <2> DEFINE P == {j \in 0..Period : f[j].gen = Wrap(e.gen + j) /\ f[j].seed = e.seed}
    <2>1. e.gen \in 0..Period - 1
      BY DEF Engines
    <2>2. 0 \in P
      BY <1>1, <2>1, SMT DEF Wrap
    <2>3. ASSUME NEW i \in 1..Period, i - 1 \in P
          PROVE  i \in P
      BY <1>1, <1>4, <2>1, <2>3, WrapsAround
    <2> HIDE DEF P
    <2>4. \A i \in 0..Period : i \in P
      BY <1>1, <2>2, <2>3, UpTo
    <2>. QED BY <2>4 DEF P
  <1>. QED BY <1>3, <1>4, <1>5

LEMMA ReplaceFoodTwice ==
    ASSUME NEW e \in Engines
    PROVE  SameDraws(ReplaceFood(ReplaceFood(e)), ReplaceFood(e))
  <1>1. PICK f \in [0..Period -> Engines] :
              /\ f[0] = e /\ (\A i \in 1..Period : f[i] = PlaceFood(f[i - 1]))
              /\ ReplaceFood(e) = f[Period]
    BY ReplaceFoodUnfolds
  <1>2. PICK d \in Engines : d = ReplaceFood(e)
    BY ReplaceFoodTyped
  <1>3. PICK g \in [0..Period -> Engines] :
              /\ g[0] = d /\ (\A i \in 1..Period : g[i] = PlaceFood(g[i - 1]))
              /\ ReplaceFood(d) = g[Period]
    BY ReplaceFoodUnfolds
  <1>4. Period \in Nat \ {0} /\ 0 \in 0..Period /\ Period \in 0..Period
        /\ (\A i \in 1..Period : i \in 0..Period /\ i - 1 \in 0..Period)
    BY ReplayAssumption, SMT
  <1>5. CASE Enough(d.food)
    <2> DEFINE P == {i \in 0..Period : g[i] = d}
    <2>1. 0 \in P
      BY <1>3, <1>4
    <2>2. ASSUME NEW i \in 1..Period, i - 1 \in P
          PROVE  i \in P
      <3>1. g[i] = PlaceFood(d)
        BY <1>3, <2>2
      <3>2. PlaceFood(d) = d
        BY <1>5, PlaceFoodIs
      <3>. QED BY <1>4, <3>1, <3>2
    <2>3. Period \in P
      <3> HIDE DEF P
      <3>. QED BY <1>4, <2>1, <2>2, UpTo
    <2>. QED BY <1>2, <1>3, <2>3 DEF SameDraws
  <1>6. CASE ~Enough(d.food)
    <2>1. ~Enough(f[Period].food)
      BY <1>1, <1>2, <1>6
    <2>2. /\ \A i \in 0..Period : f[i].gen = Wrap(e.gen + i) /\ f[i].seed = e.seed
          /\ \A i \in 1..Period : f[i].food = f[i - 1].food \cup {DrawnCell(f[i - 1])}
          /\ \A i \in 0..Period : f[i].food \subseteq f[Period].food
      BY <1>1, <2>1, WithoutEnough
    <2>3. e.gen \in 0..Period - 1 /\ d.gen \in 0..Period - 1
      BY DEF Engines
    \* Every number of the seed has been drawn.
    <2>4. ASSUME NEW x \in Engines, x.seed = e.seed
          PROVE  DrawnCell(x) \in d.food
      <3>1. x.gen \in 0..Period - 1
        BY DEF Engines
      <3> DEFINE i == IF x.gen >= e.gen THEN x.gen - e.gen ELSE x.gen - e.gen + Period
      <3>2. i \in 0..Period - 1 /\ Wrap(e.gen + i) = x.gen
        BY <1>4, <2>3, <3>1, SMT DEF Wrap
      <3> HIDE DEF i
      <3>3. i \in 0..Period /\ i + 1 \in 1..Period /\ i + 1 \in 0..Period /\ (i + 1) - 1 = i
        BY <1>4, <3>2, SMT
      <3>4. f[i].gen = x.gen /\ f[i].seed = x.seed
        BY <2>2, <2>4, <3>2, <3>3
      <3>5. DrawnCell(f[i]) = DrawnCell(x)
        BY <3>4, DrawsAlike
      <3>6. f[i + 1].food = f[i].food \cup {DrawnCell(f[i])}
        BY <2>2, <3>3
      <3>7. f[i + 1].food \subseteq f[Period].food
        BY <2>2, <3>3
      <3>. QED BY <1>1, <1>2, <3>5, <3>6, <3>7
    <2>5. d.seed = e.seed
      BY <1>2, ReplaceFoodKeeps DEF SameButDraws
    <2> DEFINE P == {i \in 0..Period : /\ g[i].food = d.food /\ g[i].seed = e.seed
                                       /\ g[i].gen = Wrap(d.gen + i)}
    <2>6. 0 \in P
      BY <1>3, <1>4, <2>3, <2>5, SMT DEF Wrap
    <2>7. ASSUME NEW i \in 1..Period, i - 1 \in P
          PROVE  i \in P
      <3>1. PICK x \in Engines : x = g[i - 1] /\ g[i] = PlaceFood(x)
        BY <1>3, <1>4
      <3>2. x.food = d.food /\ x.seed = e.seed /\ x.gen = Wrap(d.gen + (i - 1))
        BY <2>7, <3>1
      <3>3. DrawnCell(x) \in d.food
        BY <2>4, <3>2
      <3>4. /\ PlaceFood(x).gen = (x.gen + 1) % Period
            /\ PlaceFood(x).food = x.food \cup {DrawnCell(x)}
            /\ PlaceFood(x).seed = x.seed
        BY <1>6, <3>2, PlaceFoodIs DEF SameButDraws
      <3>5. (x.gen + 1) % Period = Wrap(d.gen + i)
        BY <2>3, <3>2, WrapsAround
      <3>. QED BY <1>4, <3>1, <3>2, <3>3, <3>4, <3>5
    <2>8. Period \in P
      <3> HIDE DEF P
      <3>. QED BY <1>4, <2>6, <2>7, UpTo
    <2>9. Wrap(d.gen + Period) = d.gen
      BY <1>4, <2>3, SMT DEF Wrap
    <2>. QED BY <1>2, <1>3, <2>5, <2>8, <2>9 DEF SameDraws
  <1>. QED BY <1>5, <1>6

-----------------------------------------------------------------------------
(* Two engines that differ in what iterations without a record have done:  *)
(* in one of them the snake's boost may have ended earlier.                *)

Alike(s, l) == l = s \/ l = Rules!ExpireBoost(s)

LEMMA SnakeEqual ==
    ASSUME NEW s \in Snakes, NEW l \in Snakes,
           s.segs = l.segs, s.tailPrev = l.tailPrev, s.direction = l.direction,
           s.nextDirection = l.nextDirection, s.score = l.score,
           s.movementFrequency = l.movementFrequency, s.nextMoveIn = l.nextMoveIn,
           s.boosted = l.boosted, s.boostLeft = l.boostLeft
    PROVE  s = l
  BY DEF Snakes

LEMMA ElapseIs ==
    ASSUME NEW s \in Snakes, NEW x \in Nat, NEW l, l = Rules!Elapse(s, x)
    PROVE  /\ l \in Snakes /\ l.segs = s.segs /\ l.tailPrev = s.tailPrev
           /\ l.direction = s.direction /\ l.nextDirection = s.nextDirection
           /\ l.score = s.score /\ l.movementFrequency = s.movementFrequency
           /\ l.boosted = s.boosted
           /\ l.nextMoveIn = Rules!Remaining(s.nextMoveIn, x)
           /\ l.boostLeft = Rules!Remaining(s.boostLeft, x)
  <1>1. Rules!Elapse(s, x) \in Snakes
    BY SnakeTyped
  <1>. QED BY <1>1 DEF Rules!Elapse, Snakes

Expired(s) == s.boosted /\ s.boostLeft <= 0

LEMMA ExpireKeeps ==
    ASSUME NEW s \in Snakes, NEW l, l = Rules!ExpireBoost(s)
    PROVE  /\ l \in Snakes /\ l.segs = s.segs /\ l.tailPrev = s.tailPrev
           /\ l.direction = s.direction /\ l.nextDirection = s.nextDirection
           /\ l.score = s.score /\ l.nextMoveIn = s.nextMoveIn /\ l.boostLeft = s.boostLeft
  <1>1. Rules!ExpireBoost(s) \in Snakes
    BY SnakeTyped
  <1>. QED BY <1>1 DEF Rules!ExpireBoost, Snakes

LEMMA ExpireIs ==
    ASSUME NEW s \in Snakes, NEW l, l = Rules!ExpireBoost(s)
    PROVE  /\ Expired(s) => l.boosted = FALSE /\ l.movementFrequency = MovementFrequency
           /\ ~Expired(s) => l = s
           /\ ~Expired(l)
  BY DEF Rules!ExpireBoost, Snakes, Expired

LEMMA RemainingTwice ==
    ASSUME NEW left \in Nat, NEW x \in Nat, NEW y \in Nat
    PROVE  /\ Rules!Remaining(Rules!Remaining(left, x), y) = Rules!Remaining(left, x + y)
           /\ Rules!Remaining(left, 0) = left
           /\ left <= 0 => Rules!Remaining(left, x) <= 0
           /\ Rules!Remaining(left, x) \in Nat
  BY SMT DEF Rules!Remaining

LEMMA ElapseTwice ==
    ASSUME NEW s \in Snakes, NEW x \in Nat, NEW y \in Nat
    PROVE  Rules!Elapse(Rules!Elapse(s, x), y) = Rules!Elapse(s, x + y)
  <1>1. PICK l \in Snakes : l = Rules!Elapse(s, x)
    BY SnakeTyped
  <1>2. x + y \in Nat /\ s.nextMoveIn \in Nat /\ s.boostLeft \in Nat
    BY DEF Snakes
  <1>3. PICK a \in Snakes : a = Rules!Elapse(l, y)
    BY SnakeTyped
  <1>4. PICK z \in Nat : z = x + y
    BY <1>2
  <1>7. PICK b \in Snakes : b = Rules!Elapse(s, z)
    BY SnakeTyped
  <1>5. a.nextMoveIn = b.nextMoveIn /\ a.boostLeft = b.boostLeft
    <2>1. /\ a.nextMoveIn = Rules!Remaining(l.nextMoveIn, y)
          /\ a.boostLeft = Rules!Remaining(l.boostLeft, y)
      BY <1>3, ElapseIs
    <2>2. /\ l.nextMoveIn = Rules!Remaining(s.nextMoveIn, x)
          /\ l.boostLeft = Rules!Remaining(s.boostLeft, x)
      BY <1>1, ElapseIs
    <2>3. /\ b.nextMoveIn = Rules!Remaining(s.nextMoveIn, x + y)
          /\ b.boostLeft = Rules!Remaining(s.boostLeft, x + y)
      BY <1>4, <1>7, ElapseIs
    <2>4. /\ Rules!Remaining(Rules!Remaining(s.nextMoveIn, x), y) = Rules!Remaining(s.nextMoveIn, x + y)
          /\ Rules!Remaining(Rules!Remaining(s.boostLeft, x), y) = Rules!Remaining(s.boostLeft, x + y)
      <3>1. \A left \in Nat : Rules!Remaining(Rules!Remaining(left, x), y) = Rules!Remaining(left, x + y)
        BY RemainingTwice
      <3>. QED BY <1>2, <3>1, Zenon
    <2>. QED BY <2>1, <2>2, <2>3, <2>4
  <1>6. /\ a.segs = b.segs /\ a.tailPrev = b.tailPrev /\ a.direction = b.direction
        /\ a.nextDirection = b.nextDirection /\ a.score = b.score
        /\ a.movementFrequency = b.movementFrequency /\ a.boosted = b.boosted
    <2>1. /\ l.segs = s.segs /\ l.tailPrev = s.tailPrev /\ l.direction = s.direction
          /\ l.nextDirection = s.nextDirection /\ l.score = s.score
          /\ l.movementFrequency = s.movementFrequency /\ l.boosted = s.boosted
      BY <1>1, ElapseIs
    <2>2. /\ b.segs = s.segs /\ b.tailPrev = s.tailPrev /\ b.direction = s.direction
          /\ b.nextDirection = s.nextDirection /\ b.score = s.score
          /\ b.movementFrequency = s.movementFrequency /\ b.boosted = s.boosted
      BY <1>7, ElapseIs
    <2>3. /\ a.segs = l.segs /\ a.tailPrev = l.tailPrev /\ a.direction = l.direction
          /\ a.nextDirection = l.nextDirection /\ a.score = l.score
          /\ a.movementFrequency = l.movementFrequency /\ a.boosted = l.boosted
      BY <1>3, ElapseIs
    <2>. QED BY <2>1, <2>2, <2>3
  <1>8. a = b
    BY <1>5, <1>6, SnakeEqual
  <1>. QED BY <1>1, <1>3, <1>4, <1>7, <1>8

LEMMA ElapseNothing ==
    ASSUME NEW s \in Snakes
    PROVE  Rules!Elapse(s, 0) = s
  <1>1. PICK l \in Snakes : l = Rules!Elapse(s, 0)
    BY SnakeTyped
  <1>2. s.nextMoveIn \in Nat /\ s.boostLeft \in Nat
    BY DEF Snakes
  <1>3. l.nextMoveIn = s.nextMoveIn /\ l.boostLeft = s.boostLeft
    <2>1. /\ l.nextMoveIn = Rules!Remaining(s.nextMoveIn, 0)
          /\ l.boostLeft = Rules!Remaining(s.boostLeft, 0)
      BY <1>1, ElapseIs
    <2>. QED BY <1>2, <2>1, RemainingTwice
  <1>4. /\ l.segs = s.segs /\ l.tailPrev = s.tailPrev /\ l.direction = s.direction
        /\ l.nextDirection = s.nextDirection /\ l.score = s.score
        /\ l.movementFrequency = s.movementFrequency /\ l.boosted = s.boosted
    BY <1>1, ElapseIs
  <1>. QED BY <1>1, <1>3, <1>4, SnakeEqual

LEMMA ElapseAlike ==
    ASSUME NEW s \in Snakes, NEW l \in Snakes, Alike(s, l), NEW x \in Nat
    PROVE  Alike(Rules!Elapse(s, x), Rules!Elapse(l, x))
  <1>1. CASE l = s
    BY <1>1 DEF Alike
  <1>2. CASE l # s
    <2>1. l = Rules!ExpireBoost(s) /\ Expired(s)
      BY <1>2, ExpireIs DEF Alike
    <2>2. PICK a \in Snakes : a = Rules!Elapse(s, x)
      BY SnakeTyped
    <2>3. PICK b \in Snakes : b = Rules!Elapse(l, x)
      BY SnakeTyped
    <2>4. PICK c \in Snakes : c = Rules!ExpireBoost(a)
      BY SnakeTyped
    <2>5. s.boostLeft \in Nat /\ s.nextMoveIn \in Nat
      BY DEF Snakes
    <2>6. Expired(a)
      <3>1. a.boosted = s.boosted /\ a.boostLeft = Rules!Remaining(s.boostLeft, x)
        BY <2>2, ElapseIs
      <3>2. s.boostLeft <= 0 => Rules!Remaining(s.boostLeft, x) <= 0
        BY <2>5, RemainingTwice
      <3>. QED BY <2>1, <3>1, <3>2 DEF Expired
    <2>7. c.boosted = FALSE /\ c.movementFrequency = MovementFrequency
      BY <2>4, <2>6, ExpireIs
    <2>8. l.boosted = FALSE /\ l.movementFrequency = MovementFrequency
      BY <2>1, ExpireIs
    <2>9. b.boosted = c.boosted /\ b.movementFrequency = c.movementFrequency
      <3>1. b.boosted = l.boosted /\ b.movementFrequency = l.movementFrequency
        BY <2>3, ElapseIs
      <3>. QED BY <2>7, <2>8, <3>1, Zenon
    <2>10. /\ b.segs = c.segs /\ b.tailPrev = c.tailPrev /\ b.direction = c.direction
           /\ b.nextDirection = c.nextDirection /\ b.score = c.score
           /\ b.nextMoveIn = c.nextMoveIn /\ b.boostLeft = c.boostLeft
      <3>1. /\ c.segs = a.segs /\ c.tailPrev = a.tailPrev /\ c.direction = a.direction
            /\ c.nextDirection = a.nextDirection /\ c.score = a.score
            /\ c.nextMoveIn = a.nextMoveIn /\ c.boostLeft = a.boostLeft
        BY <2>4, ExpireKeeps
      <3>2. /\ l.segs = s.segs /\ l.tailPrev = s.tailPrev /\ l.direction = s.direction
            /\ l.nextDirection = s.nextDirection /\ l.score = s.score
            /\ l.nextMoveIn = s.nextMoveIn /\ l.boostLeft = s.boostLeft
        BY <2>1, ExpireKeeps
      <3>. QED BY <2>2, <2>3, <3>1, <3>2, ElapseIs
    <2>11. b = c
      BY <2>9, <2>10, SnakeEqual
    <2>. QED BY <2>2, <2>3, <2>4, <2>11 DEF Alike
  <1>. QED BY <1>1, <1>2

LEMMA ExpireTwice ==
    ASSUME NEW s \in Snakes
    PROVE  Rules!ExpireBoost(Rules!ExpireBoost(s)) = Rules!ExpireBoost(s)
  <1>1. PICK l \in Snakes : l = Rules!ExpireBoost(s)
    BY SnakeTyped
  <1>2. ~Expired(l)
    BY <1>1, ExpireIs
  <1>3. Rules!ExpireBoost(l) = l
    BY <1>2, ExpireIs
  <1>. QED BY <1>1, <1>3

LEMMA UpdateAlike ==
    ASSUME NEW s \in Snakes, NEW l \in Snakes, Alike(s, l)
    PROVE  /\ Rules!UpdateSnake(l) = Rules!UpdateSnake(s) /\ l.nextMoveIn = s.nextMoveIn
           /\ ~(l.nextMoveIn <= 0) => Alike(s, Rules!UpdateSnake(l))
  <1>1. Rules!ExpireBoost(l) = Rules!ExpireBoost(s)
    BY ExpireTwice DEF Alike
  <1>2. l.nextMoveIn = s.nextMoveIn
    BY ExpireKeeps DEF Alike
  <1>. QED BY <1>1, <1>2 DEF Rules!UpdateSnake, Alike

LEMMA TurnAlike ==
    ASSUME NEW s \in Snakes, NEW l \in Snakes, Alike(s, l), NEW key \in Rules!Directions
    PROVE  Alike(Rules!Turn(s, key), Rules!Turn(l, key))
  <1>1. CASE l = s
    BY <1>1 DEF Alike
  <1>2. CASE l # s
    <2>1. l = Rules!ExpireBoost(s) /\ Expired(s)
      BY <1>2, ExpireIs DEF Alike
    <2>2. PICK a \in Snakes : a = Rules!Turn(s, key)
      BY SnakeTyped
    <2>3. PICK b \in Snakes : b = Rules!Turn(l, key)
      BY SnakeTyped
    <2>4. PICK c \in Snakes : c = Rules!ExpireBoost(a)
      BY SnakeTyped
    <2>5. ASSUME NEW t \in Snakes, NEW u \in Snakes, u = Rules!Turn(t, key)
          PROVE  /\ u.segs = t.segs /\ u.tailPrev = t.tailPrev /\ u.direction = t.direction
                 /\ u.score = t.score /\ u.movementFrequency = t.movementFrequency
                 /\ u.nextMoveIn = t.nextMoveIn /\ u.boosted = t.boosted /\ u.boostLeft = t.boostLeft
                 /\ u.nextDirection = IF t.direction # Rules!Opposite(key) THEN key ELSE t.nextDirection
      BY <2>5 DEF Snakes, Rules!Turn
    <2>6. /\ Expired(a)
          /\ a.segs = s.segs /\ a.tailPrev = s.tailPrev /\ a.direction = s.direction
          /\ a.score = s.score /\ a.nextMoveIn = s.nextMoveIn /\ a.boostLeft = s.boostLeft
          /\ a.nextDirection = IF s.direction # Rules!Opposite(key) THEN key ELSE s.nextDirection
      BY <2>1, <2>2, <2>5 DEF Expired
    <2>7. /\ b.segs = l.segs /\ b.tailPrev = l.tailPrev /\ b.direction = l.direction
          /\ b.score = l.score /\ b.movementFrequency = l.movementFrequency
          /\ b.nextMoveIn = l.nextMoveIn /\ b.boosted = l.boosted /\ b.boostLeft = l.boostLeft
          /\ b.nextDirection = IF l.direction # Rules!Opposite(key) THEN key ELSE l.nextDirection
      BY <2>3, <2>5
    <2>8. b.boosted = c.boosted /\ b.movementFrequency = c.movementFrequency
      <3>1. c.boosted = FALSE /\ c.movementFrequency = MovementFrequency
        BY <2>4, <2>6, ExpireIs
      <3>2. l.boosted = FALSE /\ l.movementFrequency = MovementFrequency
        BY <2>1, ExpireIs
      <3>. QED BY <2>7, <3>1, <3>2
    <2>11. /\ c.segs = a.segs /\ c.tailPrev = a.tailPrev /\ c.direction = a.direction
           /\ c.nextDirection = a.nextDirection /\ c.score = a.score
           /\ c.nextMoveIn = a.nextMoveIn /\ c.boostLeft = a.boostLeft
      BY <2>4, ExpireKeeps
    <2>12. /\ l.segs = s.segs /\ l.tailPrev = s.tailPrev /\ l.direction = s.direction
           /\ l.nextDirection = s.nextDirection /\ l.score = s.score
           /\ l.nextMoveIn = s.nextMoveIn /\ l.boostLeft = s.boostLeft
      BY <2>1, ExpireKeeps
    <2>9. /\ b.segs = c.segs /\ b.tailPrev = c.tailPrev /\ b.direction = c.direction
          /\ b.nextDirection = c.nextDirection /\ b.score = c.score
          /\ b.nextMoveIn = c.nextMoveIn /\ b.boostLeft = c.boostLeft
      BY <2>6, <2>7, <2>11, <2>12
    <2>10. b = c
      BY <2>8, <2>9, SnakeEqual
    <2>. QED BY <2>2, <2>3, <2>4, <2>10 DEF Alike
  <1>. QED BY <1>1, <1>2

EnginesAlike(a, b) ==
    /\ a.tick = b.tick /\ a.sequence = b.sequence /\ a.seed = b.seed /\ a.gen = b.gen
    /\ a.playing = b.playing /\ a.food = b.food /\ a.boosts = b.boosts
    /\ a.playing => Alike(a.snake, b.snake)

RunsAlike(p, q) ==
    p.records = q.records /\ p.stateChanged = q.stateChanged /\ EnginesAlike(p.e, q.e)

LEMMA EngineEqual ==
    ASSUME NEW a \in Engines, NEW b \in Engines, EnginesAlike(a, b), a.snake = b.snake
    PROVE  a = b
  BY DEF Engines, EnginesAlike

LEMMA JoinAlike ==
    ASSUME NEW a \in Engines, NEW b \in Engines, EnginesAlike(a, b)
    PROVE  EnginesAlike(Join(a), Join(b))
  <1>1. DrawnCell(a) = DrawnCell(b)
    BY DrawsAlike DEF EnginesAlike
  <1>2. ASSUME NEW e \in Engines
        PROVE  /\ Join(e).tick = e.tick /\ Join(e).sequence = e.sequence /\ Join(e).seed = e.seed
               /\ Join(e).gen = (e.gen + 1) % Period /\ Join(e).playing = TRUE
               /\ Join(e).food = e.food /\ Join(e).boosts = e.boosts
               /\ e.playing => Join(e).snake = e.snake
               /\ ~e.playing => Join(e).snake = Rules!NewPlayer(DrawnCell(e))
    <2> DEFINE d == Draw(e)
               s == IF e.playing THEN e.snake ELSE Rules!NewPlayer(DrawnCell(e))
    <2>1. d = [e EXCEPT !.gen = (e.gen + 1) % Period]
      BY DEF Draw
    <2>2. Join(e) = [d EXCEPT !.playing = TRUE, !.snake = s]
      BY DEF Join
    <2>3. (e.playing => s = e.snake) /\ (~e.playing => s = Rules!NewPlayer(DrawnCell(e)))
      OBVIOUS
    <2> HIDE DEF d, s
    <2>. QED BY <2>1, <2>2, <2>3 DEF Engines
  <1>3. a.playing = b.playing
    BY DEF EnginesAlike
  <1>4. Alike(Join(a).snake, Join(b).snake)
    <2>1. CASE a.playing
      <3>1. Join(a).snake = a.snake /\ Join(b).snake = b.snake
        BY <1>2, <1>3, <2>1
      <3>. QED BY <2>1, <3>1 DEF EnginesAlike
    <2>2. CASE ~a.playing
      <3>1. Join(a).snake = Rules!NewPlayer(DrawnCell(a)) /\ Join(b).snake = Rules!NewPlayer(DrawnCell(b))
        BY <1>2, <1>3, <2>2
      <3>. QED BY <1>1, <3>1 DEF Alike
    <2>. QED BY <2>1, <2>2
  <1>5. /\ Join(a).tick = Join(b).tick /\ Join(a).sequence = Join(b).sequence
        /\ Join(a).seed = Join(b).seed /\ Join(a).gen = Join(b).gen
        /\ Join(a).food = Join(b).food /\ Join(a).boosts = Join(b).boosts
    BY <1>2 DEF EnginesAlike
  <1>6. Join(a).playing = Join(b).playing
    BY <1>2
  <1>. QED BY <1>4, <1>5, <1>6 DEF EnginesAlike

\* The next sequence number does not tell two engines apart, nor does a message.
LEMMA StampAlike ==
    ASSUME NEW a \in Engines, NEW b \in Engines, EnginesAlike(a, b)
    PROVE  /\ Stamped(a) \in Engines
           /\ Stamped(b) \in Engines
           /\ EnginesAlike(Stamped(a), Stamped(b))
  <1>1. PICK x : x = Stamped(a)
    OBVIOUS
  <1>2. PICK y : y = Stamped(b)
    OBVIOUS
  <1>3. x \in Engines /\ y \in Engines
    BY <1>1, <1>2 DEF Engines, Stamped
  <1>4. /\ x.tick = a.tick /\ x.sequence = a.sequence + 1 /\ x.seed = a.seed /\ x.gen = a.gen
        /\ x.playing = a.playing /\ x.food = a.food /\ x.boosts = a.boosts /\ x.snake = a.snake
    BY <1>1 DEF Engines, Stamped
  <1>5. /\ y.tick = b.tick /\ y.sequence = b.sequence + 1 /\ y.seed = b.seed /\ y.gen = b.gen
        /\ y.playing = b.playing /\ y.food = b.food /\ y.boosts = b.boosts /\ y.snake = b.snake
    BY <1>2 DEF Engines, Stamped
  <1>6. EnginesAlike(x, y)
    BY <1>4, <1>5 DEF EnginesAlike
  <1>. QED BY <1>1, <1>2, <1>3, <1>6

LEMMA InputAlike ==
    ASSUME NEW a \in Engines, NEW b \in Engines, EnginesAlike(a, b), a.playing,
           NEW key \in Rules!Directions
    PROVE  EnginesAlike(Turned(a, key),
                        Turned(b, key))
  <1>1. a.snake \in Snakes /\ b.snake \in Snakes /\ Alike(a.snake, b.snake)
    BY DEF Engines, EnginesAlike
  <1>2. Alike(Rules!Turn(a.snake, key), Rules!Turn(b.snake, key))
    BY <1>1, TurnAlike
  <1>3. PICK s : s = Rules!Turn(a.snake, key)
    OBVIOUS
  <1>4. PICK l : l = Rules!Turn(b.snake, key)
    OBVIOUS
  <1>5. EnginesAlike([a EXCEPT !.snake = s], [b EXCEPT !.snake = l])
    <2>1. Alike(s, l)
      BY <1>2, <1>3, <1>4
    <2>. QED BY <2>1 DEF EnginesAlike, Engines
  <1>. QED BY <1>3, <1>4, <1>5 DEF Turned

LEMMA LeaveAlike ==
    ASSUME NEW a \in Engines, NEW b \in Engines, EnginesAlike(a, b)
    PROVE  EnginesAlike([a EXCEPT !.playing = FALSE], [b EXCEPT !.playing = FALSE])
  BY DEF EnginesAlike, Engines

LEMMA DispatchAlike ==
    ASSUME NEW p \in Runs, NEW q \in Runs, RunsAlike(p, q), NEW msg \in Messages
    PROVE  RunsAlike(Dispatch(p, msg), Dispatch(q, msg))
  <1>1. p.e \in Engines /\ q.e \in Engines /\ EnginesAlike(p.e, q.e) /\ p.records = q.records
        /\ p.stateChanged = q.stateChanged
    BY DEF Runs, RunsAlike
  <1>2. PICK a \in Engines : a = Stamped(p.e)
    BY <1>1, StampAlike
  <1>3. PICK b \in Engines : b = Stamped(q.e)
    BY <1>1, StampAlike
  <1>4. EnginesAlike(a, b)
    BY <1>1, <1>2, <1>3, StampAlike
  <1>5. RecordOf(msg, p.e) = RecordOf(msg, q.e) /\ Answer(p.e) = Answer(q.e)
    BY <1>1 DEF EnginesAlike, RecordOf, Answer
  <1>6. CASE msg.type = "CLIENT_JOIN"
    <2>1. Join(a) \in Engines /\ Join(b) \in Engines /\ EnginesAlike(Join(a), Join(b))
      BY <1>4, JoinTyped, JoinAlike
    <2>2. EnginesAlike(Stamped(Join(a)),
                       Stamped(Join(b)))
      BY <2>1, StampAlike
    <2>3. /\ Dispatch(p, msg).e = Stamped(Join(a))
          /\ Dispatch(p, msg).stateChanged = TRUE
          /\ Dispatch(p, msg).records = Append(Append(p.records, RecordOf(msg, p.e)), Answer(p.e))
      BY <1>2, <1>6, DispatchIs
    <2>4. /\ Dispatch(q, msg).e = Stamped(Join(b))
          /\ Dispatch(q, msg).stateChanged = TRUE
          /\ Dispatch(q, msg).records = Append(Append(q.records, RecordOf(msg, q.e)), Answer(q.e))
      BY <1>3, <1>6, DispatchIs
    <2>. QED BY <1>1, <1>5, <2>2, <2>3, <2>4, Zenon DEF RunsAlike
  <1>7. CASE msg.type = "CLIENT_INPUT"
    <2>1. msg.content.key \in Rules!Directions
      BY <1>7, MessageTyped
    <2>2. PICK key \in Rules!Directions : key = msg.content.key
      BY <2>1
    <2>3. a.playing => EnginesAlike(Turned(a, key),
                                    Turned(b, key))
      BY <1>4, InputAlike
    <2>4. /\ a.playing => Dispatch(p, msg).e = Turned(a, key)
          /\ ~a.playing => Dispatch(p, msg).e = a
          /\ Dispatch(p, msg).stateChanged = p.stateChanged
          /\ Dispatch(p, msg).records = Append(p.records, RecordOf(msg, p.e))
      <3>1. ASSUME a.playing
            PROVE  Dispatch(p, msg).e = Turned(a, key)
        BY <1>2, <1>7, <2>2, <3>1, InputIs
      <3>2. ASSUME ~a.playing
            PROVE  Dispatch(p, msg).e = a
        BY <1>2, <1>7, <2>2, <3>2, InputIs
      <3>3. /\ Dispatch(p, msg).stateChanged = p.stateChanged
            /\ Dispatch(p, msg).records = Append(p.records, RecordOf(msg, p.e))
        BY <1>2, <1>7, <2>2, InputIs
      <3>. QED BY <3>1, <3>2, <3>3
    <2>5. /\ b.playing => Dispatch(q, msg).e = Turned(b, key)
          /\ ~b.playing => Dispatch(q, msg).e = b
          /\ Dispatch(q, msg).stateChanged = q.stateChanged
          /\ Dispatch(q, msg).records = Append(q.records, RecordOf(msg, q.e))
      <3>1. ASSUME b.playing
            PROVE  Dispatch(q, msg).e = Turned(b, key)
        BY <1>3, <1>7, <2>2, <3>1, InputIs
      <3>2. ASSUME ~b.playing
            PROVE  Dispatch(q, msg).e = b
        BY <1>3, <1>7, <2>2, <3>2, InputIs
      <3>3. /\ Dispatch(q, msg).stateChanged = q.stateChanged
            /\ Dispatch(q, msg).records = Append(q.records, RecordOf(msg, q.e))
        BY <1>3, <1>7, <2>2, InputIs
      <3>. QED BY <3>1, <3>2, <3>3
    <2>6. a.playing = b.playing
      BY <1>4 DEF EnginesAlike
    <2>7. EnginesAlike(Dispatch(p, msg).e, Dispatch(q, msg).e)
      <3>1. CASE a.playing
        BY <2>3, <2>4, <2>5, <2>6, <3>1, Zenon
      <3>2. CASE ~a.playing
        BY <1>4, <2>4, <2>5, <2>6, <3>2, Zenon
      <3>. QED BY <3>1, <3>2
    <2>. QED BY <1>1, <1>5, <2>4, <2>5, <2>7, Zenon DEF RunsAlike
  <1>8. CASE msg.type = "CLIENT_DISCONNECT"
    <2>1. EnginesAlike([a EXCEPT !.playing = FALSE], [b EXCEPT !.playing = FALSE])
      BY <1>4, LeaveAlike
    <2>2. /\ Dispatch(p, msg).e = [a EXCEPT !.playing = FALSE]
          /\ Dispatch(p, msg).stateChanged = TRUE
          /\ Dispatch(p, msg).records = Append(p.records, RecordOf(msg, p.e))
      BY <1>2, <1>8, DispatchIs
    <2>3. /\ Dispatch(q, msg).e = [b EXCEPT !.playing = FALSE]
          /\ Dispatch(q, msg).stateChanged = TRUE
          /\ Dispatch(q, msg).records = Append(q.records, RecordOf(msg, q.e))
      BY <1>3, <1>8, DispatchIs
    <2>. QED BY <1>1, <1>5, <2>1, <2>2, <2>3, Zenon DEF RunsAlike
  <1>9. msg.type \in {"CLIENT_JOIN", "CLIENT_INPUT", "CLIENT_DISCONNECT"}
    BY MessageTyped
  <1>. QED BY <1>6, <1>7, <1>8, <1>9

LEMMA DispatchAllAlike ==
    ASSUME NEW p \in Runs, NEW q \in Runs, RunsAlike(p, q), NEW messages \in Seq(Messages)
    PROVE  /\ RunsAlike(DispatchAll(p, messages), DispatchAll(q, messages))
           /\ DispatchAll(p, messages) \in Runs /\ DispatchAll(q, messages) \in Runs
  <1>1. PICK n \in Nat : n = Len(messages) /\ \A i \in 1..n : messages[i] \in Messages
    BY LenProperties, ElementOfSeq
  <1>2. PICK f \in [0..n -> Runs] :
              /\ f[0] = p /\ (\A i \in 1..n : f[i] = Dispatch(f[i - 1], messages[i]))
              /\ DispatchAll(p, messages) = f[n]
    BY <1>1, DispatchAllUnfolds
  <1>3. PICK g \in [0..n -> Runs] :
              /\ g[0] = q /\ (\A i \in 1..n : g[i] = Dispatch(g[i - 1], messages[i]))
              /\ DispatchAll(q, messages) = g[n]
    BY <1>1, DispatchAllUnfolds
  <1> DEFINE P == {i \in 0..n : RunsAlike(f[i], g[i])}
  <1>4. 0 \in 0..n /\ n \in 0..n /\ (\A i \in 1..n : i \in 0..n /\ i - 1 \in 0..n)
    BY SMT
  <1>5. 0 \in P
    BY <1>2, <1>3, <1>4
  <1>6. ASSUME NEW i \in 1..n, i - 1 \in P
        PROVE  i \in P
    <2>1. PICK x \in Runs : x = f[i - 1] /\ f[i] = Dispatch(x, messages[i])
      BY <1>2, <1>4
    <2>2. PICK y \in Runs : y = g[i - 1] /\ g[i] = Dispatch(y, messages[i])
      BY <1>3, <1>4
    <2>3. RunsAlike(x, y) /\ messages[i] \in Messages
      BY <1>1, <1>6, <2>1, <2>2
    <2>4. RunsAlike(Dispatch(x, messages[i]), Dispatch(y, messages[i]))
      BY <2>3, DispatchAlike
    <2>. QED BY <1>4, <2>1, <2>2, <2>4
  <1>7. n \in P
    <2> HIDE DEF P
    <2>. QED BY <1>4, <1>5, <1>6, UpTo
  <1>. QED BY <1>2, <1>3, <1>4, <1>7

\* A snake that has been looked at by updateSnakes() is the same in both.
EnginesAgree(a, b) == EnginesAlike(a, b) /\ (a.playing => a.snake = b.snake)

RunsAgree(p, q) == p.records = q.records /\ p.stateChanged = q.stateChanged /\ EnginesAgree(p.e, q.e)

LEMMA UpdateSnakesAgree ==
    ASSUME NEW p \in Runs, NEW q \in Runs, RunsAlike(p, q)
    PROVE  RunsAgree(UpdateSnakes(p), UpdateSnakes(q))
  <1>1. /\ p.e \in Engines /\ q.e \in Engines /\ EnginesAlike(p.e, q.e)
        /\ p.records = q.records /\ p.stateChanged = q.stateChanged
    BY DEF Runs, RunsAlike
  <1>2. PICK a \in Engines : a = p.e
    BY <1>1
  <1>3. PICK b \in Engines : b = q.e
    BY <1>1
  <1>4. EnginesAlike(a, b) /\ (a.playing <=> b.playing)
    BY <1>1, <1>2, <1>3 DEF EnginesAlike
  <1>5. UpdateSnakes(p).records = UpdateSnakes(q).records
    BY <1>1, UpdateSnakesIs
  <1>6. ASSUME a.playing
        PROVE  Updated(a) = Updated(b) /\ Updated(a) \in Engines /\ (Moves(a) <=> Moves(b))
    <2>1. a.snake \in Snakes /\ b.snake \in Snakes /\ Alike(a.snake, b.snake)
      BY <1>4, <1>6 DEF Engines, EnginesAlike
    <2>2. Rules!UpdateSnake(a.snake) = Rules!UpdateSnake(b.snake) /\ a.snake.nextMoveIn = b.snake.nextMoveIn
      BY <2>1, UpdateAlike
    <2>3. PICK s \in Snakes : s = Rules!UpdateSnake(a.snake)
      BY <2>1, SnakeTyped
    <2>4. Updated(a) = [a EXCEPT !.snake = s] /\ Updated(b) = [b EXCEPT !.snake = s]
      BY <2>2, <2>3 DEF Updated
    <2>5. PICK x \in Engines : x = Updated(a)
      BY UpdatedTyped
    <2>6. PICK y \in Engines : y = Updated(b)
      BY UpdatedTyped
    <2>7. EnginesAlike(x, y) /\ x.snake = y.snake
      BY <1>4, <2>4, <2>5, <2>6 DEF Engines, EnginesAlike, Alike
    <2>8. x = y
      BY <2>7, EngineEqual
    <2>9. Moves(a) <=> Moves(b)
      BY <1>4, <2>2 DEF Moves
    <2>. QED BY <2>5, <2>6, <2>8, <2>9
  <1>7. CASE Moves(a)
    <2>1. a.playing /\ Moves(b)
      BY <1>6, <1>7 DEF Moves
    <2>2. UpdateSnakes(p).e = PlaceSpeedBoost(CheckCollisions(Updated(a))) /\ UpdateSnakes(p).stateChanged = TRUE
      BY <1>2, <1>7, UpdateSnakesIs
    <2>3. UpdateSnakes(q).e = PlaceSpeedBoost(CheckCollisions(Updated(b))) /\ UpdateSnakes(q).stateChanged = TRUE
      BY <1>3, <2>1, UpdateSnakesIs
    <2>4. UpdateSnakes(p).e = UpdateSnakes(q).e
      BY <1>6, <2>1, <2>2, <2>3
    <2>. QED BY <1>5, <2>2, <2>3, <2>4 DEF RunsAgree, EnginesAgree, EnginesAlike, Alike
  <1>8. CASE a.playing /\ ~Moves(a)
    <2>1. b.playing /\ ~Moves(b)
      BY <1>4, <1>6, <1>8
    <2>2. UpdateSnakes(p).e = Updated(a) /\ UpdateSnakes(p).stateChanged = p.stateChanged
      BY <1>2, <1>8, UpdateSnakesIs
    <2>3. UpdateSnakes(q).e = Updated(b) /\ UpdateSnakes(q).stateChanged = q.stateChanged
      BY <1>3, <2>1, UpdateSnakesIs
    <2>4. UpdateSnakes(p).e = UpdateSnakes(q).e
      BY <1>6, <1>8, <2>2, <2>3
    <2>5. UpdateSnakes(p).stateChanged = UpdateSnakes(q).stateChanged
      BY <1>1, <2>2, <2>3
    <2>. QED BY <1>5, <2>4, <2>5 DEF RunsAgree, EnginesAgree, EnginesAlike, Alike
  <1>9. CASE ~a.playing
    <2>1. UpdateSnakes(p) = p
      BY <1>2, <1>9, UpdateSnakesIs
    <2>2. UpdateSnakes(q) = q
      BY <1>3, <1>4, <1>9, UpdateSnakesIs
    <2>3. EnginesAgree(p.e, q.e)
      BY <1>2, <1>3, <1>4, <1>9 DEF EnginesAgree
    <2>. QED BY <1>1, <2>1, <2>2, <2>3 DEF RunsAgree
  <1>. QED BY <1>7, <1>8, <1>9

LEMMA BroadcastAgree ==
    ASSUME NEW p \in Runs, NEW q \in Runs, RunsAgree(p, q)
    PROVE  RunsAgree(BroadcastGameState(p), BroadcastGameState(q))
  <1>1. /\ p.e \in Engines /\ q.e \in Engines /\ EnginesAgree(p.e, q.e)
        /\ p.records = q.records /\ p.stateChanged = q.stateChanged
        /\ p.stateChanged \in BOOLEAN /\ q.stateChanged \in BOOLEAN
    BY DEF Runs, RunsAgree
  <1>2. CASE p.stateChanged
    <2>1. q.stateChanged
      BY <1>1, <1>2
    <2>2. PICK a \in Engines : a = Stamped(p.e)
      BY <1>1, StampAlike DEF EnginesAgree
    <2>3. PICK b \in Engines : b = Stamped(q.e)
      BY <1>1, StampAlike DEF EnginesAgree
    <2>4. EnginesAlike(a, b)
      BY <1>1, <2>2, <2>3, StampAlike DEF EnginesAgree
    <2>5. /\ a.playing = p.e.playing /\ a.snake = p.e.snake
          /\ b.playing = q.e.playing /\ b.snake = q.e.snake
      BY <1>1, <2>2, <2>3 DEF Engines, Stamped
    <2>6. EnginesAgree(a, b)
      BY <1>1, <2>4, <2>5 DEF EnginesAgree
    <2>7. GameState(p.e) = GameState(q.e)
      BY <1>1 DEF EnginesAgree, EnginesAlike, GameState
    <2>8. p.e.sequence = q.e.sequence /\ p.e.tick = q.e.tick
      BY <1>1 DEF EnginesAgree, EnginesAlike
    <2> DEFINE record(e) == [type |-> "GAME_STATE", sequence |-> e.sequence,
                             transactTime |-> e.tick, content |-> GameState(e)]
    <2>9. /\ BroadcastGameState(p).e = a
          /\ BroadcastGameState(p).records = Append(p.records, record(p.e))
      BY <1>2, <2>2, BroadcastIs
    <2>10. /\ BroadcastGameState(q).e = b
           /\ BroadcastGameState(q).records = Append(q.records, record(q.e))
      BY <2>1, <2>3, BroadcastIs
    <2>11. record(p.e) = record(q.e)
      BY <2>7, <2>8
    <2>12. BroadcastGameState(p).stateChanged = BroadcastGameState(q).stateChanged
      BY <1>1, BroadcastIs
    <2> HIDE DEF record
    <2>. QED BY <1>1, <2>6, <2>9, <2>10, <2>11, <2>12 DEF RunsAgree
  <1>3. CASE ~p.stateChanged
    <2>1. ~q.stateChanged
      BY <1>1, <1>3
    <2>2. BroadcastGameState(p) = p
      BY <1>3, BroadcastIs
    <2>3. BroadcastGameState(q) = q
      BY <2>1, BroadcastIs
    <2>. QED BY <2>2, <2>3
  <1>. QED BY <1>2, <1>3

\* What an iteration dispatches its messages on.
Begun(e, t) == Started(ReplaceFood(SetTick(e, t)))

LEMMA BegunIs ==
    ASSUME NEW e \in Engines, NEW t \in Nat, e.tick <= t
    PROVE  LET b == Begun(e, t)
           IN /\ b \in Runs /\ b.records = << >> /\ b.stateChanged = FALSE
              /\ b.e = ReplaceFood(SetTick(e, t)) /\ b.e \in Engines
              /\ b.e.tick = t /\ b.e.sequence = e.sequence /\ b.e.seed = e.seed
              /\ b.e.playing = e.playing /\ b.e.boosts = e.boosts
              /\ b.e.snake = Rules!Elapse(e.snake, t - e.tick)
              /\ SameDraws(b.e, ReplaceFood(e))
  <1>1. PICK s \in Snakes : s = Rules!Elapse(e.snake, t - e.tick)
    <2>1. e.snake \in Snakes /\ t - e.tick \in Nat
      BY DEF Engines
    <2>. QED BY <2>1, SnakeTyped
  <1>2. PICK d \in Engines : d = SetTick(e, t)
    BY SetTickTyped
  <1>3. d = [e EXCEPT !.tick = t, !.snake = s]
    BY <1>1, <1>2 DEF SetTick
  <1>4. /\ d.tick = t /\ d.sequence = e.sequence /\ d.seed = e.seed /\ d.playing = e.playing
        /\ d.boosts = e.boosts /\ d.snake = s /\ d.gen = e.gen /\ d.food = e.food
    BY <1>3 DEF Engines
  <1>5. PICK f \in Engines : f = ReplaceFood(d)
    BY ReplaceFoodTyped
  <1>6. SameButDraws(f, d)
    BY <1>5, ReplaceFoodKeeps
  <1>7. SameDraws(f, ReplaceFood(e))
    <2>1. SameDraws(d, e)
      BY <1>4 DEF SameDraws
    <2>. QED BY <1>5, <2>1, ReplaceFoodSame
  <1>8. /\ Begun(e, t) \in Runs /\ Begun(e, t).records = << >> /\ Begun(e, t).stateChanged = FALSE
        /\ Begun(e, t).e = f
    BY <1>2, <1>5, StartedTyped DEF Begun
  <1>9. /\ f.tick = t /\ f.sequence = e.sequence /\ f.seed = e.seed
        /\ f.playing = e.playing /\ f.boosts = e.boosts /\ f.snake = s
    BY <1>4, <1>6 DEF SameButDraws
  <1>. QED BY <1>1, <1>2, <1>5, <1>7, <1>8, <1>9

LEMMA IterationTyped ==
    ASSUME NEW e \in Engines, NEW t \in Nat, e.tick <= t, NEW messages \in Seq(Messages)
    PROVE  /\ Iteration(e, t, messages) =
                 BroadcastGameState(UpdateSnakes(DispatchAll(Begun(e, t), messages)))
           /\ DispatchAll(Begun(e, t), messages) \in Runs
           /\ UpdateSnakes(DispatchAll(Begun(e, t), messages)) \in Runs
           /\ Iteration(e, t, messages) \in Runs
  <1>1. Begun(e, t) \in Runs
    BY BegunIs
  <1>2. DispatchAll(Begun(e, t), messages) \in Runs
    BY <1>1, DispatchAllAlike, Zenon DEF RunsAlike, EnginesAlike, Alike
  <1>3. UpdateSnakes(DispatchAll(Begun(e, t), messages)) \in Runs
    BY <1>2, UpdateSnakesIs
  <1>4. BroadcastGameState(UpdateSnakes(DispatchAll(Begun(e, t), messages))) \in Runs
    BY <1>3, BroadcastIs
  <1>5. Iteration(e, t, messages) =
           BroadcastGameState(UpdateSnakes(DispatchAll(Begun(e, t), messages)))
    BY DEF Iteration, Begun
  <1>. QED BY <1>2, <1>3, <1>4, <1>5

LEMMA IterationAgree ==
    ASSUME NEW e \in Engines, NEW l \in Engines, NEW t \in Nat, e.tick <= t, l.tick <= t,
           NEW messages \in Seq(Messages), RunsAlike(Begun(e, t), Begun(l, t))
    PROVE  RunsAgree(Iteration(e, t, messages), Iteration(l, t, messages))
  <1>1. Begun(e, t) \in Runs /\ Begun(l, t) \in Runs
    BY BegunIs
  <1>2. PICK p \in Runs : p = DispatchAll(Begun(e, t), messages)
    BY <1>1, DispatchAllAlike
  <1>3. PICK q \in Runs : q = DispatchAll(Begun(l, t), messages)
    BY <1>1, DispatchAllAlike
  <1>4. RunsAlike(p, q)
    BY <1>1, <1>2, <1>3, DispatchAllAlike
  <1>5. PICK a \in Runs : a = UpdateSnakes(p)
    BY UpdateSnakesIs
  <1>6. PICK b \in Runs : b = UpdateSnakes(q)
    BY UpdateSnakesIs
  <1>7. RunsAgree(a, b)
    BY <1>4, <1>5, <1>6, UpdateSnakesAgree
  <1>8. RunsAgree(BroadcastGameState(a), BroadcastGameState(b))
    BY <1>7, BroadcastAgree
  <1>. QED BY <1>2, <1>3, <1>5, <1>6, <1>8, IterationTyped

\* Engine e may still be where it was when it last wrote something, while l has gone on.
Lags(e, l) ==
    /\ e.tick <= l.tick /\ e.sequence = l.sequence /\ e.playing = l.playing /\ e.boosts = l.boosts
    /\ SameDraws(ReplaceFood(e), ReplaceFood(l))
    /\ e.playing => Alike(Rules!Elapse(e.snake, l.tick - e.tick), l.snake)

LEMMA LagsCatchUp ==
    ASSUME NEW e \in Engines, NEW l \in Engines, Lags(e, l), NEW t \in Nat, l.tick <= t
    PROVE  e.tick <= t /\ RunsAlike(Begun(e, t), Begun(l, t))
  <1>1. e.tick \in Nat /\ l.tick \in Nat /\ e.tick <= l.tick /\ e.tick <= t
        /\ e.snake \in Snakes /\ l.snake \in Snakes
    BY DEF Engines, Lags
  <1>2. PICK p \in Runs : p = Begun(e, t)
    BY <1>1, BegunIs
  <1>3. PICK q \in Runs : q = Begun(l, t)
    BY <1>1, BegunIs
  <1>4. /\ p.records = << >> /\ p.stateChanged = FALSE
        /\ p.e.tick = t /\ p.e.sequence = e.sequence
        /\ p.e.playing = e.playing /\ p.e.boosts = e.boosts
        /\ p.e.snake = Rules!Elapse(e.snake, t - e.tick)
        /\ SameDraws(p.e, ReplaceFood(e))
    BY <1>1, <1>2, BegunIs
  <1>5. /\ q.records = << >> /\ q.stateChanged = FALSE
        /\ q.e.tick = t /\ q.e.sequence = l.sequence
        /\ q.e.playing = l.playing /\ q.e.boosts = l.boosts
        /\ q.e.snake = Rules!Elapse(l.snake, t - l.tick)
        /\ SameDraws(q.e, ReplaceFood(l))
    BY <1>1, <1>3, BegunIs
  <1>6. ASSUME e.playing
        PROVE  Alike(p.e.snake, q.e.snake)
    <2>1. PICK x \in Nat : x = l.tick - e.tick
      BY <1>1
    <2>2. PICK y \in Nat : y = t - l.tick
      BY <1>1
    <2>3. x + y = t - e.tick
      BY <1>1, <2>1, <2>2, SMT
    <2>4. PICK s \in Snakes : s = Rules!Elapse(e.snake, x)
      BY <1>1, SnakeTyped
    <2>5. Alike(s, l.snake)
      BY <1>6, <2>1, <2>4 DEF Lags
    <2>6. Alike(Rules!Elapse(s, y), Rules!Elapse(l.snake, y))
      BY <1>1, <2>5, ElapseAlike
    <2>7. Rules!Elapse(s, y) = Rules!Elapse(e.snake, x + y)
      BY <1>1, <2>4, ElapseTwice
    <2>. QED BY <1>4, <1>5, <2>2, <2>3, <2>6, <2>7
  <1>7. SameDraws(p.e, q.e)
    BY <1>4, <1>5 DEF Lags, SameDraws
  <1>8. p.e.playing = q.e.playing /\ p.e.sequence = q.e.sequence /\ p.e.boosts = q.e.boosts
        /\ p.e.tick = q.e.tick
    BY <1>4, <1>5 DEF Lags
  <1>9. EnginesAlike(p.e, q.e)
    BY <1>4, <1>6, <1>7, <1>8 DEF EnginesAlike, SameDraws
  <1>. QED BY <1>1, <1>2, <1>3, <1>4, <1>5, <1>9 DEF RunsAlike

LEMMA AgreeLags ==
    ASSUME NEW e \in Engines, NEW l \in Engines, EnginesAgree(e, l)
    PROVE  Lags(e, l)
  <1>1. SameDraws(ReplaceFood(e), ReplaceFood(l))
    BY ReplaceFoodSame DEF EnginesAgree, EnginesAlike, SameDraws
  <1>2. e.tick = l.tick /\ e.tick \in Nat /\ e.snake \in Snakes
    BY DEF Engines, EnginesAgree, EnginesAlike
  <1>3. l.tick - e.tick = 0 /\ e.tick <= l.tick
    BY <1>2, SMT
  <1>4. Rules!Elapse(e.snake, l.tick - e.tick) = e.snake
    BY <1>2, <1>3, ElapseNothing
  <1>. QED BY <1>1, <1>3, <1>4 DEF Lags, EnginesAgree, EnginesAlike, Alike

-----------------------------------------------------------------------------
(* What an iteration writes, and what pollMessages() makes of it.          *)

Describes(record, msg, t) ==
    IsFromClient(record) /\ Message(record.type, record.content) = msg /\ record.transactTime = t

Reports(record, t) == ~IsFromClient(record) /\ record.transactTime = t

\* Dispatching msg at time t takes the records from s to u.
Adds(s, u, msg, t) ==
    \E a \in Records :
       /\ Describes(a, msg, t)
       /\ \/ u = Append(s, a)
          \/ \E b \in Records : Reports(b, t) /\ u = Append(Append(s, a), b)

LEMMA DispatchWrites ==
    ASSUME NEW r \in Runs, NEW msg \in Messages
    PROVE  /\ Dispatch(r, msg) \in Runs /\ Dispatch(r, msg).e.tick = r.e.tick
           /\ Adds(r.records, Dispatch(r, msg).records, msg, r.e.tick)
  <1>1. PICK e \in Engines : e = r.e
    BY DEF Runs
  <1>2. PICK w \in Engines : w = Stamped(e) /\ w.tick = e.tick
    <2>1. Stamped(e) \in Engines /\ Stamped(e).tick = e.tick
      BY DEF Engines, Stamped
    <2>. QED BY <2>1
  <1>3. PICK t \in Nat : t = e.tick
    BY DEF Engines
  <1>4. PICK a \in Records : a = RecordOf(msg, e)
    <2>1. msg.type \in Types /\ msg.content \in Contents
      BY MessageTyped DEF Types
    <2>. QED BY <2>1 DEF RecordOf, Records, Engines
  <1>5. Describes(a, msg, t)
    <2>1. a.type = msg.type /\ a.content = msg.content /\ a.transactTime = t
      BY <1>3, <1>4 DEF RecordOf
    <2>2. IsFromClient(a) /\ msg = Message(msg.type, msg.content)
      BY <2>1, MessageTyped DEF IsFromClient
    <2>. QED BY <2>1, <2>2 DEF Describes
  <1>6. PICK b \in Records : b = Answer(e)
    <2>1. e.sequence + 1 \in Nat /\ e.tick \in Nat
      BY DEF Engines
    <2>2. Nothing \in Contents /\ "SERVER_WELCOME" \in Types
      BY DEF Contents, Types
    <2>. QED BY <2>1, <2>2 DEF Answer, Records
  <1>7. Reports(b, t)
    BY <1>3, <1>6 DEF Answer, Reports, IsFromClient
  <1>8. Dispatch(r, msg) \in Runs
    BY DispatchIs
  <1>9. CASE msg.type = "CLIENT_JOIN"
    <2>1. PICK j \in Engines : j = Join(w) /\ j.tick = t
      BY <1>2, <1>3, JoinTyped
    <2>2. Stamped(j).tick = t
      BY <2>1 DEF Engines, Stamped
    <2>3. Dispatch(r, msg).e = Stamped(j) /\ Dispatch(r, msg).records = Append(Append(r.records, a), b)
      BY <1>1, <1>2, <1>4, <1>6, <1>9, <2>1, DispatchIs
    <2>. QED BY <1>1, <1>3, <1>5, <1>7, <1>8, <2>2, <2>3 DEF Adds
  <1>10. CASE msg.type = "CLIENT_INPUT"
    <2>1. PICK key : key = msg.content.key
      OBVIOUS
    <2>2. Turned(w, key).tick = t
      BY <1>2, <1>3 DEF Engines, Turned
    <2>3. /\ w.playing => Dispatch(r, msg).e = Turned(w, key)
          /\ ~w.playing => Dispatch(r, msg).e = w
      <3>1. ASSUME w.playing
            PROVE  Dispatch(r, msg).e = Turned(w, key)
        BY <1>1, <1>2, <1>10, <2>1, <3>1, InputIs
      <3>2. ASSUME ~w.playing
            PROVE  Dispatch(r, msg).e = w
        BY <1>1, <1>2, <1>10, <2>1, <3>2, InputIs
      <3>. QED BY <3>1, <3>2
    <2>4. Dispatch(r, msg).records = Append(r.records, a)
      BY <1>1, <1>2, <1>4, <1>10, <2>1, InputIs
    <2>5. Dispatch(r, msg).e.tick = t
      <3>1. CASE w.playing
        BY <2>2, <2>3, <3>1
      <3>2. CASE ~w.playing
        BY <1>2, <1>3, <2>3, <3>2
      <3>. QED BY <3>1, <3>2
    <2>. QED BY <1>1, <1>3, <1>5, <1>8, <2>4, <2>5 DEF Adds
  <1>11. CASE msg.type = "CLIENT_DISCONNECT"
    <2>1. [w EXCEPT !.playing = FALSE].tick = t
      BY <1>2, <1>3 DEF Engines
    <2>2. /\ Dispatch(r, msg).e = [w EXCEPT !.playing = FALSE]
          /\ Dispatch(r, msg).records = Append(r.records, a)
      BY <1>1, <1>2, <1>4, <1>11, DispatchIs
    <2>. QED BY <1>1, <1>3, <1>5, <1>8, <2>1, <2>2 DEF Adds
  <1>12. msg.type \in {"CLIENT_JOIN", "CLIENT_INPUT", "CLIENT_DISCONNECT"}
    BY MessageTyped
  <1>. QED BY <1>9, <1>10, <1>11, <1>12

\* What a record would be dispatched as.
Dispatchable == {Message(type, content) : type \in Types, content \in Contents}

LEMMA ToDispatchUnfolds ==
    ASSUME NEW batch \in Seq(Records), NEW n \in Nat, n = Len(batch)
    PROVE  \E f \in [0..n -> Seq(Dispatchable)] :
              /\ f[0] = << >>
              /\ \A i \in 1..n :
                    f[i] = IF IsFromClient(batch[i])
                              THEN Append(f[i - 1], Message(batch[i].type, batch[i].content))
                           ELSE f[i - 1]
              /\ ToDispatch(batch) = f[n]
  <1> DEFINE next(s, i) == IF IsFromClient(batch[i])
                              THEN Append(s, Message(batch[i].type, batch[i].content)) ELSE s
             step == [x \in Seq(Dispatchable) \X Nat |-> IF x[2] \in 1..n THEN next(x[1], x[2]) ELSE x[1]]
             Is(f) == f = [i \in 0..Len(batch) |-> IF i = 0 THEN << >> ELSE
                             IF IsFromClient(batch[i])
                                THEN Append(f[i - 1], Message(batch[i].type, batch[i].content))
                             ELSE f[i - 1]]
  <1>1. ASSUME NEW s \in Seq(Dispatchable), NEW i \in 1..n
        PROVE  next(s, i) \in Seq(Dispatchable)
    <2>1. batch[i] \in Records
      BY ElementOfSeq
    <2>2. Message(batch[i].type, batch[i].content) \in Dispatchable
      BY <2>1 DEF Records, Dispatchable
    <2>. QED BY <2>2, AppendProperties
  <1>2. step \in [Seq(Dispatchable) \X Nat -> Seq(Dispatchable)]
    <2> HIDE DEF next
    <2>. QED BY <1>1
  <1>3. PICK g \in [0..n -> Seq(Dispatchable)] : Recursive(g, << >>, step, n)
    <2>1. << >> \in Seq(Dispatchable)
      BY EmptySeq
    <2> HIDE DEF step
    <2>. QED BY <1>2, <2>1, Recursion, Zenon
  <1>4. \A i \in 0..n : i # 0 => i - 1 \in 0..n /\ i \in 1..n /\ i \in Nat
    BY SMT
  <1>5. ASSUME NEW i \in 0..n
        PROVE  g[i] = IF i = 0 THEN << >> ELSE next(g[i - 1], i)
    <2> HIDE DEF next
    <2>. QED BY <1>3, <1>4 DEF Recursive
  <1>6. Is(g)
    <2>1. g = [i \in 0..n |-> IF i = 0 THEN << >> ELSE next(g[i - 1], i)]
      <3> HIDE DEF next
      <3>. QED BY <1>3, <1>5 DEF Recursive
    <2>. QED BY <2>1, Zenon
  <1>7. PICK f : f = CHOOSE h : Is(h)
    OBVIOUS
  <1>8. Is(f)
    <2> HIDE DEF Is
    <2>. QED BY <1>6, <1>7, Zenon
  <1>9. ToDispatch(batch) = f[n]
    BY <1>7 DEF ToDispatch
  <1>10. 0 \in 0..n /\ n \in 0..n /\ (\A i \in 1..n : i \in 0..n /\ i # 0)
    BY SMT
  <1>11. DOMAIN f = 0..n /\ f = [i \in 0..n |-> f[i]]
         /\ f[0] = << >> /\ \A i \in 1..n : f[i] = next(f[i - 1], i)
    <2>1. f = [i \in 0..n |-> IF i = 0 THEN << >> ELSE next(f[i - 1], i)]
      BY <1>8, Zenon
    <2> HIDE DEF next, Is
    <2>. QED BY <1>10, <2>1
  <1>12. f \in [0..n -> Seq(Dispatchable)]
    <2> DEFINE P == {j \in 0..n : f[j] \in Seq(Dispatchable)}
    <2> HIDE DEF next
    <2>1. 0 \in P
      BY <1>10, <1>11, EmptySeq
    <2>2. ASSUME NEW i \in 1..n, i - 1 \in P
          PROVE  i \in P
      <3>1. f[i - 1] \in Seq(Dispatchable)
        BY <2>2
      <3>2. next(f[i - 1], i) \in Seq(Dispatchable)
        BY <1>1, <3>1, Zenon
      <3>3. f[i] \in Seq(Dispatchable) /\ i \in 0..n
        BY <1>10, <1>11, <3>2, Zenon
      <3>. QED BY <3>3
    <2>3. \A i \in 0..n : i \in P
      <3> HIDE DEF P
      <3>. QED BY <2>1, <2>2, UpTo
    <2>. QED BY <1>11, <2>3
  <1>13. \A i \in 1..n :
            f[i] = IF IsFromClient(batch[i])
                      THEN Append(f[i - 1], Message(batch[i].type, batch[i].content))
                   ELSE f[i - 1]
    BY <1>11, Zenon
  <1>. QED BY <1>9, <1>11, <1>12, <1>13

LEMMA AppendIs ==
    ASSUME NEW S, NEW s \in Seq(S), NEW a \in S, NEW u, u = Append(s, a)
    PROVE  /\ u \in Seq(S) /\ Len(u) = Len(s) + 1 /\ u[Len(u)] = a
           /\ \A k \in 1..Len(s) : u[k] = s[k]
           /\ \A c \in 0..Len(s) : SubSeq(u, 1, c) = SubSeq(s, 1, c)
           /\ SubSeq(u, 1, Len(u)) = u
  <1>1. /\ u \in Seq(S) /\ Len(u) = Len(s) + 1
        /\ (\A k \in 1..Len(s) : u[k] = s[k]) /\ u[Len(s) + 1] = a
    BY AppendProperties
  <1>2. Len(s) \in Nat
    BY LenProperties
  <1>3. ASSUME NEW c \in 0..Len(s)
        PROVE  SubSeq(u, 1, c) = SubSeq(s, 1, c)
    BY <1>1, <1>2, SMT
  <1>. QED BY <1>1, <1>3, SubSeqFull

LEMMA ToDispatchIs ==
    /\ ToDispatch(<< >>) = << >>
    /\ \A s \in Seq(Records), a \in Records :
          ToDispatch(Append(s, a)) =
             IF IsFromClient(a) THEN Append(ToDispatch(s), Message(a.type, a.content)) ELSE ToDispatch(s)
  <1>1. ToDispatch(<< >>) = << >>
    BY EmptySeq, ToDispatchUnfolds
  <1>2. ASSUME NEW s \in Seq(Records), NEW a \in Records
        PROVE  ToDispatch(Append(s, a)) =
                  IF IsFromClient(a) THEN Append(ToDispatch(s), Message(a.type, a.content)) ELSE ToDispatch(s)
    <2> DEFINE after(x, r) == IF IsFromClient(r) THEN Append(x, Message(r.type, r.content)) ELSE x
    <2>1. PICK n \in Nat : n = Len(s)
      BY LenProperties
    <2>2. PICK u \in Seq(Records) : u = Append(s, a)
      BY AppendProperties
    <2>3. Len(u) = n + 1 /\ u[n + 1] = a /\ \A k \in 1..n : u[k] = s[k]
      BY <2>1, <2>2, AppendProperties
    <2>4. PICK f \in [0..n -> Seq(Dispatchable)] :
             f[0] = << >> /\ (\A i \in 1..n : f[i] = after(f[i - 1], s[i])) /\ ToDispatch(s) = f[n]
      BY <2>1, ToDispatchUnfolds, Zenon
    <2>5. PICK g \in [0..(n + 1) -> Seq(Dispatchable)] :
             /\ g[0] = << >> /\ (\A i \in 1..(n + 1) : g[i] = after(g[i - 1], u[i]))
             /\ ToDispatch(u) = g[n + 1]
      <3>1. n + 1 \in Nat
        BY SMT
      <3>. QED BY <2>3, <3>1, ToDispatchUnfolds, Zenon
    <2> HIDE DEF after
    <2> DEFINE P == {i \in 0..n : g[i] = f[i]}
    <2>6. 0 \in 0..n /\ n \in 0..n /\ n + 1 \in 1..(n + 1) /\ (n + 1) - 1 = n
          /\ (\A i \in 1..n : i \in 0..n /\ i \in 1..(n + 1))
      BY SMT
    <2>7. 0 \in P
      BY <2>4, <2>5, <2>6
    <2>8. ASSUME NEW i \in 1..n, i - 1 \in P
          PROVE  i \in P
      BY <2>3, <2>4, <2>5, <2>6, <2>8
    <2>9. n \in P
      <3> HIDE DEF P
      <3>. QED BY <2>6, <2>7, <2>8, UpTo
    <2>10. ToDispatch(u) = after(ToDispatch(s), a)
      BY <2>3, <2>4, <2>5, <2>6, <2>9
    <2>. QED BY <2>2, <2>10 DEF after
  <1>. QED BY <1>1, <1>2

\* The records s come first in u.
Begins(s, u) == Len(s) <= Len(u) /\ \A k \in 1..Len(s) : u[k] = s[k]

LEMMA BeginsIs ==
    /\ \A s \in Seq(Records) : Begins(s, s)
    /\ \A s \in Seq(Records), a \in Records : Begins(s, Append(s, a))
    /\ \A s \in Seq(Records), u \in Seq(Records), v \in Seq(Records) :
          Begins(s, u) /\ Begins(u, v) => Begins(s, v)
    /\ \A s \in Seq(Records), u \in Seq(Records) : \A c \in 0..Len(s) :
          Begins(s, u) => Begins(SubSeq(s, 1, c), u)
  <1>1. \A s \in Seq(Records) : Len(s) \in Nat
    BY LenProperties
  <1>2. \A s \in Seq(Records), a \in Records : Begins(s, Append(s, a))
    BY <1>1, AppendProperties DEF Begins
  <1>3. ASSUME NEW s \in Seq(Records), NEW u \in Seq(Records), NEW c \in 0..Len(s), Begins(s, u)
        PROVE  Begins(SubSeq(s, 1, c), u)
    <2>1. Len(SubSeq(s, 1, c)) = c /\ \A k \in 1..c : SubSeq(s, 1, c)[k] = s[k]
      BY <1>1, SMT
    <2>. QED BY <1>1, <1>3, <2>1 DEF Begins
  <1>4. ASSUME NEW s \in Seq(Records), NEW u \in Seq(Records), NEW v \in Seq(Records),
               Begins(s, u), Begins(u, v)
        PROVE  Begins(s, v)
    <2>1. Len(s) \in Nat /\ Len(u) \in Nat /\ Len(v) \in Nat
      BY <1>1
    <2>2. Len(s) <= Len(v) /\ \A k \in 1..Len(s) : k \in 1..Len(u)
      BY <1>4, <2>1 DEF Begins
    <2>. QED BY <1>4, <2>2 DEF Begins
  <1>5. \A s \in Seq(Records) : Begins(s, s)
    BY <1>1 DEF Begins
  <1>. QED BY <1>2, <1>3, <1>4, <1>5

AllAt(s, t) == \A k \in 1..Len(s) : s[k].transactTime = t

\* The first c of the records u are all of, or begin, what the first messages of m write;
\* F[j] is what the first j of them do.
CutAt(F, u, m, i, c) ==
    \E j \in 0..i :
       c <= Len(F[j]) /\ Begins(F[j], u) /\ ToDispatch(SubSeq(u, 1, c)) = SubSeq(m, 1, j)

Cuts(F, m, i, t) ==
    /\ AllAt(F[i], t)
    /\ i <= Len(F[i])
    /\ ToDispatch(F[i]) = SubSeq(m, 1, i)
    /\ \A c \in 0..Len(F[i]) : CutAt(F, F[i], m, i, c)

LEMMA AllAtAppend ==
    ASSUME NEW s \in Seq(Records), NEW a \in Records, NEW t, AllAt(s, t), a.transactTime = t
    PROVE  AllAt(Append(s, a), t)
  <1>1. PICK n \in Nat : n = Len(s)
    BY LenProperties
  <1>2. PICK u \in Seq(Records) : u = Append(s, a)
    BY AppendProperties
  <1>3. Len(u) = n + 1 /\ u[n + 1] = a /\ \A k \in 1..n : u[k] = s[k]
    BY <1>1, <1>2, AppendProperties
  <1>4. ASSUME NEW k \in 1..(n + 1)
        PROVE  u[k].transactTime = t
    <2>1. CASE k = n + 1
      BY <1>3, <2>1
    <2>2. CASE k # n + 1
      <3>1. k \in 1..n
        BY <2>2, SMT
      <3>. QED BY <1>1, <1>3, <3>1 DEF AllAt
    <2>. QED BY <2>1, <2>2
  <1>. QED BY <1>2, <1>3, <1>4 DEF AllAt

\* A cut of s is a cut of what begins with s.
LEMMA CutLater ==
    ASSUME NEW n \in Nat, NEW F \in [0..n -> Seq(Records)], NEW m,
           NEW i \in 0..n, NEW k \in i..n, NEW s \in Seq(Records), NEW u \in Seq(Records),
           Begins(s, u), NEW c \in 0..Len(s), CutAt(F, s, m, i, c)
    PROVE  CutAt(F, u, m, k, c)
  <1>1. PICK j \in 0..i : c <= Len(F[j]) /\ Begins(F[j], s) /\ ToDispatch(SubSeq(s, 1, c)) = SubSeq(m, 1, j)
    BY DEF CutAt
  <1>2. j \in 0..k /\ j \in 0..n
    BY SMT
  <1>3. Begins(F[j], u)
    BY <1>1, <1>2, BeginsIs
  <1>4. SubSeq(s, 1, c) = SubSeq(u, 1, c)
    <2>1. Len(s) \in Nat /\ Len(u) \in Nat
      BY LenProperties
    <2>2. \A x \in 1..c : x \in 1..Len(s)
      BY <2>1, SMT
    <2>3. \A x \in 1..c : u[x] = s[x]
      BY <2>2 DEF Begins
    <2>. QED BY <2>3, SMT
  <1>. QED BY <1>1, <1>2, <1>3, <1>4 DEF CutAt

LEMMA CutsStep ==
    ASSUME NEW m \in Seq(Messages), NEW n \in Nat, n = Len(m), NEW F \in [0..n -> Seq(Records)], NEW t,
           NEW i \in 1..n, Adds(F[i - 1], F[i], m[i], t), Cuts(F, m, i - 1, t)
    PROVE  Cuts(F, m, i, t)
  <1>1. i - 1 \in 0..n /\ i \in 0..n /\ i - 1 \in 0..i /\ i \in (i - 1)..n
    BY SMT
  <1>2. PICK s \in Seq(Records) : s = F[i - 1]
    BY <1>1
  <1>3. PICK u \in Seq(Records) : u = F[i]
    BY <1>1
  <1>4. PICK a \in Records : /\ Describes(a, m[i], t)
                             /\ \/ u = Append(s, a)
                                \/ \E b \in Records : Reports(b, t) /\ u = Append(Append(s, a), b)
    BY <1>2, <1>3 DEF Adds
  <1>5. PICK v \in Seq(Records) : v = Append(s, a)
    BY AppendProperties
  <1>6. PICK x \in Nat : x = Len(s)
    BY LenProperties
  <1>7. Len(v) = x + 1 /\ Begins(s, v) /\ SubSeq(v, 1, x + 1) = v
    <2>1. Len(v) = x + 1
      BY <1>5, <1>6, AppendProperties
    <2>. QED BY <1>5, <2>1, BeginsIs, SubSeqFull
  <1>8. AllAt(v, t)
    BY <1>2, <1>4, <1>5, AllAtAppend DEF Cuts, Describes
  <1>9. ToDispatch(v) = SubSeq(m, 1, i)
    <2>1. ToDispatch(v) = Append(SubSeq(m, 1, i - 1), m[i])
      BY <1>2, <1>4, <1>5, ToDispatchIs DEF Cuts, Describes
    <2>2. Append(SubSeq(m, 1, i - 1), m[i]) = SubSeq(m, 1, i)
      BY SMT
    <2>. QED BY <2>1, <2>2
  <1>10. ASSUME Begins(v, u), NEW c \in 0..(x + 1), x + 1 <= Len(u)
         PROVE  CutAt(F, u, m, i, c)
    <2>0. Begins(s, u)
      BY <1>7, <1>10, BeginsIs
    <2>1. CASE c <= x
      <3>1. c \in 0..Len(s)
        BY <1>6, <2>1, SMT
      <3>2. CutAt(F, s, m, i - 1, c)
        BY <1>2, <3>1 DEF Cuts
      <3>. QED BY <1>1, <2>0, <3>1, <3>2, CutLater
    <2>2. CASE c = x + 1
      <3>1. SubSeq(u, 1, x + 1) = v
        <4>1. \A k \in 1..(x + 1) : u[k] = v[k]
          BY <1>7, <1>10 DEF Begins
        <4>2. SubSeq(u, 1, x + 1) = SubSeq(v, 1, x + 1)
          BY <4>1, SMT
        <4>. QED BY <1>7, <4>2
      <3>2. i \in 0..i
        BY SMT
      <3>3. Begins(u, u)
        BY BeginsIs
      <3>. QED BY <1>3, <1>9, <1>10, <2>2, <3>1, <3>2, <3>3 DEF CutAt
    <2>3. c <= x \/ c = x + 1
      BY SMT
    <2>. QED BY <2>1, <2>2, <2>3
  <1>11. i - 1 <= x
    BY <1>2, <1>6 DEF Cuts
  <1>12. CASE u = Append(s, a)
    <2>1. u = v /\ Len(u) = x + 1 /\ Begins(v, u)
      BY <1>5, <1>7, <1>12, BeginsIs
    <2>2. i <= Len(u) /\ x + 1 <= Len(u)
      BY <1>11, <2>1, SMT
    <2>3. \A c \in 0..Len(u) : CutAt(F, u, m, i, c)
      BY <1>10, <2>1, <2>2
    <2>. QED BY <1>3, <1>8, <1>9, <2>1, <2>2, <2>3 DEF Cuts
  <1>13. CASE \E b \in Records : Reports(b, t) /\ u = Append(Append(s, a), b)
    <2>1. PICK b \in Records : Reports(b, t) /\ u = Append(v, b)
      BY <1>5, <1>13
    <2>2. Len(u) = x + 2 /\ Begins(v, u)
      <3>1. Len(u) = (x + 1) + 1
        BY <1>7, <2>1, AppendProperties
      <3>. QED BY <2>1, <3>1, BeginsIs
    <2>3. AllAt(u, t)
      BY <1>8, <2>1, AllAtAppend DEF Reports
    <2>4. ToDispatch(u) = SubSeq(m, 1, i)
      BY <1>9, <2>1, ToDispatchIs DEF Reports
    <2>5. CutAt(F, u, m, i, x + 2)
      <3>1. SubSeq(u, 1, x + 2) = u
        BY <2>2, SubSeqFull
      <3>2. i \in 0..i /\ x + 2 <= x + 2
        BY SMT
      <3>3. Begins(u, u)
        BY BeginsIs
      <3>. QED BY <1>3, <2>2, <2>4, <3>1, <3>2, <3>3 DEF CutAt
    <2>6. i <= Len(u) /\ x + 1 <= Len(u)
      BY <1>11, <2>2, SMT
    <2>7. ASSUME NEW c \in 0..Len(u)
          PROVE  CutAt(F, u, m, i, c)
      <3>1. c = x + 2 \/ c \in 0..(x + 1)
        BY <2>2, SMT
      <3>. QED BY <1>10, <2>2, <2>5, <2>6, <3>1
    <2>. QED BY <1>3, <2>3, <2>4, <2>6, <2>7 DEF Cuts
  <1>. QED BY <1>4, <1>12, <1>13

LEMMA CutsAll ==
    ASSUME NEW m \in Seq(Messages), NEW n \in Nat, n = Len(m), NEW F \in [0..n -> Seq(Records)], NEW t,
           F[0] = << >>, \A i \in 1..n : Adds(F[i - 1], F[i], m[i], t)
    PROVE  \A i \in 0..n : Cuts(F, m, i, t)
  <1> DEFINE P == {i \in 0..n : Cuts(F, m, i, t)}
  <1>1. 0 \in 0..n /\ (\A i \in 1..n : i \in 0..n)
    BY SMT
  <1>2. Cuts(F, m, 0, t)
    <2>1. Len(F[0]) = 0 /\ AllAt(F[0], t)
      BY EmptySeq, SMT DEF AllAt
    <2>2. ToDispatch(F[0]) = << >> /\ SubSeq(m, 1, 0) = << >> /\ SubSeq(F[0], 1, 0) = F[0]
      BY ToDispatchIs, SubSeqEmpty
    <2>3. 0 \in 0..0 /\ (\A c \in 0..0 : c = 0) /\ 0 <= 0
      BY SMT
    <2>4. Begins(F[0], F[0])
      BY <1>1, BeginsIs
    <2>5. CutAt(F, F[0], m, 0, 0)
      BY <2>1, <2>2, <2>3, <2>4 DEF CutAt
    <2>. QED BY <2>1, <2>2, <2>3, <2>5 DEF Cuts
  <1>3. ASSUME NEW i \in 1..n, i - 1 \in P
        PROVE  i \in P
    BY <1>1, <1>3, CutsStep
  <1>4. \A i \in 0..n : i \in P
    <2>1. 0 \in P
      BY <1>1, <1>2
    <2> HIDE DEF P
    <2>. QED BY <1>3, <2>1, UpTo
  <1>. QED BY <1>4

\* The records of the iteration of m at time t, of which F[j] are there when the first j
\* messages have been dispatched.
Written(F, e, t, m, n) ==
    /\ F[0] = << >> /\ (\A i \in 1..n : Adds(F[i - 1], F[i], m[i], t))
    /\ Iteration(e, t, m).e.tick = t
    /\ \/ Iteration(e, t, m).records = F[n]
       \/ \E g \in Records : Reports(g, t) /\ Iteration(e, t, m).records = Append(F[n], g)
    /\ \A j \in 0..n : Begins(F[j], Iteration(e, t, SubSeq(m, 1, j)).records)

LEMMA IterationWrites ==
    ASSUME NEW e \in Engines, NEW t \in Nat, e.tick <= t, NEW m \in Seq(Messages), NEW n \in Nat, n = Len(m)
    PROVE  \E F \in [0..n -> Seq(Records)] : Written(F, e, t, m, n)
  <1>1. PICK r \in Runs : r = Begun(e, t) /\ r.records = << >> /\ r.e.tick = t
    BY BegunIs
  <1>2. PICK f \in [0..n -> Runs] :
              /\ f[0] = r /\ (\A i \in 1..n : f[i] = Dispatch(f[i - 1], m[i]))
              /\ DispatchAll(r, m) = f[n]
    BY DispatchAllUnfolds
  <1>3. 0 \in 0..n /\ n \in 0..n /\ (\A i \in 1..n : i \in 0..n /\ i - 1 \in 0..n)
    BY SMT
  <1>4. \A i \in 1..n : m[i] \in Messages
    BY ElementOfSeq
  <1> DEFINE F == [i \in 0..n |-> f[i].records]
             P == {i \in 0..n : f[i].e.tick = t}
  <1>5. F \in [0..n -> Seq(Records)] /\ \A i \in 0..n : F[i] = f[i].records
    BY DEF Runs
  <1>6. ASSUME NEW i \in 1..n
        PROVE  f[i].e.tick = f[i - 1].e.tick /\ Adds(F[i - 1], F[i], m[i], f[i - 1].e.tick)
    <2>1. PICK p \in Runs : p = f[i - 1]
      BY <1>3
    <2>2. f[i] = Dispatch(p, m[i]) /\ m[i] \in Messages
      BY <1>2, <1>4, <2>1
    <2>3. F[i - 1] = p.records /\ F[i] = Dispatch(p, m[i]).records
      BY <1>3, <2>1, <2>2
    <2> HIDE DEF F
    <2>. QED BY <2>1, <2>2, <2>3, DispatchWrites
  <1>7. \A i \in 0..n : i \in P
    <2>1. 0 \in P
      BY <1>1, <1>2, <1>3
    <2>2. ASSUME NEW i \in 1..n, i - 1 \in P
          PROVE  i \in P
      BY <1>3, <1>6, <2>2
    <2> HIDE DEF P
    <2>. QED BY <2>1, <2>2, UpTo
  <1>8. \A i \in 1..n : Adds(F[i - 1], F[i], m[i], t)
    <2> HIDE DEF F
    <2>. QED BY <1>3, <1>6, <1>7
  <1>9. F[0] = << >>
    BY <1>1, <1>2, <1>3
  <1> HIDE DEF F, P
  <1>10. ASSUME NEW w \in Seq(Messages), NEW p \in Runs, p = DispatchAll(r, w)
         PROVE  \/ Iteration(e, t, w).records = p.records /\ Iteration(e, t, w).e.tick = p.e.tick
                \/ \E g \in Records :
                      /\ Reports(g, p.e.tick) /\ Iteration(e, t, w).records = Append(p.records, g)
                      /\ Iteration(e, t, w).e.tick = p.e.tick
    <2>1. PICK u \in Runs : u = UpdateSnakes(p) /\ u.records = p.records /\ u.e.tick = p.e.tick
      BY UpdateSnakesIs
    <2>2. Iteration(e, t, w) = BroadcastGameState(u)
      BY <1>1, <1>10, <2>1, IterationTyped
    <2>3. CASE u.stateChanged
      <3>1. PICK g : g = [type |-> "GAME_STATE", sequence |-> u.e.sequence,
                          transactTime |-> u.e.tick, content |-> GameState(u.e)]
        OBVIOUS
      <3>2. u.e \in Engines
        BY DEF Runs
      <3>3. GameState(u.e) \in Contents
        BY <3>2, GameStateTyped
      <3>4. u.e.sequence \in Nat /\ u.e.tick \in Nat
        BY <3>2 DEF Engines
      <3>5. g \in Records /\ Reports(g, u.e.tick)
        BY <3>1, <3>3, <3>4 DEF Records, Types, Reports, IsFromClient
      <3>6. BroadcastGameState(u).e = Stamped(u.e) /\ BroadcastGameState(u).records = Append(u.records, g)
        BY <2>3, <3>1, BroadcastIs
      <3>7. Stamped(u.e).tick = u.e.tick
        BY <3>2 DEF Engines, Stamped
      <3>. QED BY <2>1, <2>2, <3>5, <3>6, <3>7
    <2>4. CASE ~u.stateChanged
      <3>1. BroadcastGameState(u) = u
        BY <2>4, BroadcastIs
      <3>. QED BY <2>1, <2>2, <3>1
    <2>. QED BY <2>3, <2>4
  <1>11. f[n] \in Runs /\ f[n].e.tick = t /\ F[n] = f[n].records
    BY <1>3, <1>5, <1>7 DEF P
  <1>12. /\ Iteration(e, t, m).e.tick = t
         /\ \/ Iteration(e, t, m).records = F[n]
            \/ \E g \in Records : Reports(g, t) /\ Iteration(e, t, m).records = Append(F[n], g)
    BY <1>2, <1>10, <1>11
  <1>13. ASSUME NEW j \in 0..n
         PROVE  Begins(F[j], Iteration(e, t, SubSeq(m, 1, j)).records)
    <2>1. PICK w \in Seq(Messages) : w = SubSeq(m, 1, j) /\ Len(w) = j /\ \A i \in 1..j : w[i] = m[i]
      <3>1. \A i \in 1..j : m[i] \in Messages
        BY <1>4, SMT
      <3>2. SubSeq(m, 1, j) \in Seq(Messages) /\ Len(SubSeq(m, 1, j)) = j
        BY <3>1, SubSeqProperties, SMT
      <3>3. \A i \in 1..j : SubSeq(m, 1, j)[i] = m[i]
        BY SMT
      <3>. QED BY <3>2, <3>3
    <2>2. PICK d \in [0..j -> Runs] :
              /\ d[0] = r /\ (\A i \in 1..j : d[i] = Dispatch(d[i - 1], w[i]))
              /\ DispatchAll(r, w) = d[j]
      <3>1. \E d \in [0..Len(w) -> Runs] :
              /\ d[0] = r /\ (\A i \in 1..Len(w) : d[i] = Dispatch(d[i - 1], w[i]))
              /\ DispatchAll(r, w) = d[Len(w)]
        BY DispatchAllUnfolds
      <3>2. Len(w) = j
        BY <2>1
      <3>. QED BY <3>1, <3>2
    <2> DEFINE Q == {i \in 0..j : d[i] = f[i]}
    <2>3. 0 \in 0..j /\ j \in 0..j /\ (\A i \in 1..j : i \in 0..j /\ i \in 1..n) /\ j \in Nat
      BY SMT
    <2>4. 0 \in Q
      BY <1>2, <2>2, <2>3
    <2>5. ASSUME NEW i \in 1..j, i - 1 \in Q
          PROVE  i \in Q
      BY <1>2, <2>1, <2>2, <2>3, <2>5
    <2>6. j \in Q
      <3> HIDE DEF Q
      <3>. QED BY <2>3, <2>4, <2>5, UpTo
    <2>7. PICK p \in Runs : p = DispatchAll(r, w) /\ p.records = F[j]
      BY <1>5, <2>2, <2>3, <2>6
    <2>8. F[j] \in Seq(Records)
      BY <1>5
    <2>9. \/ Iteration(e, t, w).records = F[j]
          \/ \E g \in Records : Iteration(e, t, w).records = Append(F[j], g)
      <3>1. \/ Iteration(e, t, w).records = p.records
            \/ \E g \in Records : Iteration(e, t, w).records = Append(p.records, g)
        BY <1>10, <2>7
      <3>. QED BY <2>7, <3>1
    <2>. QED BY <2>1, <2>8, <2>9, BeginsIs
  <1>. QED BY <1>5, <1>8, <1>9, <1>12, <1>13 DEF Written

\* A batch that is cut off makes an iteration that writes it again.
LEMMA IterationCut ==
    ASSUME NEW e \in Engines, NEW t \in Nat, e.tick <= t, NEW m \in Seq(Messages),
           NEW u, u = Iteration(e, t, m).records, NEW c \in 0..Len(u)
    PROVE  /\ u \in Seq(Records) /\ AllAt(u, t)
           /\ ToDispatch(SubSeq(u, 1, c)) \in Seq(Messages)
           /\ Begins(SubSeq(u, 1, c), Iteration(e, t, ToDispatch(SubSeq(u, 1, c))).records)
           /\ c = Len(u) => ToDispatch(SubSeq(u, 1, c)) = m
           /\ Iteration(e, t, m).e.tick = t
           /\ u = << >> => m = << >>
  <1>1. PICK n \in Nat : n = Len(m)
    BY LenProperties
  <1>2. PICK F \in [0..n -> Seq(Records)] : Written(F, e, t, m, n)
    BY <1>1, IterationWrites
  <1>3. \A i \in 0..n : Cuts(F, m, i, t)
    BY <1>1, <1>2, CutsAll DEF Written
  <1>4. n \in 0..n
    BY SMT
  <1>5. PICK s \in Seq(Records) : s = F[n] /\ (u = s \/ \E g \in Records : Reports(g, t) /\ u = Append(s, g))
    <2>1. PICK s \in Seq(Records) : s = F[n]
      BY <1>4
    <2>. QED BY <1>2, <2>1 DEF Written
  <1>6. SubSeq(m, 1, n) = m
    BY <1>1, SubSeqFull
  <1>7. AllAt(s, t) /\ n <= Len(s) /\ ToDispatch(s) = m /\ \A k \in 0..Len(s) : CutAt(F, s, m, n, k)
    BY <1>3, <1>4, <1>5, <1>6 DEF Cuts
  <1>8. u \in Seq(Records) /\ AllAt(u, t) /\ ToDispatch(u) = m /\ Begins(s, u)
    <2>1. CASE u = s
      BY <1>7, <2>1, BeginsIs
    <2>2. CASE \E g \in Records : Reports(g, t) /\ u = Append(s, g)
      <3>1. PICK g \in Records : Reports(g, t) /\ u = Append(s, g)
        BY <2>2
      <3>2. u \in Seq(Records)
        BY <3>1, AppendProperties
      <3>3. AllAt(u, t)
        BY <1>7, <3>1, AllAtAppend DEF Reports
      <3>4. ToDispatch(u) = m
        BY <1>7, <3>1, ToDispatchIs DEF Reports
      <3>. QED BY <3>1, <3>2, <3>3, <3>4, BeginsIs
    <2>. QED BY <1>5, <2>1, <2>2
  <1>9. Len(u) \in Nat /\ Len(s) \in Nat /\ SubSeq(u, 1, Len(u)) = u
    BY <1>8, LenProperties, SubSeqFull
  <1>10. ASSUME c = Len(u)
         PROVE  /\ ToDispatch(SubSeq(u, 1, c)) = m
                /\ ToDispatch(SubSeq(u, 1, c)) \in Seq(Messages)
                /\ Begins(SubSeq(u, 1, c), Iteration(e, t, ToDispatch(SubSeq(u, 1, c))).records)
    <2>1. ToDispatch(SubSeq(u, 1, c)) = m /\ SubSeq(u, 1, c) = u
      BY <1>8, <1>9, <1>10
    <2>2. Begins(u, Iteration(e, t, m).records)
      BY <1>8, BeginsIs
    <2>3. ToDispatch(SubSeq(u, 1, c)) \in Seq(Messages)
      BY <2>1
    <2>4. Begins(SubSeq(u, 1, c), Iteration(e, t, ToDispatch(SubSeq(u, 1, c))).records)
      BY <2>1, <2>2
    <2>. QED BY <2>1, <2>3, <2>4
  <1>11. ASSUME c # Len(u)
         PROVE  /\ ToDispatch(SubSeq(u, 1, c)) \in Seq(Messages)
                /\ Begins(SubSeq(u, 1, c), Iteration(e, t, ToDispatch(SubSeq(u, 1, c))).records)
    <2>1. c \in 0..Len(s)
      <3>1. CASE u = s
        BY <3>1
      <3>2. CASE \E g \in Records : Reports(g, t) /\ u = Append(s, g)
        <4>1. Len(u) = Len(s) + 1
          BY <3>2, AppendProperties
        <4>. QED BY <1>9, <1>11, <4>1, SMT
      <3>. QED BY <1>5, <3>1, <3>2
    <2>2. CutAt(F, u, m, n, c)
      <3>1. n \in 0..n /\ n \in n..n
        BY SMT
      <3>2. CutAt(F, s, m, n, c) /\ Begins(s, u) /\ u \in Seq(Records)
        BY <1>7, <1>8, <2>1
      <3>3. \A x \in Seq(Records) : Begins(s, x) => CutAt(F, x, m, n, c)
        BY <2>1, <3>1, <3>2, CutLater
      <3>. QED BY <3>2, <3>3
    <2>3. PICK j \in 0..n : c <= Len(F[j]) /\ Begins(F[j], u) /\ ToDispatch(SubSeq(u, 1, c)) = SubSeq(m, 1, j)
      BY <2>2 DEF CutAt
    <2>4. PICK v \in Seq(Records) : v = F[j]
      OBVIOUS
    <2>5. PICK x \in Nat : x = Len(v)
      BY LenProperties
    <2>6. SubSeq(u, 1, c) = SubSeq(v, 1, c) /\ c \in 0..x
      <3>1. c \in 0..x
        BY <2>3, <2>4, <2>5, SMT
      <3>2. \A k \in 1..c : k \in 1..x
        BY <3>1, SMT
      <3>3. \A k \in 1..c : u[k] = v[k]
        BY <2>3, <2>4, <2>5, <3>2 DEF Begins
      <3>. QED BY <3>1, <3>3, SMT
    <2>7. SubSeq(m, 1, j) \in Seq(Messages)
      <3>1. \A i \in 1..j : m[i] \in Messages
        BY <1>1, ElementOfSeq, SMT
      <3>. QED BY <3>1, SubSeqProperties, SMT
    <2>8. PICK w \in Seq(Messages) : w = SubSeq(m, 1, j)
      BY <2>7
    <2>9. Begins(v, Iteration(e, t, w).records)
      BY <1>2, <2>4, <2>8 DEF Written
    <2>10. Iteration(e, t, w).records \in Seq(Records)
      BY IterationTyped DEF Runs
    <2>11. Begins(SubSeq(v, 1, c), Iteration(e, t, w).records)
      BY <2>5, <2>6, <2>9, <2>10, BeginsIs
    <2>12. ToDispatch(SubSeq(u, 1, c)) = w
      BY <2>3, <2>8
    <2>. QED BY <2>6, <2>11, <2>12
  <1>12. u = << >> => m = << >>
    <2>1. ASSUME u = << >>
          PROVE  m = << >>
      BY <1>8, <2>1, ToDispatchIs
    <2>. QED BY <2>1
  <1>13. Iteration(e, t, m).e.tick = t
    BY <1>2 DEF Written
  <1>. QED BY <1>8, <1>10, <1>11, <1>12, <1>13

-----------------------------------------------------------------------------
(* Iterations of the live server, seen from the last one that has written  *)
(* anything.                                                               *)

LEMMA LoudIteration ==
    ASSUME NEW e \in Engines, NEW l \in Engines, Lags(e, l), NEW t \in Nat, l.tick <= t,
           NEW m \in Seq(Messages)
    PROVE  /\ Iteration(e, t, m) \in Runs /\ Iteration(l, t, m) \in Runs
           /\ Iteration(e, t, m).records = Iteration(l, t, m).records
           /\ Lags(Iteration(e, t, m).e, Iteration(l, t, m).e)
  <1>1. e.tick <= t /\ RunsAlike(Begun(e, t), Begun(l, t))
    BY LagsCatchUp
  <1>2. RunsAgree(Iteration(e, t, m), Iteration(l, t, m))
    BY <1>1, IterationAgree
  <1>3. PICK p \in Runs : p = Iteration(e, t, m)
    BY <1>1, IterationTyped
  <1>4. PICK q \in Runs : q = Iteration(l, t, m)
    BY IterationTyped
  <1>5. p.e \in Engines /\ q.e \in Engines /\ EnginesAgree(p.e, q.e) /\ p.records = q.records
    BY <1>2, <1>3, <1>4 DEF Runs, RunsAgree
  <1>. QED BY <1>3, <1>4, <1>5, AgreeLags

LEMMA SilentIteration ==
    ASSUME NEW e \in Engines, NEW l \in Engines, Lags(e, l), NEW t \in Nat, l.tick <= t,
           NEW m \in Seq(Messages), Iteration(l, t, m).records = << >>
    PROVE  Iteration(l, t, m).e \in Engines /\ Lags(e, Iteration(l, t, m).e)
  <1>1. m = << >>
    <2>1. Len(Iteration(l, t, m).records) = 0
      BY EmptySeq
    <2>2. 0 \in 0..Len(Iteration(l, t, m).records)
      BY <2>1, SMT
    <2>. QED BY <2>2, IterationCut
  <1>2. e.tick <= t /\ RunsAlike(Begun(e, t), Begun(l, t))
    BY LagsCatchUp
  <1>3. PICK p \in Runs : p = Begun(l, t)
    BY BegunIs
  <1>4. PICK q \in Runs : q = Begun(e, t)
    BY <1>2, BegunIs
  <1>5. p.e \in Engines /\ q.e \in Engines /\ EnginesAlike(q.e, p.e)
    BY <1>2, <1>3, <1>4 DEF Runs, RunsAlike
  <1>6. DispatchAll(p, m) = p
    <2>1. m \in Seq(Messages) /\ Len(m) = 0
      BY <1>1, EmptySeq
    <2>2. PICK f \in [0..Len(m) -> Runs] :
              /\ f[0] = p /\ (\A i \in 1..Len(m) : f[i] = Dispatch(f[i - 1], m[i]))
              /\ DispatchAll(p, m) = f[Len(m)]
      BY DispatchAllUnfolds
    <2>. QED BY <2>1, <2>2
  <1>7. PICK u \in Runs : u = UpdateSnakes(p)
    BY UpdateSnakesIs
  <1>8. Iteration(l, t, m) = BroadcastGameState(u)
    BY <1>3, <1>6, <1>7, IterationTyped
  <1>9. ~u.stateChanged
    <2>1. SUFFICES ASSUME u.stateChanged
                   PROVE  FALSE
      OBVIOUS
    <2>2. PICK g : g = [type |-> "GAME_STATE", sequence |-> u.e.sequence,
                        transactTime |-> u.e.tick, content |-> GameState(u.e)]
      OBVIOUS
    <2>3. u.e \in Engines /\ u.records \in Seq(Records)
      BY DEF Runs
    <2>4. GameState(u.e) \in Contents
      BY <2>3, GameStateTyped
    <2>5. u.e.sequence \in Nat /\ u.e.tick \in Nat
      BY <2>3 DEF Engines
    <2>6. g \in Records
      BY <2>2, <2>4, <2>5 DEF Records, Types
    <2>7. BroadcastGameState(u).records = Append(u.records, g)
      BY <2>1, <2>2, BroadcastIs
    <2>8. Append(u.records, g) # << >>
      BY <2>3, <2>6, AppendProperties
    <2>. QED BY <1>8, <2>7, <2>8
  <1>10. Iteration(l, t, m) = u
    BY <1>8, <1>9, BroadcastIs
  <1>11. ~Moves(p.e)
    BY <1>7, <1>9, UpdateSnakesIs
  <1>12. PICK x \in Engines : x = u.e
    BY DEF Runs
  <1>13. (p.e.playing => x = Updated(p.e)) /\ (~p.e.playing => x = p.e)
    <2>1. ASSUME p.e.playing
          PROVE  x = Updated(p.e)
      BY <1>7, <1>11, <1>12, <2>1, UpdateSnakesIs
    <2>2. ASSUME ~p.e.playing
          PROVE  x = p.e
      BY <1>7, <1>12, <2>2, UpdateSnakesIs
    <2>. QED BY <2>1, <2>2
  <1>14. /\ x.tick = p.e.tick /\ x.sequence = p.e.sequence /\ x.boosts = p.e.boosts
         /\ x.seed = p.e.seed /\ x.gen = p.e.gen /\ x.food = p.e.food
         /\ (x.playing <=> p.e.playing)
         /\ (p.e.playing => x.snake = Rules!UpdateSnake(p.e.snake))
    <2>1. PICK y \in Engines : y = Updated(p.e)
      BY <1>5, UpdatedTyped
    <2>2. /\ y.tick = p.e.tick /\ y.sequence = p.e.sequence /\ y.boosts = p.e.boosts
          /\ y.seed = p.e.seed /\ y.gen = p.e.gen /\ y.food = p.e.food
          /\ y.playing = p.e.playing /\ y.snake = Rules!UpdateSnake(p.e.snake)
      BY <1>5, <2>1 DEF Updated, Engines
    <2>3. CASE p.e.playing
      <3>1. x = y
        BY <1>13, <2>1, <2>3
      <3>. QED BY <2>2, <2>3, <3>1
    <2>4. CASE ~p.e.playing
      <3>1. x = p.e
        BY <1>13, <2>4
      <3>. QED BY <2>4, <3>1
    <2>. QED BY <2>3, <2>4
  <1>15. /\ q.e.tick = t /\ q.e.sequence = e.sequence /\ q.e.playing = e.playing
         /\ q.e.boosts = e.boosts /\ q.e.snake = Rules!Elapse(e.snake, t - e.tick)
         /\ SameDraws(q.e, ReplaceFood(e))
    BY <1>2, <1>4, BegunIs
  <1>16. x.tick = t /\ e.sequence = x.sequence /\ e.boosts = x.boosts /\ e.playing = x.playing
    <2>1. x.playing \in BOOLEAN /\ p.e.playing \in BOOLEAN
      BY <1>5 DEF Engines
    <2>. QED BY <1>5, <1>14, <1>15, <2>1 DEF EnginesAlike
  <1>17. SameDraws(ReplaceFood(e), ReplaceFood(x))
    <2>1. PICK f \in Engines : f = ReplaceFood(e)
      BY ReplaceFoodTyped
    <2>2. SameDraws(x, f)
      BY <1>5, <1>14, <1>15, <2>1 DEF EnginesAlike, SameDraws
    <2>3. SameDraws(ReplaceFood(x), ReplaceFood(f))
      BY <2>2, ReplaceFoodSame
    <2>4. SameDraws(ReplaceFood(f), f)
      BY <2>1, ReplaceFoodTwice
    <2>. QED BY <2>1, <2>3, <2>4 DEF SameDraws
  <1>18. ASSUME e.playing
         PROVE  Alike(Rules!Elapse(e.snake, t - e.tick), x.snake)
    <2>1. p.e.playing /\ q.e.playing
      BY <1>5, <1>15, <1>18 DEF EnginesAlike
    <2>2. PICK s \in Snakes : s = q.e.snake
      BY <1>5 DEF Engines
    <2>3. PICK z \in Snakes : z = p.e.snake
      BY <1>5 DEF Engines
    <2>4. Alike(s, z)
      BY <1>5, <2>1, <2>2, <2>3 DEF EnginesAlike
    <2>5. ~(z.nextMoveIn <= 0)
      BY <1>11, <2>1, <2>3 DEF Moves
    <2>6. Alike(s, Rules!UpdateSnake(z))
      BY <2>4, <2>5, UpdateAlike
    <2>. QED BY <1>14, <1>15, <2>1, <2>2, <2>3, <2>6
  <1>. QED BY <1>2, <1>10, <1>12, <1>16, <1>17, <1>18 DEF Lags

-----------------------------------------------------------------------------
(* The history of a log.  It is divided by the ends of the iterations that *)
(* have written something; E[b] is the engine after the one that ends at   *)
(* b, and M[b] the messages of the next.                                   *)

After(records, E, M, b) == Iteration(E[b], records[b + 1].transactTime, M[b])

Follows(records, ends, E, M, b) ==
    LET u == After(records, E, M, b).records
    IN /\ E[b].tick < records[b + 1].transactTime
       /\ u # << >>
       /\ b + Len(u) \in ends
       /\ E[b + Len(u)] = After(records, E, M, b).e
       /\ \A k \in 1..Len(u) : records[b + k] = u[k]

Account(records, ends, E, M) ==
    /\ records \in Seq(Records)
    /\ ends \subseteq 1..Len(records) /\ 1 \in ends /\ Len(records) \in ends
    /\ E \in [ends -> Engines] /\ M \in [ends -> Seq(Messages)]
    /\ \E seed \in Seeds : /\ records[1].content = [seed |-> seed]
                           /\ E[1] = RecordServerConfig(NewEngine(seed, 1)).e
    /\ \A b \in ends : b < Len(records) => Follows(records, ends, E, M, b)

\* The records have a history, and e is the engine after them.
Grown(records, e) ==
    \E ends, E, M : Account(records, ends, E, M) /\ E[Len(records)] = e

LEMMA AccountGrows ==
    ASSUME NEW records, NEW ends, NEW E, NEW M, Account(records, ends, E, M),
           NEW n \in Nat, n = Len(records), NEW t \in Nat, E[n].tick < t, NEW m \in Seq(Messages),
           NEW r \in Runs, r = Iteration(E[n], t, m), NEW u \in Seq(Records), u = r.records, u # << >>
    PROVE  Grown(records \o u, r.e)
  <1>1. /\ records \in Seq(Records) /\ ends \subseteq 1..n /\ 1 \in ends /\ n \in ends
        /\ E \in [ends -> Engines] /\ M \in [ends -> Seq(Messages)]
        /\ \A b \in ends : b < n => Follows(records, ends, E, M, b)
    BY DEF Account
  <1>2. PICK seed \in Seeds : records[1].content = [seed |-> seed]
                              /\ E[1] = RecordServerConfig(NewEngine(seed, 1)).e
    BY DEF Account
  <1>3. PICK k \in Nat : k = Len(u) /\ k > 0
    <2>1. Len(u) \in Nat \ {0}
      BY EmptySeq
    <2>. QED BY <2>1
  <1>4. PICK z \in Nat : z = n + k /\ n < z /\ 1 <= n
    <2>1. 1 <= n
      BY <1>1, SMT
    <2>. QED BY <1>3, <2>1, SMT
  <1>5. PICK w \in Seq(Records) : w = records \o u
    BY <1>1, ConcatProperties
  <1>6. /\ Len(w) = z /\ (\A i \in 1..n : w[i] = records[i]) /\ \A i \in 1..k : w[n + i] = u[i]
    <2>1. Len(w) = z /\ \A i \in 1..z : w[i] = IF i <= n THEN records[i] ELSE u[i - n]
      BY <1>1, <1>3, <1>4, <1>5, ConcatProperties
    <2>2. \A i \in 1..n : w[i] = records[i]
      BY <1>4, <2>1
    <2>3. \A i \in 1..k : w[n + i] = u[i]
      <3>1. ASSUME NEW i \in 1..k
            PROVE  n + i \in 1..z /\ ~(n + i <= n) /\ (n + i) - n = i
        BY <1>4, SMT
      <3>. QED BY <2>1, <3>1
    <2>. QED BY <2>1, <2>2, <2>3
  <1> DEFINE more == ends \cup {z}
             F == [b \in more |-> IF b = z THEN r.e ELSE E[b]]
             L == [b \in more |-> IF b = n THEN m ELSE IF b = z THEN m ELSE M[b]]
  <1>7. z \notin ends /\ z # n /\ more \subseteq 1..z
    <2>1. z # n /\ z \notin 1..n /\ z \in 1..z /\ \A b \in 1..n : b \in 1..z
      BY <1>4, SMT
    <2>. QED BY <1>1, <2>1
  <1>8. r.e \in Engines
    BY DEF Runs
  <1>9. F \in [more -> Engines] /\ F[z] = r.e /\ \A b \in ends : F[b] = E[b]
    BY <1>1, <1>7, <1>8
  <1>10. L \in [more -> Seq(Messages)] /\ L[n] = m /\ \A b \in ends : b # n => L[b] = M[b]
    BY <1>1, <1>7
  <1>11. ends \subseteq more /\ 1 \in more /\ z \in more
    BY <1>1
  <1>12. \A b \in more : b \in ends \/ b = z
    OBVIOUS
  <1> HIDE DEF more, F, L
  <1>13. ASSUME NEW b \in ends, b < n
         PROVE  Follows(w, more, F, L, b)
    <2>1. b \in 1..n /\ b + 1 \in 1..n /\ b # n
      BY <1>1, <1>4, <1>13, SMT
    <2>2. w[b + 1] = records[b + 1] /\ F[b] = E[b] /\ L[b] = M[b]
      BY <1>6, <1>9, <1>10, <2>1
    <2>3. PICK x : x = After(records, E, M, b)
      OBVIOUS
    <2>4. After(w, F, L, b) = x
      BY <2>2, <2>3 DEF After
    <2>5. /\ E[b].tick < records[b + 1].transactTime
          /\ x.records # << >> /\ b + Len(x.records) \in ends
          /\ E[b + Len(x.records)] = x.e
          /\ \A i \in 1..Len(x.records) : records[b + i] = x.records[i]
      BY <1>1, <1>13, <2>3 DEF Follows
    <2>6. x.records \in Seq(Records)
      <3>1. E[b] \in Engines /\ M[b] \in Seq(Messages) /\ records[b + 1] \in Records
        BY <1>1, <2>1, ElementOfSeq
      <3>2. records[b + 1].transactTime \in Nat /\ E[b].tick \in Nat
        BY <3>1 DEF Records, Engines
      <3>3. E[b].tick <= records[b + 1].transactTime
        BY <2>5, <3>2
      <3>4. After(records, E, M, b) \in Runs
        BY <3>1, <3>2, <3>3, IterationTyped DEF After
      <3>. QED BY <2>3, <3>4 DEF Runs
    <2>7. PICK y \in Nat : y = Len(x.records)
      BY <2>6, LenProperties
    <2>8. \A i \in 1..y : b + i \in 1..n
      <3>1. b + y \in 1..n
        BY <1>1, <2>5, <2>7
      <3>. QED BY <2>1, <3>1, SMT
    <2>9. \A i \in 1..y : w[b + i] = x.records[i]
      BY <1>6, <2>5, <2>7, <2>8
    <2>10. b + y \in more /\ F[b + y] = x.e
      BY <1>9, <1>11, <2>5, <2>7
    <2>. QED BY <2>2, <2>4, <2>5, <2>7, <2>9, <2>10 DEF Follows
  <1>14. Follows(w, more, F, L, n)
    <2>1. w[n + 1] = u[1] /\ 1 \in 1..k
      <3>1. 1 \in 1..k
        BY <1>3, SMT
      <3>. QED BY <1>6, <3>1
    <2>2. u[1].transactTime = t
      <3>1. E[n] \in Engines /\ E[n].tick <= t
        BY <1>1 DEF Engines
      <3>2. 0 \in 0..Len(u)
        BY <1>3, SMT
      <3>3. AllAt(u, t)
        BY <3>1, <3>2, IterationCut
      <3>. QED BY <1>3, <2>1, <3>3 DEF AllAt
    <2>3. F[n] = E[n] /\ L[n] = m
      BY <1>1, <1>9, <1>10
    <2>4. After(w, F, L, n) = r
      BY <2>1, <2>2, <2>3 DEF After
    <2>5. n + Len(u) = z /\ Len(u) = k
      BY <1>3, <1>4
    <2>6. F[n].tick < w[n + 1].transactTime
      <3>1. E[n].tick < t
        OBVIOUS
      <3>. QED BY <2>1, <2>2, <2>3, <3>1, Zenon
    <2>7. n + Len(u) \in more /\ F[n + Len(u)] = r.e
      BY <1>9, <1>11, <2>5, Zenon
    <2>8. \A i \in 1..Len(u) : w[n + i] = u[i]
      BY <1>6, <2>5, Zenon
    <2>9. r.records = u /\ u # << >>
      OBVIOUS
    <2>. QED BY <2>4, <2>6, <2>7, <2>8, <2>9, ZenonT(30) DEF Follows
  <1>15. ASSUME NEW b \in more, b < z
         PROVE  Follows(w, more, F, L, b)
    <2>1. b \in ends
      BY <1>12, <1>15, <1>4
    <2>2. b < n \/ b = n
      BY <1>1, <2>1, SMT
    <2>. QED BY <1>13, <1>14, <2>1, <2>2
  <1>16. w[1] = records[1] /\ F[1] = E[1]
    <2>1. 1 \in 1..n
      BY <1>4
    <2>. QED BY <1>1, <1>6, <1>9, <2>1
  <1>17. Account(w, more, F, L)
    BY <1>2, <1>6, <1>7, <1>9, <1>10, <1>11, <1>15, <1>16 DEF Account
  <1>. QED BY <1>5, <1>6, <1>9, <1>17 DEF Grown

-----------------------------------------------------------------------------
(* What nextBatch() takes from a recording that has a history.             *)

IsBatch(ahead, c, t) ==
    /\ c \in 1..Len(ahead)
    /\ \A k \in 1..c : ahead[k].transactTime = t
    /\ c < Len(ahead) => ahead[c + 1].transactTime # t

LEMMA BatchLengthIs ==
    ASSUME NEW ahead \in Seq(Records), NEW c, NEW t, IsBatch(ahead, c, t)
    PROVE  BatchLength(ahead) = c
  <1>1. PICK n \in Nat : n = Len(ahead)
    BY LenProperties
  <1>2. /\ c \in 1..n /\ (\A k \in 1..c : ahead[k].transactTime = t)
        /\ (c < n => ahead[c + 1].transactTime # t)
    BY <1>1 DEF IsBatch
  <1> DEFINE other == {i \in 1..Len(ahead) : ahead[i].transactTime # ahead[1].transactTime}
  <1>3. ahead[1].transactTime = t
    <2>1. 1 \in 1..c
      BY <1>2, SMT
    <2>. QED BY <1>2, <2>1
  <1>4. other = {i \in 1..n : ahead[i].transactTime # t}
    BY <1>1, <1>3
  <1>5. BatchLength(ahead) = IF other = {} THEN n ELSE Min(other) - 1
    BY <1>1 DEF BatchLength
  <1> HIDE DEF other
  <1>6. \A i \in other : ~(i \in 1..c) /\ i \in 1..n /\ i >= c + 1
    <2>1. \A i \in other : ~(i \in 1..c) /\ i \in 1..n
      BY <1>4, <1>2
    <2>. QED BY <1>2, <2>1, SMT
  <1>7. CASE c = n
    <2>1. other = {}
      BY <1>6, <1>7, SMT
    <2>. QED BY <1>5, <1>7, <2>1
  <1>8. CASE c # n
    <2>1. c + 1 \in 1..n /\ c < n
      BY <1>2, <1>8, SMT
    <2>2. c + 1 \in other
      BY <1>4, <1>2, <2>1
    <2>3. \E x \in other : \A y \in other : x <= y
      BY <1>6, <2>2
    <2>4. Min(other) \in other /\ \A y \in other : Min(other) <= y
      <3>1. Min(other) = CHOOSE x \in other : \A y \in other : x <= y
        BY DEF Min
      <3>. QED BY <2>3, <3>1
    <2>5. Min(other) <= c + 1 /\ Min(other) >= c + 1 /\ Min(other) \in 1..n
      BY <1>6, <2>2, <2>4
    <2>6. Min(other) = c + 1
      BY <1>2, <2>5, SMT
    <2>7. Min(other) - 1 = c
      BY <1>2, <2>6, SMT
    <2>. QED BY <1>5, <2>2, <2>7
  <1>. QED BY <1>7, <1>8

LEMMA NoBatch == BatchLength(<< >>) = 0
  <1>1. Len(<< >>) = 0 /\ 1..0 = {}
    BY EmptySeq, SMT
  <1>. QED BY <1>1 DEF BatchLength

\* What is ahead in a recording of the first n records when b have been replayed.
Ahead(records, n, b) == SubSeq(SubSeq(records, 1, n), b + 1, n)

\* What nextBatch() makes of what is ahead: c records of time t, and r, the iteration on
\* them; unless they are the last, it is the one of the recording.
Turn(records, ends, E, n, b, ahead, c, t, batch, r) ==
    /\ ahead = Ahead(records, n, b) /\ ahead \in Seq(Records) /\ Len(ahead) = n - b
    /\ \A k \in 1..(n - b) : ahead[k] = records[b + k]
    /\ c \in 1..(n - b) /\ t \in Nat
    /\ BatchLength(ahead) = c /\ batch = SubSeq(ahead, 1, c)
    /\ \A k \in 1..c : ahead[k].transactTime = t
    /\ c < n - b => ahead[c + 1].transactTime > t
    /\ r = Iteration(E[b], t, ToDispatch(batch)) /\ r \in Runs
    /\ Begins(batch, r.records)
    /\ \/ b + c \in ends /\ E[b + c] = r.e /\ Len(r.records) = c
       \/ c = n - b

Turning(records, ends, E, n, b) ==
    \E ahead, c, t, batch, r : Turn(records, ends, E, n, b, ahead, c, t, batch, r)

\* The batch after position b of the first n records: what the iteration after b has
\* written, as far as it is there, and what an iteration on it does.
LEMMA BatchIs ==
    ASSUME NEW records, NEW ends, NEW E, NEW M, Account(records, ends, E, M),
           NEW n \in 1..Len(records), NEW b \in ends, b < n
    PROVE  Turning(records, ends, E, n, b)
  <1>0. PICK ahead : ahead = Ahead(records, n, b)
    OBVIOUS
  <1>1. PICK l \in Nat : l = Len(records)
    BY LenProperties DEF Account
  <1>2. /\ records \in Seq(Records) /\ ends \subseteq 1..l
        /\ E \in [ends -> Engines] /\ M \in [ends -> Seq(Messages)]
        /\ \A d \in ends : d < l => Follows(records, ends, E, M, d)
    BY <1>1 DEF Account
  <1>3. PICK z \in Nat : z = n - b /\ 1 <= z /\ b + z = n
    BY <1>1, <1>2, SMT
  <1>4. b \in 1..l /\ b < l /\ b + 1 \in 1..l /\ b + 1 <= n /\ n \in 1..l
    BY <1>1, <1>2, SMT
  <1>5. \A i \in 1..l : records[i] \in Records
    BY <1>1, <1>2, ElementOfSeq
  <1>6. /\ ahead \in Seq(Records) /\ Len(ahead) = z
        /\ \A k \in 1..z : ahead[k] = records[b + k]
    <2>1. PICK s \in Seq(Records) : s = SubSeq(records, 1, n) /\ Len(s) = n /\ \A i \in 1..n : s[i] = records[i]
      <3>1. \A i \in 1..n : records[i] \in Records
        BY <1>4, <1>5, SMT
      <3>2. SubSeq(records, 1, n) \in Seq(Records) /\ Len(SubSeq(records, 1, n)) = n
        BY <1>4, <3>1, SubSeqProperties, SMT
      <3>3. \A i \in 1..n : SubSeq(records, 1, n)[i] = records[i]
        BY <1>4, SMT
      <3>. QED BY <3>2, <3>3
    <2>2. \A i \in (b + 1)..n : s[i] \in Records /\ i \in 1..n
      BY <1>4, <1>5, <2>1, SMT
    <2>3. ahead = SubSeq(s, b + 1, n)
      BY <1>0, <2>1 DEF Ahead
    <2>4. ahead \in Seq(Records) /\ Len(ahead) = z
      BY <1>3, <1>4, <2>2, <2>3, SubSeqProperties, SMT
    <2>5. ASSUME NEW k \in 1..z
          PROVE  ahead[k] = records[b + k]
      <3>1. b + k \in 1..n /\ (b + 1) + k - 1 = b + k
        BY <1>3, <1>4, SMT
      <3>2. ahead[k] = s[(b + 1) + k - 1]
        BY <1>3, <1>4, <2>3, SMT
      <3>. QED BY <2>1, <3>1, <3>2
    <2>. QED BY <2>4, <2>5
  <1>7. PICK e \in Engines : e = E[b]
    BY <1>2
  <1>8. PICK m \in Seq(Messages) : m = M[b]
    BY <1>2
  <1>9. PICK t \in Nat : t = records[b + 1].transactTime
    BY <1>4, <1>5 DEF Records
  <1>10. Follows(records, ends, E, M, b)
    BY <1>2, <1>4
  <1>11. e.tick < t /\ e.tick <= t
    <2>1. e.tick < t /\ e.tick \in Nat
      BY <1>7, <1>9, <1>10 DEF Follows, Engines
    <2>. QED BY <2>1
  <1>12. PICK x \in Runs : x = Iteration(e, t, m)
    BY <1>11, IterationTyped
  <1>13. x = After(records, E, M, b)
    BY <1>7, <1>8, <1>9, <1>12 DEF After
  <1>14. PICK u \in Seq(Records) : u = x.records
    BY DEF Runs
  <1>15. PICK y \in Nat : y = Len(u)
    BY LenProperties
  <1>16. u # << >> /\ b + y \in ends /\ E[b + y] = x.e /\ (\A k \in 1..y : records[b + k] = u[k])
    BY <1>10, <1>13, <1>14, <1>15 DEF Follows
  <1>17. 1 <= y
    <2>1. Len(u) \in Nat \ {0}
      BY <1>16, EmptySeq
    <2>. QED BY <1>15, <2>1
  <1>18. PICK c \in Nat : c = IF y <= z THEN y ELSE z
    OBVIOUS
  <1>19. c \in 1..z /\ c \in 0..y /\ c <= y /\ (c < z => c = y)
    BY <1>3, <1>17, <1>18, SMT
  <1>20. \A k \in 1..c : ahead[k] = u[k]
    <2>1. \A k \in 1..c : k \in 1..z /\ k \in 1..y
      BY <1>19, SMT
    <2>. QED BY <1>6, <1>16, <2>1
  <1>21. SubSeq(ahead, 1, c) = SubSeq(u, 1, c)
    BY <1>20, SMT
  <1>22. /\ AllAt(u, t)
         /\ ToDispatch(SubSeq(u, 1, c)) \in Seq(Messages)
         /\ Begins(SubSeq(u, 1, c), Iteration(e, t, ToDispatch(SubSeq(u, 1, c))).records)
         /\ c = y => ToDispatch(SubSeq(u, 1, c)) = m
         /\ x.e.tick = t
    <2>1. u = Iteration(e, t, m).records /\ c \in 0..Len(u)
      BY <1>12, <1>14, <1>15, <1>19
    <2>2. /\ AllAt(u, t)
          /\ ToDispatch(SubSeq(u, 1, c)) \in Seq(Messages)
          /\ Begins(SubSeq(u, 1, c), Iteration(e, t, ToDispatch(SubSeq(u, 1, c))).records)
          /\ c = Len(u) => ToDispatch(SubSeq(u, 1, c)) = m
          /\ Iteration(e, t, m).e.tick = t
      BY <1>11, <2>1, IterationCut
    <2>. QED BY <1>12, <1>15, <2>2
  <1>23. \A k \in 1..c : ahead[k].transactTime = t
    <2>1. \A k \in 1..c : k \in 1..y
      BY <1>19, SMT
    <2>. QED BY <1>15, <1>20, <1>22, <2>1 DEF AllAt
  <1>24. ASSUME c < z
         PROVE  ahead[c + 1].transactTime > t /\ b + c \in ends
    <2>1. c = y /\ b + c \in ends /\ E[b + c].tick = t
      BY <1>16, <1>19, <1>22, <1>24
    <2>2. c + 1 \in 1..z /\ b + c < l /\ b + (c + 1) = (b + c) + 1 /\ (b + c) + 1 \in 1..l
      BY <1>3, <1>4, <1>24, SMT
    <2>3. Follows(records, ends, E, M, b + c)
      BY <1>2, <2>1, <2>2
    <2>4. t < records[(b + c) + 1].transactTime
      BY <2>1, <2>3 DEF Follows
    <2>5. ahead[c + 1] = records[(b + c) + 1] /\ records[(b + c) + 1].transactTime \in Nat
      BY <1>5, <1>6, <2>2 DEF Records
    <2>. QED BY <2>1, <2>4, <2>5
  <1>25. BatchLength(ahead) = c
    <2>1. c < z => ahead[c + 1].transactTime # t
      <3>1. ASSUME c < z
            PROVE  ahead[c + 1].transactTime # t
        <4>1. c + 1 \in 1..z
          BY <1>19, <3>1, SMT
        <4>2. ahead[c + 1].transactTime > t /\ ahead[c + 1].transactTime \in Nat
          <5>1. ahead[c + 1] \in Records
            BY <1>6, <4>1, ElementOfSeq
          <5>. QED BY <1>24, <3>1, <5>1 DEF Records
        <4>. QED BY <4>2
      <3>. QED BY <3>1
    <2>2. IsBatch(ahead, c, t)
      BY <1>6, <1>19, <1>23, <2>1 DEF IsBatch
    <2>. QED BY <1>6, <2>2, BatchLengthIs
  <1>26. PICK w \in Seq(Messages) : w = ToDispatch(SubSeq(ahead, 1, c))
    BY <1>21, <1>22
  <1>27. PICK r \in Runs : r = Iteration(e, t, w)
    BY <1>11, IterationTyped
  <1>28. Begins(SubSeq(ahead, 1, c), r.records)
    BY <1>21, <1>22, <1>26, <1>27
  <1>29. (b + c \in ends /\ E[b + c] = r.e /\ Len(r.records) = c) \/ c = z
    <2>1. ASSUME c = y
          PROVE  b + c \in ends /\ E[b + c] = r.e /\ Len(r.records) = c
      <3>1. w = m
        BY <1>21, <1>22, <1>26, <2>1
      <3>2. r = x
        BY <1>12, <1>27, <3>1
      <3>. QED BY <1>14, <1>15, <1>16, <2>1, <3>2
    <2>2. c = y \/ c = z
      BY <1>18
    <2>. QED BY <2>1, <2>2
  <1>30. PICK batch : batch = SubSeq(ahead, 1, c)
    OBVIOUS
  <1>31. r = Iteration(E[b], t, ToDispatch(batch)) /\ Begins(batch, r.records)
    BY <1>7, <1>26, <1>27, <1>28, <1>30
  <1>32. (b + c \in ends /\ E[b + c] = r.e /\ Len(r.records) = c) \/ c = n - b
    BY <1>3, <1>29
  <1>33. c < n - b => ahead[c + 1].transactTime > t
    BY <1>3, <1>24
  <1>34. /\ ahead \in Seq(Records) /\ Len(ahead) = n - b
         /\ \A k \in 1..(n - b) : ahead[k] = records[b + k]
         /\ c \in 1..(n - b)
    BY <1>3, <1>6, <1>19
  <1>35. Turn(records, ends, E, n, b, ahead, c, t, batch, r)
    BY <1>0, <1>23, <1>25, <1>30, <1>31, <1>32, <1>33, <1>34 DEF Turn
  <1>. QED BY <1>35 DEF Turning

-----------------------------------------------------------------------------
(* The inductive invariant.                                                *)

\* The log has a history, and the engine has done nothing since that would show in it.
Live ==
    /\ engine \in Engines
    /\ \E ends, E, M : Account(log, ends, E, M) /\ Lags(E[Len(log)], engine)

\* What is left of a log that had one.
Killed ==
    \E full, ends, E, M :
       Account(full, ends, E, M) /\ \E n \in 0..Len(full) : recording.records = SubSeq(full, 1, n)

\* The replay has reproduced the first b of the n records there are.
InStep(full, ends, E, n, b) ==
    /\ b \in ends /\ b < n
    /\ recording.records = SubSeq(full, 1, n)
    /\ reader.next \in (b + 1)..(n + 1)
    /\ reader.outputBuffer = SubSeq(recording.records, b + 1, reader.next - 1)
    /\ log \in Seq(Records) /\ Len(log) = b /\ (\A i \in 2..b : log[i] = full[i])
    /\ engine = E[b]

\* It has reproduced them all.
Through ==
    /\ reader.outputBuffer = << >> /\ Unread = << >>
    /\ recording.records \in Seq(Records)
    /\ Len(recording.records) <= Len(log)
    /\ \A i \in 2..Len(recording.records) : log[i] = recording.records[i]

Replaying ==
    \/ Through
    \/ \E full, ends, E, M :
          /\ Account(full, ends, E, M)
          /\ \E n \in 1..Len(full), b \in ends : InStep(full, ends, E, n, b)

IInv ==
    /\ status \in {"live", "killed", "replay", "done", "failed"}
    /\ status \in {"live", "killed"} => reader = [next |-> 1, outputBuffer |-> << >>]
    /\ status = "live" => Live
    /\ status = "killed" => Killed
    /\ status = "replay" => Replaying
    /\ status \in {"done", "failed"} => ReproducesRecording

LEMMA PrefixIs ==
    ASSUME NEW full \in Seq(Records), NEW n \in 0..Len(full)
    PROVE  /\ SubSeq(full, 1, n) \in Seq(Records) /\ Len(SubSeq(full, 1, n)) = n
           /\ \A i \in 1..n : SubSeq(full, 1, n)[i] = full[i]
  <1>1. Len(full) \in Nat /\ \A i \in 1..Len(full) : full[i] \in Records
    BY LenProperties, ElementOfSeq
  <1>2. \A i \in 1..n : full[i] \in Records
    BY <1>1, SMT
  <1>3. SubSeq(full, 1, n) \in Seq(Records) /\ Len(SubSeq(full, 1, n)) = n
    BY <1>1, <1>2, SubSeqProperties, SMT
  <1>4. \A i \in 1..n : SubSeq(full, 1, n)[i] = full[i]
    BY SMT
  <1>. QED BY <1>3, <1>4

LEMMA Reproduces == Replaying /\ status = "replay" => ReproducesRecording
  <1> SUFFICES ASSUME Replaying, status = "replay"
               PROVE  \A i \in 2..Len(log) :
                         i <= Len(recording.records) => log[i] = recording.records[i]
    BY DEF ReproducesRecording
  <1>1. CASE Through
    <2>1. PICK n \in Nat : n = Len(recording.records)
      BY <1>1, LenProperties DEF Through
    <2>2. \A i \in 2..n : log[i] = recording.records[i]
      BY <1>1, <2>1 DEF Through
    <2>3. ASSUME NEW i \in 2..Len(log), i <= n
          PROVE  i \in 2..n
      BY <2>3, SMT
    <2>. QED BY <2>1, <2>2, <2>3
  <1>2. CASE \E full, ends, E, M :
                /\ Account(full, ends, E, M)
                /\ \E n \in 1..Len(full), b \in ends : InStep(full, ends, E, n, b)
    <2>1. PICK full, ends, E, M :
                /\ Account(full, ends, E, M)
                /\ \E n \in 1..Len(full), b \in ends : InStep(full, ends, E, n, b)
      BY <1>2
    <2>2. PICK n \in 1..Len(full), b \in ends : InStep(full, ends, E, n, b)
      BY <2>1
    <2>3. full \in Seq(Records) /\ b \in 1..Len(full) /\ b < n
      BY <2>1, <2>2 DEF Account, InStep
    <2>4. PICK l \in Nat : l = Len(full)
      BY <2>3, LenProperties
    <2>5. n \in 0..Len(full) /\ n \in Nat /\ b \in Nat
      BY <2>3, <2>4, SMT
    <2>6. \A i \in 1..n : recording.records[i] = full[i]
      BY <2>2, <2>3, <2>5, PrefixIs DEF InStep
    <2>7. \A i \in 2..b : i \in 1..n
      BY <2>3, <2>5, SMT
    <2>. QED BY <2>2, <2>6, <2>7 DEF InStep
  <1>. QED BY <1>1, <1>2 DEF Replaying

LEMMA ConfigIs ==
    ASSUME NEW seed \in Seeds, NEW r, r = RecordServerConfig(NewEngine(seed, 1))
    PROVE  /\ r.e \in Engines /\ r.records \in Seq(Records) /\ Len(r.records) = 1
           /\ r.records[1].content = [seed |-> seed]
  <1>1. PICK e : e = NewEngine(seed, 1)
    OBVIOUS
  <1>2. e \in Engines /\ e.seed = seed
    <2>1. PICK s \in Snakes : s = Rules!NewPlayer(<<1, 1>>)
      <3>1. <<1, 1>> \in Points
        BY DEF Points
      <3>. QED BY <3>1, NewPlayerTyped
    <2>2. e = [tick |-> 1, sequence |-> 0, seed |-> seed, gen |-> 0,
               playing |-> FALSE, snake |-> s, food |-> {}, boosts |-> {}]
      BY <1>1, <2>1 DEF NewEngine
    <2>3. 0 \in 0..Period - 1
      BY ReplayAssumption, SMT
    <2>. QED BY <2>2, <2>3 DEF Engines
  <1>3. PICK p \in Runs : p = Started(e) /\ p.e = e /\ p.records = << >>
    BY <1>2, StartedTyped
  <1>4. PICK content \in Contents : content = [seed |-> seed]
    BY DEF Contents
  <1>5. r = Write(p, "SERVER_CONFIG", content)
    BY <1>1, <1>2, <1>3, <1>4 DEF RecordServerConfig
  <1> DEFINE record == [type |-> "SERVER_CONFIG", sequence |-> e.sequence,
                        transactTime |-> e.tick, content |-> content]
  <1>6. r \in Runs /\ r.records = Append(<< >>, record)
    <2>1. "SERVER_CONFIG" \in Types
      BY DEF Types
    <2>. QED BY <1>3, <1>5, <2>1, WriteTyped
  <1>7. r.records[1].content = content /\ Len(r.records) = 1
    <2>1. record \in Records /\ record.content = content
      <3>1. e.sequence \in Nat /\ e.tick \in Nat
        BY <1>2 DEF Engines
      <3>. QED BY <3>1 DEF Records, Types
    <2> HIDE DEF record
    <2>2. << >> \in Seq(Records) /\ Len(<< >>) = 0
      BY EmptySeq
    <2>3. PICK u : u = Append(<< >>, record)
      OBVIOUS
    <2>4. Len(u) = Len(<< >>) + 1 /\ u[Len(u)] = record
      BY <2>1, <2>2, <2>3, AppendIs
    <2>5. Len(u) = 1
      BY <2>2, <2>4
    <2>. QED BY <1>6, <2>1, <2>3, <2>4, <2>5
  <1>. QED BY <1>4, <1>6, <1>7 DEF Runs

LEMMA InitIInv == Init => IInv
  <1> SUFFICES ASSUME Init
               PROVE  IInv
    OBVIOUS
  <1>1. PICK seed \in Seeds :
             /\ engine = RecordServerConfig(NewEngine(seed, 1)).e
             /\ log = RecordServerConfig(NewEngine(seed, 1)).records
    BY DEF Init
  <1>2. status = "live" /\ reader = [next |-> 1, outputBuffer |-> << >>]
    BY DEF Init
  <1>3. /\ engine \in Engines /\ log \in Seq(Records) /\ Len(log) = 1
        /\ log[1].content = [seed |-> seed]
    BY <1>1, ConfigIs
  <1> DEFINE E == [b \in {1} |-> engine]
             M == [b \in {1} |-> << >>]
  <1>4. E \in [{1} -> Engines] /\ E[1] = engine /\ M \in [{1} -> Seq(Messages)]
    BY <1>3, EmptySeq
  <1> HIDE DEF E, M
  <1>5. Account(log, {1}, E, M)
    <2>1. {1} \subseteq 1..1 /\ ~(1 < 1)
      BY SMT
    <2>2. \E s \in Seeds : log[1].content = [seed |-> s] /\ E[1] = RecordServerConfig(NewEngine(s, 1)).e
      BY <1>1, <1>3, <1>4
    <2>. QED BY <1>3, <1>4, <2>1, <2>2 DEF Account
  <1>6. Lags(engine, engine)
    <2>1. EnginesAgree(engine, engine)
      BY DEF EnginesAgree, EnginesAlike, Alike
    <2>. QED BY <1>3, <2>1, AgreeLags
  <1>7. Lags(E[Len(log)], engine)
    BY <1>3, <1>4, <1>6
  <1>8. Live
    BY <1>3, <1>5, <1>7 DEF Live
  <1>. QED BY <1>2, <1>8 DEF IInv

LEMMA LiveStep ==
    ASSUME IInv, NEW elapsed \in 1..MaxElapsed, NEW k \in 0..MaxMessages,
           NEW messages \in [1..k -> Messages], LiveIteration(elapsed, messages)
    PROVE  IInv'
  <1>1. status = "live" /\ Live /\ reader = [next |-> 1, outputBuffer |-> << >>]
    BY DEF IInv, LiveIteration
  <1>2. PICK ends, E, M : Account(log, ends, E, M) /\ Lags(E[Len(log)], engine)
    BY <1>1 DEF Live
  <1>3. PICK m \in Seq(Messages) : m = messages
    <2>1. k \in Nat
      BY ReplayAssumption, SMT
    <2>. QED BY <2>1
  <1>4. PICK l \in Engines : l = engine
    BY <1>1 DEF Live
  <1>5. PICK t \in Nat : t = engine.tick + elapsed /\ l.tick < t /\ l.tick <= t
    <2>1. l.tick \in Nat
      BY DEF Engines
    <2>2. l.tick + elapsed \in Nat /\ l.tick < l.tick + elapsed /\ l.tick <= l.tick + elapsed
      BY <2>1, ReplayAssumption, SMT
    <2>. QED BY <1>4, <2>2
  <1>6. PICK q : q = Iteration(l, t, m)
    OBVIOUS
  <1>7. /\ engine' = q.e /\ log' = log \o q.records
        /\ status' = status /\ reader' = reader
    BY <1>3, <1>4, <1>5, <1>6 DEF LiveIteration
  <1>8. PICK n \in Nat : n = Len(log)
    BY <1>2, LenProperties DEF Account
  <1>9. PICK e \in Engines : e = E[n]
    BY <1>2, <1>8 DEF Account
  <1>10. Lags(e, l)
    BY <1>2, <1>4, <1>8, <1>9
  <1>11. q \in Runs
    BY <1>5, <1>6, IterationTyped
  <1>12. q.records \in Seq(Records) /\ q.e \in Engines
    BY <1>11 DEF Runs
  <1>13. CASE q.records = << >>
    <2>1. q.e \in Engines /\ Lags(e, q.e)
      BY <1>5, <1>6, <1>10, <1>13, SilentIteration
    <2>2. log' = log
      BY <1>2, <1>7, <1>13, ConcatEmptySeq DEF Account
    <2>3. Account(log', ends, E, M) /\ Lags(E[Len(log')], engine')
      BY <1>2, <1>7, <1>8, <1>9, <2>1, <2>2
    <2>4. Live'
      BY <1>7, <2>1, <2>3 DEF Live
    <2>. QED BY <1>1, <1>7, <2>4 DEF IInv
  <1>14. CASE q.records # << >>
    <2>1. PICK r : r = Iteration(e, t, m)
      OBVIOUS
    <2>2. r \in Runs /\ r.records = q.records /\ Lags(r.e, q.e)
      BY <1>5, <1>6, <1>10, <2>1, LoudIteration
    <2>3. E[n].tick < t
      <3>1. e.tick <= l.tick /\ e.tick \in Nat /\ l.tick \in Nat
        BY <1>10 DEF Lags, Engines
      <3>2. e.tick < t
        BY <1>5, <3>1, SMT
      <3>. QED BY <1>9, <3>2
    <2>4. PICK u \in Seq(Records) : u = r.records /\ u # << >> /\ log' = log \o u
      BY <1>7, <1>12, <1>14, <2>2
    <2>5. r = Iteration(E[n], t, m)
      BY <1>9, <2>1
    <2>6. Grown(log \o u, r.e)
      BY <1>2, <1>8, <2>2, <2>3, <2>4, <2>5, AccountGrows
    <2>7. PICK more, F, L : Account(log', more, F, L) /\ F[Len(log')] = r.e
      BY <2>4, <2>6 DEF Grown
    <2>8. Lags(F[Len(log')], engine')
      BY <1>7, <2>2, <2>7
    <2>9. Live'
      BY <1>7, <1>12, <2>7, <2>8 DEF Live
    <2>. QED BY <1>1, <1>7, <2>9 DEF IInv
  <1>. QED BY <1>13, <1>14

LEMMA KillStep ==
    ASSUME IInv, NEW n \in 0..Len(log), NEW torn \in {"no", "length", "body"}, Kill(n, torn)
    PROVE  IInv'
  <1>1. status = "live" /\ Live /\ reader = [next |-> 1, outputBuffer |-> << >>]
    BY DEF IInv, Kill
  <1>2. PICK ends, E, M : Account(log, ends, E, M)
    BY <1>1 DEF Live
  <1>3. recording'.records = SubSeq(log, 1, n) /\ status' = "killed" /\ reader' = reader
    BY DEF Kill
  <1>4. Killed'
    <2>1. PICK full : full = log
      OBVIOUS
    <2>2. Account(full, ends, E, M) /\ n \in 0..Len(full) /\ recording'.records = SubSeq(full, 1, n)
      BY <1>2, <1>3, <2>1
    <2>. QED BY <2>2 DEF Killed
  <1>. QED BY <1>1, <1>3, <1>4 DEF IInv

LEMMA StartStep ==
    ASSUME IInv, NEW seed \in Seeds, Start(seed)
    PROVE  IInv'
  <1>1. status = "killed" /\ Killed /\ reader = [next |-> 1, outputBuffer |-> << >>]
    BY DEF IInv, Start
  <1>2. PICK full, ends, E, M :
           Account(full, ends, E, M) /\ \E n \in 0..Len(full) : recording.records = SubSeq(full, 1, n)
    BY <1>1 DEF Killed
  <1>3. PICK n \in 0..Len(full) : recording.records = SubSeq(full, 1, n)
    BY <1>2
  <1>4. full \in Seq(Records) /\ Len(full) \in Nat /\ n \in Nat
    <2>1. full \in Seq(Records)
      BY <1>2 DEF Account
    <2>2. Len(full) \in Nat
      BY <2>1, LenProperties
    <2>. QED BY <2>1, <2>2
  <1>5. PICK recs \in Seq(Records) : recs = recording.records /\ Len(recs) = n /\ \A i \in 1..n : recs[i] = full[i]
    BY <1>3, <1>4, PrefixIs
  <1>6. PICK r : r = RecordServerConfig(NewEngine(seed, 1))
    OBVIOUS
  <1>7. r.e \in Engines /\ r.records \in Seq(Records) /\ Len(r.records) = 1
    BY <1>6, ConfigIs
  <1>8. /\ status' = IF recs = << >> /\ recording.torn = "body" THEN "failed" ELSE "replay"
        /\ (recs # << >> => seed = recs[1].content.seed)
        /\ engine' = r.e /\ log' = r.records /\ recording' = recording
    BY <1>5, <1>6 DEF Start
  <1>9. reader' = [next |-> 2, outputBuffer |-> << >>]
    BY <1>1 DEF Start
  <1>10. ASSUME n <= 1
         PROVE  Through'
    <2>1. reader'.outputBuffer = << >> /\ reader'.next = 2
      BY <1>9
    <2>2. Unread' = SubSeq(recs, 2, n)
      BY <1>5, <1>8, <2>1 DEF Unread
    <2>3. SubSeq(recs, 2, n) = << >>
      BY <1>4, <1>10, SubSeqEmpty, SMT
    <2>4. \A i \in 2..n : FALSE
      BY <1>4, <1>10, SMT
    <2>5. Len(recording'.records) = n /\ recording'.records \in Seq(Records) /\ n <= Len(log')
      BY <1>5, <1>7, <1>8, <1>10
    <2>. QED BY <2>1, <2>2, <2>3, <2>4, <2>5 DEF Through
  <1>11. ASSUME ~(n <= 1)
         PROVE  Replaying'
    <2>1. PICK s \in Seeds : full[1].content = [seed |-> s] /\ E[1] = RecordServerConfig(NewEngine(s, 1)).e
      BY <1>2 DEF Account
    <2>2. 1 \in 1..n /\ 1 < n /\ n \in 1..Len(full) /\ 2 \in 2..(n + 1) /\ 1 + 1 = 2 /\ 2 - 1 = 1
      BY <1>4, <1>11, SMT
    <2>3. recs # << >>
      BY <1>5, <2>2, EmptySeq
    <2>4. seed = s
      <3>1. recs[1] = full[1]
        BY <1>5, <2>2
      <3>2. recs[1].content.seed = s
        BY <2>1, <3>1
      <3>. QED BY <1>8, <2>3, <3>2
    <2>5. engine' = E[1]
      BY <1>6, <1>8, <2>1, <2>4
    <2>6. 1 \in ends
      BY <1>2 DEF Account
    <2>7. SubSeq(recs, 2, 1) = << >>
      BY SubSeqEmpty, SMT
    <2>8. \A i \in 2..1 : FALSE
      BY SMT
    <2>9. /\ reader'.next = 2 /\ reader'.outputBuffer = << >>
          /\ recording'.records = recs /\ recs = SubSeq(full, 1, n)
          /\ log' \in Seq(Records) /\ Len(log') = 1
      BY <1>3, <1>5, <1>7, <1>8, <1>9
    <2>10. InStep(full, ends, E, n, 1)'
      BY <2>2, <2>5, <2>6, <2>7, <2>8, <2>9 DEF InStep
    <2>. QED BY <1>2, <2>2, <2>6, <2>10 DEF Replaying
  <1>12. CASE recs = << >> /\ recording.torn = "body"
    <2>1. status' = "failed"
      BY <1>8, <1>12
    <2>2. Len(recording'.records) = 0
      BY <1>5, <1>8, <1>12, EmptySeq
    <2>3. Len(log') = 1
      BY <1>7, <1>8
    <2>4. (\A i \in 2..1 : FALSE) /\ \A i \in 2..0 : FALSE
      BY SMT
    <2>5. ReproducesRecording'
      BY <2>2, <2>3, <2>4 DEF ReproducesRecording
    <2>. QED BY <2>1, <2>5 DEF IInv
  <1>13. CASE ~(recs = << >> /\ recording.torn = "body")
    <2>1. status' = "replay"
      BY <1>8, <1>13
    <2>2. Replaying'
      BY <1>10, <1>11 DEF Replaying
    <2>. QED BY <2>1, <2>2 DEF IInv
  <1>. QED BY <1>12, <1>13

\* nextBatch() takes the batch, c records of those ahead; r is what an iteration does on it.
Takes(ahead, c, batch) ==
    /\ ahead = reader.outputBuffer \o Unread
    /\ c = BatchLength(ahead) /\ batch = SubSeq(ahead, 1, c)

Does(batch, r) == r = Iteration(engine, Last(batch).transactTime, ToDispatch(batch))

\* An iteration of the replay that finds the end of its batch in the recording.
LEMMA ReadsOn ==
    ASSUME ReplayIteration, NEW ahead, NEW c, NEW batch, Takes(ahead, c, batch), batch # << >>,
           c < Len(ahead), ~(ahead[c + 1].transactTime < ahead[c].transactTime),
           NEW r, Does(batch, r)
    PROVE  /\ status' = "replay" /\ recording' = recording
           /\ reader' = [next |-> reader.next + c + 1 - Len(reader.outputBuffer),
                         outputBuffer |-> SubSeq(ahead, c + 1, c + 1)]
           /\ engine' = r.e /\ log' = log \o r.records
  <1> USE DEF Takes, Does
  <1>1. PICK read : read = NextBatch
    OBVIOUS
  <1>2. /\ read.batch = batch /\ ~read.throws
        /\ read.reader = [next |-> reader.next + c + 1 - Len(reader.outputBuffer),
                          outputBuffer |-> SubSeq(ahead, c + 1, c + 1)]
    <2> DEFINE back == ahead[c + 1].transactTime < ahead[c].transactTime
               onto == [next |-> reader.next + c + 1 - Len(reader.outputBuffer),
                        outputBuffer |-> SubSeq(ahead, c + 1, c + 1)]
    <2>1. read = [batch |-> batch,
                  throws |-> IF c < Len(ahead) THEN back ELSE recording.torn = "body",
                  reader |-> [next |-> IF c < Len(ahead)
                                         THEN reader.next + c + 1 - Len(reader.outputBuffer)
                                       ELSE Len(recording.records) + 1,
                              outputBuffer |-> IF c < Len(ahead) THEN SubSeq(ahead, c + 1, c + 1)
                                               ELSE << >>]]
      BY <1>1, Zenon DEF NextBatch, ReadAhead
    <2>2. read.batch = batch /\ read.throws = back
      <3> HIDE DEF back
      <3>. QED BY <2>1
    <2>3. read.reader = onto
      <3> HIDE DEF back
      <3>. QED BY <2>1
    <2>4. ~back
      OBVIOUS
    <2> HIDE DEF back
    <2>. QED BY <2>2, <2>3, <2>4
  <1>3. StatusAfter(read) = "replay"
    BY <1>2 DEF StatusAfter
  <1>4. /\ status' = StatusAfter(read) /\ reader' = read.reader /\ recording' = recording
        /\ IF status' = "replay"
              THEN /\ engine' = Iteration(engine, IF read.batch = << >> THEN engine.tick
                                                  ELSE Last(read.batch).transactTime,
                                          ToDispatch(read.batch)).e
                   /\ log' = log \o Iteration(engine, IF read.batch = << >> THEN engine.tick
                                                      ELSE Last(read.batch).transactTime,
                                              ToDispatch(read.batch)).records
           ELSE UNCHANGED <<engine, log>>
    BY <1>1, Zenon DEF ReplayIteration
  <1>. QED BY <1>2, <1>3, <1>4

\* One that finds the end of the recording.
LEMMA ReadsLast ==
    ASSUME ReplayIteration, NEW ahead, NEW c, NEW batch, Takes(ahead, c, batch),
           ~(c < Len(ahead)), NEW r, Does(batch, r)
    PROVE  /\ recording' = recording
           /\ reader' = [next |-> Len(recording.records) + 1, outputBuffer |-> << >>]
           /\ recording.torn = "body" => status' = "failed" /\ log' = log
           /\ recording.torn # "body" /\ batch = << >> => status' = "done" /\ log' = log
           /\ recording.torn # "body" /\ batch # << >> =>
                 status' = "replay" /\ engine' = r.e /\ log' = log \o r.records
  <1> USE DEF Takes, Does
  <1>1. PICK read : read = NextBatch
    OBVIOUS
  <1>2. /\ read.batch = batch /\ read.throws = (recording.torn = "body")
        /\ read.reader = [next |-> Len(recording.records) + 1, outputBuffer |-> << >>]
    BY <1>1, Zenon DEF NextBatch
  <1>3. /\ status' = StatusAfter(read) /\ reader' = read.reader /\ recording' = recording
        /\ IF status' = "replay"
              THEN /\ engine' = Iteration(engine, IF read.batch = << >> THEN engine.tick
                                                  ELSE Last(read.batch).transactTime,
                                          ToDispatch(read.batch)).e
                   /\ log' = log \o Iteration(engine, IF read.batch = << >> THEN engine.tick
                                                      ELSE Last(read.batch).transactTime,
                                              ToDispatch(read.batch)).records
           ELSE UNCHANGED <<engine, log>>
    BY <1>1, Zenon DEF ReplayIteration
  <1>4. CASE recording.torn = "body"
    <2>1. StatusAfter(read) = "failed"
      BY <1>2, <1>4 DEF StatusAfter
    <2>. QED BY <1>2, <1>3, <1>4, <2>1
  <1>5. CASE recording.torn # "body" /\ batch = << >>
    <2>1. StatusAfter(read) = "done"
      BY <1>2, <1>5 DEF StatusAfter
    <2>. QED BY <1>2, <1>3, <1>5, <2>1
  <1>6. CASE recording.torn # "body" /\ batch # << >>
    <2>1. StatusAfter(read) = "replay"
      BY <1>2, <1>6 DEF StatusAfter
    <2>. QED BY <1>2, <1>3, <1>6, <2>1
  <1>. QED BY <1>4, <1>5, <1>6

ReadsForward == Len(reader'.outputBuffer \o Unread') < Len(reader.outputBuffer \o Unread)

LEMMA EndStep ==
    ASSUME Through, ReplayIteration
    PROVE  status' \in {"done", "failed"} /\ ReproducesRecording'
  <1>1. PICK ahead : ahead = reader.outputBuffer \o Unread
    OBVIOUS
  <1>2. ahead = << >>
    <2>1. << >> \in Seq(Records)
      BY EmptySeq
    <2>2. << >> \o << >> = << >>
      BY <2>1, ConcatEmptySeq
    <2>. QED BY <1>1, <2>2 DEF Through
  <1>3. PICK c : c = BatchLength(ahead)
    OBVIOUS
  <1>4. c = 0 /\ Len(ahead) = 0 /\ ~(c < Len(ahead))
    <2>1. c = 0
      BY <1>2, <1>3, NoBatch
    <2>2. Len(ahead) = 0
      BY <1>2, EmptySeq
    <2>. QED BY <2>1, <2>2
  <1>5. PICK batch : batch = SubSeq(ahead, 1, c)
    OBVIOUS
  <1>6. batch = << >>
    BY <1>4, <1>5, SubSeqEmpty
  <1>7. /\ recording' = recording
        /\ recording.torn = "body" => status' = "failed" /\ log' = log
        /\ recording.torn # "body" /\ batch = << >> => status' = "done" /\ log' = log
    <2>1. PICK r : Does(batch, r)
      BY DEF Does
    <2>2. Takes(ahead, c, batch)
      BY <1>1, <1>3, <1>5 DEF Takes
    <2>. QED BY <1>4, <2>1, <2>2, ReadsLast
  <1>8. status' \in {"done", "failed"} /\ log' = log /\ recording' = recording
    BY <1>6, <1>7
  <1>9. PICK n \in Nat : n = Len(recording.records)
    BY LenProperties DEF Through
  <1>10. n <= Len(log) /\ \A i \in 2..n : log[i] = recording.records[i]
    BY <1>9 DEF Through
  <1>11. PICK x : x = Len(log)
    OBVIOUS
  <1>12. \A i \in 2..x : i <= n => i \in 2..n
    BY SMT
  <1>13. \A i \in 2..n : ~(i > x)
    BY <1>10, <1>11, SMT
  <1>14. /\ \A i \in 2..x : i <= n => log[i] = recording.records[i]
         /\ \A i \in 2..n : ~(i > x)
    BY <1>10, <1>12, <1>13
  <1>. QED BY <1>8, <1>9, <1>11, <1>14 DEF ReproducesRecording

\* What the reader has ahead is what has not been replayed.
LEMMA Pending ==
    ASSUME NEW full \in Seq(Records), NEW n \in 1..Len(full), NEW b \in Nat, b < n,
           NEW next \in (b + 1)..(n + 1), NEW recs, recs = SubSeq(full, 1, n)
    PROVE  /\ SubSeq(recs, b + 1, next - 1) \o SubSeq(recs, next, Len(recs)) = Ahead(full, n, b)
           /\ Len(SubSeq(recs, b + 1, next - 1)) = next - 1 - b
  <1>1. Len(full) \in Nat /\ n \in 0..Len(full) /\ n \in Nat
    BY LenProperties
  <1>2. recs \in Seq(Records) /\ Len(recs) = n
    BY <1>1, PrefixIs
  <1>3. PICK k \in Int : k = next - 1 /\ k \in b..n /\ next = k + 1
    BY <1>1, SMT
  <1>4. SubSeq(recs, b + 1, k) \o SubSeq(recs, k + 1, n) = SubSeq(recs, b + 1, n)
    <2>1. b + 1 \in 1..n + 1 /\ k \in (b + 1) - 1..n /\ n \in k..n
      BY <1>1, <1>3, SMT
    <2>. QED BY <1>2, <2>1, ConcatAdjacentSubSeq
  <1>5. Len(SubSeq(recs, b + 1, k)) = k - b
    <2>1. \A i \in b + 1..k : i \in 1..n
      BY <1>1, <1>3, SMT
    <2>2. \A i \in b + 1..k : recs[i] \in Records
      BY <1>2, <2>1, ElementOfSeq
    <2>3. Len(SubSeq(recs, b + 1, k)) = IF b + 1 <= k THEN k - (b + 1) + 1 ELSE 0
      BY <1>3, <2>2, SubSeqProperties
    <2>. QED BY <1>1, <1>3, <2>3
  <1>. QED BY <1>2, <1>3, <1>4, <1>5 DEF Ahead

LEMMA PendingIs ==
    ASSUME NEW full \in Seq(Records), NEW ends, NEW E, NEW n \in 1..Len(full), NEW b \in Nat,
           InStep(full, ends, E, n, b)
    PROVE  /\ reader.outputBuffer \o Unread = Ahead(full, n, b)
           /\ Len(reader.outputBuffer) = reader.next - 1 - b
  <1>1. b < n /\ recording.records = SubSeq(full, 1, n)
        /\ reader.outputBuffer = SubSeq(recording.records, b + 1, reader.next - 1)
    BY DEF InStep
  <1>2. PICK next \in (b + 1)..(n + 1) : next = reader.next
    BY DEF InStep
  <1>3. PICK recs : recs = SubSeq(full, 1, n)
    OBVIOUS
  <1>4. /\ SubSeq(recs, b + 1, next - 1) \o SubSeq(recs, next, Len(recs)) = Ahead(full, n, b)
        /\ Len(SubSeq(recs, b + 1, next - 1)) = next - 1 - b
    BY <1>1, <1>3, Pending
  <1>5. recording.records = recs
    BY <1>1, <1>3
  <1>. QED BY <1>1, <1>2, <1>4, <1>5 DEF Unread

LEMMA PendingIsThen ==
    ASSUME NEW full \in Seq(Records), NEW ends, NEW E, NEW n \in 1..Len(full), NEW b \in Nat,
           InStep(full, ends, E, n, b)'
    PROVE  reader'.outputBuffer \o Unread' = Ahead(full, n, b)
  <1>1. b < n /\ recording'.records = SubSeq(full, 1, n)
        /\ reader'.outputBuffer = SubSeq(recording'.records, b + 1, reader'.next - 1)
    BY DEF InStep
  <1>2. PICK next \in (b + 1)..(n + 1) : next = reader'.next
    BY DEF InStep
  <1>3. PICK recs : recs = SubSeq(full, 1, n)
    OBVIOUS
  <1>4. /\ SubSeq(recs, b + 1, next - 1) \o SubSeq(recs, next, Len(recs)) = Ahead(full, n, b)
        /\ Len(SubSeq(recs, b + 1, next - 1)) = next - 1 - b
    BY <1>1, <1>3, Pending
  <1>5. recording'.records = recs
    BY <1>1, <1>3
  <1>. QED BY <1>1, <1>2, <1>4, <1>5 DEF Unread

LEMMA AheadLength ==
    ASSUME NEW full \in Seq(Records), NEW n \in 1..Len(full), NEW b \in 0..n
    PROVE  Len(Ahead(full, n, b)) = n - b
  <1>1. Len(full) \in Nat /\ n \in 0..Len(full) /\ n \in Nat
    BY LenProperties
  <1>2. PICK recs \in Seq(Records) : recs = SubSeq(full, 1, n) /\ Len(recs) = n
    BY <1>1, PrefixIs
  <1>3. \A i \in b + 1..n : i \in 1..n
    BY <1>1, SMT
  <1>4. \A i \in b + 1..n : recs[i] \in Records
    BY <1>2, <1>3, ElementOfSeq
  <1>5. Len(SubSeq(recs, b + 1, n)) = IF b + 1 <= n THEN n - (b + 1) + 1 ELSE 0
    BY <1>1, <1>4, SubSeqProperties
  <1>6. Len(SubSeq(recs, b + 1, n)) = n - b
    BY <1>1, <1>5
  <1>. QED BY <1>2, <1>6 DEF Ahead

\* A step that replays c records, not the last, and reads the next one ahead.
LEMMA StaysInStep ==
    ASSUME NEW full \in Seq(Records), NEW ends, NEW E, NEW n \in 1..Len(full), NEW b \in Nat,
           InStep(full, ends, E, n, b), NEW c \in Nat, 0 < c, b + c < n, b + c \in ends,
           recording' = recording,
           reader' = [next |-> reader.next + c + 1 - Len(reader.outputBuffer),
                      outputBuffer |-> SubSeq(Ahead(full, n, b), c + 1, c + 1)],
           NEW u \in Seq(Records), Len(u) = c, \A k \in 1..c : u[k] = full[b + k],
           log' = log \o u, engine' = E[b + c]
    PROVE  InStep(full, ends, E, n, b + c)'
  <1>1. Len(full) \in Nat /\ n \in 0..Len(full) /\ n \in Nat
    BY LenProperties
  <1>2. PICK recs \in Seq(Records) : recs = SubSeq(full, 1, n) /\ Len(recs) = n
    BY <1>1, PrefixIs
  <1>3. PICK d \in Nat : d = b + c /\ d < n /\ d \in ends
    OBVIOUS
  <1>4. reader'.next = d + 2
    <2>1. Len(reader.outputBuffer) = reader.next - 1 - b
      BY PendingIs
    <2>2. reader.next \in Int
      BY <1>1, SMT DEF InStep
    <2>3. reader'.next = reader.next + c + 1 - (reader.next - 1 - b)
      BY <2>1
    <2>. QED BY <1>3, <2>2, <2>3, SMT
  <1>5. reader'.next \in (d + 1)..(n + 1) /\ reader'.next - 1 = d + 1
    BY <1>1, <1>3, <1>4, SMT
  <1>6. reader'.outputBuffer = SubSeq(recs, d + 1, d + 1)
    <2>1. b + 1 \in 1..n /\ n \in 1..n /\ c + 1 \in 1..n - (b + 1) + 1 /\ (b + 1) + (c + 1) - 1 = d + 1
      BY <1>1, <1>3, SMT
    <2>2. SubSeq(SubSeq(recs, b + 1, n), c + 1, c + 1) = SubSeq(recs, d + 1, d + 1)
      <3>1. SubSeq(SubSeq(recs, b + 1, n), c + 1, c + 1)
               = SubSeq(recs, (b + 1) + (c + 1) - 1, (b + 1) + (c + 1) - 1)
        BY <1>2, <2>1, SubSeqOfSubSeq
      <3>. QED BY <2>1, <3>1
    <2>. QED BY <1>2, <2>2 DEF Ahead
  <1>7. log \in Seq(Records) /\ Len(log) = b /\ \A i \in 2..b : log[i] = full[i]
    BY DEF InStep
  <1>8. log' \in Seq(Records) /\ Len(log') = d
        /\ \A i \in 1..d : log'[i] = IF i <= b THEN log[i] ELSE u[i - b]
    <2>1. PICK v \in Seq(Records) : v = log
      BY <1>7
    <2>2. /\ v \o u \in Seq(Records) /\ Len(v \o u) = Len(v) + Len(u)
          /\ \A i \in 1..Len(v) + Len(u) : (v \o u)[i] = IF i <= Len(v) THEN v[i] ELSE u[i - Len(v)]
      BY ConcatProperties
    <2>3. Len(v) = b /\ Len(v) + Len(u) = d /\ log' = v \o u
      BY <1>3, <1>7, <2>1
    <2>. QED BY <2>1, <2>2, <2>3
  <1>9. ASSUME NEW i \in 2..d
        PROVE  log'[i] = full[i]
    <2>1. i \in 1..d
      BY <1>3, SMT
    <2>2. CASE i <= b
      <3>1. i \in 2..b
        BY <2>2, SMT
      <3>2. log'[i] = log[i]
        BY <1>8, <2>1, <2>2, Zenon
      <3>3. log[i] = full[i]
        BY <1>7, <3>1, Zenon
      <3>. QED BY <3>2, <3>3
    <2>3. CASE ~(i <= b)
      <3>1. i - b \in 1..c /\ b + (i - b) = i
        BY <1>3, <2>3, SMTT(60)
      <3>2. u[i - b] = full[i]
        BY <3>1
      <3>3. log'[i] = u[i - b]
        BY <1>8, <2>1, <2>3, Zenon
      <3>. QED BY <3>2, <3>3
    <2>. QED BY <2>2, <2>3
  <1>10. recording'.records = recs /\ recs = SubSeq(full, 1, n)
    BY <1>2 DEF InStep
  <1>11. reader'.outputBuffer = SubSeq(recording'.records, d + 1, reader'.next - 1)
    BY <1>5, <1>6, <1>10
  <1>12. engine' = E[d]
    BY <1>3
  <1>13. InStep(full, ends, E, n, d)'
    BY <1>3, <1>5, <1>8, <1>9, <1>10, <1>11, <1>12 DEF InStep
  <1>. QED BY <1>3, <1>13

\* The step that replays the last records.
LEMMA GetsThrough ==
    ASSUME NEW full \in Seq(Records), NEW ends, NEW E, NEW n \in 1..Len(full), NEW b \in Nat,
           InStep(full, ends, E, n, b),
           recording' = recording,
           reader' = [next |-> Len(recording.records) + 1, outputBuffer |-> << >>],
           NEW u \in Seq(Records), n - b <= Len(u), \A k \in 1..(n - b) : u[k] = full[b + k],
           log' = log \o u
    PROVE  Through' /\ Len(reader'.outputBuffer \o Unread') = 0
  <1>1. Len(full) \in Nat /\ n \in 0..Len(full) /\ n \in Nat
    BY LenProperties
  <1>2. PICK recs \in Seq(Records) : recs = SubSeq(full, 1, n) /\ Len(recs) = n
                                     /\ \A i \in 1..n : recs[i] = full[i]
    BY <1>1, PrefixIs
  <1>3. recording'.records = recs /\ reader'.next = n + 1 /\ reader'.outputBuffer = << >>
    BY <1>2 DEF InStep
  <1>4. Unread' = << >>
    <2>1. Unread' = SubSeq(recs, n + 1, n)
      BY <1>2, <1>3 DEF Unread
    <2>2. SubSeq(recs, n + 1, n) = << >>
      BY <1>1, SubSeqEmpty, SMT
    <2>. QED BY <2>1, <2>2
  <1>5. Len(reader'.outputBuffer \o Unread') = 0
    <2>1. << >> \in Seq(Records)
      BY EmptySeq
    <2>2. << >> \o << >> = << >>
      BY <2>1, ConcatEmptySeq
    <2>3. Len(<< >>) = 0
      BY EmptySeq
    <2>. QED BY <1>3, <1>4, <2>2, <2>3
  <1>6. log \in Seq(Records) /\ Len(log) = b /\ \A i \in 2..b : log[i] = full[i]
    BY DEF InStep
  <1>7. PICK y \in Nat : y = Len(u) /\ n - b <= y
    BY LenProperties
  <1>8. log' \in Seq(Records) /\ Len(log') = b + y
        /\ \A i \in 1..b + y : log'[i] = IF i <= b THEN log[i] ELSE u[i - b]
    <2>1. PICK v \in Seq(Records) : v = log
      BY <1>6
    <2>2. /\ v \o u \in Seq(Records) /\ Len(v \o u) = Len(v) + Len(u)
          /\ \A i \in 1..Len(v) + Len(u) : (v \o u)[i] = IF i <= Len(v) THEN v[i] ELSE u[i - Len(v)]
      BY ConcatProperties
    <2>3. Len(v) = b /\ Len(v) + Len(u) = b + y /\ log' = v \o u
      BY <1>6, <1>7, <2>1
    <2>. QED BY <2>1, <2>2, <2>3
  <1>9. ASSUME NEW i \in 2..n
        PROVE  log'[i] = recs[i]
    <2>1. i \in 1..b + y /\ i \in 1..n
      BY <1>1, <1>7, SMT
    <2>2. CASE i <= b
      <3>1. i \in 2..b
        BY <2>2, SMT
      <3>. QED BY <1>2, <1>6, <1>8, <2>1, <2>2, <3>1
    <2>3. CASE ~(i <= b)
      <3>1. i - b \in 1..(n - b) /\ b + (i - b) = i
        BY <1>1, <2>3, SMT
      <3>2. u[i - b] = full[i]
        BY <3>1
      <3>. QED BY <1>2, <1>8, <2>1, <2>3, <3>2
    <2>. QED BY <2>2, <2>3
  <1>10. n <= Len(log')
    BY <1>1, <1>7, <1>8, SMT
  <1>11. Through'
    BY <1>2, <1>3, <1>4, <1>9, <1>10 DEF Through
  <1>. QED BY <1>5, <1>11

\* The step that finds the last records torn off.
LEMMA BreaksOff ==
    ASSUME NEW full \in Seq(Records), NEW ends, NEW E, NEW n \in 1..Len(full), NEW b \in Nat,
           InStep(full, ends, E, n, b), \A i \in b + 1..n : full[i].transactTime = full[n].transactTime,
           recording' = recording, log' = log, status' = "failed"
    PROVE  ReproducesRecording'
  <1>1. Len(full) \in Nat /\ n \in 0..Len(full) /\ n \in Nat
    BY LenProperties
  <1>2. PICK recs \in Seq(Records) : recs = SubSeq(full, 1, n) /\ Len(recs) = n
                                     /\ \A i \in 1..n : recs[i] = full[i]
    BY <1>1, PrefixIs
  <1>3. recording'.records = recs /\ Len(log') = b /\ (\A i \in 2..b : log'[i] = full[i]) /\ b < n
    BY <1>2 DEF InStep
  <1>4. \A i \in 2..b : log'[i] = recs[i]
    <2>1. \A i \in 2..b : i \in 1..n
      BY <1>1, <1>3, SMT
    <2>. QED BY <1>2, <1>3, <2>1
  <1>5. \A i \in b + 1..n : recs[i].transactTime = full[n].transactTime
    <2>1. \A i \in b + 1..n : i \in 1..n
      BY SMT
    <2>. QED BY <1>2, <2>1
  <1>6. Last(recs).transactTime = full[n].transactTime
    <2>1. n \in b + 1..n
      BY <1>1, <1>3, SMT
    <2>. QED BY <1>2, <1>5, <2>1 DEF Last
  <1>7. \A i \in 2..n : i > b => recs[i].transactTime = Last(recs).transactTime
    <2>1. \A i \in 2..n : i > b => i \in b + 1..n
      BY SMT
    <2>. QED BY <1>5, <1>6, <2>1
  <1>. QED BY <1>2, <1>3, <1>4, <1>7 DEF ReproducesRecording

ReplaysOn ==
    /\ status' \in {"replay", "failed"}
    /\ status' = "replay" => Replaying' /\ ReadsForward
    /\ status' = "failed" => ReproducesRecording'

\* A step that finds the end of its batch.
LEMMA BatchStep ==
    ASSUME NEW full, NEW ends, NEW E, NEW M, Account(full, ends, E, M),
           NEW n \in 1..Len(full), NEW b \in ends, InStep(full, ends, E, n, b), ReplayIteration,
           NEW ahead, NEW c, NEW t, NEW batch, NEW r, Turn(full, ends, E, n, b, ahead, c, t, batch, r)
    PROVE  ReplaysOn
  <1>0. /\ ahead = Ahead(full, n, b) /\ ahead \in Seq(Records) /\ Len(ahead) = n - b
        /\ \A k \in 1..(n - b) : ahead[k] = full[b + k]
        /\ c \in 1..(n - b) /\ t \in Nat
        /\ BatchLength(ahead) = c /\ batch = SubSeq(ahead, 1, c)
        /\ \A k \in 1..c : ahead[k].transactTime = t
        /\ c < n - b => ahead[c + 1].transactTime > t
        /\ r = Iteration(E[b], t, ToDispatch(batch)) /\ r \in Runs
        /\ Begins(batch, r.records)
        /\ \/ b + c \in ends /\ E[b + c] = r.e /\ Len(r.records) = c
           \/ c = n - b
    BY DEF Turn
  <1>1. PICK l \in Nat : l = Len(full)
    BY LenProperties DEF Account
  <1>2. /\ full \in Seq(Records) /\ ends \subseteq 1..l
    BY <1>0, <1>1 DEF Account
  <1>3. b \in Nat /\ n \in Nat /\ b < n /\ c \in Nat /\ 0 < c /\ c \in 0..Len(ahead) /\ c <= n - b
    BY <1>0, <1>1, <1>2, SMT
  <1>4. reader.outputBuffer \o Unread = ahead
    BY <1>0, <1>2, <1>3, PendingIs
  <1>5. /\ batch \in Seq(Records) /\ Len(batch) = c /\ \A k \in 1..c : batch[k] = ahead[k]
    <2>1. \A k \in 1..c : ahead[k] \in Records
      <3>1. \A k \in 1..c : k \in 1..Len(ahead)
        BY <1>0, <1>3, SMT
      <3>. QED BY <1>0, <3>1, ElementOfSeq
    <2>2. batch \in Seq(Records) /\ Len(batch) = c
      BY <1>0, <1>3, <2>1, SubSeqProperties, SMT
    <2>3. \A k \in 1..c : SubSeq(ahead, 1, c)[k] = ahead[k]
      BY <1>0, <1>3, SMT
    <2>. QED BY <1>0, <2>2, <2>3
  <1>6. batch # << >> /\ Last(batch).transactTime = t
    <2>1. c \in 1..c
      BY <1>0, <1>3, SMT
    <2>2. batch # << >>
      <3>1. Len(batch) = c /\ c # 0
        BY <1>3, <1>5
      <3>. QED BY <3>1, EmptySeq
    <2>. QED BY <1>0, <1>5, <2>1, <2>2 DEF Last
  <1>7. Does(batch, r) /\ Takes(ahead, c, batch)
    <2>1. engine = E[b]
      BY DEF InStep
    <2>. QED BY <1>0, <1>4, <1>6, <2>1 DEF Does, Takes
  <1>8. PICK u \in Seq(Records) : u = r.records
    BY <1>0 DEF Runs
  <1>9. c <= Len(u) /\ \A k \in 1..c : u[k] = full[b + k]
    <2>1. c <= Len(u) /\ \A k \in 1..c : u[k] = batch[k]
      BY <1>0, <1>5, <1>8 DEF Begins
    <2>2. \A k \in 1..c : k \in 1..(n - b)
      BY <1>0, <1>3, SMT
    <2>. QED BY <1>0, <1>5, <2>1, <2>2
  <1>10. CASE c < n - b
    <2>1. c < Len(ahead) /\ b + c < n /\ b + c \in ends /\ E[b + c] = r.e /\ Len(u) = c
      <3>1. c # n - b /\ b + c < n
        BY <1>0, <1>3, <1>10, SMT
      <3>. QED BY <1>0, <1>8, <1>10, <3>1
    <2>2. ~(ahead[c + 1].transactTime < ahead[c].transactTime)
      <3>1. c + 1 \in 1..Len(ahead) /\ c \in 1..c
        BY <1>0, <1>3, <1>10, SMT
      <3>2. ahead[c + 1].transactTime \in Nat
        <4>1. ahead[c + 1] \in Records
          BY <1>0, <3>1, ElementOfSeq
        <4>. QED BY <1>0, <4>1 DEF Records
      <3>3. ahead[c].transactTime = t /\ ahead[c + 1].transactTime > t
        BY <1>0, <1>10, <3>1
      <3>. QED BY <1>0, <3>2, <3>3, SMT
    <2>3. /\ status' = "replay" /\ recording' = recording
          /\ reader' = [next |-> reader.next + c + 1 - Len(reader.outputBuffer),
                        outputBuffer |-> SubSeq(ahead, c + 1, c + 1)]
          /\ engine' = r.e /\ log' = log \o r.records
      BY <1>6, <1>7, <2>1, <2>2, ReadsOn
    <2>4. InStep(full, ends, E, n, b + c)'
      <3>1. /\ reader' = [next |-> reader.next + c + 1 - Len(reader.outputBuffer),
                          outputBuffer |-> SubSeq(Ahead(full, n, b), c + 1, c + 1)]
            /\ log' = log \o u /\ engine' = E[b + c]
        BY <1>0, <1>8, <2>1, <2>3
      <3>. QED BY <1>0, <1>2, <1>3, <1>9, <2>1, <2>3, <3>1, StaysInStep
    <2>5. Replaying'
      BY <1>0, <2>1, <2>4 DEF Replaying
    <2>6. PICK d \in Nat : d = b + c /\ InStep(full, ends, E, n, d)' /\ d \in 0..n /\ n - d < n - b
      BY <1>0, <1>3, <2>1, <2>4, SMT
    <2>7. reader'.outputBuffer \o Unread' = Ahead(full, n, d)
      BY <1>0, <1>2, <2>6, PendingIsThen
    <2>8. Len(Ahead(full, n, d)) = n - d
      BY <1>0, <1>2, <2>6, AheadLength
    <2>9. ReadsForward
      BY <1>0, <1>4, <2>6, <2>7, <2>8 DEF ReadsForward
    <2>. QED BY <1>0, <2>3, <2>5, <2>9 DEF ReplaysOn
  <1>11. CASE c = n - b
    <2>1. ~(c < Len(ahead)) /\ b + c = n /\ Len(ahead) > 0
      BY <1>0, <1>3, <1>11, SMT
    <2>2. /\ recording' = recording
          /\ reader' = [next |-> Len(recording.records) + 1, outputBuffer |-> << >>]
          /\ recording.torn = "body" => status' = "failed" /\ log' = log
          /\ recording.torn # "body" /\ batch # << >> =>
                status' = "replay" /\ engine' = r.e /\ log' = log \o r.records
      BY <1>7, <2>1, ReadsLast
    <2>3. CASE recording.torn = "body"
      <3>1. status' = "failed" /\ log' = log /\ recording' = recording
        BY <1>0, <2>2, <2>3
      <3>2. \A i \in b + 1..n : full[i].transactTime = full[n].transactTime
        <4>1. ASSUME NEW i \in b + 1..n
              PROVE  i - b \in 1..c /\ i - b \in 1..(n - b) /\ b + (i - b) = i
          BY <1>0, <1>3, <1>11, SMT
        <4>2. n \in b + 1..n
          BY <1>3, SMT
        <4>3. \A i \in b + 1..n : full[i].transactTime = t
          BY <1>0, <4>1
        <4>. QED BY <4>2, <4>3
      <3>3. ReproducesRecording'
        BY <1>2, <1>3, <3>1, <3>2, BreaksOff
      <3>. QED BY <1>0, <3>1, <3>3 DEF ReplaysOn
    <2>4. CASE recording.torn # "body"
      <3>1. status' = "replay" /\ log' = log \o u
        BY <1>0, <1>6, <1>8, <2>2, <2>4
      <3>2. Through' /\ Len(reader'.outputBuffer \o Unread') = 0
        BY <1>2, <1>3, <1>9, <1>11, <2>2, <3>1, GetsThrough
      <3>3. Replaying'
        BY <1>0, <3>2 DEF Replaying
      <3>4. ReadsForward
        BY <1>0, <1>4, <2>1, <3>2 DEF ReadsForward
      <3>. QED BY <1>0, <3>1, <3>3, <3>4 DEF ReplaysOn
    <2>. QED BY <1>0, <2>3, <2>4
  <1>12. c < n - b \/ c = n - b
    BY <1>0, <1>3, SMT
  <1>. QED BY <1>0, <1>10, <1>11, <1>12

LEMMA InStepStep ==
    ASSUME NEW full, NEW ends, NEW E, NEW M, Account(full, ends, E, M),
           NEW n \in 1..Len(full), NEW b \in ends, InStep(full, ends, E, n, b), ReplayIteration
    PROVE  ReplaysOn
  <1>1. b < n
    BY DEF InStep
  <1>2. Turning(full, ends, E, n, b)
    BY <1>1, BatchIs
  <1>3. PICK ahead, c, t, batch, r : Turn(full, ends, E, n, b, ahead, c, t, batch, r)
    BY <1>2 DEF Turning
  <1>. QED BY <1>3, BatchStep

LEMMA ReplayStep ==
    ASSUME IInv, ReplayIteration
    PROVE  IInv' /\ (status' = "replay" => ReadsForward)
  <1>1. status = "replay" /\ Replaying
    BY DEF IInv, ReplayIteration
  <1>2. CASE Through
    <2>1. status' \in {"done", "failed"} /\ ReproducesRecording'
      BY <1>2, EndStep
    <2>. QED BY <2>1 DEF IInv
  <1>3. CASE \E full, ends, E, M :
                /\ Account(full, ends, E, M)
                /\ \E n \in 1..Len(full), b \in ends : InStep(full, ends, E, n, b)
    <2>1. PICK full, ends, E, M :
                /\ Account(full, ends, E, M)
                /\ \E n \in 1..Len(full), b \in ends : InStep(full, ends, E, n, b)
      BY <1>3
    <2>2. PICK n \in 1..Len(full), b \in ends : InStep(full, ends, E, n, b)
      BY <2>1
    <2>3. ReplaysOn
      BY <2>1, <2>2, InStepStep
    <2>. QED BY <2>3 DEF ReplaysOn, IInv
  <1>. QED BY <1>1, <1>2, <1>3 DEF Replaying

LEMMA NextIInv == IInv /\ [Next]_vars => IInv'
  <1> SUFFICES ASSUME IInv, [Next]_vars
               PROVE  IInv'
    OBVIOUS
  <1>1. ASSUME NEW elapsed \in 1..MaxElapsed, NEW n \in 0..MaxMessages,
               NEW messages \in [1..n -> Messages], LiveIteration(elapsed, messages)
        PROVE  IInv'
    BY <1>1, LiveStep
  <1>2. ASSUME NEW n \in 0..Len(log), NEW torn \in {"no", "length", "body"}, Kill(n, torn)
        PROVE  IInv'
    BY <1>2, KillStep
  <1>3. ASSUME NEW seed \in Seeds, Start(seed)
        PROVE  IInv'
    BY <1>3, StartStep
  <1>4. CASE ReplayIteration
    BY <1>4, ReplayStep
  <1>5. CASE UNCHANGED vars
    <2>1. /\ engine' = engine /\ log' = log /\ status' = status
          /\ recording' = recording /\ reader' = reader
      BY <1>5 DEF vars
    <2>2. Live => Live'
      BY <2>1 DEF Live
    <2>3. Killed => Killed'
      BY <2>1 DEF Killed
    <2>4. Unread' = Unread
      BY <2>1 DEF Unread
    <2>5. Through => Through'
      BY <2>1, <2>4 DEF Through
    <2>6. \A full, ends, E, n, b : InStep(full, ends, E, n, b) => InStep(full, ends, E, n, b)'
      BY <2>1 DEF InStep
    <2>7. ASSUME Replaying
          PROVE  Replaying'
      <3>1. CASE Through
        BY <2>5, <3>1, Zenon DEF Replaying
      <3>2. CASE ~Through
        <4>1. PICK full, ends, E, M :
                 /\ Account(full, ends, E, M)
                 /\ \E n \in 1..Len(full), b \in ends : InStep(full, ends, E, n, b)
          BY <2>7, <3>2, Zenon DEF Replaying
        <4>2. PICK n \in 1..Len(full), b \in ends : InStep(full, ends, E, n, b)
          BY <4>1, Zenon
        <4>3. InStep(full, ends, E, n, b)'
          BY <2>6, <4>2, Zenon
        <4>. QED BY <4>1, <4>3, Zenon DEF Replaying
      <3>. QED BY <3>1, <3>2
    <2>8. ReproducesRecording => ReproducesRecording'
      BY <2>1 DEF ReproducesRecording
    <2>. QED BY <2>1, <2>2, <2>3, <2>7, <2>8 DEF IInv
  <1>. QED BY <1>1, <1>2, <1>3, <1>4, <1>5 DEF Next

LEMMA Reproduction == IInv => ReproducesRecording
  <1> SUFFICES ASSUME IInv
               PROVE  ReproducesRecording
    OBVIOUS
  <1>1. CASE status \in {"live", "killed"}
    BY <1>1 DEF ReproducesRecording
  <1>2. CASE status = "replay"
    BY <1>2, Reproduces DEF IInv
  <1>3. CASE status \in {"done", "failed"}
    BY <1>3 DEF IInv
  <1>. QED BY <1>1, <1>2, <1>3 DEF IInv

\* A replay of the log of a live server, wherever that was cut off, writes the same
\* records again, all that nextBatch() returns, although the iterations of run() that
\* wrote nothing are left out: for every arena, seed, generator and sequence of messages.
THEOREM ReproducesAlways == Spec => []ReproducesRecording
  <1>. QED BY InitIInv, NextIInv, Reproduction, PTL DEF Spec

\* In each turn of the replay nextBatch() and pollMessages() read on in the recording, or
\* it is the last: with a record left it takes at least one, with none left it ends.
THEOREM AlwaysReadsForward == Spec => ReplayAdvances
  <1>1. IInv /\ [Next]_vars =>
           [status = "replay" /\ status' = "replay" =>
              Len(reader'.outputBuffer \o Unread') < Len(reader.outputBuffer \o Unread)]_vars
    <2> SUFFICES ASSUME IInv, [Next]_vars, ~(UNCHANGED vars), status = "replay", status' = "replay"
                 PROVE  Len(reader'.outputBuffer \o Unread') < Len(reader.outputBuffer \o Unread)
      OBVIOUS
    <2>1. ReplayIteration
      BY DEF Next, LiveIteration, Kill, Start
    <2>. QED BY <2>1, ReplayStep DEF ReadsForward
  <1>. QED BY <1>1, InitIInv, NextIInv, PTL DEF Spec, ReplayAdvances
=============================================================================
