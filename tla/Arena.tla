------------------------------- MODULE Arena -------------------------------
(***************************************************************************)
(* The arena grid and the snake bodies that live on it: the constants of   *)
(* ServerConfig.h, the linked list of PlayerNode in Player.h, and the four *)
(* moves of SnakeServer::moveSnake.                                        *)
(*                                                                         *)
(* A cell is a pair <<x, y>>; x grows to the right and y grows downwards.  *)
(* The playable cells are 1..Width by 1..Height, row and column 0 and      *)
(* Width + 1 / Height + 1 are the walls.                                   *)
(***************************************************************************)
EXTENDS Integers, Sequences

CONSTANTS Width, Height

ASSUME ArenaAssumption ==
    /\ Width \in Nat /\ Width >= 2
    /\ Height \in Nat /\ Height >= 2

Cells == (1..Width) \X (1..Height)

\* A head may stand one step outside, between the move and the collision check.
CellsAndWalls == (0..Width + 1) \X (0..Height + 1)

\* The random cells of placeFood and placeSpeedBoost: never the last row or column.
DropCells == (1..Width - 1) \X (1..Height - 1)

Directions == {"^", "v", "<", ">"}

Opposite(d) ==
    CASE d = "^" -> "v"
      [] d = "v" -> "^"
      [] d = "<" -> ">"
      [] d = ">" -> "<"

Step(cell, d) ==
    CASE d = "^" -> <<cell[1], cell[2] - 1>>
      [] d = "v" -> <<cell[1], cell[2] + 1>>
      [] d = "<" -> <<cell[1] - 1, cell[2]>>
      [] d = ">" -> <<cell[1] + 1, cell[2]>>

(***************************************************************************)
(* A snake is a singly linked list of nodes, each with its position and    *)
(* the position it had before its last move.  Every node but the last has  *)
(* its previous position under its successor (moveTo hands it down), so    *)
(* the list is the sequence of positions "segs" plus "tailPrev", the       *)
(* previous position of the last node.                                     *)
(***************************************************************************)
HeadOf(segs) == segs[1]

BodyCells(segs) == {segs[i] : i \in 2..Len(segs)}

\* PlayerNode::moveTo, recursively from the head to the tail.
MoveTo(segs, cell) == [i \in 1..Len(segs) |-> IF i = 1 THEN cell ELSE segs[i - 1]]

\* The previous position of the last node once the list has moved.
TailPrevAfterMove(segs) == segs[Len(segs)]

\* PlayerNode::grow: the new tail is created at the old tail's previous position,
\* which is also its own previous position.
Grow(segs, tailPrev) == Append(segs, tailPrev)
=============================================================================
