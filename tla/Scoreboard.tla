----------------------------- MODULE Scoreboard -----------------------------
(***************************************************************************)
(* What the server promises the people who watch the scoreboard, with no   *)
(* arena, clock or message in sight.  A client that joins starts at one    *)
(* point and keeps its score if it joins again; a score only ever grows,   *)
(* by one point at a time; a client disappears by leaving or by dying; the *)
(* best score is the best that any player has had at the end of a round;   *)
(* and every change is announced as it then stands.                        *)
(*                                                                         *)
(* GameFeed implements this specification.                                 *)
(***************************************************************************)
EXTENDS Integers

CONSTANT Clients

VARIABLES
    scores,     \* the score of each client in the game
    best,       \* the best score so far
    shown,      \* scores and best as last announced
    pending     \* there is something to announce

scoreboardVars == <<scores, best, shown, pending>>

Playing == DOMAIN scores

Init ==
    /\ scores = << >>
    /\ best = 0
    /\ shown = [scores |-> << >>, best |-> 0]
    /\ pending = FALSE

Join(c) ==
    /\ scores' = [d \in Playing \cup {c} |-> IF d \in Playing THEN scores[d] ELSE 1]
    /\ pending' = TRUE
    /\ UNCHANGED <<best, shown>>

Leave(c) ==
    /\ scores' = [d \in Playing \ {c} |-> scores[d]]
    /\ pending' = TRUE
    /\ UNCHANGED <<best, shown>>

\* The snakes have moved.
Stir ==
    /\ pending' = TRUE
    /\ UNCHANGED <<scores, best, shown>>

\* The best of a set of scores and the old best.
Better(seen, old) == CHOOSE s \in seen \cup {old} : \A t \in seen \cup {old} : t <= s

\* Of the players some die and some of the others score.
Round(dead, scoring) ==
    /\ pending
    /\ scores' = [c \in Playing \ dead |-> IF c \in scoring THEN scores[c] + 1 ELSE scores[c]]
    /\ best' = Better({scores[c] : c \in Playing} \cup {scores[c] + 1 : c \in scoring}, best)
    /\ UNCHANGED <<shown, pending>>

Announce ==
    /\ pending
    /\ shown' = [scores |-> scores, best |-> best]
    /\ pending' = FALSE
    /\ UNCHANGED <<scores, best>>

Next ==
    \/ \E c \in Clients : Join(c) \/ Leave(c)
    \/ Stir
    \/ \E dead \in SUBSET Playing : \E scoring \in SUBSET (Playing \ dead) :
          Round(dead, scoring)
    \/ Announce

Spec == Init /\ [][Next]_scoreboardVars /\ WF_scoreboardVars(Announce)
=============================================================================
