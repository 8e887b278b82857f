----------------------------- MODULE BestOfFive -----------------------------
(***************************************************************************)
(* What a match of Tron promises: rounds are won by one player or tied,    *)
(* which scores for both, and the match is over at three points.           *)
(***************************************************************************)
EXTENDS Naturals

VARIABLE score

Sides == {1, 2}
ToWin == 3

Init == score = [i \in Sides |-> 0]

MatchOver == \E i \in Sides : score[i] = ToWin

Award(scorers) ==
  /\ ~MatchOver
  /\ score' = [i \in Sides |-> score[i] + IF i \in scorers THEN 1 ELSE 0]

Next == \E scorers \in (SUBSET Sides) \ {{}} : Award(scorers)

Spec == Init /\ [][Next]_score
=============================================================================
