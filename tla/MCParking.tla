----------------------------- MODULE MCParking -----------------------------
(***************************************************************************)
(* Two or three values, targets on both sides of the limit of the table.   *)
(***************************************************************************)
EXTENDS Parking

CONSTANT MaxTarget  \* bound: the greatest target

\* Sorted as the game's points are, with one value, a gap and a repeated value; one list is out
\* of order and one is empty.
MCPoints == {<<2, 3, 6>>, <<3, 4, 5>>, <<1>>, <<4, 7>>, <<2, 2, 5>>, <<3, 2>>, <<>>}

MCRequests == [points : MCPoints, target : -1 .. MaxTarget]

MCBoosts == <<1, 2, 3>>
=============================================================================
