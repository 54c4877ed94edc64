----------------------------- MODULE TeamSearch -----------------------------
(***************************************************************************)
(* What a best-team search promises, with no threads, blocks or pools: the *)
(* teams in scope are settled in any order and in any portions, none of    *)
(* them before the best score known beats it, the best score only grows    *)
(* and always has a team behind it that is worth at least as much, and the *)
(* answer is given when no team is left.                                   *)
(***************************************************************************)
EXTENDS TeamProblem

VARIABLES
  problem,    \* the instance being solved
  open,       \* the teams in scope that are not settled yet
  bestEp,     \* best score known
  bestTeam,   \* the team it was recorded for
  done        \* the answer bestTeam was given

vars == <<problem, open, bestEp, bestTeam, done>>

Init ==
  /\ problem \in Problems
  /\ open = Scope(problem)
  /\ bestEp = problem.minEp
  /\ bestTeam = NoTeam
  /\ done = FALSE

\* Some teams are settled; a better team may have been found among all those looked at.
Settle ==
  /\ ~done
  /\ open' \subseteq open
  /\ \/ UNCHANGED <<bestEp, bestTeam>>
     \/ /\ bestEp' > bestEp
        /\ bestTeam' \in Eligible(problem)
        /\ bestEp' <= problem.ep[bestTeam']
  /\ \A d \in open \ open' : Beaten(problem, d, bestEp')
  /\ UNCHANGED <<problem, done>>

Answer ==
  /\ ~done
  /\ open = {}
  /\ done' = TRUE
  /\ UNCHANGED <<problem, open, bestEp, bestTeam>>

Next == Settle \/ Answer

Spec == Init /\ [][Next]_vars
=============================================================================
