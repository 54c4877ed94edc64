------------------------------ MODULE Parking ------------------------------
(***************************************************************************)
(* sekai/parking.cc: how to earn exactly `target' points with a team.  A   *)
(* first call of SolveSubsetSumWithRepetition writes the target as a sum   *)
(* of points the team can earn in one play, with repetition; for each of   *)
(* those, a second call writes the number of times it is needed as a sum   *)
(* of boost multipliers.  A call works through a table of sums (small      *)
(* targets) or by simulated annealing (large ones).                        *)
(*                                                                         *)
(* A sum with repetition is a bag of values: the class Sum, a path of the  *)
(* table and the map that is returned.  std::random_device may yield any   *)
(* numbers, so that what happens with a probability strictly between 0 and *)
(* 1 is a choice.                                                          *)
(***************************************************************************)
EXTENDS Integers, SequencesExt

CONSTANTS
  Requests,        (* the calls considered: possible_points and target       *)
  Boosts,          (* kBoostMultipliers                                      *)
  ExhaustiveLimit, (* the largest target solved by the table: 100'000        *)
  MaxSteps,        (* max_steps                                              *)
  EarlyExitSteps   (* early_exit_steps                                       *)

\* (One play earns a few thousand points at most, far below the limit.)
ASSUME ParkingAssumption ==
  /\ \A r \in Requests : r.target \in Int /\ r.points \in Seq(1 .. ExhaustiveLimit)
  /\ Boosts \in Seq(1 .. ExhaustiveLimit) /\ 1 \in Range(Boosts)
  /\ IsSorted(Boosts, <)
  /\ ExhaustiveLimit \in Nat /\ MaxSteps \in Nat \ {0} /\ EarlyExitSteps \in Nat

VARIABLES
  phase,   \* what runs: see TypeOK
  request, \* the arguments of AnnotateTeamProtoWithMultiTurnParkingStrategy
  call,    \* the arguments of the running call of SolveSubsetSumWithRepetition
  place,   \* table: the index i of the outer loop
  last,    \* table: the shortest path known to each sum
  current, best,  \* annealing: current_sum, best_sum
  step, since,    \* annealing: the index i, steps_since_val_changed
  seen,    \* annealing: the greatest value of a sum so far (not in the code)
  result,  \* what the call returned
  sol,     \* how often each number of points is needed
  todo,    \* those not yet turned into plays
  base,    \* the points being turned into plays
  turns    \* multi_turn_parking (sorted at the end: a set stands for it)

annealing == <<current, best, step, since, seen>>
plan == <<request, sol, todo, base, turns>>
vars == <<phase, call, place, last, result, annealing, plan>>

Answer(status, sum) == [status |-> status, sum |-> sum]

\* What a sum adds up to, and how many values it has: Sum::sum, Sum::count.
Total(sum) == SumFunction([v \in DOMAIN sum |-> v * sum[v]])
Count(sum) == SumFunction(sum)
-----------------------------------------------------------------------------
(***************************************************************************)
(* The table of sums: path by sum, with an entry for each sum that the     *)
(* values seen so far can make.                                            *)
(***************************************************************************)

\* The sums that some times val lead from to s, what a path to s through o comes to, and the
\* first of the shortest.
From(table, val, s) == {o \in DOMAIN table : o < s /\ (s - o) % val = 0}
Plays(table, val, s, o) == Count(table[o]) + (s - o) \div val
Origin(table, val, s) ==
  CHOOSE o \in From(table, val, s) : \A p \in From(table, val, s) :
    \/ Plays(table, val, s, o) < Plays(table, val, s, p)
    \/ Plays(table, val, s, o) = Plays(table, val, s, p) /\ o <= p
Path(table, val, s, o) == table[o] (+) [v \in {val} |-> (s - o) \div val]

\* A path stays as long as there is none that is shorter.
Kept(table, val, s) ==
  /\ s \in DOMAIN table
  /\ \/ From(table, val, s) = {}
     \/ /\ table[s] # EmptyBag
        /\ Count(table[s]) <= Plays(table, val, s, Origin(table, val, s))

\* `current[target]' makes an empty entry.
Entries(table, val, goal) ==
  DOMAIN table \cup {s \in 1 .. goal : From(table, val, s) # {}} \cup {goal}

\* (A path is replaced by one of the same length or longer.)
ExtendAnyPath(table, val, goal) ==
  [s \in Entries(table, val, goal) |->
     IF From(table, val, s) = {} THEN IF s \in DOMAIN table THEN table[s] ELSE EmptyBag
     ELSE Path(table, val, s, CHOOSE o \in From(table, val, s) :
                                \A p \in From(table, val, s) : p <= o)]

\* One round of the outer loop.
Extend(table, val, goal) ==
  [s \in Entries(table, val, goal) |->
     IF Kept(table, val, s) THEN table[s]
     ELSE IF From(table, val, s) = {} THEN EmptyBag
     ELSE Path(table, val, s, Origin(table, val, s))]
-----------------------------------------------------------------------------
(***************************************************************************)
(* The annealing over sums.                                                *)
(***************************************************************************)
FillSumWithBound(values, goal) == [v \in {Last(values)} |-> goal \div v]

Mutations(sum, values) ==
  {sum (-) SetToBag({v}) : v \in BagToSet(sum)} \cup {sum (+) SetToBag({v}) : v \in Range(values)}

\* (A sum above the goal is as good as the goal.)
WorthBelow(sum) == IF Total(sum) < call.goal THEN Total(sum) - call.goal ELSE 0

\* GetValue.  `count_goodness = complexity_goodness' leaves the second alone, which is a
\* fraction of the values not in use, cut to an integer.
Worth(sum) ==
  IF Total(sum) # call.goal
  THEN 0 - (IF Total(sum) > call.goal THEN Total(sum) - call.goal ELSE call.goal - Total(sum))
  ELSE (Len(call.values) - Cardinality(BagToSet(sum))) \div Len(call.values)
-----------------------------------------------------------------------------
NoCall == [values |-> <<>>, goal |-> 0]

Init ==
  /\ phase = "idle"
  /\ request \in Requests
  /\ call = NoCall
  /\ place = 0 /\ last = [s \in {0} |-> EmptyBag] /\ result = Answer("none", EmptyBag)
  /\ current = EmptyBag /\ best = EmptyBag /\ step = 0 /\ since = 0 /\ seen = 0
  /\ sol = EmptyBag /\ todo = {} /\ base = 0 /\ turns = {}

\* AnnotateTeamProtoWithMultiTurnParkingStrategy: the first call.
Annotate ==
  /\ phase = "idle"
  /\ phase' = "solve points"
  /\ call' = [values |-> request.points, goal |-> request.target]
  /\ UNCHANGED <<place, last, result, annealing, plan>>

\* The strategy is handed over, and with it all variables of the call are gone.
Forget ==
  /\ phase = "annotated"
  /\ phase' = "idle"
  /\ request' \in Requests
  /\ call' = NoCall
  /\ place' = 0 /\ last' = [s \in {0} |-> EmptyBag] /\ result' = Answer("none", EmptyBag)
  /\ current' = EmptyBag /\ best' = EmptyBag /\ step' = 0 /\ since' = 0 /\ seen' = 0
  /\ sol' = EmptyBag /\ todo' = {} /\ base' = 0 /\ turns' = {}

Solving == phase \in {"solve points", "solve plays"}
Returned == IF sol = EmptyBag THEN "have points" ELSE "have plays"

Return(answer) ==
  /\ phase' = Returned
  /\ result' = answer

\* A value that is out of order or not positive.  The last value is not looked at.
Misplaced(values) ==
  \E i \in 1 .. Len(values) - 1 :
    values[i] > Last(values) \/ values[i] > values[i + 1] \/ values[i] <= 0

\* SolveSubsetSumWithRepetition, where it answers at once.
SolveAtOnce ==
  /\ Solving
  /\ \/ call.goal = 0 /\ Return(Answer("ok", EmptyBag))
     \/ /\ call.goal # 0
        /\ call.goal < 0 \/ call.values = <<>>
        /\ Return(Answer("not found", EmptyBag))
     \/ /\ call.goal > 0 /\ call.values # <<>> /\ Misplaced(call.values)
        /\ Return(Answer("failed precondition", EmptyBag))
  /\ UNCHANGED <<call, place, last, annealing, plan>>

Solvable == call.goal > 0 /\ call.values # <<>> /\ ~Misplaced(call.values)

StartTable ==
  /\ Solving /\ Solvable
  /\ call.goal <= ExhaustiveLimit
  /\ phase' = "table"
  /\ place' = Len(call.values)
  /\ last' = [s \in {0} |-> EmptyBag]
  /\ UNCHANGED <<call, result, annealing, plan>>

\* One round of the outer loop of ExhaustiveSubsetSumWithRepetition: the largest values first.
TakeValue ==
  /\ phase = "table"
  /\ place > 0
  /\ place' = place - 1
  /\ IF call.values[place] > call.goal THEN UNCHANGED <<phase, last, result>>
     ELSE /\ last' = Extend(last, call.values[place], call.goal)
          /\ IF last'[call.goal] = EmptyBag THEN UNCHANGED <<phase, result>>
             ELSE Return(Answer("ok", last'[call.goal]))
  /\ UNCHANGED <<call, annealing, plan>>

\* No sum: the call returns an empty map, not an error.
EndTable ==
  /\ phase = "table"
  /\ place = 0
  /\ Return(Answer("ok", EmptyBag))
  /\ UNCHANGED <<call, place, last, annealing, plan>>

\* ProbabilisticSubsetSumWithRepetition up to its loop.
StartAnnealing ==
  /\ Solving /\ Solvable
  /\ call.goal > ExhaustiveLimit
  /\ phase' = "anneal"
  /\ best' = FillSumWithBound(call.values, call.goal)
  /\ current' = best'
  /\ seen' = Worth(best')
  /\ step' = 0 /\ since' = 0
  /\ UNCHANGED <<call, place, last, result, plan>>

\* (One round too many.)
EndOfStepLate(unchanged) ==
  /\ IF unchanged >= EarlyExitSteps \/ step = MaxSteps
     THEN /\ Return(IF Worth(best') >= 0 THEN Answer("ok", best')
                                         ELSE Answer("exhausted", EmptyBag))
          /\ UNCHANGED <<step, since>>
     ELSE /\ step' = step + 1 /\ since' = unchanged + 1
          /\ UNCHANGED <<phase, result>>
  /\ UNCHANGED <<call, place, last, plan>>

\* The end of a round, with the steps since the best sum changed: stop or go on.
EndOfStep(unchanged) ==
  /\ IF unchanged >= EarlyExitSteps \/ step + 1 = MaxSteps
     THEN /\ Return(IF Worth(best') >= 0 THEN Answer("ok", best')
                                         ELSE Answer("exhausted", EmptyBag))
          /\ UNCHANGED <<step, since>>
     ELSE /\ step' = step + 1 /\ since' = unchanged + 1
          /\ UNCHANGED <<phase, result>>
  /\ UNCHANGED <<call, place, last, plan>>

Look(next) ==
  /\ phase = "anneal"
  /\ next \in Mutations(current, call.values)
  /\ seen' = IF Worth(next) > seen THEN Worth(next) ELSE seen

\* (Compared with the current sum.)
ImproveOnCurrent(next) ==
  /\ Look(next)
  /\ Worth(next) > Worth(current)
  /\ best' = next /\ current' = next
  /\ EndOfStep(0)

Improve(next) ==
  /\ Look(next)
  /\ Worth(next) > Worth(best)
  /\ best' = next /\ current' = next
  /\ EndOfStep(0)

\* Always taken when next is no worse than current_sum, whatever the temperature.
Move(next) ==
  /\ Look(next)
  /\ Worth(next) <= Worth(best)
  /\ current' = next /\ UNCHANGED best
  /\ EndOfStep(since)

Reject(next) ==
  /\ Look(next)
  /\ Worth(next) < Worth(current)
  /\ current' \in {current, best} /\ UNCHANGED best
  /\ EndOfStep(since)

\* The points are found, or there is no strategy.
TakePoints ==
  /\ phase = "have points"
  /\ IF result.status = "ok"
     THEN /\ phase' = "choose" /\ sol' = result.sum /\ todo' = BagToSet(result.sum)
     ELSE /\ phase' = "annotated" /\ UNCHANGED <<sol, todo>>
  /\ UNCHANGED <<request, call, place, last, result, base, turns, annealing>>

\* The second call, for one entry of the first solution (a hash map: in any order).
SolvePlays ==
  /\ phase = "choose"
  /\ \E points \in todo :
       /\ base' = points
       /\ call' = [values |-> Boosts, goal |-> sol[points]]
  /\ phase' = "solve plays"
  /\ UNCHANGED <<request, place, last, result, sol, todo, turns, annealing>>

\* (What could not be split into boosts is left out.)
TakePlaysIfSplit ==
  /\ phase = "have plays"
  /\ turns' = turns \cup {[base |-> base, mult |-> m, plays |-> result.sum[m]] :
                            m \in BagToSet(result.sum)}
  /\ todo' = todo \ {base}
  /\ phase' = "choose"
  /\ UNCHANGED <<request, call, place, last, result, sol, base, annealing>>

TakePlays ==
  /\ phase = "have plays"
  /\ LET plays == IF result.status = "ok" THEN result.sum ELSE [m \in {1} |-> call.goal]
     IN  turns' = turns \cup {[base |-> base, mult |-> m, plays |-> plays[m]] :
                                m \in BagToSet(plays)}
  /\ todo' = todo \ {base}
  /\ phase' = "choose"
  /\ UNCHANGED <<request, call, place, last, result, sol, base, annealing>>

Finish ==
  /\ phase = "choose"
  /\ todo = {}
  /\ phase' = "annotated"
  /\ UNCHANGED <<call, place, last, result, annealing, plan>>

Next ==
  \/ Annotate \/ Forget
  \/ SolveAtOnce
  \/ StartTable \/ TakeValue \/ EndTable
  \/ StartAnnealing
  \/ \E next \in Mutations(current, call.values) : Improve(next) \/ Move(next) \/ Reject(next)
  \/ TakePoints \/ SolvePlays \/ TakePlays \/ Finish

Spec == Init /\ [][Next]_vars
-----------------------------------------------------------------------------
(***************************************************************************)
(* Properties.  The reference for both algorithms: every way to give each  *)
(* value a number of times, in which the total is the goal.                *)
(***************************************************************************)
WaysOf(values, goal) ==
  {way \in [values -> 0 .. goal] : Total(way) = goal}

\* Every variable stays in its range.
TypeOK ==
  /\ phase \in {"idle", "solve points", "solve plays", "table", "anneal", "have points",
                "have plays", "choose", "annotated"}
  /\ request \in Requests
  /\ phase = "table" => place \in 0 .. Len(call.values)
  /\ \A s \in DOMAIN last : IsABag(last[s])
  /\ IsABag(current) /\ IsABag(best) /\ IsABag(sol)
  /\ step \in 0 .. MaxSteps - 1 /\ since \in 0 .. EarlyExitSteps
  /\ result.status \in {"none", "ok", "not found", "failed precondition", "exhausted"}
  /\ todo \subseteq BagToSet(sol)

\* The values the table has been through.
Taken == {call.values[j] : j \in place + 1 .. Len(call.values)}
Reached(table, s) == s \in DOMAIN table /\ table[s] # EmptyBag

IsSumOver(sum, values) == IsABag(sum) /\ BagToSet(sum) \subseteq values
IsShortest(sum, values, s) ==
  /\ IsSumOver(sum, values) /\ Total(sum) = s
  /\ \A way \in WaysOf(values, s) : Count(sum) <= Count(way)

\* Between two rounds the table has an entry for each sum up to the goal that the values seen
\* can make, no other, and the entry is a shortest way to make it.
TableIsShortest ==
  phase = "table" =>
    \A s \in 1 .. call.goal :
      /\ Reached(last, s) <=> WaysOf(Taken, s) # {}
      /\ Reached(last, s) => IsShortest(last[s], Taken, s)

\* A sum that is returned is one of the goal.  An empty one, and no error, is returned only when
\* there is nothing to earn or no way to earn it.
RightAnswer(answer) ==
  IF answer.sum = EmptyBag
  THEN call.goal = 0 \/ WaysOf(Range(call.values), call.goal) = {}
  ELSE /\ IsSumOver(answer.sum, Range(call.values))
       /\ Total(answer.sum) = call.goal
AnswerIsRight ==
  phase \in {"have points", "have plays"} /\ result.status = "ok" => RightAnswer(result)

\* The best sum of the annealing is as good as any it has come across, through moves to worse
\* sums and returns to the best one; a solution once found is never given up.
BestIsBestSeen ==
  phase = "anneal" => Worth(best) = seen /\ Worth(current) <= seen

Earned == SumFunction([t \in turns |-> t.base * t.mult * t.plays])

\* When the first call has found points, the plays of the finished strategy earn the target to
\* the point; for a target within reach of the table there is a strategy whenever some plays
\* earn it.
TurnsEarnTarget ==
  phase = "annotated" =>
    /\ sol # EmptyBag => Earned = request.target
    /\ /\ turns = {}
       /\ request.target \in 1 .. ExhaustiveLimit
       /\ IsSorted(request.points, <=)
       => WaysOf(Range(request.points), request.target) = {}
=============================================================================
