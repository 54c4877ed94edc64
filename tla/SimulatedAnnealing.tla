------------------------ MODULE SimulatedAnnealing ------------------------
(***************************************************************************)
(* sekai/team_builder/simulated_annealing_team_builder.cc with the moves   *)
(* of neighbor_teams.cc and the choice of versions of skill_selector.cc:   *)
(* the builder the page runs, alone or, for a character with many cards,   *)
(* on behalf of ChallengeLiveTeamBuilder.  One action is one round of the  *)
(* loop.                                                                   *)
(*                                                                         *)
(* The random numbers come from std::random_device: what happens with a    *)
(* probability strictly between 0 and 1 is a choice.  So is the outcome    *)
(* of a search that gives up after 100 attempts at random.                 *)
(***************************************************************************)
EXTENDS ConstrainedTeams

CONSTANTS
  Objects,         (* the Constraints objects considered                     *)
  Objective(_, _), (* value of a team under the characters that may lead it  *)
  Estimate(_),     (* EstimatorBase::ExpectedValue of a team                 *)
  Single(_),       (* the conversion of a double to a float                  *)
  MaxSteps, EarlyExitSteps, StepsBeforeCooling, HalfLife, (* Options         *)
  InitialTemp, MinTemp, (* Options, in a small unit                          *)
  Exp              (* std::exp of the whole numbers, in that unit            *)

Slots == 1 .. TeamSize

ASSUME AnnealingAssumption ==
  /\ Objects \subseteq ConstraintsType /\ \A c \in Objects : SoundObject(c)
  /\ \A v, w \in Pool : v.id = w.id => v.char = w.char /\ v.rarity = w.rarity
  /\ \A t \in [Slots -> Pool] :
       /\ Estimate(t) \in Int
       /\ \A c \in Objects \cup {Unconstrained} :
            Objective(t, EligibleLeads(c, CharsOf(t))) \in Int
  /\ MaxSteps \in Nat \ {0} /\ EarlyExitSteps \in Nat
  /\ StepsBeforeCooling \in Nat /\ HalfLife \in Nat \ {0}
  /\ InitialTemp \in Nat /\ MinTemp \in Nat /\ Exp \in [0 .. MaxSteps -> Nat]

Values == {Objective(t, EligibleLeads(c, CharsOf(t))) :
             t \in [Slots -> Pool], c \in Objects \cup {Unconstrained}}
Floats == {Single(v) : v \in Values}

\* Rounding keeps the order (the unit is small: floats are integers too).
ASSUME SingleAssumption ==
  /\ \A x \in Floats : x \in Int /\ Single(x) = x
  /\ \A v, w \in Values \cup Floats : v <= w => Single(v) <= Single(w)

VARIABLES
  phase,   \* "idle", "first", "anneal", "versions", "answered"
  mode,    \* "simple", or "challenge": kChallengeLive and allow_repeat_chars
  con,     \* constraints_
  pool,    \* the filtered pool
  current, currentVal, best, bestVal,
  step, since, temp,  \* i, steps_since_best_val_changed, current_temp
  seen,    \* the greatest value so far, as a float (not in the code)
  answer

call == <<mode, con, pool>>
vars == <<phase, call, current, currentVal, best, bestVal, step, since, temp, seen, answer>>

NoTeam == <<>>
-----------------------------------------------------------------------------
(***************************************************************************)
(* Teams: the first one, those a move away, and the versions of the last.  *)
(***************************************************************************)
\* The first card of each character in the shuffled pool.
FirstCards ==
  {first \in [{card.char : card \in pool} -> pool] :
     \A char \in DOMAIN first : first[char].char = char}

\* (The leader, too, is only tried with his first card.)
TriedFirstOnly(first, team, k) == \A l \in Slots : team[l] = first[team[l].char]

\* The team is one of those tried for the leader in slot k: with each of his cards, and with the
\* first card of each other character.
Tried(first, team, k) == \A l \in Slots \ {k} : team[l] = first[team[l].char]

\* FindAnyValidTeamForChars, for characters in a random order.
ValidTeams(first) ==
  {team \in TeamsOf(pool) :
     /\ CharacterSetSatisfies(con, CharsOf(team))
     /\ \E k \in Slots : MayLead(con, team, k) /\ Tried(first, team, k)
     /\ LeadReaches(con, team)}

\* GetRandomTeamAllowRepeat: any cards, which may be two versions of one.
AnyTeams == {team \in [Slots -> pool] : \A k, l \in Slots : k # l => team[k] # team[l]}

FirstTeams(first) == IF mode = "simple" THEN ValidTeams(first) ELSE AnyTeams

\* (Without SatisfiesConstraints: the characters were checked.)
CharactersViable(k, card) ==
  /\ \A l \in Slots : current[l].id # card.id /\ (l # k => current[l].char # card.char)
  /\ CharacterSetSatisfies(con, CharsOf([current EXCEPT ![k] = card]))

\* MakeTeamIfViable with SimpleNeighborState.
SimpleViable(k, card) ==
  /\ \A l \in Slots : current[l].id # card.id /\ (l # k => current[l].char # card.char)
  /\ CharacterSetSatisfies(con, CharsOf([current EXCEPT ![k] = card]))
  /\ ~con.empty => SatisfiesConstraints(con, [current EXCEPT ![k] = card])

\* (Cards are compared, not their ids.)
OtherCard(k, card) == \A l \in Slots : current[l] # card

\* MakeTeamIfViable with ChallengeLiveNeighborState, whose constraints are empty.
ChallengeViable(k, card) == \A l \in Slots : current[l].id # card.id

Viable(k, card) ==
  IF mode = "simple" THEN SimpleViable(k, card) ELSE ChallengeViable(k, card)

Neighbors ==
  UNION {{[current EXCEPT ![k] = card] : card \in {c \in pool : Viable(k, c)}} : k \in Slots}

\* (Any card of the character.)
CardsOfCharacter(card) == {v \in Pool : v.char = card.char}

\* The one or two versions of a card (Profile::GetCard, GetSecondaryCard).
Versions(card) == {v \in Pool : v.id = card.id}

VersionsOf(team) == {t \in [Slots -> Pool] : \A k \in Slots : t[k] \in Versions(team[k])}

Value(team) == Objective(team, EligibleLeads(con, CharsOf(team)))
-----------------------------------------------------------------------------
Init ==
  /\ phase = "idle"
  /\ mode = "simple" /\ con = Unconstrained /\ pool = {}
  /\ current = NoTeam /\ best = NoTeam /\ currentVal = 0 /\ bestVal = 0
  /\ step = 0 /\ since = 0 /\ temp = InitialTemp /\ seen = 0
  /\ answer = NoTeam

\* RecommendTeams: for an event with constraints, or for a challenge live with a character's cards.
Call ==
  /\ phase = "idle"
  /\ \/ \E c \in Objects : mode' = "simple" /\ con' = c /\ pool' = FilterCardPool(c)
     \/ \E char \in CharIds :
          /\ mode' = "challenge" /\ con' = Unconstrained
          /\ pool' = {card \in Pool : card.char = char}
  /\ phase' = "first"
  /\ UNCHANGED <<current, currentVal, best, bestVal, step, since, temp, seen, answer>>

PickTeam ==
  /\ phase = "first"
  /\ \E first \in FirstCards : \E team \in FirstTeams(first) :
       /\ current' = team /\ currentVal' = Value(team)
       /\ best' = team /\ bestVal' = Value(team)
       /\ seen' = Single(Value(team))
  /\ step' = 0 /\ since' = 0 /\ temp' = InitialTemp
  /\ phase' = "anneal"
  /\ UNCHANGED <<call, answer>>

\* nullopt: the search went through all characters, with these first cards, or through all cards.
NoFirstTeam ==
  /\ phase = "first"
  /\ \E first \in FirstCards : FirstTeams(first) = {}
  /\ answer' = NoTeam
  /\ phase' = "answered"
  /\ UNCHANGED <<call, current, currentVal, best, bestVal, step, since, temp, seen>>

\* (Better than the team at hand.)
ImprovesCurrent(val) == val > currentVal

ImprovesBest(val) == val > bestVal

\* best_team and best_val after a neighbour of value val.
BestAfter(new, val) ==
  /\ best' = IF ImprovesBest(val) THEN new ELSE best
  /\ bestVal' = IF ImprovesBest(val) THEN val ELSE bestVal
  /\ seen' = IF val > seen THEN val ELSE seen

\* The temperature before the floor.
Cooled == IF step > StepsBeforeCooling THEN Exp[(step - StepsBeforeCooling) \div HalfLife] ELSE temp

\* (The bound is tested one round late.)
LastStepLate == step = MaxSteps

LastStep == step + 1 = MaxSteps

\* The end of every round, whether there was a neighbour or not.
EndOfStep(sinceChange) ==
  /\ temp' = IF Cooled <= MinTemp THEN MinTemp ELSE Cooled
  /\ since' = sinceChange + 1
  /\ step' = step + 1
  /\ phase' = IF LastStep \/ (EarlyExitSteps > 0 /\ sinceChange + 1 > EarlyExitSteps)
              THEN "versions" ELSE "anneal"
  /\ UNCHANGED <<call, answer>>

\* GetRandomNeighbor gave up.
NoNeighbor ==
  /\ phase = "anneal"
  /\ EndOfStep(since)
  /\ UNCHANGED <<current, currentVal, best, bestVal, seen>>

\* The neighbour becomes the current team, always if it is no worse.
Move ==
  /\ phase = "anneal"
  /\ \E new \in Neighbors :
       LET val == Single(Value(new)) IN
       /\ current' = new /\ currentVal' = val
       /\ BestAfter(new, val)
       /\ EndOfStep(IF ImprovesBest(val) THEN 0 ELSE since)

\* A worse neighbour is not taken; with a small chance the best team is taken up again.
Refuse ==
  /\ phase = "anneal"
  /\ \E new \in Neighbors :
       LET val == Single(Value(new)) IN
       /\ val < currentVal
       /\ BestAfter(new, val)
       /\ \/ current' = best' /\ currentVal' = bestVal'
          \/ UNCHANGED <<current, currentVal>>
       /\ EndOfStep(IF ImprovesBest(val) THEN 0 ELSE since)

\* OptimizeSkillSelection: the best versions of the cards, in their places; the team as it is
\* unless another is strictly better.  (Which version comes first is left open.)
ChooseVersions ==
  /\ phase = "versions"
  /\ \E team \in VersionsOf(best) :
       /\ \A other \in VersionsOf(best) : Estimate(other) <= Estimate(team)
       /\ Estimate(team) = Estimate(best) => team = best
       /\ answer' = team
  /\ phase' = "answered"
  /\ UNCHANGED <<call, current, currentVal, best, bestVal, step, since, temp, seen>>

\* The caller takes the answer; the next call is made on a fresh builder.
Return ==
  /\ phase = "answered"
  /\ phase' = "idle"
  /\ mode' = "simple" /\ con' = Unconstrained /\ pool' = {}
  /\ current' = NoTeam /\ best' = NoTeam /\ currentVal' = 0 /\ bestVal' = 0
  /\ step' = 0 /\ since' = 0 /\ temp' = InitialTemp /\ seen' = 0
  /\ answer' = NoTeam

Next == Call \/ PickTeam \/ NoFirstTeam \/ NoNeighbor \/ Move \/ Refuse \/ ChooseVersions \/ Return

Spec == Init /\ [][Next]_vars
-----------------------------------------------------------------------------
(***************************************************************************)
(* Properties.                                                             *)
(***************************************************************************)
\* Every variable stays in its range, and a round starts only within the steps allowed.
TypeOK ==
  /\ phase \in {"idle", "first", "anneal", "versions", "answered"}
  /\ mode \in {"simple", "challenge"}
  /\ con \in Objects \cup {Unconstrained} /\ pool \subseteq Pool
  /\ {current, best} \subseteq [Slots -> pool] \cup {NoTeam}
  /\ answer \in [Slots -> Pool] \cup {NoTeam}
  /\ {currentVal, bestVal, seen} \subseteq Int
  /\ phase \in {"anneal", "versions"} => {current, best} \subseteq [Slots -> pool]
  /\ step \in 0 .. MaxSteps /\ since \in 0 .. step /\ temp \in Nat
  /\ phase = "anneal" => step < MaxSteps

\* Every team the loop holds satisfies the constraints: a move is checked on the team it makes,
\* a return to the best team not at all.
HeldTeamsSatisfyConstraints ==
  phase \in {"anneal", "versions"} /\ mode = "simple" =>
    \A team \in {current, best} : team \in TeamsOf(pool) /\ SatisfiesConstraints(con, team)

\* The versions chosen at the end are taken from the whole profile, not from the filtered pool,
\* but the team keeps its characters and its rarities.
AnswerKeepsCharacters ==
  phase = "answered" /\ mode = "simple" /\ answer # NoTeam =>
    /\ answer \in TeamsOf(FilterCardPool(con))
    /\ CharacterSetSatisfies(con, CharsOf(answer))

\* The teams of the same characters in the same places that have the same card in place k.
Replacements(team, k) ==
  {other \in TeamsOf(FilterCardPool(con)) :
     other[k] = team[k] /\ \A l \in Slots : other[l].char = team[l].char}

\* "WARNING: no teams built" is right where the answer does not hang on the order of the shuffled
\* pool: a team is built only if some team satisfies the constraints, and one is built if there
\* is a leader's card that satisfies them whichever cards the other characters are tried with.
\* (If a team only satisfies them with other cards than the first ones, it may be missed.)
AnswerIfAny ==
  phase = "answered" /\ mode = "simple" =>
    /\ answer # NoTeam =>
         \E team \in TeamsOf(FilterCardPool(con)) : SatisfiesConstraints(con, team)
    /\ (\E team \in TeamsOf(FilterCardPool(con)), k \in Slots :
          /\ MayLead(con, team, k)
          /\ \A other \in Replacements(team, k) : SatisfiesConstraints(con, other))
         => answer # NoTeam

\* What is kept as best has the greatest value of all teams looked at, up to the rounding of
\* values to floats, and the current team never has a greater one.
BestIsBestSeen ==
  phase \in {"anneal", "versions"} =>
    /\ Single(bestVal) = seen
    /\ Single(Value(best)) = seen
    /\ currentVal <= bestVal

RepeatedCards(team) == {k \in Slots : \E l \in Slots \ {k} : team[k].id = team[l].id}

\* Two versions of one card are only ever together in a team because the first team had them.
RepeatsOnlyFromStart ==
  [][phase = "anneal" =>
       RepeatedCards(current') \cup RepeatedCards(best')
         \subseteq RepeatedCards(current) \cup RepeatedCards(best)]_vars

\* "To restrict the lead minimum skill to at least 100%, add: min_lead_skill"
\* (data/profile/constraints.textproto:42): so does the team recommended.
AnswerReachesMinSkill ==
  phase = "answered" /\ mode = "simple" /\ answer # NoTeam => SatisfiesConstraints(con, answer)

(***************************************************************************)
(* The inductive invariant: no team is left from an earlier call, the pool *)
(* is the filtered one, the value of the best team is its value or its     *)
(* value as a float, and the properties.                                   *)
(***************************************************************************)
FreshInv ==
  phase \in {"idle", "first"} => current = NoTeam /\ best = NoTeam /\ answer = NoTeam

PoolInv == mode = "simple" /\ phase # "idle" => pool = FilterCardPool(con)

ValueInv ==
  phase \in {"anneal", "versions"} => bestVal \in {Value(best), Single(Value(best))}

AnnealingInv ==
  /\ TypeOK
  /\ FreshInv
  /\ PoolInv
  /\ ValueInv
  /\ HeldTeamsSatisfyConstraints
  /\ AnswerKeepsCharacters
  /\ AnswerIfAny
  /\ BestIsBestSeen
=============================================================================
