---------------------------- MODULE TeamBuilders ----------------------------
(***************************************************************************)
(* The builders that do not anneal: greedy, max power, max bonus, naive,   *)
(* challenge live, and the numbers the exhaustive search starts from       *)
(* (team_builder/, build_event_team_main.cc).                              *)
(*                                                                         *)
(* A builder's outcome is the set of teams it may answer: the order of     *)
(* cards that compare equal comes from a hash map.  The empty set is "no   *)
(* teams built".                                                           *)
(***************************************************************************)
EXTENDS Estimators

CONSTANTS KizunaPairs, MinSkills, ChallengePoolLimit  \* 70

Con == INSTANCE TeamConstraints
         WITH MaxChar <- Cardinality(Chars), Pool <- {}, Rarities <- Rarities

-----------------------------------------------------------------------------
(* What all builders share.                                                *)

FilterCardPool(con, pool) == {c \in pool : CardTable[c.id].rarity \notin con.rarities}
OfDistinctChars(S) == \A c, d \in S : c # d => CharOf(c) # CharOf(d)
TeamSets(pool) == {S \in kSubset(TeamSize, pool) : OfDistinctChars(S)}
CharsIn(S) == {CharOf(c) : c \in S}
Leads(con, S) == Con!EligibleLeads(con, CharsIn(S))

\* A set of cards as a team: its skill under the best lead does not depend on the order.
AsTeam(S, wl) == Team(SetToSeq(S), wl)
LeadOk(con, S) == con.minSkill > 0 =>
    ConstrainedLeadSkill(AsTeam(S, 0), Leads(con, S)) >= 100 * con.minSkill
Admissible(con, pool) ==
    {S \in TeamSets(FilterCardPool(con, pool)) : Con!CharacterSetSatisfies(con, CharsIn(S))}

\* Keys of cards and values of teams are functions.
BestBy(value, S) == {x \in S : \A y \in S : value[y] <= value[x]}
OrdersBy(key, S) ==
    {s \in SetToSeqs(S) : \A i \in 1..(Len(s) - 1) : key[s[i]] >= key[s[i + 1]]}

\* Which of its two skills each card is used with is decided last, by expected value.
Versions2(profile, c) ==
    {profile.cards[c.id]} \cup {profile.secondary[id] : id \in {c.id} \cap DOMAIN profile.secondary}
VersionChoices(profile, cards) ==
    {s \in [DOMAIN cards -> UNION {Versions2(profile, c) : c \in Range(cards)}] :
       \A i \in DOMAIN cards : s[i] \in Versions2(profile, cards[i])}
OptimizeSkillSelection(profile, value, cards) ==
    LET choices == VersionChoices(profile, cards)
    IN IF \A s \in choices : value[s] <= value[cards] THEN {cards} ELSE BestBy(value, choices)
Finalized(profile, value, outcomes) ==
    UNION {OptimizeSkillSelection(profile, value, s) : s \in outcomes}

-----------------------------------------------------------------------------
(* Greedy: the pool comes sorted by a key.                                 *)

\* The first card of each character, until there are enough.
GreedyNoConstraints(pool, key) ==
    {S \in TeamSets(pool) : \A c \in S, d \in pool : key[d] > key[c] =>
       \E e \in S : CharOf(e) = CharOf(d) /\ key[e] >= key[d]}

Tops(pool, key) ==
    {c \in pool : \A d \in pool : CharOf(d) = CharOf(c) => key[d] <= key[c]}

\* One character leads; only its card gives way, until the lead's skill suffices.
LedByCard(con, pool, key, tops, S, lead) ==
    /\ S \ {lead} \subseteq tops
    /\ CharOf(lead) \in Leads(con, S)
    /\ LeadOk(con, S)
    /\ \A d \in pool : CharOf(d) = CharOf(lead) /\ key[d] > key[lead] =>
         ~LeadOk(con, (S \ {lead}) \cup {d})
\* The best of one team for each character set and lead.
GreedyWithConstraints(con, pool, key, value) ==
    LET tops == Tops(pool, key)
        Found(S, lead) == [cards |-> S, choice |-> <<CharsIn(S), CharOf(lead)>>, value |-> value[S]]
        found == UNION {{Found(S, lead) : lead \in {c \in S : LedByCard(con, pool, key, tops, S, c)}} :
                          S \in Admissible(con, pool)}
        LeastOf(choice) == Least({f.value : f \in {g \in found : g.choice = choice}})
        atLeast == Max({LeastOf(f.choice) : f \in found})
    IN {f.cards : f \in {g \in found : atLeast <= g.value}}

Greedy(con, pool, key, value) ==
    IF con.empty THEN UNION {OrdersBy(key, S) : S \in GreedyNoConstraints(pool, key)}
    ELSE UNION {OrdersBy([c \in S |-> -CharOf(c)], S) : S \in
                  GreedyWithConstraints(con, FilterCardPool(con, pool), key, value)}

-----------------------------------------------------------------------------
(* Max power: greedy for each way in which a team could match, by the      *)
(* power the cards would have if it does.                                  *)

CandidateStatesPrimaryOnly ==
    [attr : Attrs \cup {"NONE"}, primary : Units \cup {"NONE"}, secondary : {"NONE"}]
CandidateStates ==
    [attr : Attrs \cup {"NONE"}, primary : Units \cup {"NONE"}, secondary : {"NONE", "VS"}]
MatchAssumed(st) ==
    [attr |-> st.attr # "NONE", primary |-> st.primary # "NONE", secondary |-> st.secondary # "NONE"]
FilterCards(st, pool) ==
    {c \in pool : /\ st.attr \in {"NONE", CardTable[c.id].attr}
                  /\ st.primary = "NONE" \/ IsUnit(c.id, st.primary)
                  /\ st.secondary = "NONE" \/ IsUnit(c.id, st.secondary)}
PowerOfCards(profile, cards, wl) == Power(Team(cards, wl), profile)
RecommendForState(con, pool, profile, st, wl) ==
    LET cards == FilterCards(st, pool)
    IN Greedy(con, cards, [c \in cards |-> c.power[MatchAssumed(st)]],
              [S \in TeamSets(cards) |-> Power(AsTeam(S, wl), profile)])

MaxPowerTeams(con, pool, profile, wl) ==
    LET byState == {RecommendForState(con, pool, profile, st, wl) : st \in CandidateStates} \ {{}}
        least == {Least({PowerOfCards(profile, s, wl) : s \in teams}) : teams \in byState}
    IN {s \in UNION byState : \A power \in least : power <= PowerOfCards(profile, s, wl)}

-----------------------------------------------------------------------------
(* Max bonus, naive, challenge live.                                       *)

\* A support deck is scored with the team, of a pool with both versions of a card, as long as
\* the rules of the default version allow.
WithSupport(support, team) == FillSupportCards(team, support, kDefaultWorldBloomVersion)

MaxBonusTeams(con, pool, b) ==
    LET support == GetSortedSupportPool(FilterCardPool(con, pool))
    IN Greedy(con, pool, [c \in pool |-> c.eventBonus],
              [S \in TeamSets(pool) |-> TeamEventBonus(WithSupport(support, AsTeam(S, 0)), b)])

NaiveCandidates(con, pool) == {S \in Admissible(con, pool) : LeadOk(con, S)}
NaiveTeams(con, pool, value) == UNION {SetToSeqs(S) : S \in BestBy(value, NaiveCandidates(con, pool))}

\* Teams of one character: the cards differ.
ChallengeSets(pool) ==
    {S \in kSubset(TeamSize, pool) : \A c, d \in S : c # d => c.id # d.id}
ChallengeLiveTeams(pool, profile, char) ==
    LET own == {c \in pool : CharOf(c) = char}
        score == [S \in ChallengeSets(own) |-> ChallengeLiveScore(profile, AsTeam(S, 0))]
    IN UNION {SetToSeqs(S) : S \in BestBy(score, DOMAIN score)}

\* The card with the greatest skill leads.
ReorderTeamForOptimalSkillValue(cards) ==
    LET best == CHOOSE i \in DOMAIN cards :
                  /\ \A j \in DOMAIN cards : SkillContrib(cards, j) <= SkillContrib(cards, i)
                  /\ \A j \in 1..(i - 1) : SkillContrib(cards, j) < SkillContrib(cards, i)
    IN [i \in DOMAIN cards |-> IF i = 1 THEN cards[best] ELSE IF i = best THEN cards[1] ELSE cards[i]]

-----------------------------------------------------------------------------
(* The exhaustive search starts from the best power and the best bonus:    *)
(* together they tell which cards cannot be in a better team.              *)

EpWithBonus(e, profile, eb, team, leads) ==
    LET skill == Percent(ConstrainedMaxSkillValue(team, leads))
    IN ExpectedEp(e, Power(team, profile), eb, skill, skill) \div Point
EpPoints(e, profile, b, team, leads) == EpWithBonus(e, profile, TeamEventBonus(team, b), team, leads)
\* Power and bonus here are cut to integers, the bonus to whole percents.
SearchOptions(e, profile, b, power, bonus, con) ==
    [maxPower |-> Power(power, profile), minPowerIn |-> MinPowerContrib(power),
     maxBonus |-> TeamEventBonus(bonus, b) \div 100, minBonusIn |-> MinBonusContrib(bonus) \div 100,
     minEp |-> Greater(EpPoints(e, profile, b, power, Leads(con, Range(power.cards))),
                       EpWithBonus(e, profile, 100 * (TeamEventBonus(bonus, b) \div 100), bonus,
                                   Leads(con, Range(bonus.cards))))]

MinBonusToKeep(e, options, ep) ==
    Greater(0, MinRequiredBonus(e, ep, options.maxPower, kMaxSkillValue)
                 - options.maxBonus + options.minBonusIn)
MinPowerToKeep(e, options, ep) ==
    Greater(0, MinRequiredPower(e, ep, 100 * options.maxBonus, kMaxSkillValue)
                 - options.maxPower + options.minPowerIn)
ShouldPrune(e, options, ep, c) ==
    /\ ep > 0
    /\ \/ MaxPower(c) < MinPowerToKeep(e, options, ep)
       \/ c.eventBonus < 100 * MinBonusToKeep(e, options, ep)
=============================================================================
