----------------------------- MODULE Estimators -----------------------------
(***************************************************************************)
(* What a team is expected to earn: the event point estimators             *)
(* (estimator.cc), the challenge live score (challenge_live_estimator.cc)  *)
(* and the objectives the builders maximise (optimization_objective.cc).   *)
(*                                                                         *)
(* The code computes in floating point.  Here the parameters of an         *)
(* estimator are in hundredths, and points in units of 1/50000, the        *)
(* resolution at which whole percents of skill differ.                     *)
(***************************************************************************)
EXTENDS Teams

CONSTANTS
    Songs,              \* MusicMeta rows: see MakeEstimator
    SoloSongs,          \* the songs considered for a challenge live
    EbiSong,            \* the song played solo to earn an exact number of points
    EpFactor,           \* by mode: 2000000, 1700000
    ThirdPartySkill,    \* skill assumed of the other players: 180
    kMinSkillValue, kMaxSkillValue, kMaxEventBonus, kMaxScore, kMaxBaseEventPoint,
    PowerBucket, EventBonusBucket,  \* widths: 2^12, 2^4
    MySakiStep,         \* 4500
    SoloScoreStep,      \* 20000
    BoostMultipliers

ASSUME ScoresAssumption ==
    /\ SoloScoreStep \in Nat \ {0} /\ kMaxScore \in Nat /\ kMaxEventBonus \in Nat
    /\ kMinSkillValue \in Nat /\ kMaxSkillValue \in Nat
    /\ PowerBucket \in Nat \ {0} /\ EventBonusBucket \in Nat \ {0}

Modes == {"solo", "multi", "cheerful", "auto"}

\* Rates and scores are natural numbers, and a song is rated at expert, from which multi live is.
ASSUME SongsAssumption ==
    /\ IsFiniteSet(Songs) /\ \E s \in Songs : s.difficulty = "expert"
    /\ \A s \in Songs :
         /\ s.eventRate \in Nat /\ s.base \in Nat /\ s.fever \in Nat /\ s.baseAuto \in Nat
         /\ \A scores \in {s.skillSolo, s.skillMulti, s.skillAuto} :
              scores \in Seq(Nat) /\ scores # <<>>
    /\ EpFactor \in [Modes -> Nat \ {0}] /\ ThirdPartySkill \in Nat
Point == 50000

\* Toward zero, as a cast to int.
Truncated(n, d) == IF n >= 0 THEN n \div d ELSE -((-n) \div d)
\* (n * q) \div d for n, q >= 0, without the large product.
MulDiv(n, q, d) == (n \div d) * q + ((n % d) * q) \div d

-----------------------------------------------------------------------------
(* The parameters of an estimator: means over the songs it stands for.     *)

ScoreFactor(mode) == IF mode \in {"multi", "cheerful"} THEN 123 ELSE 100
LifeFactor(mode) == IF mode = "cheerful" THEN 135 ELSE 100
BaseScore(mode, song) ==
    CASE mode = "solo" -> song.base
      [] mode \in {"multi", "cheerful"} -> song.base + song.fever
      [] mode = "auto" -> song.baseAuto
\* The last of the skill scores is the encore's.
SkillScores(mode, song) ==
    CASE mode = "solo" -> song.skillSolo
      [] mode \in {"multi", "cheerful"} -> song.skillMulti
      [] mode = "auto" -> song.skillAuto

MeanOf(f) == MapThenSumSet(LAMBDA s : f[s], DOMAIN f) \div Cardinality(DOMAIN f)
PerPower(mode, mean) == (4 * LifeFactor(mode) * mean) \div EpFactor[mode]
MakeEstimator(mode, songs) ==
    [a |-> (ScoreFactor(mode) * LifeFactor(mode) * MeanOf([s \in songs |-> s.eventRate])) \div 100,
     b |-> PerPower(mode, MeanOf([s \in songs |-> s.eventRate * BaseScore(mode, s)])),
     c |-> PerPower(mode, MeanOf([s \in songs |->
             s.eventRate * SumOfValues(Front(SkillScores(mode, s)))])),
     d |-> PerPower(mode, MeanOf([s \in songs |->
             s.eventRate * Last(SkillScores(mode, s))]))]
RandomExEstimator(mode) == MakeEstimator(mode, {s \in Songs : s.difficulty = "expert"})

-----------------------------------------------------------------------------
(* Expected event points.  Skills are whole percents; five players each    *)
(* count a fifth of theirs.                                                *)

Shared(skill) == 4 * ThirdPartySkill + skill
RatePerPower(e, skill, encore) == 500 * e.b + skill * e.c + encore * e.d
EpAt(e, power, eb, skill, encore) ==
    MulDiv(500 * e.a + power * RatePerPower(e, skill, encore), 10000 + eb, 10000)
ExpectedEp(e, power, eb, player, encore) == EpAt(e, power, eb, Shared(player), Shared(encore))

\* The encore's skill is known.
ExpectedEpFixedEncore(e, power, eb, player, encore) == EpAt(e, power, eb, Shared(player), 5 * encore)

\* The least power (or 0), and the least bonus in percent, that can earn ep points.
MinRequiredPower(e, ep, eb, skill) ==
    LET beyond == 1000000 * ep - e.a * (10000 + eb)
    IN IF beyond <= 0 THEN 0
       ELSE MulDiv(beyond, 500, 10000 + eb) \div RatePerPower(e, Shared(skill), Shared(skill))
MinRequiredBonus(e, ep, power, skill) ==
    LET ofTeam == 500 * e.a + power * RatePerPower(e, Shared(skill), Shared(skill))
    IN Truncated(100 * Point * ep - 100 * ofTeam, ofTeam)

LookupOneCorner(e, power, percent) ==
    LET i == power \div PowerBucket
        j == percent \div EventBonusBucket
        At(skill) == ExpectedEp(e, i * PowerBucket, 100 * j * EventBonusBucket, skill, skill) \div Point
    IN [lower |-> At(kMinSkillValue), upper |-> At(kMaxSkillValue) + 1]
\* The entry of the lookup table for a team's power and bonus in percent.
LookupEstimatedEp(e, power, percent) ==
    LET i == power \div PowerBucket
        j == percent \div EventBonusBucket
    IN [lower |-> ExpectedEp(e, i * PowerBucket, 100 * j * EventBonusBucket,
                             kMinSkillValue, kMinSkillValue) \div Point,
        upper |-> ExpectedEp(e, (i + 1) * PowerBucket, 100 * (j + 1) * EventBonusBucket,
                             kMaxSkillValue, kMaxSkillValue) \div Point + 1]

EpOfTeam(e, profile, b, team, skill) ==
    ExpectedEp(e, Power(team, profile), TeamEventBonus(team, b), skill, skill)
ExpectedValue(e, profile, b, team) == EpOfTeam(e, profile, b, team, Percent(SkillValue(team)))
MaxExpectedValue(e, profile, b, team, leads) ==
    EpOfTeam(e, profile, b, team, Percent(ConstrainedMaxSkillValue(team, leads)))

\* MySekai: a step for each MySakiStep of power.  (Smooth: up to a constant factor.)
MySakiEp(profile, b, team) ==
    500 * (((100 + Power(team, profile) \div MySakiStep) * (10000 + TeamEventBonus(team, b)))
             \div 1000000)
SmoothMySakiEp(profile, b, team) ==
    MulDiv(100 * MySakiStep + Power(team, profile), 10000 + TeamEventBonus(team, b), 10000)

-----------------------------------------------------------------------------
(* The score of a challenge live: the skills in the order of the places    *)
(* that gain most from them, the best skill once more at the end.  Scores  *)
(* are in hundredths; a song's factors are whole numbers.                  *)

Descending(values) == SortSeq(values, >)
SongValue(song, power, skills) ==
    LET places == Append(Descending(Front(song.skillSolo)), Last(song.skillSolo))
    IN 4 * power * (SumOfValues([i \in DOMAIN skills |-> places[i] * skills[i]]) + 100 * song.base)
SortedSkills(cards) ==
    LET whole == Descending([i \in DOMAIN cards |-> GetSkillValues(cards)[i] \div 100])
        padded == whole \o [i \in 1..(TeamSize - Len(whole)) |-> 0]
    IN Append(padded, padded[1])
SoloScore(songs, profile, team) ==
    Max({SongValue(s, Power(team, profile), SortedSkills(team.cards)) : s \in songs})
ChallengeLiveScore(profile, team) == SoloScore(SoloSongs, profile, team)
\* Scaled by the player's accuracy, in percent; still in hundredths.
EbiScore(profile, team, accuracy) == (SoloScore({EbiSong}, profile, team) * accuracy) \div 100

-----------------------------------------------------------------------------
(* Objectives.                                                             *)

\* The points of a solo play of EbiSong, by score and bonus.
SoloEbiPoints(score, eb) == ((100 + score \div SoloScoreStep) * (10000 + eb)) \div 10000

\* Scores that start a step, below a limit in hundredths.
Steps(limit) == {k * SoloScoreStep : k \in 0..((limit - 1) \div (100 * SoloScoreStep))}
GetSoloEbiBasePoints(profile, b, team, accuracy) ==
    {SoloEbiPoints(score, TeamEventBonus(team, b)) : score \in Steps(EbiScore(profile, team, accuracy))}

\* The points one play without boost must earn: the target over a multiplier that divides it.
BaseTargets(target) == {target \div m : m \in {n \in Range(BoostMultipliers) : target % n = 0}}

\* The least score that earns a base target, for each whole bonus for which there is one.
ScoresThatHit(eb, target) ==
    {s \in Steps(100 * kMaxScore) : SoloEbiPoints(s, 100 * eb) \in {t \in BaseTargets(target) : t >= 100}}
ViableScores(target) ==
    [eb \in {n \in 0..(kMaxEventBonus - 1) : ScoresThatHit(n, target) # {}} |->
       Least(ScoresThatHit(eb, target))]

ClosestViableBelow(viable, eb) ==
    LET below == {n \in DOMAIN viable : 100 * n < eb}
    IN IF below # {} THEN Max(below) ELSE Least(DOMAIN viable)
\* The next viable bonus, or, when all are smaller, the first of them.
ClosestViable(viable, eb) ==
    LET above == {n \in DOMAIN viable : 100 * n >= eb}
    IN IF above # {} THEN Least(above) ELSE Least(DOMAIN viable)

Distance(m, n) == IF m > n THEN m - n ELSE n - m

\* In thousandths: negative as long as the bonus is not exact or the score does not suffice;
\* otherwise the share of the score to spare, rounded up to a percent.
RoundedUp(n, d) == -((-n) \div d)
ExactPointsFor(minScore, bonusOff, maxScore) ==
    IF bonusOff > 0 \/ 100 * minScore > maxScore
    THEN -(100 * bonusOff + RoundedUp(Greater(0, 100 * minScore - maxScore), 100))
    ELSE IF minScore = 0 THEN 100000
         ELSE 1000 * RoundedUp(maxScore - 100 * minScore, RoundedUp(maxScore, 100))
ExactPointsAt(viable, eb, maxScore) ==
    ExactPointsFor(viable[ClosestViable(viable, eb)], Distance(100 * ClosestViable(viable, eb), eb),
                   maxScore)
MinusInfinity == -2000000000
ExactPoints(viable, accuracy, profile, b, team) ==
    IF DOMAIN viable = {} THEN MinusInfinity
    ELSE ExactPointsAt(viable, TeamEventBonus(team, b), EbiScore(profile, team, accuracy))

\* How the team can earn the target in one play: a multiplier, and the step its score falls in.
GetViableStrategies(target, accuracy, profile, b, team) ==
    {st \in [multiplier : {n \in Range(BoostMultipliers) : target % n = 0},
             scoreLb : Steps(EbiScore(profile, team, accuracy))] :
       SoloEbiPoints(st.scoreLb, TeamEventBonus(team, b)) = target \div st.multiplier}

\* Power first; then skill, and points only to tell teams of one skill apart.
FillTeamValue(minPower, e, profile, b, team, leads) ==
    IF Power(team, profile) < minPower THEN 10 * (Power(team, profile) - minPower)
    ELSE 10000 * Percent(ConstrainedMaxSkillValue(team, leads))
           + MaxExpectedValue(e, profile, b, team, leads) \div (50 * kMaxBaseEventPoint)

\* The value of a team under an objective, by name.
Objective(name, e, profile, b, team, leads) ==
    CASE name = "points" -> MaxExpectedValue(e, profile, b, team, leads)
      [] name = "power" -> Power(team, profile)
      [] name = "bonus" -> TeamEventBonus(team, b)
      [] name = "skill" -> ConstrainedMaxSkillValue(team, leads)
      [] name = "mysaki" -> SmoothMySakiEp(profile, b, team)
      [] name = "fill" -> FillTeamValue(0, e, profile, b, team, leads)
=============================================================================
