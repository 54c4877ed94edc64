---------------------------- MODULE TeamPlanning ----------------------------
(***************************************************************************)
(* A profile being edited, and teams being built from it: the part of      *)
(* Controller that keeps profile, event bonus and estimator in step with   *)
(* the saved data (UpdateProfile, OnProfileUpdate), and the builders run   *)
(* on them.  The page runs the challenge live builder; the command line    *)
(* programs load a profile and run the others.                             *)
(***************************************************************************)
EXTENDS TeamBuilders

CONSTANTS
    Saved,          \* the saved data the page may start from
    OwnEdits, NumberEdits, FlagEdits, EpisodeEdits,  \* fields of cards, and what they are set to
    AreaEdits, RankEdits, TitleEdits, FixtureEdits, GateEdits, EventEdits,
    CustomAttrs, CustomChars, CustomChapters,
    CsvFiles,       \* files imported
    Asked,          \* the constraints the builders are given
    NaiveAsked,     \* constraints and the name of an objective
    Targets, Accuracy,
    MaxEdits        \* bound on the edits of a run

VARIABLES
    proto,      \* profile_proto_: the data that is saved
    offset,     \* the flag subunitless_offset
    eventBonus, \* event_bonus_
    profile,    \* profile_
    mode,       \* estimator_mode_
    answer,     \* what the last builder answered, until the profile changes
    edits       \* number of edits so far (not in the code)

page == <<proto, offset, eventBonus, profile, mode>>
vars == <<page, answer, edits>>

NoAnswer == [by |-> "none"]

-----------------------------------------------------------------------------
(* The inputs: the rules of the event have a rate for every card, whatever *)
(* file is imported.                                                       *)

Rated(state) ==
    /\ {"masterRank", "skillLevel"} \subseteq DOMAIN state
    /\ state.masterRank \in 0..kMasterRankMax /\ state.skillLevel \in 1..kSkillLevelMax
Loadable(p) ==
    /\ {"cards", "wlVersion", "title", "ranks"} \subseteq DOMAIN p
    /\ p.title \in Nat
    /\ Chars \subseteq DOMAIN p.ranks /\ \A char \in Chars : p.ranks[char] \in Nat
    /\ \A id \in DOMAIN p.cards : Rated(p.cards[id])
    /\ p.wlVersion \in Versions \cup {0}
Rows == [id : Nat, owned : BOOLEAN, readable : BOOLEAN, masterRank : Int, skillLevel : Int,
         canvas : BOOLEAN]

ASSUME InputsAssumption ==
    /\ \A p \in Saved : Loadable(p)
    /\ \A e \in NumberEdits :
         /\ e.field = "masterRank" => e.value \in 0..kMasterRankMax
         /\ e.field = "skillLevel" => e.value \in 1..kSkillLevelMax
    /\ \A e \in FlagEdits : e.field \in {"trained", "canvas"}
    /\ TitleEdits \subseteq Nat
    /\ \A e \in RankEdits : e.rank \in Nat
    /\ \A rows \in CsvFiles : rows \in Seq(Rows)
    /\ \A con \in Asked : Con!SoundObject(con)
    /\ \A asked \in NaiveAsked :
         asked.objective \in {"points", "power", "bonus", "skill", "mysaki", "fill"}

-----------------------------------------------------------------------------
(* Keeping in step.                                                        *)

WorldBloomVersionOf(p) ==
    CASE p.event = 0 /\ p.wlVersion # 0 -> p.wlVersion
      [] p.event = 0 /\ p.wlVersion = 0 -> kDefaultWorldBloomVersion
      [] OTHER -> GetWorldBloomVersion(p.event)
EventBonusFor(p, off) ==
    IF p.event > 0 THEN EventBonusById(p.event, p.chapter, WorldBloomVersionOf(p), off)
    ELSE EventBonusBySimple(p.custom, WorldBloomVersionOf(p), off)
OffsetFor(p) == IF p.useOld THEN kSubunitlessOffset ELSE 0

\* Without an event the mode stays what it was.
ModeFor(p, old) ==
    IF p.event = 0 THEN old
    ELSE IF p.event \in DOMAIN Events /\ Events[p.event].type = "CHEERFUL_CARNIVAL" THEN "cheerful"
    ELSE "multi"
EstimatorFor == [m \in {"multi", "cheerful"} |-> RandomExEstimator(m)]

\* A live earns something without power, and power is worth something.
ASSUME EstimatorAssumption ==
    \A m \in {"multi", "cheerful"} : EstimatorFor[m].a > 0 /\ EstimatorFor[m].b > 0

Init ==
    /\ proto \in Saved
    /\ eventBonus = EventBonusFor(proto, 0)
    /\ profile = ApplyEventBonus(NewProfile(proto), eventBonus)
    /\ offset = OffsetFor(proto)
    /\ mode = ModeFor(proto, "multi")
    /\ answer = NoAnswer
    /\ edits = 0

UpdateProfileOffsetKept(p, oldMode) ==
    /\ edits < MaxEdits
    /\ edits' = edits + 1
    /\ proto' = p
    /\ eventBonus' = EventBonusFor(p, 0)
    /\ profile' = ApplyEventBonus(NewProfile(p), eventBonus')
    /\ offset' = OffsetFor(p)
    /\ mode' = ModeFor(p, oldMode)
    /\ answer' = NoAnswer
\* The bonus is computed before the flag is set.
UpdateProfile(p, oldMode) ==
    /\ edits < MaxEdits
    /\ edits' = edits + 1
    /\ proto' = p
    /\ eventBonus' = EventBonusFor(p, offset)
    /\ profile' = ApplyEventBonus(NewProfile(p), eventBonus')
    /\ offset' = OffsetFor(p)
    /\ mode' = ModeFor(p, oldMode)
    /\ answer' = NoAnswer
Update(p) == UpdateProfile(p, mode)

-----------------------------------------------------------------------------
(* Edits.                                                                  *)

With(f, key, value) == [k \in DOMAIN f \cup {key} |-> IF k = key THEN value ELSE f[k]]
Without(f, key) == [k \in DOMAIN f \ {key} |-> f[k]]

\* A card that is owned already keeps its state.
SetCardOwned(id, state) ==
    Update([proto EXCEPT !.cards =
              CASE state /\ id \in DOMAIN @ -> @
                [] state /\ id \notin DOMAIN @ -> With(@, id, CreateMaxCardState(id))
                [] ~state -> Without(@, id)])
\* SetCardLevel, SetCardMasterRank, SetCardSkillLevel, SetCardTrained, SetCardCanvasCrafted and
\* SetCardEpisodeRead: each sets a field to another value.
SetCardField(id, field, value) ==
    /\ id \in DOMAIN proto.cards
    /\ proto.cards[id][field] # value
    /\ Update([proto EXCEPT !.cards[id][field] = value])

SetAreaItemLevel(item, level) ==
    /\ proto.areaItems[item] # level
    /\ Update([proto EXCEPT !.areaItems[item] = level])
SetCharacterRank(char, rank) ==
    /\ proto.ranks[char] # rank
    /\ Update([proto EXCEPT !.ranks[char] = rank])
SetTitleBonus(bonus) ==
    /\ proto.title # bonus
    /\ Update([proto EXCEPT !.title = bonus])
SetMySekaiFixtureCrafted(id) ==
    Update([proto EXCEPT !.fixtures = IF id \in @ THEN @ \ {id} ELSE @ \cup {id}])
SetMySekaiGateLevel(gate, level) ==
    /\ proto.gates[gate] # level
    /\ Update([proto EXCEPT !.gates[gate] = level])

\* Taking the event away goes back to the estimator for multi lives.
SetEventBonusByEvent(event, chapter) ==
    UpdateProfile([proto EXCEPT !.event = event, !.chapter = IF event = 0 THEN 0 ELSE chapter],
                  IF event = 0 THEN "multi" ELSE mode)
SetCustomEventAttr(attr) == Update([proto EXCEPT !.custom.attr = attr])
SetCustomEventCharacter(cu, state) ==
    Update([proto EXCEPT !.custom.chars = IF state THEN @ \cup {cu} ELSE @ \ {cu}])
SetCustomEventChapter(char) == Update([proto EXCEPT !.custom.chapterChar = char])
SetCustomEventWorldBloomVersion(version) == Update([proto EXCEPT !.wlVersion = version])
SetUseOldSubunitlessBonus(state) == Update([proto EXCEPT !.useOld = state])

\* The file is read into a profile of its own; only what is read without error replaces the cards.
ImportCardsFromCsv(rows) ==
    /\ LoadCardsFromCsv(rows).ok
    /\ Update([proto EXCEPT !.cards = LoadCardsFromCsv(rows).cards])

Edit ==
    \/ \E id \in OwnEdits, state \in BOOLEAN : SetCardOwned(id, state)
    \/ \E e \in NumberEdits : SetCardField(e.id, e.field, e.value)
    \/ \E e \in FlagEdits : SetCardField(e.id, e.field, e.value)
    \/ \E e \in EpisodeEdits : SetCardField(e.id, "episodes", e.read)
    \/ \E e \in AreaEdits : SetAreaItemLevel(e.item, e.level)
    \/ \E e \in RankEdits : SetCharacterRank(e.char, e.rank)
    \/ \E bonus \in TitleEdits : SetTitleBonus(bonus)
    \/ \E id \in FixtureEdits : SetMySekaiFixtureCrafted(id)
    \/ \E e \in GateEdits : SetMySekaiGateLevel(e.gate, e.level)
    \/ \E e \in EventEdits : SetEventBonusByEvent(e.event, e.chapter)
    \/ \E attr \in CustomAttrs : SetCustomEventAttr(attr)
    \/ \E cu \in CustomChars, state \in BOOLEAN : SetCustomEventCharacter(cu, state)
    \/ \E char \in CustomChapters : SetCustomEventChapter(char)
    \/ \E version \in Versions : SetCustomEventWorldBloomVersion(version)
    \/ \E state \in BOOLEAN : SetUseOldSubunitlessBonus(state)
    \/ \E rows \in CsvFiles : ImportCardsFromCsv(rows)

-----------------------------------------------------------------------------
(* Builds.  A builder keeps nothing after its answer, so that one build is *)
(* considered per profile.                                                 *)

BuilderPool == TeamBuilderCardPool(profile)
WorldBloomRules == IF eventBonus.hasDiff THEN WorldBloomVersionOf(proto) ELSE 0
Estimate ==
    [cards \in [1..TeamSize -> BuilderPool] |->
       ExpectedValue(EstimatorFor[mode], profile, eventBonus, Team(cards, WorldBloomRules))]

Answers(record) ==
    /\ answer' = record
    /\ UNCHANGED <<page, edits>>
\* The set {} as "no teams built".
AnswersOneOf(name, con, teams) ==
    \/ /\ teams = {}
       /\ Answers([by |-> name, con |-> con, cards |-> <<>>])
    \/ \E cards \in teams : Answers([by |-> name, con |-> con, cards |-> cards])

\* The page's view of a team: RefreshTeam.
Shown(cards) ==
    FillSupportCards(Team(cards, WorldBloomRules), profile.support, WorldBloomVersionOf(proto))

MaxPowerAnswers(con) ==
    Finalized(profile, Estimate, MaxPowerTeams(con, BuilderPool, profile, WorldBloomRules))
MaxBonusAnswers(con) == Finalized(profile, Estimate, MaxBonusTeams(con, BuilderPool, eventBonus))

BuildMaxPower(con) == answer = NoAnswer /\ AnswersOneOf("max_power", con, MaxPowerAnswers(con))
BuildMaxBonus(con) == answer = NoAnswer /\ AnswersOneOf("max_bonus", con, MaxBonusAnswers(con))
BuildNaive(con, name) ==
    LET support == GetSortedSupportPool(BuilderPool)
        value == [S \in NaiveCandidates(con, BuilderPool) |->
                    Objective(name, EstimatorFor[mode], profile, eventBonus,
                              WithSupport(support, AsTeam(S, WorldBloomRules)), Leads(con, S))]
    IN /\ answer = NoAnswer
       /\ AnswersOneOf(name, con,
            Finalized(profile, Estimate, NaiveTeams(con, BuilderPool, value)))

\* (Larger pools are left to simulated annealing.)
BuildChallengeLive(char) ==
    LET score == [cards \in [1..TeamSize -> BuilderPool] |->
                    ChallengeLiveScore(profile, Team(cards, WorldBloomRules))]
        teams == Finalized(profile, score, ChallengeLiveTeams(BuilderPool, profile, char))
    IN /\ answer = NoAnswer
       /\ Cardinality({c \in BuilderPool : CharOf(c) = char}) < ChallengePoolLimit
       /\ AnswersOneOf("challenge", Con!Unconstrained,
                       {ReorderTeamForOptimalSkillValue(cards) : cards \in teams})

\* What GetBestTeamsExhaustive hands to the exhaustive search.  (Without a team to start from the
\* constraints allow none, and the search has nothing to find.)
StartSearch(con) ==
    /\ answer = NoAnswer
    /\ \E power \in MaxPowerAnswers(con), bonus \in MaxBonusAnswers(con) :
         Answers([by |-> "search", con |-> con,
                  options |-> SearchOptions(EstimatorFor[mode], profile, eventBonus,
                                            Team(power, 0), Team(bonus, 0), con)])

Build ==
    \/ \E con \in Asked : BuildMaxPower(con)
    \/ \E con \in Asked : BuildMaxBonus(con)
    \/ \E asked \in NaiveAsked : BuildNaive(asked.con, asked.objective)
    \/ \E char \in Chars : BuildChallengeLive(char)
    \/ \E con \in Asked : StartSearch(con)

Next == Edit \/ Build
Spec == Init /\ [][Next]_vars

-----------------------------------------------------------------------------
(* Properties.                                                             *)

\* A rate for a team that matches is not below the rate for one that does not.
MatchingPays ==
    /\ \A u \in Units : profile.bonus.unit[u].rate <= profile.bonus.unit[u].matching
    /\ \A a \in Attrs : profile.bonus.attr[a].rate <= profile.bonus.attr[a].matching

\* The max power builder sorts cards by the power they would have if the team matched in an
\* assumed way (max_power_team_builder.cc:30-55).  Whatever the teams it compares really match,
\* none of the pool that the constraints admit has more power than its answer, as long as matching
\* never costs power and no leader skill is asked for.
MaxPowerIsMax ==
    answer.by = "max_power" /\ answer.con.minSkill = 0 /\ MatchingPays =>
      \A S \in Admissible(answer.con, BuilderPool) :
        /\ answer.cards # <<>>
        /\ Power(AsTeam(S, WorldBloomRules), profile)
             <= Power(Team(answer.cards, WorldBloomRules), profile)

\* The support deck the page shows with a team (team.cc:257-276) has no card of the team, and no
\* choice of as many other owned cards, each taken once, has a greater bonus.
SupportDeckIsBest ==
    answer.by \notin {"none", "search", "challenge"} /\ answer.cards # <<>> =>
      LET shown == Shown(answer.cards)
          spare == PrimaryCardPool(profile) \ {profile.cards[c.id] : c \in Range(answer.cards)}
          size == Lesser(SupportTeamSize[WorldBloomVersionOf(proto)], Cardinality(spare))
      IN /\ Range(shown.support) \subseteq spare
         /\ \A S \in kSubset(size, spare) :
              MapThenSumSet(LAMBDA c : c.supportBonus, S) <= SupportBonus(shown)

Viable == [target \in Targets |-> ViableScores(target)]
WholeBonus(team) == TeamEventBonus(team, eventBonus) % 100 = 0

\* BuildParkingTeam shows a team when the objective is not negative, and the table lists the plays
\* that reach the target: for a team whose bonus is a whole percent the objective is positive
\* exactly when there is such a play (optimization_objective.cc:97-160).
TargetMeansEarnable ==
    answer = NoAnswer =>
      \A S \in TeamSets(BuilderPool), target \in Targets :
        LET team == AsTeam(S, WorldBloomRules)
        IN WholeBonus(team) /\ TeamEventBonus(team, eventBonus) < 100 * kMaxEventBonus =>
             (ExactPoints(Viable[target], Accuracy, profile, eventBonus, team) > 0
                <=> GetViableStrategies(target, Accuracy, profile, eventBonus, team) # {})

-----------------------------------------------------------------------------
(* What the exhaustive search takes for granted: TeamProblem!SoundProblem. *)

BracketsTeam(e, S, leads) ==
    LET entry == LookupEstimatedEp(e, Power(AsTeam(S, 0), profile),
                                   TeamEventBonus(AsTeam(S, 0), eventBonus) \div 100)
        ep == EpPoints(e, profile, eventBonus, AsTeam(S, 0), leads)
    IN entry.lower <= ep /\ ep <= entry.upper

\* Nothing but the cards themselves decides power and bonus, and bonuses are whole.
PlainRates ==
    /\ \A c \in BuilderPool : c.eventBonus % 100 = 0 /\ c.supportBonus = 0
                                /\ \A m \in Matches : c.power[m] = MaxPower(c)
    /\ ~eventBonus.hasDiff

KeepsBetterTeams(e, con, options) ==
    \A S, T \in Admissible(con, BuilderPool) :
      LET ep == EpPoints(e, profile, eventBonus, AsTeam(T, 0), Leads(con, T))
      IN options.minEp <= ep /\ (\E c \in S : ShouldPrune(e, options, ep, c)) =>
           EpPoints(e, profile, eventBonus, AsTeam(S, 0), Leads(con, S)) <= ep

\* What the exhaustive search takes for granted (TeamProblem, SoundProblem): the entry of the
\* lookup table that a team's power and bonus fall in brackets its points (estimator.cc:257-276);
\* and, when power and bonus depend on the cards alone, the cards that ShouldPrune drops at any
\* score the search may have reached are in no team that earns more (card_pruning.cc:7-25).  With
\* kizuna pairs no card of the most powerful team need be able to take the place of a dropped one.
SearchPremises ==
    answer.by = "search" /\ answer.con.minSkill = 0 =>
      /\ \A S \in Admissible(answer.con, BuilderPool) :
           BracketsTeam(EstimatorFor[mode], S, Leads(answer.con, S))
      /\ PlainRates /\ answer.con.pairs = <<>> =>
           KeepsBetterTeams(EstimatorFor[mode], answer.con, answer.options)

\* The bonus in force may be one edit behind the box "use pre-bloom fes subunitless VS bonus"
\* (controller.cc:579-584: the flag is set after the bonus is computed), but not more: an edit that
\* leaves the box alone brings the bonus of every card in step with it.
OffsetSettles ==
    [][proto' # proto /\ proto'.useOld = proto.useOld =>
         eventBonus' = EventBonusFor(proto', OffsetFor(proto'))]_vars
=============================================================================
