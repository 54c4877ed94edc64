# Sekai team builder: TLA+ models, TLC runs and TLAPS proofs

The program recommends teams for Project Sekai. A *profile* (the cards a player owns and their
levels, area items, ranks, the event, constraints on leaders) is turned into a pool of cards; a
*team builder* looks for the five cards of different characters that score best under an
*estimator*. Command line programs run the builders over a profile read from a text file. A web
application, compiled with Emscripten, runs them over a profile that the user edits in a page and
saves in the browser.

A service analyses graphs of players' points (run analysis), and a report lists the highest
character ranks that can be had at a date.

This directory models the parts of it in which order matters (threads, callbacks, handlers that
must keep several copies of one thing in step, objects filled by calls in any order) and the
algorithms the rest relies on: what cards, teams and events are worth, the sort-and-pick builders,
the segmentation of graphs and the table of ranks.
Every definition names the source it translates under `map` in `PROJECT.json`.

## 1. Inventory

### Components

| Component (source) | State | Operations | Status |
|---|---|---|---|
| Exhaustive search, `sekai/team_builder/event_team_builder.cc` | card pools by character, thread pool's queue, `best_ep_`, `best_team_`, counters under `writer_mutex_` | `RecommendTeams`: walk the character sets, drain, prune, partition, submit, throttle; a task: copy the best, scan, merge | modelled: `EventTeamBuilder` |
| Constraints, `constraints.cc`, and the reordering in `sekai/team.cc` | leads, kizuna pairs, minimal skill, excluded rarities, cached `empty_`; the team's cards | four setters, two queries, pool filter, `ReorderTeamForOptimalSkillValue`, `ReorderTeamForKizuna` | modelled: `TeamConstraints`, `ConstrainedTeams`, `Constraints` |
| Controller and page, `frontend/controller.cc`, `sajii_lib.js` | profile, fields derived from it, team slots, list filter; inputs, visible rows and tables of the page | one handler for each event of the page | partly: `Controller`, and `TeamPlanning` for the profile's fields |
| Save data, `frontend/controller_base.cc`, `main.cc` | profile in memory, file in the tab's file system, file in IndexedDB, `FS.syncfs` calls under way | open, close, load, save, delete, ends of copies | modelled: `SaveData` |
| Combination enumerators, `sekai/combinations.h` | loop indices | `Combinations`, `PartitionedProduct`, `Product` | partly: order and blocks only |
| Builder base, skill choice, `team_builder_base.h`, `skill_selector.cc` | none | filter the pool, choose versions of two-skill cards | modelled: `SimulatedAnnealing` (as steps), `TeamBuilders` |
| Simulated annealing, `simulated_annealing_team_builder.cc`, `neighbor_teams.cc` | current and best team with their values, temperature, steps since the best changed | first team, move, return to the best, cool, stop early | partly: `SimulatedAnnealing` (objectives are parameters) |
| Parking, `sekai/parking.cc` | table of sums; current and best sum; solution over points, turns | two solvers of a subset sum with repetition, called for points and then for boosts | modelled: `Parking` |
| Cards, skills, profile, event bonus, `card.cc`, `skill.cc`, `profile.cc`, `event_bonus.cc`, `config.cc` | a card's power for each way a team matches, its event and support bonus; the profile's bonuses and sorted support pool | build a profile from saved data or a csv file, apply its bonus, apply an event's | partly: `Cards`, `EventBonuses` |
| Team, `sekai/team.cc`, `unit_count.cc` | cards and support cards | power, bonus, skill value, smallest contributions, support deck | modelled: `Teams` |
| Estimators and objectives, `estimator.cc`, `challenge_live_estimator.cc`, `optimization_objective.cc` | table of points by power and bonus | expected points, lookup, least power and bonus, challenge score, exact points | partly: `Estimators` |
| Pools, pruning and the simple builders, `pool_utils.cc`, `card_pruning.cc`, `greedy_`, `max_power_`, `max_bonus_`, `naive_`, `challenge_live_team_builder.cc` | none | filter, sort and pick; `ShouldPrune` | modelled: `TeamBuilders` |
| Command line programs, `build_event_team_main.cc` | none | prepare the exhaustive search | partly: `TeamPlanning` (`StartSearch`) |
| Run analysis, `sekai/run_analysis` | a detector's run, minimal length, outliers; none between requests | read, align, interpolate, detect, classify, analyse | partly: `RunSequence`, `SegmentAnalysis`, `Segmentation` |
| Max character rank planner, `max_character_rank.cc`, `version.cc`, `frontend/max_cr_main.cc` | the table shown | show the ranks of a time | modelled: `CharacterRank` |
| Master database, HTML, git wrapper, programs' flag handling | read-only tables; none | parsing and text | not modelled |

### Interaction

* The main thread of a search and its workers share the pools, the queue and the best team. Tasks
  hold the pools **by reference** and their block **by value**.
* A builder asks a `Constraints` object, filled earlier, which character sets are admissible and
  who may lead; `Team` asks it again when the recommended team is reordered.
* The base class of the builders filters the pool before the search and chooses the versions of
  two-skill cards after it, without asking the constraints again.
* Each table the page shows of a full team, while target points are set, comes with a parking
  strategy for them.
* The page calls the controller; the controller calls back into the page (inputs, rows, tables).
  The browser runs one handler at a time, and a builder runs inside a handler.
* An edit of the page makes a new profile from the saved data and brings event bonus, constraints
  and estimator in step with it; the builders read what that leaves behind.
* The command line program builds the team of greatest power and that of greatest bonus first, and
  hands their points, power, bonus and smallest contributions to the exhaustive search as limits.
* The controller writes the profile to a file in memory and asks `FS.syncfs` to copy it to
  IndexedDB, which all tabs share; the call returns at once.

### What is hard

Concurrency (search); cached and derived state (`empty_`, the controller's fields, the rows of
the list); order of calls (constraints, copies of the save data); crashes and other tabs (save
data); a handler that fails half way (`ResetView` at an unknown event); loops over random choices
whose invariants no seed shows (annealing, parking), with values that are rounded on one path and
not on another; a loop that sets its own index back (run analysis); one fact kept in two tables
(character ranks); greedy choices and bounds whose premises are stated nowhere (builders, pruning).
`hazards` in `PROJECT.json` lists each at its line with the properties that guard it.

### What makes each component correct

* Search: no team is lost between pruning, blocks, queue and stale copies of the best score; what
  is recorded as best is real; the queue stays bounded; the call returns.
* Constraints: the queries agree; the cached flag is sound; the leader is the best admissible one
  and the sub-leader a partner.
* Annealing: no team is returned if there is none, and one is if a leader's card satisfies the
  constraints with any cards of the others; every team held satisfies the constraints; the best is
  the best seen; the versions chosen last keep the characters that were checked.
* Parking: the table holds shortest sums; what is returned is a sum of the target; the plays of a
  strategy earn it exactly.
* Controller: everything derived is that of the current profile, but for the subunitless part of the
  event bonus, which is one edit behind; the page shows what is held.
* Save data: overlapping copies settle on the last; nothing unasked is stored.
* Builders: the greedy builder's team has the greatest power, the support deck is the best one, the
  limits handed to the search hold for every team, a target is promised only if it can be earned.
* Run analysis: the detector ends, loses no sample, counts no time twice, and is confident only of
  what was measured.
* Character ranks: more time never means less rank; nothing exceeds its maximum, except a world link
  round whose chapters start before the release the maximum waits for.

## 2. Modules

`TeamProblem` is the vocabulary: cards, characters, teams, and per instance the score of each team
with the bounds of its lookup-table bucket, the teams whose leader reaches the minimal skill, the
character sets that are accepted, and for each card the score at which it is pruned. They are
parameters here; `SoundProblem` states what the search relies on (bounds enclose the score; a dropped
card is in no team that beats the best), and `SearchPremises` of `TeamPlanning` says when the
program's own numbers are so.

`TeamSearch` is the abstract specification: teams are settled in any order and portions, the best
score only rises and always has a team behind it, and the answer is given when no team is left.

`EventTeamBuilder` is the threaded search. One action is what runs between two points where
another thread may come in. The main thread: `SkipCombination`, `TakeCombination` (with the
unlocked look at `best_ep_`), `Drain`, `Prune`, `Partition`, `Submit`, `Throttle`, `Unthrottle`,
`LeaveLoop`, `FinalWait`, `Publish`. A worker: `StartTask`, `ReadBest`, `Scan` (a team at a
time), `MergeCounters` (takes the mutex), `MergeBest` (releases it). It refines `TeamSearch`
(`IsTeamSearch`), with the teams in scope not yet reported as the open ones.

`TeamConstraints` is the object of `constraints.cc` as a record, with what it is asked: the two
queries and the pool filter. `ConstrainedTeams` adds `Team::SatisfiesConstraints`. What a card's skill
is worth there is an operator of the instance, `SkillIn`, of the card and the team: in the code a
skill may count the units of the other cards or refer to their skills. Neither has state;
`Constraints` and `SimulatedAnnealing` extend `ConstrainedTeams`, `TeamBuilders` instantiates
`TeamConstraints`.

`Constraints` fills the object by setters in any order, each ending in `UpdateEmpty` as in the
code, and then lets teams of admissible characters and rarities be recommended and reordered: the
leader in one step, the kizuna loop one iteration at a time. The teams recommended need not reach
the minimal skill, since the versions of their cards are chosen after the search.

`SimulatedAnnealing` is a call of `RecommendTeams` on that builder: `Call` (the object, or a
challenge live's one character), `PickTeam` or `NoFirstTeam`, one action per round of the loop
(`NoNeighbor`, `Move`, `Refuse`, each with `EndOfStep`), `ChooseVersions`, `Return`. Random numbers
are choices: what has a probability strictly between 0 and 1 may happen or not, a neighbour no worse
than the current team is always taken. `Objective` (the value the loop maximises), `Estimate` (the
one the versions are chosen by), `Single` (rounding to a float) and `Exp` are operators of the
instance; `SingleAssumption` says that rounding is monotone and leaves floats alone, no more.
`seen` is history. The first search tries the cards of a possible leader with the *first* card of each
other character, as the shuffled pool has it (`FirstCards`, `Tried`): where the minimal skill is only
reached with other cards, it may find nothing although there is a team.

`Parking` has both subset-sum solvers and the function that calls them. A round of the table's
outer loop is one step (`Extend`); sums and paths are bags. The annealing's rounds are
`Improve`, `Move` and `Reject`. `Requests` holds the points a team can earn and the target; the
points are increasing with the score, but lists out of order and empty ones are tried too, since the
solver checks for them. `seen` is history.

`Controller` has one action per handler of the page, with all that it does to the profile, the derived
fields, the slots, the page and the tables. A rendered table is a record of what `RefreshTeam` read,
so a table rendered too early is seen to differ. `offset` is the global flag that `OnProfileUpdate`
sets from the subunitless box after it has computed the bonus with it. Two variables are not in the
code: `torn` (the last `ResetView` threw) and `moved` (cards whose ownership changed under the owned
filter); properties use them to say exactly where the code stops keeping its promise. Training stands
for the per-card settings, the event dropdown, the subunitless box and the lead boxes for the event
and constraint settings; the others follow the same pattern and are left out.

`SaveData` has a profile, a file and a list of copies under way for each tab, and one IndexedDB.
`FS.syncfs` is a library's: a copy makes one side like the other, may read the file as it was at
the call or as it is when the copy runs, does not fail, and copies of one tab end in the order of
their calls. `lastStore`, `early` and `asked` are history for the properties.

`Cards`, `EventBonuses`, `Teams` and `Estimators` hold what cards, events, teams and lives are
worth, each extending the one before; they have no state. The program computes in floats. Here
powers are integers cut where the code cuts them, rates are in tenths of a percent, bonuses in
hundredths, skills in fifths of a hundredth and points in 1/50000, the resolution at which the code's
values differ. `LookupEstimatedEp` keeps the buckets of the estimator's table, since the exhaustive
search trusts their bounds.

`TeamBuilders` has each simple builder as the set of teams it may answer with: cards that compare
equal come in the order of a hash map. `SearchOptions` and `ShouldPrune` are what the exhaustive
search is given. `TeamPlanning` is the profile being edited (one action per handler that sets a
field, each ending in `UpdateProfile` with `OnProfileUpdate`) and the builders run on it. It is the
arithmetic side of `Controller`, which keeps these values abstract and models the page instead.

`RunSequence` turns a request, or a file of run data, into samples one interval apart.
`InterpolateSequence` reads a sample through a reference after `push_back` may have moved the vector:
`Capacity` says when the vector grows, and what is then read is a choice among `FreedBlocks`.
`Segmentation` is `AnalyzeGraph` on them: `Prepare`, then the detector with one action per verdict of
`AddPoint` (`Grow`, `BreakAtGap`, `BreakAtChange`, `Track`, `BreakAtShift`), `FinishDetection`,
`Classify` for each segment, `Answer`. Whether a sample is an outlier of the run's clusters, and
whether the decayed score reaches its threshold, is a choice: the properties hold whatever the
clusters say. The clusters of a finished segment are not a choice: `SegmentAnalysis` computes them,
and the game counts, in fixed point. The two loops of `RunSegments` (classify, analyse) are one round per
segment, as nothing passes between them. The older `DetectorState` has no caller.

`CharacterRank` has the clock and the table on the page: it is shown at the current time when the
save data has been read, and for a time the user types. The ranks themselves are operators on a
master database, a constant of the instance: asset versions are numbered, descriptions are left out,
and the missions' parameters start at 1 with unique numbers, as the game's do. `RanksAt` tabulates
the ranks of all times, since they depend on the database and the time alone. A missing mission, or
one of area items without items, fails a check and ends the program (`ChecksHold`, `Aborted`).

`EventTeamBuilderProofs`, `ConstraintsProofs`, `SimulatedAnnealingProofs`, `ParkingProofs`,
`ControllerProofs`, `PagesProofs` (save data and character ranks), `SegmentationProofs` and
`TeamPlanningProofs` hold the theorems. Each `MC…` module gives a module its instance.

## 3. Runs

| Run | Instance | Shows |
|---|---|---|
| `search` | 5 cards of 3 characters, teams of 2, 2 workers, blocks of one team, pruning before every set, queue limit 2, low rarity dropped from large pools | five safety properties; refinement of `TeamSearch`; termination |
| `constraints` | 4 characters, teams of 3, 2 pairs | four properties of the object and the reordering |
| `constraints_asked` (violation) | the same | pairs without leads restrict nothing |
| `controller` | a two-skill card, 2 lead boxes, the subunitless box, carnival, other and foreign event, 2 tables of one slot, 3 imports | five properties after every event of the page |
| `controller_owned` (violation) | the same | a card given up stays in the owned list |
| `save_data` | 2 tabs, 2 profiles, 2 copies under way | copies settle; nothing unasked is stored |
| `annealing` | 6 cards of 4 characters, 2 with two versions, 1 whose skill depends on the team, teams of 3, 3 steps, 4 objects and the challenge live mode | five properties of a call |
| `annealing_min_skill` (violation) | the same | the versions chosen last may miss the minimal skill |
| `parking` | 7 lists of points, targets -1 to 14, table up to 10, 7 rounds | four properties of both solvers and the strategy |
| `run_analysis` | all graphs of 4 samples over 3 distances and 3 gains, steady ones of up to 11 samples, odd and malformed ones; 3 contents of a freed block | the cut ends, tiles the samples, passes its own checks; times add up; confidence is earned |
| `character_rank` | 2 characters, 4 databases (one fails a check), times 0 to 20 across 10 releases, birthdays and chapters | three properties of the table |
| `builders` | 6 cards of 4 characters, teams of 2, 4 saved profiles, each edit once, 3 constraints | five properties of the builders and the edits |

Type invariants are proved, not run again.

**Bounds and why they are enough.** *Search*: two workers already give every race on the mutex and
the stale copy; teams of two of three characters give three character sets, so pruning happens
between sets with tasks of earlier sets queued; pools of one or two cards give blocks cut short
and pools emptied by pruning; a queue limit of 2 with one-team blocks makes the main thread
throttle. `Problems` holds values for which the best team is in the first or in a later set, with
and without a leader constraint, a minimal score and rejected character sets. Buckets of width 4 make
teams of different scores share one. *Constraints*: three cards are needed
for the kizuna loop (it starts at the third card) and two pairs for the loop to meet a pair
twice; `MaxPairs` bounds the calls of `AddKizunaPair` that are kept. *Controller*: one card, two
tables and two lead boxes suffice, since handlers treat cards, tables and boxes one by one; the
theorems cover the rest. *Annealing*: one character has two versions
of a card around the minimal skill, a low-rarity card and a third one, so that a swap can miss the
skill, an excluded rarity could come back, and a challenge team can hold two versions of a card; one
card reaches the minimal skill only beside a card that the first search need not try;
values are rounded to multiples of four, so that most differ from their float; three steps reach an
early exit, the floor of the temperature and its rise. *Parking*: three values with a gap, a repeated
value, one value; targets on both sides of the limit; seven rounds allow three improvements and
an early exit (`MaxSteps`, `EarlyExitSteps`, `ExhaustiveLimit` stand for the code's constants).
*Save data*: `MaxSyncs` bounds the copies of one tab under way; two let a
save overtake a delete. *Run analysis*: the distances are one interval rounded, two intervals and a
gap; the gains are none, one step and a change of rate; six or more steady samples fill the outlier
window; a product of two steps wraps around (`Width` 7); a freed block keeps its contents, loses its
first sample, or is overwritten. *Character ranks*: releases, resets, two
birthdays and the chapters fall on different days of a short calendar, the chapter of event 180 counts
for both rounds and starts before the releases of their maxima, one release is listed out of
order as in the code, requirements are small enough for rows to repeat, end and run out.
*Builders*: two cards of a team make every kind of match and mismatch; one card has two skills, one
is of another unit's virtual singer, one is on a list of support bonuses; support decks of 1, 2 and
3 are shorter than, equal to and longer than the cards left over; power, points and scores are
scaled down together, so that buckets, steps and the cap still bite. `MaxEdits` is 1: each edit
is taken from four profiles, and what a build answers depends on the profile alone; what depends on
several edits (`OffsetSettles`) is proved for any number. The state spaces are finite and searched
completely.

**Preconditions.** `MaxPowerIsMax` asks that matching never costs power (`MatchingPays`): area items
for several units raise a rate without raising the matching one, and with enough of them the order the
builder sorts by is wrong. `SearchPremises` asks for `PlainRates` before it claims that pruned cards
are in no better team: with rates that depend on the match, or a bonus that grows with the deck's
attributes or the support deck, TLC finds a pruned card in a better team. It asks besides that there
are no kizuna pairs: the limits compare a dropped card with the weakest card of the most powerful
team, and with pairs and teams of three or more no card of that team need be admissible in its place.
The bracket of the lookup table holds without either; the theorem asks that the skills of the teams
lie between `kMinSkillValue` and `kMaxSkillValue`, for which the table is made (`SkillsFitTable`), as
they do in every state of the run, some of which prune. `TargetMeansEarnable` is stated for whole
bonuses, since the strategies are listed by whole percents; its theorem asks besides that scores lie
within `kMaxScore` (`ScoresFitTable`), as they do in every state of the run, since the objective lists
scores up to that constant and the strategies up to the team's own. `RanksNeverFall` and
`CurrentWithinMax` end at the sixth anniversary: from there the program counts challenge points anew.
The conclusions of `DurationsAddUp` and `ConfidentIsMeasured` about times are stated where no sample
depends on a freed block (`ReadsNothingFreed`); without that condition TLC finds both violated.
`AnswerIfAny` promises a team where a leader's card satisfies the constraints whichever cards stand
for the other characters: what only some of them allow may be missed. Each of these is met by states
of the run, and the mutants show that the conclusions are not empty.

**Fairness** is assumed only in `search`: weak fairness of the main thread and of each
worker. The main thread's waits (`wait`, `wait_for`, the mutex) return once their condition
holds, the pool starts a queued task when a worker is idle, and the operating system schedules
every runnable thread. The mutex is held for one step at a time, so weak fairness suffices.
That the detector ends is stated as a safety property instead, `NoThirdStart`: segments never start
three times at one sample, so there are at most two for each.
Deadlock is checked in every run but three: `run_analysis` stops when the request is answered,
`builders` when the last profile has been edited and built for, and `character_rank` when a check has
failed and the clock has ended.

**Mutants.** Each property of a passing run has a mutated definition (a wait that looks only at the
queue, an off-by-one, a reset in part, a refresh too early, a clamp forgotten, one corner of a bucket
for the other) under which TLC finds it violated.

## 4. Proofs

All theorems hold for every value of the constants that meets the named assumptions:
`ProblemAssumption`, `BuilderAssumption` (search), `ConstraintsAssumption`, `SkillAssumption` (a skill
is worth a positive number in every team), `MaxPairsAssumption`, `AnnealingAssumption`,
`SingleAssumption`, `ParkingAssumption`, `ControllerAssumption`, `ImportsAssumption`,
`SaveDataAssumption`, `IntervalAssumption`, `FreedAssumption` (a freed block holds samples of any
integers), `SegmentationAssumption`, `AnalysisAssumption`, `InputsAssumption` of `Segmentation`
(graphs are of integers) and of `TeamPlanning` (saved profiles load, with titles and ranks that are
natural numbers; edits stay in the page's ranges; the constraints asked for are objects the setters
can make; naive builds have one of the six objectives), `EventDataAssumption`, `SupportAssumption`,
`ScoresAssumption` (limits are natural numbers, and widths of buckets positive), `EstimatorAssumption`
(a live earns something without power, and power is worth something), for the tables of numbers
`UnitDataAssumption` (every character has a unit), `PowerDataAssumption`, `SkillDataAssumption` and
`SongsAssumption` (rows exist where the code looks, and hold natural numbers), and for the ranks
`RankAssumption`, `PointsAssumption`, `ReleasesAssumption`, `DatabaseAssumption` (chapters start at
any time). TLC evaluates each on its run's instance.

**Induction over data.** Sums are the folds of the community modules, that is, entries of a
function defined by recursion over subsets and picked by `CHOOSE`. The induction theorems of the
library take an operator and are out of the provers' reach; the proofs use a smallest
counterexample instead. `SmallestSubset` (every family of subsets of a finite set has a smallest
member) and `LeastNat` give one, its existence is refuted, and so each module that sums first proves
that the function exists, that it does not depend on the order, and that sums add up, split and
grow. The theorems on counts, sums of points, durations, bonuses and XP all rest on these.

**Search.** Type correctness comes first. `PhaseInv` says what is known at each point of the main
thread: in particular that tasks exist only while the pools are stable, because pruning happens
after a drain. With it, `ExtentsInPools` and `ScannedCardsInPools` (no task sees a pool other than
the one it was cut for) and `QueueBounded` follow. `WorkerInv` relates a worker's local best to
the shared one, which gives `BestIsAttained`. `AnswerBeatsAll` is not inductive: nothing in it
says where an unexamined team is. `CoverInv` does: each team in scope is beaten by the best score,
or still to be cut into a block, or in a queued block, or in the hands of a worker that has still
to scan it or has found it beaten by its *own* copy. Pruning keeps it because a pruned card's
teams are beaten; partitioning because the blocks cover the product; merging because the larger
score wins. `SearchInv` is the conjunction, `NoTeamIsLost` its consequence at the end, and
`ImplementsTeamSearch` follows since each step settles teams or changes nothing that
`TeamSearch` sees. `ProgressConserved` counts: its invariant says that the teams of the sets still
to come, of the blocks to be cut, of the queued tasks and of the running scans with what each has
counted itself are disjoint, and make up all teams together with the counter.

**Constraints.** `ConstraintsInv`: the flag is what `UpdateEmpty` computes from the other fields;
every kept pair contains a lead; the leader is best; and, for the kizuna loop, while the partner
is not second a partner is still ahead of the loop index. A pair is listed once in
`SubLeaderIsPartnerOnce`; a second entry would swap the partner out again. The lemmas about the
object alone (`AdmissibleIffLeader`: a character set is admissible exactly when one of its
characters may lead) come first, from what the setters keep true of an object
(`SoundObject`).

**Annealing.** `AnnealingInv` adds to the properties what they need: the teams of an earlier call
are gone (`FreshInv`), the pool is the filtered one (`PoolInv`), and the best value is that of the
best team as a double or as a float (`ValueInv`): the first team's is a double, a neighbour's a
float, and the comparison mixes them. Monotone rounding is all that is needed for `BestIsBestSeen`.
`AnswerIfAny` rests on `AdmissibleIffLeader` in one direction (the first search looks only at sets
the object admits and at leaders it names, and tests the skill itself), and in the other on the team
made of the leader's card and the first cards of the others, which the search tries whatever the first
cards are. The constraint objects are any that satisfy `SoundObject`.

**Parking.** `ParkingInv` is inductive over the whole request. `CallInv` relates the running call
of the solver to the request and to the solution of the first call. `TableInv`: after each round of
the table's outer loop, the table holds exactly the sums of the values taken so far, each with a
shortest way; a round is an induction over the goal, whose step takes one copy of the new value off
a shortest way. `AnnealingInv` and `BestIsBestSeen` say the same of sums found by chance. `EarnInv`:
what the plays chosen so far earn and the points still to be done add up to the target, so that a
finished strategy earns it exactly. That a strategy is found whenever there is one
needs that the second call has a solution: one boost is 1.

**Controller.** The conjunction of its invariants (`ControllerInv`) is inductive; that the bonus is never
older than the edit before follows from it, since between
handlers the flag is that of the saved profile. Handlers fall in
three classes, each with one lemma: those that replace the profile (`ReplaceProfile`), those that
refill a table (`RefillTeam`), and the filter.

**Save data.** `SaveInv` adds to the two properties that what is still to be stored was asked for
(`PendingInv`), and that the last copy under way carries the tab's file (`LastCopyInv`), without
which nothing follows when that copy ends. `PagesProofs` restates it tab by tab (`TabInv`): a
step concerns one tab, and `OtherTab` handles the others.

**Run analysis.** `SegmentationInv` is inductive. `RunInv` says where the detector is: its run ends
before the sample to be read, continues the last segment (at its end, or after a gap), and where the
last segment started at the same sample, its minimal length is above the delay of detection, so that
the run has to grow past it before the next break. With this the rollback keeps `SegmentsTile` and
`NoThirdStart`. A detector just started has one or two samples, and the change rule needs two in the
run already, so `NeverBreaksTwice`. The theorems hold for all graphs, windows, minimal lengths and
ratios.

Two more invariants carry the results about time. `SpacingInv`: aligned timestamps are multiples of
the interval, interpolation fills the holes it may, so that two neighbours are one interval apart or
too far apart to be connected, and no segment holds such a gap. `DurationInv`: the durations counted
so far are one interval for each connected sample up to the end of the last classified segment,
although neighbours share a sample; `DurationsAddUp` is its value at the end. Both concern samples
that are those of a block that kept its contents (`ReadsNothingFreed`). `MeasuredInv` says of
each classified segment that its clusters hold samples of the segment only, which gives
`ConfidentIsMeasured`. The loops are folds over sequences in the model, and each is unfolded by a
lemma that gives its value after one more sample.

**Builders.** `OffsetInv`: the flag for the old subunitless bonus is that of the saved data between
any two edits, because every edit ends in `UpdateProfile`, which sets it last. `OffsetSettles`
follows for any number of edits. `PageInv` adds that the saved data loads, that every card in play
has a row and bonuses that are natural numbers, and that an answer uses cards of the pool. From it
`SupportDeckIsBest`: the pool is sorted by support bonus, the deck takes the first that are not in
the team, and a deck exchanged card by card for any other choice never loses; and
`TargetMeansEarnable`: the exact objective is positive for some multiplier when the target lies in
the points of a score that the list names, under `ScoresFitTable`.

`MaxPowerIsMax` is proved for all cards, bonuses and constraints it is stated for. The builder never
looks at a team as a whole: for each attribute and unit that a team might share it keeps the cards
that fit, sorts them by the power they would have in a matching team, and takes the first card of each
character, until there are enough or, under constraints, in each character set that these admit.
Within one assumed match this gives the greatest sum: of the teams that are no worse than a given
one, the one nearest to the greedy choice is that choice, since a card could be exchanged otherwise
(`GreedyIsBest`, with `GreedyExists`; `StateIsBest` covers both ways to choose, with
`LeadThere` for the lead). A team's own match is among the assumed ones (`StateOf`), every
team of the cards kept for it matches at least as well, and under `MatchingPays` a better match never
takes power away, although each part of it is rounded down (`PowerGrows`); the cap comes last and
keeps the order. Hence the best of all states is behind no team (`MaxPowerIsBest`). The skill version
chosen last changes neither power nor character (`SamePower`). The invariant `PlanInv` adds to
`PageInv` that the profile in memory is that of the saved data under the event bonus
(`ProfileInStep`), that the mode has an estimator, and that a max power answer is one the builder
gives for the data as they are (`AnswerIsMaxPower`): every edit that could change them clears it.

`SearchPremises` joins the builders to the search, and its proof joins three arguments. Points grow
with power, bonus and skill although they are rounded twice (`MulDivAtLeast`, `PointsGrow`), so that
the corners of a bucket bracket what falls into it (`CornersBracket`), and with less than the least
power or the least bonus computed for some points a team earns no more than these (`PowerTooSmall`,
`BonusTooSmall`; both limits are rounded down too, which is why it is *no more* and not *less*).
Without pairs, any card of a team can give way to a card of the most powerful team (`TakesPlace`), so
that a team with a given card lacks at least what the weakest card of that team has more than it
(`ExchangeBound`); likewise the bonus. And the two teams the limits are computed from are the greatest
there are: `MaxPowerIsBest` again, and `MaxBonusIsBest`, through the version of the skills chosen last
(`SamePower`, `SameBonus`). The invariant `SearchInv` adds to `PlanInv` that what the search is handed
is made from such answers.

**Character ranks.** `RankTypeOK`, that a table is that of one time and one database, is all the
induction there is; the rest is arithmetic that no run of one calendar covers. `SumMonotone` and
`SumOfPart` reduce a character's XP to its sources. Each count of rows that are out by a time grows
with it; a card adds one place of the album or two and takes away one at most; started days, stages
and birthdays are quotients that grow. Expanded missions ask for more with every step, so that more
progress meets more steps. `CurrentWithinMax` needs in addition, by `ReleasesAssumption`, that a
character's first birthday comes after the fifth anniversary, which is a fact about two tables of the
code (2025-09-29 in `version.cc`, 2025-10-04 for the first of `max_character_rank.cc:38-77`). Of the
chapters nothing is assumed, and a round whose chapter starts early is the exception the property
names. `RanksNeverFall` is more than monotone sums, since the stamp
may be taken off at the later time only; then the earlier XP was smaller.

**Only model-checked:** `Termination` (liveness is out of the prover's reach).
The properties of the violation runs are refuted, not proved.

## 5. Findings

1. `constraints_asked`: kizuna pairs without lead characters are dropped, against the example in
   `data/profile/constraints.textproto`.
2. `controller_owned`: ownership changes do not update the card list's rows, and because rows are
   updated by difference a wrong row outlives later changes of other filters.
3. `annealing_min_skill`: the versions of two-skill cards are chosen by the expected value, in which
   the first place counts most and the sum is cut to an integer, and the minimal leader skill is not
   checked again.

Noted, without a run, because nothing in the repository says otherwise or nothing depends on it:

* Search: `should_prune` reads `best_ep_` without its mutex (the answer does not depend on it). A team
  is taken at the lower bound of its bucket, so that a better team of the same bucket seen later is
  skipped. `card_pruning.cc` bounds a team's bonus by the largest one and is not sound when bonuses
  depend on the deck (a TODO in `max_bonus_team_builder.cc:28` says so for world bloom), nor with
  kizuna pairs, and the largest bonus loses its fraction on the way. `build_event_team_main.cc` uses
  names that no longer exist.
* Annealing and parking: the first search tries only the first card of each character beside the
  leader (`simulated_annealing_team_builder.cc:58-64`); with a minimal skill that depends on the
  others it may answer that no team can be built where one can. The temperature after "Cooling" is
  `exp` of a growing quotient and rises. In `parking.cc:131` an assignment stands where a sum was
  probably meant, so all solutions are worth the same.
* Page: the subunitless box takes effect one edit late, also when saved data with the box ticked is
  loaded (`controller.cc:579-584`). *Load* reads the tab's own copy of the save file. A slot rejected
  for a card not owned is not looked at again when it is (`controller.cc:111` dispatches `blur`,
  `sajii_lib.js:768` listens for `change`). A pair listed twice undoes its swap.
* Builders: while a team is built its two-skill cards count twice in the support deck
  (`team_builder_base.h:18`); the page fills the deck again. `optimization_objective.cc:106` takes the
  first viable bonus when all are smaller than the team's, against its comment, and otherwise mostly
  the next larger one. A challenge live with fewer than five cards of the character has no team.
* Tables: event 180 lies in the range of both world link rounds (`max_character_rank.cc:123` and
  `:135`), so that its chapters count twice, while `kWorldBloomVersionCutoffs` (`config.h:44`) puts it
  in the second version; nothing says that a chapter belongs to one round only. The master-rank bonus
  of birthday cards in `config.cc:419` falls from 6.7 to 6.1 between two ranks. The 4.5 anniversary in
  `version.cc:62` is dated a year early, so that the movie's version is never current.
* Run analysis: a graph whose samples fall on one interval is read past its end before it is refused
  (`segmentation.cc:40`); `InterpolateSequence` keeps a reference across `push_back`
  (`sequence_util.cc:40`), so that samples it makes after the vector has grown may be anything, and
  with them the observed time and whether an estimate is confident. Products of two steps overflow
  an `int` (`segmentation.cc:67`), which the model wraps.

## 6. Plan

Done: the search, constraints, annealing, parking, controller, save data, run analysis, character
ranks, the cards with the builders on them, and their proofs. Left, in order of importance:

1. `Enumeration`: `PartitionedProduct`, `ForEachInBlock` and `Product` as the loops they are, shown
   to visit each team of the product once, which `EventTeamBuilder` takes as given.
2. `MakeConstraints` (the object built from a profile) composed with `TeamConstraints`, and the
   kizuna and rarity boxes in `Controller`.
3. `PartitionedBuildTeam` around `SimulatedAnnealing`, with the objective of `Estimators`.
4. The play handler of run analysis (`fill_analysis.cc`): which strategy explains the games seen.

## 7. Not modelled, and why

Floating point: TLC and TLAPS have none, so the arithmetic modules compute with integers at the
resolution of the program's tables, and say in their headers at which; rounding errors of sums are
outside the models. Variances and plots of the estimators, the statistics, play, player and team
handlers of run analysis: formulas over one request. Parsing, text output, HTML, the git wrapper and
the database: no state that changes. Failures of `FS.syncfs`: the callbacks assert that there are
none. A second call of `RecommendTeams` on one search object: no caller makes one. Lifetimes of
memory: the exported state is a view into a string that the next export frees (`controller.cc:1196`),
and the sorted support pool points into the profile's map; the models keep values.
