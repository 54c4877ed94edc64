-------------------------- MODULE EventTeamBuilder --------------------------
(***************************************************************************)
(* sekai/team_builder/event_team_builder.cc: the exhaustive team search.   *)
(*                                                                         *)
(* The main thread walks the character sets in the order of Combinations.  *)
(* Every PruneEvery accepted sets it waits for the thread pool to run dry, *)
(* drops from char_pools_ the cards that cannot beat best_ep_, and corrects*)
(* the progress counter.  It then cuts the product of the five pools into  *)
(* blocks and hands each block to the pool as a task; while more than      *)
(* QueueHigh tasks are queued it holds back until QueueLow are left.  A    *)
(* worker copies best_ep_ under writer_mutex_, scans its block against the *)
(* copy, and merges counters and its best team under the mutex.  Tasks     *)
(* refer to char_pools by reference: they read the pools the main thread   *)
(* prunes.                                                                 *)
(*                                                                         *)
(* One call of RecommendTeams on a fresh builder is modelled.  Progress    *)
(* bar, teams_evaluated and cards_pruned (output only) are left out.       *)
(***************************************************************************)
EXTENDS TeamProblem, Sequences, Functions

CONSTANTS
  Workers,    (* threads of the BS::thread_pool                              *)
  BlockSize,  (* Options::block_size                                         *)
  PruneEvery, (* Options::prune_every_n_steps; 0 turns pruning off           *)
  QueueHigh,  (* tasks queued above which the main thread holds back: 10000  *)
  QueueLow,   (* tasks queued at which it goes on: 100                       *)
  NoWorker    (* writer_mutex_ is free                                       *)

ASSUME BuilderAssumption ==
  /\ BlockSize \in Nat \ {0}
  /\ PruneEvery \in Nat
  /\ QueueHigh \in Nat /\ QueueLow \in 0 .. QueueHigh
  /\ NoWorker \notin Workers

VARIABLES
  problem,            \* the instance: cards, estimator and constraints, never changed
  \* the main thread
  mpc,                \* where it is, see MainPc
  combosLeft,         \* character sets the Combinations loop has still to visit
  chars,              \* candidate_chars of the current set
  pending,            \* extents of the current set not handed out yet
  charCombsEvaluated, \* char_combs_evaluated
  shouldPrune,        \* should_prune, as decided for the current set
  \* shared state
  charPools,          \* char_pools
  queue,              \* tasks in the thread pool's queue, first in first out
  writerMutex,        \* holder of writer_mutex_
  bestEp, bestTeam, teamsConsidered,   \* best_ep_, best_team_, teams_considered_
  \* the workers, each with the locals of its task
  wpc, wtask, wtodo, wBestEp, wBestTeam, wConsidered

mainVars == <<mpc, combosLeft, chars, pending, charCombsEvaluated, shouldPrune>>
bestVars == <<bestEp, bestTeam>>
workerVars == <<wpc, wtask, wtodo, wBestEp, wBestTeam, wConsidered>>
vars == <<problem, mainVars, charPools, queue, writerMutex, bestVars, teamsConsidered,
          workerVars>>

MainPc == {"combine", "drain", "prune", "partition", "submit", "throttle", "wait",
           "publish", "done"}
-----------------------------------------------------------------------------
(***************************************************************************)
(* combinations.h over sets of cards.                                      *)
(***************************************************************************)

\* Combinations: the first slot varies slowest.
CombBefore(a, b) ==
  \E i \in Slots : a[i] < b[i] /\ \A j \in 1 .. i - 1 : a[j] = b[j]

\* The index of card x in the vector of a character's pool.
IndexIn(cards, x) == Cardinality({y \in cards : y < x})

Extent == [lo : Nat, hi : Nat]
Extents == [Slots -> Extent]

\* One dimension cut by StepExtents: starts a multiple of block_size apart, the last one short.
Cuts(size) ==
  {[lo |-> n, hi |-> IF n + BlockSize <= size THEN n + BlockSize ELSE size] :
     n \in {k \in 0 .. size - 1 : k % BlockSize = 0}}

PoolSizes(pools, c) == [i \in Slots |-> Cardinality(pools[c[i]])]

PartitionedProduct(sizes) ==
  {e \in [Slots -> UNION {Cuts(sizes[i]) : i \in Slots}] :
     \A i \in Slots : e[i] \in Cuts(sizes[i])}

\* StepExtents and ForEachInBlock advance the first slot fastest.
ExtentsBefore(a, b) ==
  \E i \in Slots : a[i].lo < b[i].lo /\ \A j \in i + 1 .. TeamSize : a[j] = b[j]
ScanBefore(a, b) ==
  \E i \in Slots : a[i] < b[i] /\ \A j \in i + 1 .. TeamSize : a[j] = b[j]

\* The teams ForEachInBlock forms from the pools for one task.
InExtent(cards, x, e) == e.lo <= IndexIn(cards, x) /\ IndexIn(cards, x) < e.hi
TaskTeams(pools, t) ==
  {d \in Decks :
     /\ CharsOf(d) = t.chars
     /\ \A i \in Slots : /\ d[i] \in pools[t.chars[i]]
                         /\ InExtent(pools[t.chars[i]], d[i], t.extents[i])}

Task == [chars : Combos, extents : Extents]
NoTask == <<>>
-----------------------------------------------------------------------------
(***************************************************************************)
(* Pruning and progress.                                                   *)
(***************************************************************************)

TeamsFrom(pools, c) ==
  {d \in Decks : CharsOf(d) = c /\ \A i \in Slots : d[i] \in pools[c[i]]}

TotalTeams(pools) == Cardinality(UNION {TeamsFrom(pools, c) : c \in Combos})

\* Options::prune_every_n_steps (event_team_builder.cc:179).  best_ep_ is read with no lock,
\* while a worker may be about to write it: the aligned eight byte load sees the old value or
\* the new one, as it does here before and after MergeBest.
ShouldPrune ==
  /\ PruneEvery > 0
  /\ bestEp > 0
  /\ charCombsEvaluated % PruneEvery = 0

ShouldSkipLowValCards == SkipLowValThresh > 0 /\ charCombsEvaluated = 0

PrunePools(pools) == [c \in Chars |-> {x \in pools[c] : problem.pruneAt[x] > bestEp}]

TotalCardsInPools(pools) == Cardinality(UNION {pools[c] : c \in Chars})

RemoveLowValCards(pools) == [c \in Chars |-> pools[c] \ LowRarity]

NewPools ==
  LET pruned == IF shouldPrune THEN PrunePools(charPools) ELSE charPools
  IN  IF ShouldSkipLowValCards /\ TotalCardsInPools(pruned) > SkipLowValThresh
      THEN RemoveLowValCards(pruned)
      ELSE pruned

\* (One set too many.)
FirstCombosTooMany(n) == {c \in Combos : Cardinality({b \in Combos : CombBefore(b, c)}) <= n}

\* The first n sets of the Combinations loop, the ones the constraints reject included.
FirstCombos(n) == {c \in Combos : Cardinality({b \in Combos : CombBefore(b, c)}) < n}

\* (The two pruned amounts swapped.)
PrunedProgressSwapped(newPools, n, totalTeamsPruned) ==
  LET evaluated(pools) == Cardinality(UNION {TeamsFrom(pools, c) : c \in FirstCombos(n)})
  IN  evaluated(OrigPools) + ((evaluated(OrigPools) - evaluated(newPools)) - totalTeamsPruned)

PrunedProgress(newPools, n, totalTeamsPruned) ==
  LET evaluated(pools) == Cardinality(UNION {TeamsFrom(pools, c) : c \in FirstCombos(n)})
      consideredTeamsPruned == evaluated(OrigPools) - evaluated(newPools)
  IN  evaluated(OrigPools) + (totalTeamsPruned - consideredTeamsPruned)
-----------------------------------------------------------------------------
Init ==
  /\ problem \in Problems
  /\ mpc = "combine"
  /\ combosLeft = Combos
  /\ chars = NoTask
  /\ pending = {}
  /\ charCombsEvaluated = 0
  /\ shouldPrune = FALSE
  /\ charPools = OrigPools
  /\ queue = <<>>
  /\ writerMutex = NoWorker
  /\ bestEp = problem.minEp
  /\ bestTeam = NoTeam
  /\ teamsConsidered = 0
  /\ wpc = [w \in Workers |-> "idle"]
  /\ wtask = [w \in Workers |-> NoTask]
  /\ wtodo = [w \in Workers |-> {}]
  /\ wBestEp = [w \in Workers |-> 0]
  /\ wBestTeam = [w \in Workers |-> NoTeam]
  /\ wConsidered = [w \in Workers |-> 0]

\* (A wait that looks at the queue only.)
QueueEmpty == queue = <<>>

\* thread_pool.wait(): nothing queued and nothing running.
Drained == queue = <<>> /\ \A w \in Workers : wpc[w] = "idle"
-----------------------------------------------------------------------------
(***************************************************************************)
(* The main thread.                                                        *)
(***************************************************************************)
NextCombo(c) == c \in combosLeft /\ \A b \in combosLeft \ {c} : CombBefore(c, b)

\* The constraints reject the character set: on to the next one.
SkipCombination ==
  /\ mpc = "combine"
  /\ \E c \in combosLeft :
       /\ NextCombo(c)
       /\ c \notin problem.satisfying
       /\ combosLeft' = combosLeft \ {c}
  /\ UNCHANGED <<problem, mpc, chars, pending, charCombsEvaluated, shouldPrune, charPools,
                 queue, writerMutex, bestVars, teamsConsidered, workerVars>>

\* The character set is accepted: prune first, or go on to hand it out.
TakeCombination ==
  /\ mpc = "combine"
  /\ \E c \in combosLeft :
       /\ NextCombo(c)
       /\ c \in problem.satisfying
       /\ combosLeft' = combosLeft \ {c}
       /\ chars' = c
  /\ shouldPrune' = ShouldPrune
  /\ mpc' = IF ShouldPrune \/ ShouldSkipLowValCards THEN "drain" ELSE "partition"
  /\ UNCHANGED <<problem, pending, charCombsEvaluated, charPools, queue, writerMutex, bestVars,
                 teamsConsidered, workerVars>>

\* Wait returns.
Drain ==
  /\ mpc = "drain"
  /\ Drained
  /\ mpc' = "prune"
  /\ UNCHANGED <<problem, combosLeft, chars, pending, charCombsEvaluated, shouldPrune, charPools,
                 queue, writerMutex, bestVars, teamsConsidered, workerVars>>

\* PrunePools, RemoveLowValCards, and teams_considered_ set under the lock.
Prune ==
  /\ mpc = "prune"
  /\ writerMutex = NoWorker
  /\ charPools' = NewPools
  /\ teamsConsidered' =
       PrunedProgress(NewPools, charCombsEvaluated, TotalTeams(OrigPools) - TotalTeams(NewPools))
  /\ mpc' = "partition"
  /\ UNCHANGED <<problem, combosLeft, chars, pending, charCombsEvaluated, shouldPrune, queue,
                 writerMutex, bestVars, workerVars>>

\* The blocks of the set, or none if some character has no card left.
Partition ==
  /\ mpc = "partition"
  /\ charCombsEvaluated' = charCombsEvaluated + 1
  /\ pending' = PartitionedProduct(PoolSizes(charPools, chars))
  /\ mpc' = IF pending' = {} THEN "combine" ELSE "submit"
  /\ UNCHANGED <<problem, combosLeft, chars, shouldPrune, charPools, queue, writerMutex,
                 bestVars, teamsConsidered, workerVars>>

\* (The test off by one.)
QueueFullLate == Len(queue) > QueueHigh + 1

QueueFull == Len(queue) > QueueHigh

\* detach_task for the next block of the set.
DetachTask ==
  /\ \E e \in pending :
       /\ \A f \in pending \ {e} : ExtentsBefore(e, f)
       /\ pending' = pending \ {e}
       /\ queue' = Append(queue, [chars |-> chars, extents |-> e])
  /\ mpc' = IF pending' = {} THEN "combine" ELSE "submit"
  /\ UNCHANGED <<problem, combosLeft, chars, charCombsEvaluated, shouldPrune, charPools,
                 writerMutex, bestVars, teamsConsidered, workerVars>>

Submit == mpc = "submit" /\ ~QueueFull /\ DetachTask

Throttle ==
  /\ mpc = "submit"
  /\ QueueFull
  /\ mpc' = "throttle"
  /\ UNCHANGED <<problem, combosLeft, chars, pending, charCombsEvaluated, shouldPrune, charPools,
                 queue, writerMutex, bestVars, teamsConsidered, workerVars>>

\* (Waits for fewer than QueueLow tasks.)
QueueBelowLow == Len(queue) < QueueLow

QueueLowEnough == Len(queue) <= QueueLow \/ Drained

\* The queue is down to QueueLow, or wait_for found the pool dry.
Unthrottle == mpc = "throttle" /\ QueueLowEnough /\ DetachTask

\* Past the last character set: the final Wait.
LeaveLoop ==
  /\ mpc = "combine"
  /\ combosLeft = {}
  /\ mpc' = "wait"
  /\ UNCHANGED <<problem, combosLeft, chars, pending, charCombsEvaluated, shouldPrune, charPools,
                 queue, writerMutex, bestVars, teamsConsidered, workerVars>>

FinalWait ==
  /\ mpc = "wait"
  /\ Drained
  /\ mpc' = "publish"
  /\ UNCHANGED <<problem, combosLeft, chars, pending, charCombsEvaluated, shouldPrune, charPools,
                 queue, writerMutex, bestVars, teamsConsidered, workerVars>>

\* The statistics are copied under the lock and best_team_ is returned.
Publish ==
  /\ mpc = "publish"
  /\ writerMutex = NoWorker
  /\ mpc' = "done"
  /\ UNCHANGED <<problem, combosLeft, chars, pending, charCombsEvaluated, shouldPrune, charPools,
                 queue, writerMutex, bestVars, teamsConsidered, workerVars>>

Main ==
  \/ SkipCombination \/ TakeCombination \/ Drain \/ Prune \/ Partition
  \/ Submit \/ Throttle \/ Unthrottle \/ LeaveLoop \/ FinalWait \/ Publish
-----------------------------------------------------------------------------
(***************************************************************************)
(* A worker.                                                               *)
(***************************************************************************)

\* The pool starts the oldest task.
StartTask(w) ==
  /\ wpc[w] = "idle"
  /\ queue # <<>>
  /\ queue' = Tail(queue)
  /\ wtask' = [wtask EXCEPT ![w] = Head(queue)]
  /\ wpc' = [wpc EXCEPT ![w] = "start"]
  /\ UNCHANGED <<problem, mainVars, charPools, writerMutex, bestVars, teamsConsidered,
                 wtodo, wBestEp, wBestTeam, wConsidered>>

\* "Acquire the current best ep at task start time": one short critical section.  The spans the
\* scan runs over are taken from char_pools here.
ReadBest(w) ==
  /\ wpc[w] = "start"
  /\ writerMutex = NoWorker
  /\ wBestEp' = [wBestEp EXCEPT ![w] = bestEp]
  /\ wBestTeam' = [wBestTeam EXCEPT ![w] = NoTeam]
  /\ wConsidered' = [wConsidered EXCEPT ![w] = 0]
  /\ wtodo' = [wtodo EXCEPT ![w] = TaskTeams(charPools, wtask[w])]
  /\ wpc' = [wpc EXCEPT ![w] = "scan"]
  /\ UNCHANGED <<problem, mainVars, charPools, queue, writerMutex, bestVars, teamsConsidered,
                 wtask>>

\* (The wrong end of the bucket.)
LowerBelowBest(d, e) == problem.lo[d] < e

\* The bucket's upper bound is below the best known: not worth evaluating.
BelowBest(d, e) == problem.hi[d] < e

\* The bucket's lower bound is above the best known, and no leader has to be checked.
AboveBest(d, e) == problem.lo[d] > e /\ ~problem.hasLeadSkill

\* Evaluated in full, with an admissible leader, and better.
ExactlyBetter(d, e) == d \in problem.leadOk /\ problem.ep[d] > e

\* The score local_best_ep takes after team d, when it was e.
ScoreAfter(d, e) ==
  IF BelowBest(d, e) THEN e
  ELSE IF AboveBest(d, e) THEN problem.lo[d]
  ELSE IF ExactlyBetter(d, e) THEN problem.ep[d]
  ELSE e

\* The loop body for the next team of the block.
Scan(w) ==
  /\ wpc[w] = "scan"
  /\ \E d \in wtodo[w] :
       /\ \A x \in wtodo[w] \ {d} : ScanBefore(d, x)
       /\ wtodo' = [wtodo EXCEPT ![w] = @ \ {d}]
       /\ wBestEp' = [wBestEp EXCEPT ![w] = ScoreAfter(d, @)]
       /\ wBestTeam' = [wBestTeam EXCEPT ![w] =
                          IF ScoreAfter(d, wBestEp[w]) # wBestEp[w] THEN d ELSE @]
  /\ wConsidered' = [wConsidered EXCEPT ![w] = @ + 1]
  /\ UNCHANGED <<problem, mainVars, charPools, queue, writerMutex, bestVars, teamsConsidered,
                 wpc, wtask>>

\* The block is through: take the lock and add the counters.
MergeCounters(w) ==
  /\ wpc[w] = "scan"
  /\ wtodo[w] = {}
  /\ writerMutex = NoWorker
  /\ writerMutex' = w
  /\ teamsConsidered' = teamsConsidered + wConsidered[w]
  /\ wpc' = [wpc EXCEPT ![w] = "merge"]
  /\ UNCHANGED <<problem, mainVars, charPools, queue, bestVars, wtask, wtodo, wBestEp,
                 wBestTeam, wConsidered>>

\* (Ties replace the team; any team found replaces it.)
ImprovesOrTies(w) == wBestEp[w] >= bestEp
FoundATeam(w) == wBestTeam[w] # NoTeam

Improves(w) == wBestEp[w] > bestEp

\* Still under the lock: write the best team if it is better, and release.
MergeBest(w) ==
  /\ wpc[w] = "merge"
  /\ bestEp' = IF Improves(w) THEN wBestEp[w] ELSE bestEp
  /\ bestTeam' = IF Improves(w) THEN wBestTeam[w] ELSE bestTeam
  /\ writerMutex' = NoWorker
  /\ wpc' = [wpc EXCEPT ![w] = "idle"]
  /\ wtask' = [wtask EXCEPT ![w] = NoTask]
  /\ wBestEp' = [wBestEp EXCEPT ![w] = 0]
  /\ wBestTeam' = [wBestTeam EXCEPT ![w] = NoTeam]
  /\ wConsidered' = [wConsidered EXCEPT ![w] = 0]
  /\ UNCHANGED <<problem, mainVars, charPools, queue, teamsConsidered, wtodo>>

Worker(w) == StartTask(w) \/ ReadBest(w) \/ Scan(w) \/ MergeCounters(w) \/ MergeBest(w)

\* The call has returned and the pool is idle.
Returned == mpc = "done" /\ Drained /\ UNCHANGED vars

Next == Main \/ (\E w \in Workers : Worker(w)) \/ Returned

Spec == Init /\ [][Next]_vars

\* Every thread is scheduled: the main thread's waits return once their condition holds, and
\* a worker that may run or take the free mutex eventually does.
Fairness == WF_vars(Main) /\ \A w \in Workers : WF_vars(Worker(w))
FairSpec == Spec /\ Fairness
-----------------------------------------------------------------------------
(***************************************************************************)
(* Properties.                                                             *)
(***************************************************************************)
Busy == {w \in Workers : wpc[w] # "idle"}
Outstanding == Range(queue) \cup {wtask[w] : w \in Busy}

\* Every variable stays in its range.
TypeOK ==
  /\ problem \in Problems
  /\ mpc \in MainPc
  /\ combosLeft \subseteq Combos
  /\ chars \in Combos \cup {NoTask}
  /\ mpc \notin {"combine", "wait", "publish", "done"} => chars \in Combos
  /\ pending \subseteq Extents
  /\ charCombsEvaluated \in Nat
  /\ shouldPrune \in BOOLEAN
  /\ charPools \in [Chars -> SUBSET Cards]
  /\ \A c \in Chars : charPools[c] \subseteq OrigPools[c]
  /\ queue \in Seq(Task)
  /\ writerMutex \in Workers \cup {NoWorker}
  /\ bestEp \in Nat
  /\ bestTeam \in Decks \cup {NoTeam}
  /\ teamsConsidered \in Nat
  /\ wpc \in [Workers -> {"idle", "start", "scan", "merge"}]
  /\ wtask \in [Workers -> Task \cup {NoTask}]
  /\ \A w \in Busy : wtask[w] \in Task
  /\ wtodo \in [Workers -> SUBSET Decks]
  /\ wBestEp \in [Workers -> Nat]
  /\ wBestTeam \in [Workers -> Decks \cup {NoTeam}]
  /\ wConsidered \in [Workers -> Nat]

\* The extents of a task that is queued or running lie within the pools as they are now:
\* ForEachInBlock's ABSL_CHECK_LT(indices[i], values[i].size()) holds although the task keeps
\* a reference to char_pools, which the main thread prunes.
ExtentsInPools ==
  \A t \in Outstanding : \A i \in Slots :
    /\ t.extents[i].lo < t.extents[i].hi
    /\ t.extents[i].hi <= Cardinality(charPools[t.chars[i]])

\* No card is erased from the vectors a worker is scanning.
ScannedCardsInPools ==
  \A w \in Workers : \A d \in wtodo[w] : \A i \in Slots : d[i] \in charPools[CharOf[d[i]]]

\* The thread pool's queue holds at most one task more than the limit of the main thread's
\* back-pressure test, however slow the workers are.
QueueBounded == Len(queue) <= QueueHigh + 1

\* best_ep_ and best_team_ belong together: unless it is still min_ep, best_ep_ is a score
\* that best_team_, an eligible team, reaches.
BestIsAttained ==
  IF bestTeam = NoTeam
  THEN bestEp = problem.minEp
  ELSE /\ bestTeam \in Eligible(problem)
       /\ problem.minEp < bestEp /\ bestEp <= problem.ep[bestTeam]

\* The answer is given only when no team in scope could beat the best score: each scores at
\* most that if there is a minimal lead skill, and has a lower bound of at most that if not.
\* No team is lost to pruning, to blocks, to stale copies of best_ep_ or in the queue.
AnswerBeatsAll ==
  mpc = "done" => \A d \in Scope(problem) : Beaten(problem, d, bestEp)

\* Teams of the current and later character sets that have not been made into tasks.
TeamsUncut ==
  UNION {TeamsFrom(charPools, c) :
           c \in combosLeft \cup (IF mpc \in {"drain", "prune", "partition"} THEN {chars} ELSE {})}
TeamsPending == UNION {TaskTeams(charPools, [chars |-> chars, extents |-> e]) : e \in pending}
TeamsToCome == TeamsUncut \cup TeamsPending

TeamsOf(tasks) == UNION {TaskTeams(charPools, t) : t \in tasks}

\* Teams whose task has not reported its best team.
TeamsOpen == TeamsToCome \cup TeamsOf(Outstanding)

\* Teams whose task has not added its count.
TeamsUncounted ==
  TeamsToCome \cup TeamsOf(Range(queue)) \cup TeamsOf({wtask[w] : w \in {v \in Busy : wpc[v] # "merge"}})

\* If the constraints accept every character set, the progress counter and the teams still
\* to be counted always add up to the teams of the whole pool: pruning moves teams from one
\* side to the other, and no update is lost.
ProgressConserved ==
  problem.satisfying = Combos =>
    teamsConsidered + Cardinality(TeamsUncounted) = TotalTeams(OrigPools)

(***************************************************************************)
(* The inductive invariant behind the properties above: what is known at   *)
(* each point of the main thread (PhaseInv) and of a worker (WorkerInv),   *)
(* and where each team in scope is until it is beaten (CoverInv).          *)
(***************************************************************************)
PhaseInv ==
  /\ mpc \notin {"submit", "throttle"} => pending = {}
  /\ mpc \in {"wait", "publish", "done"} => combosLeft = {}
  /\ mpc \in {"prune", "publish", "done"} => Drained
  /\ mpc \notin {"combine", "wait", "publish", "done"} => chars \in problem.satisfying
  /\ \A e \in pending : \A i \in Slots :
       e[i].lo < e[i].hi /\ e[i].hi <= Cardinality(charPools[chars[i]])
  /\ \A t \in Outstanding : t.chars \in problem.satisfying

WorkerInv ==
  \A w \in Workers :
    /\ wtodo[w] # {} => wpc[w] = "scan" /\ wtodo[w] \subseteq TaskTeams(charPools, wtask[w])
    /\ wpc[w] \in {"scan", "merge"} =>
         /\ problem.minEp <= wBestEp[w]
         /\ IF wBestTeam[w] = NoTeam
            THEN wBestEp[w] <= bestEp
            ELSE /\ wBestTeam[w] \in Eligible(problem)
                 /\ problem.minEp < wBestEp[w] /\ wBestEp[w] <= problem.ep[wBestTeam[w]]

\* Worker w still has to look at team d, or has found it beaten.
InHand(w, d) ==
  /\ d \in TaskTeams(charPools, wtask[w])
  /\ wpc[w] \in {"scan", "merge"} => d \in wtodo[w] \/ Beaten(problem, d, wBestEp[w])

CoverInv ==
  \A d \in Scope(problem) :
    \/ Beaten(problem, d, bestEp)
    \/ d \in TeamsToCome
    \/ \E t \in Range(queue) : d \in TaskTeams(charPools, t)
    \/ \E w \in Busy : InHand(w, d)

SearchInv ==
  TypeOK /\ PhaseInv /\ ExtentsInPools /\ QueueBounded /\ WorkerInv /\ BestIsAttained /\ CoverInv

\* The builder's search is a best-team search: its steps settle teams or do nothing visible.
Search == INSTANCE TeamSearch WITH open <- TeamsOpen \cap Scope(problem), done <- mpc = "done"
IsTeamSearch == Search!Spec

\* The call returns.
Termination == <>(mpc = "done")
=============================================================================
