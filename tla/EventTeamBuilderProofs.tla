----------------------- MODULE EventTeamBuilderProofs -----------------------
(***************************************************************************)
(* Proofs about EventTeamBuilder, for every pool, team size, number of     *)
(* workers, block size and pruning interval.                               *)
(***************************************************************************)
EXTENDS EventTeamBuilder, FiniteSetTheorems, WellFoundedInduction, TLAPS
-----------------------------------------------------------------------------
(***************************************************************************)
(* Finiteness of everything that is counted.                               *)
(***************************************************************************)

\* The teams of a pool are finitely many: a team is given by its graph.
LEMMA DecksFinite == IsFiniteSet(Decks)
<1> DEFINE G(d) == {<<i, d[i]>> : i \in Slots}
           f == [d \in Decks |-> G(d)]
           T == SUBSET (Slots \X Cards)
<1>1. IsFiniteSet(Slots) /\ IsFiniteSet(Cards)
  BY FS_Interval, ProblemAssumption DEF Slots
<1>2. IsFiniteSet(T)
  BY <1>1, FS_Product, FS_SUBSET
<1>3. ASSUME NEW d \in Decks
      PROVE  G(d) \in T
  BY DEF Decks
<1>4. ASSUME NEW d \in Decks, NEW e \in Decks, G(d) = G(e)
      PROVE  d = e
  <2>1. \A i \in Slots : <<i, d[i]>> \in G(e)
    BY <1>4
  <2>2. \A i \in Slots : d[i] = e[i]
    BY <2>1
  <2>3. QED
    BY <2>2 DEF Decks
<1>5. f \in Injection(Decks, T)
  <2>1. f \in [Decks -> T]
    BY <1>3
  <2>2. \A d, e \in Decks : f[d] = f[e] => d = e
    BY <1>4
  <2>3. QED
    BY <2>1, <2>2 DEF Injection, IsInjective
<1>6. QED
  BY <1>2, <1>5, FS_Injection

\* Counting a part of the teams, or of the cards, gives at most the count of the whole.
LEMMA CountTeams ==
  ASSUME NEW S, NEW T, T \subseteq Decks, S \subseteq T
  PROVE  /\ Cardinality(S) \in Nat /\ Cardinality(T) \in Nat
         /\ Cardinality(S) <= Cardinality(T)
<1>1. IsFiniteSet(T)
  BY DecksFinite, FS_Subset
<1>2. QED
  BY <1>1, FS_Subset, FS_CardinalityType

LEMMA CountCards ==
  ASSUME NEW S, NEW T, T \subseteq Cards, S \subseteq T
  PROVE  /\ Cardinality(S) \in Nat /\ Cardinality(T) \in Nat
         /\ Cardinality(S) <= Cardinality(T)
<1>1. IsFiniteSet(T)
  BY ProblemAssumption, FS_Subset
<1>2. QED
  BY <1>1, FS_Subset, FS_CardinalityType
-----------------------------------------------------------------------------
(***************************************************************************)
(* The operators the actions are built from.                               *)
(***************************************************************************)

\* A cut of a vector is a nonempty range of indices inside it.
LEMMA CutsInside ==
  ASSUME NEW size \in Nat, NEW e \in Cuts(size)
  PROVE  /\ e \in Extent
         /\ e.lo < e.hi
         /\ e.hi <= size
BY BuilderAssumption DEF Cuts, Extent

\* Every extent of a product is inside the pools it was made for.
LEMMA BlocksInside ==
  ASSUME NEW sizes \in [Slots -> Nat], NEW e \in PartitionedProduct(sizes)
  PROVE  /\ e \in Extents
         /\ \A i \in Slots : e[i].lo < e[i].hi /\ e[i].hi <= sizes[i]
<1>1. \A i \in Slots : e[i] \in Cuts(sizes[i])
  BY DEF PartitionedProduct
<1>2. \A i \in Slots : e[i] \in Extent /\ e[i].lo < e[i].hi /\ e[i].hi <= sizes[i]
  BY <1>1, CutsInside
<1>3. QED
  BY <1>2 DEF PartitionedProduct, Extents

LEMMA PoolSizesType ==
  ASSUME NEW pools \in [Chars -> SUBSET Cards], NEW c \in Combos
  PROVE  PoolSizes(pools, c) \in [Slots -> Nat]
<1>1. \A i \in Slots : c[i] \in Chars
  BY DEF Combos
<1>2. \A i \in Slots : Cardinality(pools[c[i]]) \in Nat
  BY <1>1, CountCards
<1>3. QED
  BY <1>2 DEF PoolSizes

\* Pruning only takes cards away.
LEMMA PoolsShrink ==
  ASSUME charPools \in [Chars -> SUBSET Cards]
  PROVE  /\ NewPools \in [Chars -> SUBSET Cards]
         /\ \A c \in Chars : NewPools[c] \subseteq charPools[c]
BY DEF NewPools, PrunePools, RemoveLowValCards

\* The progress written by a pruning step is a count: the unsigned subtraction cannot wrap.
LEMMA ProgressType ==
  ASSUME NEW pools, \A c \in Chars : pools[c] \subseteq OrigPools[c], NEW n \in Nat
  PROVE  PrunedProgress(pools, n, TotalTeams(OrigPools) - TotalTeams(pools)) \in Nat
<1> DEFINE All(p) == UNION {TeamsFrom(p, c) : c \in Combos}
           Some(p) == UNION {TeamsFrom(p, c) : c \in FirstCombos(n)}
<1>1. All(pools) \subseteq All(OrigPools) /\ All(OrigPools) \subseteq Decks
  <2>1. ASSUME NEW c \in Combos
        PROVE  TeamsFrom(pools, c) \subseteq TeamsFrom(OrigPools, c)
    BY DEF TeamsFrom, Combos
  <2>2. QED
    BY <2>1 DEF TeamsFrom
<1>2. Some(pools) \subseteq All(pools) /\ Some(OrigPools) \subseteq Decks
  BY DEF FirstCombos, TeamsFrom
<1>3. /\ Cardinality(All(pools)) \in Nat /\ Cardinality(All(OrigPools)) \in Nat
      /\ Cardinality(All(pools)) <= Cardinality(All(OrigPools))
  BY <1>1, CountTeams
<1>4. Cardinality(Some(pools)) \in Nat /\ Cardinality(Some(OrigPools)) \in Nat
  <2>1. Some(pools) \subseteq Decks
    BY <1>1, <1>2
  <2>2. QED
    BY <2>1, <1>2, CountTeams
<1>5. PrunedProgress(pools, n, TotalTeams(OrigPools) - TotalTeams(pools))
        = (Cardinality(All(OrigPools)) - Cardinality(All(pools))) + Cardinality(Some(pools))
  <2> HIDE DEF All, Some
  <2>1. PrunedProgress(pools, n, TotalTeams(OrigPools) - TotalTeams(pools))
          = Cardinality(Some(OrigPools))
              + ((Cardinality(All(OrigPools)) - Cardinality(All(pools)))
                   - (Cardinality(Some(OrigPools)) - Cardinality(Some(pools))))
    BY DEF PrunedProgress, TotalTeams, All, Some
  <2>2. QED
    BY <2>1, <1>3, <1>4
<1>6. QED
  <2> HIDE DEF All, Some
  <2>1. QED
    BY <1>3, <1>4, <1>5

\* What the loop body does to the best score known: it never falls, it only moves to a score
\* the team reaches, and no leader is ignored on the way.
LEMMA ScoreAfterRises ==
  ASSUME problem \in Problems, NEW d \in Decks, NEW e \in Nat
  PROVE  /\ ScoreAfter(d, e) \in Nat
         /\ ScoreAfter(d, e) >= e
         /\ ScoreAfter(d, e) # e => ScoreAfter(d, e) <= problem.ep[d] /\ d \in problem.leadOk
<1>1. SoundProblem(problem)
  BY ProblemAssumption
<1>2. /\ problem.ep[d] \in Nat /\ problem.lo[d] \in Nat /\ problem.hi[d] \in Nat
      /\ problem.lo[d] <= problem.ep[d]
      /\ ~problem.hasLeadSkill => d \in problem.leadOk
  BY <1>1 DEF SoundProblem, ProblemType
<1>3. QED
  BY <1>2 DEF ScoreAfter, BelowBest, AboveBest, ExactlyBetter
-----------------------------------------------------------------------------
(***************************************************************************)
(* Types.                                                                  *)
(***************************************************************************)

LEMMA InitType == Init => TypeOK
<1> SUFFICES ASSUME Init
             PROVE  TypeOK
  OBVIOUS
<1>1. problem.minEp \in Nat
  BY ProblemAssumption DEF Init, SoundProblem, ProblemType
<1>2. OrigPools \in [Chars -> SUBSET Cards]
  BY DEF OrigPools
<1>3. shouldPrune \in BOOLEAN /\ bestTeam \in Decks \cup {NoTeam} /\ queue \in Seq(Task)
  <2>1. shouldPrune \in BOOLEAN
    BY DEF Init
  <2>2. bestTeam \in Decks \cup {NoTeam}
    BY DEF Init
  <2>3. queue \in Seq(Task)
    BY DEF Init
  <2>4. QED
    BY <2>1, <2>2, <2>3
<1>4. /\ wpc \in [Workers -> {"idle", "start", "scan", "merge"}]
      /\ Busy = {}
      /\ wtask \in [Workers -> Task \cup {NoTask}]
      /\ wtodo \in [Workers -> SUBSET Decks]
      /\ wBestEp \in [Workers -> Nat]
      /\ wBestTeam \in [Workers -> Decks \cup {NoTeam}]
      /\ wConsidered \in [Workers -> Nat]
  BY DEF Init, Busy
<1>5. /\ mpc \in MainPc
      /\ chars \in Combos \cup {NoTask}
      /\ mpc \notin {"combine", "wait", "publish", "done"} => chars \in Combos
  BY DEF Init, MainPc
<1>6. QED
  BY <1>1, <1>2, <1>3, <1>4, <1>5 DEF Init, TypeOK

LEMMA DetachTaskType ==
  ASSUME TypeOK, chars \in Combos, DetachTask
  PROVE  TypeOK'
<1>1. PICK e \in pending : /\ pending' = pending \ {e}
                           /\ queue' = Append(queue, [chars |-> chars, extents |-> e])
  BY DEF DetachTask
<1>2. [chars |-> chars, extents |-> e] \in Task
  BY DEF TypeOK, Task
<1>3. queue' \in Seq(Task)
  BY <1>1, <1>2 DEF TypeOK
<1>4. mpc' \in MainPc
  BY DEF DetachTask, MainPc
<1>5. QED
  BY <1>1, <1>3, <1>4 DEF DetachTask, TypeOK, bestVars, workerVars, Busy

LEMMA MainType ==
  ASSUME TypeOK, Main
  PROVE  TypeOK'
<1> USE DEF TypeOK, MainPc, bestVars, workerVars, Busy
<1>1. CASE SkipCombination
  BY <1>1 DEF SkipCombination
<1>2. CASE TakeCombination
  <2>1. chars' \in Combos /\ combosLeft' \subseteq Combos
    BY <1>2 DEF TakeCombination
  <2>2. shouldPrune' \in BOOLEAN
    BY <1>2 DEF TakeCombination, ShouldPrune
  <2>3. QED
    BY <1>2, <2>1, <2>2 DEF TakeCombination
<1>3. CASE Drain
  BY <1>3 DEF Drain
<1>4. CASE Prune
  <2>1. /\ charPools' \in [Chars -> SUBSET Cards]
        /\ \A c \in Chars : charPools'[c] \subseteq OrigPools[c]
    BY <1>4, PoolsShrink DEF Prune
  <2>2. teamsConsidered' \in Nat
    BY <1>4, <2>1, ProgressType DEF Prune
  <2>3. QED
    BY <1>4, <2>1, <2>2 DEF Prune
<1>5. CASE Partition
  <2>1. PoolSizes(charPools, chars) \in [Slots -> Nat]
    BY <1>5, PoolSizesType DEF Partition
  <2>2. pending' \subseteq Extents
    BY <1>5, <2>1, BlocksInside DEF Partition
  <2>3. QED
    BY <1>5, <2>2 DEF Partition
<1>6. CASE Submit
  BY <1>6, DetachTaskType DEF Submit
<1>7. CASE Throttle
  BY <1>7 DEF Throttle
<1>8. CASE Unthrottle
  BY <1>8, DetachTaskType DEF Unthrottle
<1>9. CASE LeaveLoop \/ FinalWait \/ Publish
  BY <1>9 DEF LeaveLoop, FinalWait, Publish
<1>10. QED
  BY <1>1, <1>2, <1>3, <1>4, <1>5, <1>6, <1>7, <1>8, <1>9 DEF Main

LEMMA WorkerType ==
  ASSUME TypeOK, NEW w \in Workers, Worker(w)
  PROVE  TypeOK'
<1> USE DEF TypeOK, mainVars, bestVars, Busy
<1>1. CASE StartTask(w)
  <2>1. Head(queue) \in Task /\ Tail(queue) \in Seq(Task)
    BY <1>1 DEF StartTask
  <2>2. QED
    BY <1>1, <2>1 DEF StartTask
<1>2. CASE ReadBest(w)
  <2>1. TaskTeams(charPools, wtask[w]) \subseteq Decks
    BY DEF TaskTeams
  <2>2. QED
    BY <1>2, <2>1 DEF ReadBest
<1>3. CASE Scan(w)
  <2>1. PICK d \in wtodo[w] :
          /\ wtodo' = [wtodo EXCEPT ![w] = @ \ {d}]
          /\ wBestEp' = [wBestEp EXCEPT ![w] = ScoreAfter(d, @)]
          /\ wBestTeam' = [wBestTeam EXCEPT ![w] =
                             IF ScoreAfter(d, wBestEp[w]) # wBestEp[w] THEN d ELSE @]
    BY <1>3 DEF Scan
  <2>2. d \in Decks /\ ScoreAfter(d, wBestEp[w]) \in Nat
    BY ScoreAfterRises
  <2>3. QED
    BY <1>3, <2>1, <2>2 DEF Scan
<1>4. CASE MergeCounters(w)
  BY <1>4 DEF MergeCounters
<1>5. CASE MergeBest(w)
  BY <1>5 DEF MergeBest
<1>6. QED
  BY <1>1, <1>2, <1>3, <1>4, <1>5 DEF Worker

\* Every variable stays in its range, for any number of workers and any pool.
THEOREM TypeCorrect == Spec => []TypeOK
<1>1. Init => TypeOK
  BY InitType
<1>2. TypeOK /\ [Next]_vars => TypeOK'
  <2>1. CASE Main
    BY <2>1, MainType
  <2>2. CASE \E w \in Workers : Worker(w)
    BY <2>2, WorkerType
  <2>3. CASE UNCHANGED vars
    BY <2>3 DEF TypeOK, vars, mainVars, bestVars, workerVars, Busy
  <2>4. QED
    BY <2>1, <2>2, <2>3 DEF Next, Returned
<1>3. QED
  BY <1>1, <1>2, PTL DEF Spec
-----------------------------------------------------------------------------
(***************************************************************************)
(* Tasks: the queue and the tasks running.                                 *)
(***************************************************************************)

LEMMA RangeOfQueue ==
  ASSUME NEW q \in Seq(Task)
  PROVE  /\ \A t \in Task : Range(Append(q, t)) = Range(q) \cup {t}
         /\ q # <<>> => Range(q) = Range(Tail(q)) \cup {Head(q)}
         /\ q = <<>> => Range(q) = {}
<1>1. ASSUME NEW t \in Task
      PROVE  Range(Append(q, t)) = Range(q) \cup {t}
  <2>1. /\ DOMAIN q = 1 .. Len(q) /\ DOMAIN Append(q, t) = 1 .. Len(q) + 1
        /\ \A i \in 1 .. Len(q) : Append(q, t)[i] = q[i]
        /\ Append(q, t)[Len(q) + 1] = t
    OBVIOUS
  <2>2. QED
    BY <2>1 DEF Range
<1>2. ASSUME q # <<>>
      PROVE  Range(q) = Range(Tail(q)) \cup {Head(q)}
  <2>1. /\ Len(q) \in Nat \ {0} /\ DOMAIN q = 1 .. Len(q)
        /\ DOMAIN Tail(q) = 1 .. Len(q) - 1
        /\ \A i \in 1 .. Len(q) - 1 : Tail(q)[i] = q[i + 1]
        /\ Head(q) = q[1]
    BY <1>2
  <2>2. \A i \in 1 .. Len(q) : i # 1 => i - 1 \in 1 .. Len(q) - 1
    BY <2>1
  <2>3. \A i \in 1 .. Len(q) : i # 1 => q[i] = Tail(q)[i - 1]
    <3>1. \A i \in 1 .. Len(q) : (i - 1) + 1 = i
      BY <2>1
    <3>2. QED
      BY <2>1, <2>2, <3>1
  <2>4. Range(q) \subseteq Range(Tail(q)) \cup {Head(q)}
    <3>1. ASSUME NEW i \in 1 .. Len(q)
          PROVE  q[i] \in Range(Tail(q)) \cup {Head(q)}
      <4>1. CASE i = 1
        BY <2>1, <4>1
      <4>2. CASE i # 1
        BY <2>1, <2>2, <2>3, <4>2 DEF Range
      <4>3. QED
        BY <4>1, <4>2
    <3>2. QED
      BY <2>1, <3>1 DEF Range
  <2>5. Range(Tail(q)) \cup {Head(q)} \subseteq Range(q)
    <3>1. \A i \in 1 .. Len(q) - 1 : i + 1 \in 1 .. Len(q)
      BY <2>1
    <3>2. 1 \in 1 .. Len(q)
      BY <2>1
    <3>3. QED
      BY <2>1, <3>1, <3>2 DEF Range
  <2>6. QED
    BY <2>4, <2>5
<1>3. q = <<>> => Range(q) = {}
  <2>1. ASSUME q = <<>>
        PROVE  DOMAIN q = {}
    <3>1. DOMAIN q = 1 .. Len(q) /\ Len(q) = 0
      BY <2>1
    <3>2. QED
      BY <3>1
  <2>2. QED
    BY <2>1 DEF Range
<1>4. QED
  BY <1>1, <1>2, <1>3

\* Only the main thread makes tasks, from the blocks still pending, and none while the
\* pool has to be dry.
LEMMA NewTasks ==
  ASSUME TypeOK, Main
  PROVE  Outstanding' \subseteq Outstanding \cup {[chars |-> chars, extents |-> e] : e \in pending}
<1>1. CASE DetachTask /\ chars \in Combos
  <2>1. PICK e \in pending : queue' = Append(queue, [chars |-> chars, extents |-> e])
    BY <1>1 DEF DetachTask
  <2>2. [chars |-> chars, extents |-> e] \in Task
    BY <1>1 DEF TypeOK, Task
  <2>3. Range(queue') = Range(queue) \cup {[chars |-> chars, extents |-> e]}
    BY <2>1, <2>2, RangeOfQueue DEF TypeOK
  <2>4. wpc' = wpc /\ wtask' = wtask
    BY <1>1 DEF DetachTask, workerVars
  <2>5. QED
    BY <2>3, <2>4 DEF Outstanding, Busy
<1>2. CASE queue' = queue /\ wpc' = wpc /\ wtask' = wtask
  BY <1>2 DEF Outstanding, Busy
<1>3. QED
  BY <1>1, <1>2 DEF Main, SkipCombination, TakeCombination, Drain, Prune, Partition, Submit,
     Throttle, Unthrottle, LeaveLoop, FinalWait, Publish, workerVars, TypeOK

\* A worker moves a task from the queue into its hand, or is done with it.
LEMMA NoNewTasks ==
  ASSUME TypeOK, NEW w \in Workers, Worker(w)
  PROVE  Outstanding' \subseteq Outstanding
<1> USE DEF TypeOK
<1>1. CASE StartTask(w)
  <2>1. Range(queue) = Range(queue') \cup {Head(queue)}
    BY <1>1, RangeOfQueue DEF StartTask
  <2>2. wtask'[w] = Head(queue) /\ \A v \in Workers \ {w} : wtask'[v] = wtask[v] /\ wpc'[v] = wpc[v]
    BY <1>1 DEF StartTask
  <2>3. QED
    BY <2>1, <2>2 DEF Outstanding, Busy
<1>2. CASE ReadBest(w) \/ Scan(w) \/ MergeCounters(w)
  <2>1. queue' = queue /\ wtask' = wtask /\ Busy' = Busy
    BY <1>2 DEF ReadBest, Scan, MergeCounters, Busy
  <2>2. QED
    BY <2>1 DEF Outstanding
<1>3. CASE MergeBest(w)
  <2>1. /\ queue' = queue /\ Busy' = Busy \ {w}
        /\ \A v \in Workers \ {w} : wtask'[v] = wtask[v]
    BY <1>3 DEF MergeBest, Busy
  <2>2. QED
    BY <2>1 DEF Outstanding, Busy
<1>4. QED
  BY <1>1, <1>2, <1>3 DEF Worker

\* A dry pool has no task.
LEMMA DrainedIsEmpty ==
  ASSUME TypeOK
  PROVE  Drained => queue = <<>> /\ Busy = {} /\ Outstanding = {}
<1> SUFFICES ASSUME Drained
             PROVE  queue = <<>> /\ Busy = {} /\ Outstanding = {}
  OBVIOUS
<1>1. queue = <<>> /\ Busy = {}
  BY DEF Drained, Busy
<1>2. Range(queue) = {}
  BY <1>1, RangeOfQueue DEF TypeOK
<1>3. QED
  BY <1>1, <1>2 DEF Outstanding
-----------------------------------------------------------------------------
(***************************************************************************)
(* The phases of the main thread.                                          *)
(***************************************************************************)
PhasesInv == TypeOK /\ PhaseInv /\ ExtentsInPools /\ QueueBounded

\* A block of pending lies in the pools.
InPools(pools, c, e) ==
  \A i \in Slots : e[i].lo < e[i].hi /\ e[i].hi <= Cardinality(pools[c[i]])

LEMMA InitPhases == Init => PhasesInv
<1> SUFFICES ASSUME Init
             PROVE  PhasesInv
  OBVIOUS
<1>1. Busy = {} /\ queue = <<>> /\ TypeOK
  BY InitType DEF Init, Busy
<1>2. Range(queue) = {}
  BY <1>1, RangeOfQueue DEF TypeOK
<1>3. Outstanding = {}
  BY <1>1, <1>2 DEF Outstanding
<1>4. PhaseInv
  BY <1>3 DEF Init, PhaseInv
<1>5. QueueBounded
  <2>1. Len(queue) = 0
    BY <1>1
  <2>2. QED
    BY <2>1, BuilderAssumption DEF QueueBounded
<1>6. QED
  BY <1>1, <1>3, <1>4, <1>5 DEF PhasesInv, ExtentsInPools

\* A task made from a pending block has its extents inside the pools, and so has every task
\* already there, because the pools are pruned only when there is none.
LEMMA MainKeepsExtents ==
  ASSUME PhasesInv, Main
  PROVE  /\ ExtentsInPools'
         /\ \A t \in Outstanding' : t.chars \in problem'.satisfying
<1> USE DEF PhasesInv
<1>0. problem' = problem
  BY DEF Main, SkipCombination, TakeCombination, Drain, Prune, Partition, Submit,
     Throttle, Unthrottle, DetachTask, LeaveLoop, FinalWait, Publish
<1>1. CASE Prune
  <2>1. Outstanding = {}
    BY <1>1, DrainedIsEmpty DEF Prune, PhaseInv
  <2>2. Outstanding' = {}
    BY <1>1, <2>1 DEF Prune, workerVars, Outstanding, Busy
  <2>3. QED
    BY <2>2 DEF ExtentsInPools
<1>2. CASE charPools' = charPools
  <2>1. ASSUME NEW t \in Outstanding'
        PROVE  InPools(charPools', t.chars, t.extents) /\ t.chars \in problem'.satisfying
    <3>1. CASE t \in Outstanding
      BY <1>0, <1>2, <3>1 DEF PhaseInv, ExtentsInPools, InPools
    <3>2. CASE t \notin Outstanding
      <4>1. PICK e \in pending : t = [chars |-> chars, extents |-> e]
        BY <3>2, NewTasks
      <4>2. t.chars = chars /\ t.extents = e
        BY <4>1
      <4>3. InPools(charPools, chars, e)
        BY DEF PhaseInv, InPools
      <4>4. chars \in problem.satisfying
        BY DEF PhaseInv, TypeOK, MainPc
      <4>5. QED
        BY <1>0, <1>2, <4>2, <4>3, <4>4
    <3>3. QED
      BY <3>1, <3>2
  <2>2. QED
    BY <2>1 DEF ExtentsInPools, InPools
<1>3. QED
  BY <1>1, <1>2 DEF Main, SkipCombination, TakeCombination, Drain, Partition, Submit,
     Throttle, Unthrottle, DetachTask, LeaveLoop, FinalWait, Publish

LEMMA MainKeepsQueueBound ==
  ASSUME PhasesInv, Main
  PROVE  QueueBounded'
<1> USE DEF PhasesInv, QueueBounded
<1>1. CASE Submit \/ Unthrottle
  <2>1. Len(queue) <= QueueHigh
    <3>1. CASE Submit
      BY <3>1, BuilderAssumption DEF Submit, QueueFull, TypeOK
    <3>2. CASE Unthrottle /\ Len(queue) <= QueueLow
      BY <3>2, BuilderAssumption DEF TypeOK
    <3>3. CASE Unthrottle /\ Drained
      <4>1. Len(queue) = 0
        BY <3>3 DEF Drained
      <4>2. QED
        BY <4>1, BuilderAssumption
    <3>4. QED
      BY <1>1, <3>1, <3>2, <3>3 DEF Unthrottle, QueueLowEnough
  <2>2. PICK e \in pending : queue' = Append(queue, [chars |-> chars, extents |-> e])
    BY <1>1 DEF Submit, Unthrottle, DetachTask
  <2>3. Len(queue') = Len(queue) + 1
    BY <2>2 DEF TypeOK
  <2>4. QED
    BY <2>1, <2>3, BuilderAssumption DEF TypeOK
<1>2. CASE queue' = queue
  BY <1>2
<1>3. QED
  BY <1>1, <1>2 DEF Main, SkipCombination, TakeCombination, Drain, Prune, Partition,
     Throttle, LeaveLoop, FinalWait, Publish

LEMMA MainKeepsPhase ==
  ASSUME PhasesInv, Main
  PROVE  PhaseInv'
<1> USE DEF PhasesInv, MainPc
<1>1. \A t \in Outstanding' : t.chars \in problem'.satisfying
  BY MainKeepsExtents
<1>2. ASSUME Drained, wpc' = wpc, queue' = queue
      PROVE  Drained'
  BY <1>2 DEF Drained
<1>3. CASE SkipCombination
  BY <1>1, <1>3 DEF SkipCombination, PhaseInv, workerVars
<1>4. CASE TakeCombination
  BY <1>1, <1>4 DEF TakeCombination, PhaseInv, workerVars
<1>5. CASE Drain
  BY <1>1, <1>2, <1>5 DEF Drain, PhaseInv, workerVars
<1>6. CASE Prune
  BY <1>1, <1>6 DEF Prune, PhaseInv, workerVars
<1>7. CASE Partition
  <2>1. PoolSizes(charPools, chars) \in [Slots -> Nat]
    BY <1>7, PoolSizesType DEF Partition, TypeOK
  <2>2. \A e \in pending' : InPools(charPools, chars, e)
    BY <1>7, <2>1, BlocksInside DEF Partition, InPools, PoolSizes
  <2>3. charPools' = charPools /\ chars' = chars /\ problem' = problem /\ combosLeft' = combosLeft
    BY <1>7 DEF Partition
  <2>4. mpc' \in {"combine", "submit"} /\ (mpc' # "submit" => pending' = {})
    BY <1>7 DEF Partition
  <2>5. chars \in problem.satisfying
    BY <1>7 DEF Partition, PhaseInv
  <2>6. QED
    BY <1>1, <2>2, <2>3, <2>4, <2>5 DEF PhaseInv, InPools
<1>8. CASE Submit \/ Unthrottle
  <2>1. /\ charPools' = charPools /\ chars' = chars /\ problem' = problem
        /\ combosLeft' = combosLeft /\ pending' \subseteq pending
    BY <1>8 DEF Submit, Unthrottle, DetachTask
  <2>2. mpc' \in {"combine", "submit"} /\ (mpc' # "submit" => pending' = {})
    BY <1>8 DEF Submit, Unthrottle, DetachTask
  <2>3. chars \in problem.satisfying
    BY <1>8 DEF Submit, Unthrottle, PhaseInv
  <2>4. QED
    BY <1>1, <2>1, <2>2, <2>3 DEF PhaseInv
<1>9. CASE Throttle
  BY <1>1, <1>9 DEF Throttle, PhaseInv, workerVars
<1>10. CASE LeaveLoop
  BY <1>1, <1>10 DEF LeaveLoop, PhaseInv, workerVars
<1>11. CASE FinalWait
  BY <1>1, <1>2, <1>11 DEF FinalWait, PhaseInv, workerVars
<1>12. CASE Publish
  BY <1>1, <1>2, <1>12 DEF Publish, PhaseInv, workerVars
<1>13. QED
  BY <1>3, <1>4, <1>5, <1>6, <1>7, <1>8, <1>9, <1>10, <1>11, <1>12 DEF Main

\* A worker takes tasks away, and finds none in a pool that has run dry.
LEMMA WorkerKeepsPhases ==
  ASSUME PhasesInv, NEW w \in Workers, Worker(w)
  PROVE  PhasesInv'
<1> USE DEF PhasesInv
<1>1. UNCHANGED <<problem, mainVars, charPools>>
  BY DEF Worker, StartTask, ReadBest, Scan, MergeCounters, MergeBest
<1>2. Outstanding' \subseteq Outstanding
  BY NoNewTasks
<1>3. ~Drained
  BY DEF Worker, StartTask, ReadBest, Scan, MergeCounters, MergeBest, Drained
<1>4. PhaseInv'
  BY <1>1, <1>2, <1>3 DEF PhaseInv, mainVars
<1>5. ExtentsInPools'
  BY <1>1, <1>2 DEF ExtentsInPools
<1>6. Len(queue') <= Len(queue)
  <2>1. CASE StartTask(w)
    <3>1. Len(queue') = Len(queue) - 1 /\ Len(queue) \in Nat
      BY <2>1 DEF StartTask, TypeOK
    <3>2. QED
      BY <3>1
  <2>2. CASE queue' = queue
    BY <2>2 DEF TypeOK
  <2>3. QED
    BY <2>1, <2>2 DEF Worker, ReadBest, Scan, MergeCounters, MergeBest
<1>7. QueueBounded'
  BY <1>6, BuilderAssumption, WorkerType DEF QueueBounded, TypeOK
<1>8. QED
  BY <1>4, <1>5, <1>7, WorkerType

LEMMA PhasesStep == PhasesInv /\ [Next]_vars => PhasesInv'
<1> SUFFICES ASSUME PhasesInv, [Next]_vars
             PROVE  PhasesInv'
  OBVIOUS
<1>1. CASE Main
  BY <1>1, MainType, MainKeepsPhase, MainKeepsExtents, MainKeepsQueueBound DEF PhasesInv
<1>2. CASE \E w \in Workers : Worker(w)
  BY <1>2, WorkerKeepsPhases
<1>3. CASE UNCHANGED vars
  BY <1>3 DEF vars, mainVars, bestVars, workerVars, PhasesInv, TypeOK, PhaseInv,
     ExtentsInPools, QueueBounded, Outstanding, Busy, Drained
<1>4. QED
  BY <1>1, <1>2, <1>3 DEF Next, Returned

THEOREM PhasesHold == Spec => []PhasesInv
BY InitPhases, PhasesStep, PTL DEF Spec

\* The extents of every task in the pool lie within the character pools: indexing them is
\* safe although pruning erases cards from the very vectors the tasks refer to.
THEOREM TasksFitPools == Spec => []ExtentsInPools
<1>1. PhasesInv => ExtentsInPools
  BY DEF PhasesInv
<1>2. QED
  BY <1>1, PhasesHold, PTL

\* The queue never holds more than one task above the limit.
THEOREM QueueStaysBounded == Spec => []QueueBounded
<1>1. PhasesInv => QueueBounded
  BY DEF PhasesInv
<1>2. QED
  BY <1>1, PhasesHold, PTL
-----------------------------------------------------------------------------
(***************************************************************************)
(* The scores: what a worker has found, and what has been recorded.        *)
(***************************************************************************)
ScoresInv == PhasesInv /\ WorkerInv /\ BestIsAttained

\* What WorkerInv says of worker w's local best.
LocalBest(w) ==
  /\ problem.minEp <= wBestEp[w]
  /\ IF wBestTeam[w] = NoTeam
     THEN wBestEp[w] <= bestEp
     ELSE /\ wBestTeam[w] \in Eligible(problem)
          /\ problem.minEp < wBestEp[w] /\ wBestEp[w] <= problem.ep[wBestTeam[w]]

LEMMA NoTeamIsNoDeck == NoTeam \notin Decks
<1> SUFFICES ASSUME NoTeam \in Decks
             PROVE  FALSE
  OBVIOUS
<1>1. 1 \in Slots
  BY ProblemAssumption DEF Slots
<1>2. DOMAIN NoTeam = Slots
  BY DEF Decks
<1>3. DOMAIN <<>> = 1 .. 0
  OBVIOUS
<1>4. QED
  BY <1>1, <1>2, <1>3 DEF NoTeam

LEMMA ScoresOfProblem ==
  ASSUME problem \in Problems
  PROVE  /\ problem.minEp \in Nat
         /\ \A d \in Decks : problem.ep[d] \in Nat /\ problem.lo[d] \in Nat
         /\ \A d \in Decks : problem.lo[d] <= problem.ep[d]
         /\ \A x \in Cards : problem.pruneAt[x] \in Nat
         /\ problem.leadOk \subseteq Decks
BY ProblemAssumption DEF SoundProblem, ProblemType

LEMMA InitScores == Init => ScoresInv
<1> SUFFICES ASSUME Init
             PROVE  ScoresInv
  OBVIOUS
<1>1. PhasesInv
  BY InitPhases
<1>2. WorkerInv
  BY DEF Init, WorkerInv
<1>3. BestIsAttained
  BY DEF Init, BestIsAttained
<1>4. QED
  BY <1>1, <1>2, <1>3 DEF ScoresInv

\* The main thread touches neither the scores nor, while a worker scans, the pools.
LEMMA MainKeepsScores ==
  ASSUME ScoresInv, Main
  PROVE  WorkerInv' /\ BestIsAttained'
<1> USE DEF ScoresInv
<1>1. UNCHANGED <<problem, bestVars, workerVars>>
  BY DEF Main, SkipCombination, TakeCombination, Drain, Prune, Partition, Submit,
     Throttle, Unthrottle, DetachTask, LeaveLoop, FinalWait, Publish
<1>2. BestIsAttained'
  BY <1>1 DEF BestIsAttained, bestVars
<1>3. CASE charPools' = charPools
  BY <1>1, <1>2, <1>3 DEF WorkerInv, bestVars, workerVars
<1>4. CASE Prune
  <2>1. \A w \in Workers : wtodo[w] = {}
    BY <1>4 DEF Prune, PhasesInv, PhaseInv, Drained, WorkerInv
  <2>2. QED
    BY <1>1, <1>2, <2>1 DEF WorkerInv, bestVars, workerVars
<1>5. QED
  BY <1>3, <1>4 DEF Main, SkipCombination, TakeCombination, Drain, Partition, Submit,
     Throttle, Unthrottle, DetachTask, LeaveLoop, FinalWait, Publish

\* A team that replaces the local best is eligible and worth the score it is recorded with.
LEMMA ScanKeepsScores ==
  ASSUME ScoresInv, NEW w \in Workers, Scan(w)
  PROVE  WorkerInv' /\ BestIsAttained'
<1> USE DEF ScoresInv, PhasesInv, TypeOK
<1>1. PICK d \in wtodo[w] :
        /\ wtodo' = [wtodo EXCEPT ![w] = @ \ {d}]
        /\ wBestEp' = [wBestEp EXCEPT ![w] = ScoreAfter(d, @)]
        /\ wBestTeam' = [wBestTeam EXCEPT ![w] =
                           IF ScoreAfter(d, wBestEp[w]) # wBestEp[w] THEN d ELSE @]
  BY DEF Scan
<1>2. UNCHANGED <<problem, charPools, bestVars, wpc, wtask>> /\ wpc[w] = "scan"
  BY DEF Scan
<1>3. d \in Decks /\ d # NoTeam
  BY NoTeamIsNoDeck
<1>4. d \in TaskTeams(charPools, wtask[w])
  BY DEF WorkerInv
<1>5. CharsOf(d) \in problem.satisfying
  <2>1. wtask[w] \in Outstanding
    BY <1>2 DEF Outstanding, Busy
  <2>2. CharsOf(d) = wtask[w].chars
    BY <1>4 DEF TaskTeams
  <2>3. QED
    BY <2>1, <2>2 DEF PhaseInv
<1>6. LocalBest(w)
  BY <1>2 DEF WorkerInv, LocalBest
<1>7. LocalBest(w)'
  <2>1. CASE ScoreAfter(d, wBestEp[w]) = wBestEp[w]
    <3>1. wBestEp'[w] = wBestEp[w] /\ wBestTeam'[w] = wBestTeam[w]
      BY <1>1, <2>1
    <3>2. QED
      BY <1>2, <1>6, <3>1 DEF LocalBest, bestVars
  <2>2. CASE ScoreAfter(d, wBestEp[w]) # wBestEp[w]
    <3>1. wBestEp'[w] = ScoreAfter(d, wBestEp[w]) /\ wBestTeam'[w] = d
      BY <1>1, <2>2
    <3>2. /\ ScoreAfter(d, wBestEp[w]) \in Nat /\ ScoreAfter(d, wBestEp[w]) > wBestEp[w]
          /\ ScoreAfter(d, wBestEp[w]) <= problem.ep[d] /\ d \in problem.leadOk
      <4>1. wBestEp[w] \in Nat /\ problem \in Problems
        OBVIOUS
      <4>2. /\ ScoreAfter(d, wBestEp[w]) \in Nat /\ ScoreAfter(d, wBestEp[w]) >= wBestEp[w]
            /\ ScoreAfter(d, wBestEp[w]) <= problem.ep[d] /\ d \in problem.leadOk
        BY <1>3, <2>2, <4>1, ScoreAfterRises
      <4>3. ScoreAfter(d, wBestEp[w]) > wBestEp[w]
        BY <2>2, <4>1, <4>2
      <4>4. QED
        BY <4>2, <4>3
    <3>3. d \in Eligible(problem)
      BY <1>5, <3>2 DEF Eligible
    <3>4. problem.minEp <= wBestEp[w] /\ problem.minEp \in Nat /\ wBestEp[w] \in Nat
      BY <1>6, ScoresOfProblem DEF LocalBest
    <3>5. problem.minEp < ScoreAfter(d, wBestEp[w])
      BY <3>2, <3>4
    <3>6. problem.minEp <= ScoreAfter(d, wBestEp[w])
      BY <3>2, <3>4
    <3>7. QED
      BY <1>2, <1>3, <3>1, <3>2, <3>3, <3>5, <3>6 DEF LocalBest
  <2>3. QED
    BY <2>1, <2>2
<1>8. ASSUME NEW v \in Workers
      PROVE  /\ wtodo'[v] # {} =>
                  wpc'[v] = "scan" /\ wtodo'[v] \subseteq TaskTeams(charPools', wtask'[v])
             /\ wpc'[v] \in {"scan", "merge"} => LocalBest(v)'
  <2>1. wtodo'[v] \subseteq wtodo[v]
    BY <1>1
  <2>2. wtodo'[v] # {} => wpc'[v] = "scan" /\ wtodo'[v] \subseteq TaskTeams(charPools', wtask'[v])
    BY <1>2, <2>1 DEF WorkerInv
  <2>3. ASSUME v # w, wpc'[v] \in {"scan", "merge"}
        PROVE  LocalBest(v)'
    <3>1. wBestEp'[v] = wBestEp[v] /\ wBestTeam'[v] = wBestTeam[v] /\ wpc'[v] = wpc[v]
      BY <1>1, <1>2, <2>3
    <3>2. LocalBest(v)
      BY <2>3, <3>1 DEF WorkerInv, LocalBest
    <3>3. QED
      BY <1>2, <3>1, <3>2 DEF LocalBest, bestVars
  <2>4. QED
    BY <1>7, <2>2, <2>3
<1>9. QED
  BY <1>2, <1>8 DEF WorkerInv, LocalBest, BestIsAttained, bestVars

\* The recorded score only rises, and to what a worker found.
LEMMA MergeBestKeepsScores ==
  ASSUME ScoresInv, NEW w \in Workers, MergeBest(w)
  PROVE  /\ WorkerInv' /\ BestIsAttained'
         /\ bestEp' >= bestEp /\ bestEp' >= wBestEp[w]
<1> USE DEF ScoresInv, PhasesInv, TypeOK
<1>1. LocalBest(w) /\ wBestEp[w] \in Nat
  BY DEF MergeBest, WorkerInv, LocalBest
<1>2. bestEp' >= bestEp /\ bestEp' >= wBestEp[w] /\ bestEp' \in Nat
  BY <1>1 DEF MergeBest, Improves
<1>3. BestIsAttained'
  <2>1. CASE Improves(w)
    <3>1. wBestTeam[w] # NoTeam
      BY <1>1, <2>1 DEF LocalBest, Improves
    <3>2. bestEp' = wBestEp[w] /\ bestTeam' = wBestTeam[w] /\ problem' = problem
      BY <2>1 DEF MergeBest
    <3>3. QED
      BY <1>1, <3>1, <3>2 DEF LocalBest, BestIsAttained
  <2>2. CASE ~Improves(w)
    BY <2>2 DEF MergeBest, BestIsAttained
  <2>3. QED
    BY <2>1, <2>2
<1>4. ASSUME NEW v \in Workers, v # w, wpc'[v] \in {"scan", "merge"}
      PROVE  LocalBest(v)'
  <2>1. /\ wBestEp'[v] = wBestEp[v] /\ wBestTeam'[v] = wBestTeam[v] /\ wpc'[v] = wpc[v]
        /\ problem' = problem
    BY <1>4 DEF MergeBest
  <2>2. LocalBest(v)
    BY <1>4, <2>1 DEF WorkerInv, LocalBest
  <2>3. wBestEp[v] \in Nat
    OBVIOUS
  <2>4. wBestEp[v] <= bestEp => wBestEp[v] <= bestEp'
    BY <1>2, <2>3
  <2>5. QED
    BY <2>1, <2>2, <2>4 DEF LocalBest
<1>5. \A v \in Workers : wpc'[v] \in {"scan", "merge"} => v # w
  BY DEF MergeBest
<1>6. \A v \in Workers : wtodo'[v] # {} =>
        wpc'[v] = "scan" /\ wtodo'[v] \subseteq TaskTeams(charPools', wtask'[v])
  BY DEF MergeBest, WorkerInv
<1>7. QED
  BY <1>2, <1>3, <1>4, <1>5, <1>6 DEF WorkerInv, LocalBest

LEMMA WorkerKeepsScores ==
  ASSUME ScoresInv, NEW w \in Workers, Worker(w)
  PROVE  WorkerInv' /\ BestIsAttained'
<1> USE DEF ScoresInv, PhasesInv, TypeOK
<1>1. CASE StartTask(w)
  BY <1>1 DEF StartTask, WorkerInv, BestIsAttained, bestVars, mainVars
<1>2. CASE ReadBest(w)
  <2>1. problem.minEp <= bestEp
    BY ScoresOfProblem DEF BestIsAttained
  <2>2. BestIsAttained'
    BY <1>2 DEF ReadBest, BestIsAttained, bestVars
  <2>3. QED
    BY <1>2, <2>1, <2>2 DEF ReadBest, WorkerInv, bestVars, mainVars
<1>3. CASE Scan(w)
  BY <1>3, ScanKeepsScores
<1>4. CASE MergeCounters(w)
  BY <1>4 DEF MergeCounters, WorkerInv, BestIsAttained, bestVars, mainVars
<1>5. CASE MergeBest(w)
  BY <1>5, MergeBestKeepsScores
<1>6. QED
  BY <1>1, <1>2, <1>3, <1>4, <1>5 DEF Worker

LEMMA ScoresStep == ScoresInv /\ [Next]_vars => ScoresInv'
<1> SUFFICES ASSUME ScoresInv, [Next]_vars
             PROVE  ScoresInv'
  OBVIOUS
<1>1. PhasesInv'
  BY PhasesStep DEF ScoresInv
<1>2. WorkerInv' /\ BestIsAttained'
  <2>1. CASE Main
    BY <2>1, MainKeepsScores
  <2>2. CASE \E w \in Workers : Worker(w)
    BY <2>2, WorkerKeepsScores
  <2>3. CASE UNCHANGED vars
    BY <2>3 DEF vars, bestVars, workerVars, ScoresInv, WorkerInv, BestIsAttained
  <2>4. QED
    BY <2>1, <2>2, <2>3 DEF Next, Returned
<1>3. QED
  BY <1>1, <1>2 DEF ScoresInv

THEOREM ScoresHold == Spec => []ScoresInv
BY InitScores, ScoresStep, PTL DEF Spec

\* The best score always belongs to the best team, an eligible team that reaches it.
THEOREM BestTeamReachesBestEp == Spec => []BestIsAttained
<1>1. ScoresInv => BestIsAttained
  BY DEF ScoresInv
<1>2. QED
  BY <1>1, ScoresHold, PTL

\* Pruning never erases a card from a vector a worker is scanning.
THEOREM ScansSeeStablePools == Spec => []ScannedCardsInPools
<1>1. ScoresInv => ScannedCardsInPools
  <2> SUFFICES ASSUME ScoresInv, NEW w \in Workers, NEW d \in wtodo[w], NEW i \in Slots
               PROVE  d[i] \in charPools[CharOf[d[i]]]
    BY DEF ScannedCardsInPools
  <2>1. d \in TaskTeams(charPools, wtask[w])
    BY DEF ScoresInv, WorkerInv
  <2>2. d[i] \in charPools[wtask[w].chars[i]] /\ wtask[w].chars[i] = CharOf[d[i]]
    BY <2>1 DEF TaskTeams, CharsOf
  <2>3. QED
    BY <2>2
<1>2. QED
  BY <1>1, ScoresHold, PTL
-----------------------------------------------------------------------------
(***************************************************************************)
(* No team is lost.                                                        *)
(***************************************************************************)

\* The index of a card is an index of the vector it is in.
LEMMA IndexInPool ==
  ASSUME NEW S \in SUBSET Cards, NEW x \in S
  PROVE  /\ IndexIn(S, x) \in Nat /\ Cardinality(S) \in Nat
         /\ IndexIn(S, x) < Cardinality(S)
<1> DEFINE L == {y \in S : y < x}
<1>1. x \in Nat
  BY ProblemAssumption
<1>2. L \subseteq S \ {x}
  BY <1>1
<1>3. Cardinality(L) \in Nat /\ Cardinality(L) <= Cardinality(S \ {x})
  BY <1>2, CountCards
<1>4. IsFiniteSet(S)
  BY ProblemAssumption, FS_Subset
<1>5. Cardinality(S) \in Nat /\ Cardinality(S \ {x}) = Cardinality(S) - 1
  BY <1>4, FS_RemoveElement, FS_CardinalityType
<1>6. QED
  <2> HIDE DEF L
  <2>1. Cardinality(L) < Cardinality(S)
    BY <1>3, <1>5
  <2>2. QED
    BY <1>3, <1>5, <2>1 DEF IndexIn, L

\* Every index lies in one of the cuts of its dimension.
LEMMA CutsCover ==
  ASSUME NEW size \in Nat, NEW p \in Nat, p < size
  PROVE  \E e \in Cuts(size) : e.lo <= p /\ p < e.hi
<1> DEFINE n == p - (p % BlockSize)
           h == IF n + BlockSize <= size THEN n + BlockSize ELSE size
           e == [lo |-> n, hi |-> h]
<1>1. BlockSize \in Nat /\ BlockSize > 0
  BY BuilderAssumption
<1>2. p % BlockSize \in 0 .. BlockSize - 1 /\ p % BlockSize <= p
  BY <1>1, SMTT(30)
<1>3. n % BlockSize = 0
  BY <1>1, SMTT(30)
<1>4. n \in 0 .. size - 1 /\ n <= p /\ p < n + BlockSize
  <2>1. n \in Nat /\ n <= p
    BY <1>2
  <2>2. p - n <= BlockSize - 1
    BY <1>1, <1>2
  <2> HIDE DEF n
  <2>3. QED
    BY <1>1, <2>1, <2>2
<1>5. e \in Cuts(size)
  <2> HIDE DEF n
  <2>1. QED
    BY <1>3, <1>4 DEF Cuts
<1>6. p < h
  <2> HIDE DEF n
  <2>1. QED
    BY <1>1, <1>4
<1>7. QED
  <2> HIDE DEF n, h
  <2>1. e.lo = n /\ e.hi = h
    OBVIOUS
  <2>2. QED
    BY <1>4, <1>5, <1>6, <2>1

\* Every team of a character set is in one of the blocks the set is cut into.
LEMMA BlocksCover ==
  ASSUME NEW pools \in [Chars -> SUBSET Cards], NEW c \in Combos, NEW d \in TeamsFrom(pools, c)
  PROVE  \E e \in PartitionedProduct(PoolSizes(pools, c)) :
           d \in TaskTeams(pools, [chars |-> c, extents |-> e])
<1> DEFINE sizes == PoolSizes(pools, c)
           In(i, x) == x \in Cuts(sizes[i]) /\ InExtent(pools[c[i]], d[i], x)
           e == [i \in Slots |-> CHOOSE x : In(i, x)]
<1>1. ASSUME NEW i \in Slots
      PROVE  e[i] \in Cuts(sizes[i]) /\ InExtent(pools[c[i]], d[i], e[i])
  <2>1. c[i] \in Chars /\ d[i] \in pools[c[i]] /\ pools[c[i]] \in SUBSET Cards
    BY DEF Combos, TeamsFrom
  <2>2. /\ IndexIn(pools[c[i]], d[i]) \in Nat /\ Cardinality(pools[c[i]]) \in Nat
        /\ IndexIn(pools[c[i]], d[i]) < Cardinality(pools[c[i]])
    BY <2>1, IndexInPool
  <2>3. sizes[i] = Cardinality(pools[c[i]])
    BY DEF PoolSizes
  <2>4. \E x : In(i, x)
    BY <2>2, <2>3, CutsCover DEF InExtent
  <2>5. In(i, e[i])
    BY <2>4
  <2>6. QED
    BY <2>5
<1>2. e \in PartitionedProduct(sizes)
  BY <1>1 DEF PartitionedProduct
<1>3. d \in TaskTeams(pools, [chars |-> c, extents |-> e])
  <2> HIDE DEF e
  <2>1. d \in Decks /\ CharsOf(d) = c /\ \A i \in Slots : d[i] \in pools[c[i]]
    BY DEF TeamsFrom
  <2>2. QED
    BY <1>1, <2>1 DEF TaskTeams
<1>4. QED
  BY <1>2, <1>3

\* What is beaten stays beaten while the best score rises.
LEMMA BeatenIsStable ==
  ASSUME problem \in Problems, NEW d \in Decks, NEW e \in Nat, NEW f \in Nat, e <= f,
         Beaten(problem, d, e)
  PROVE  Beaten(problem, d, f)
<1>1. problem.ep[d] \in Nat /\ problem.lo[d] \in Nat
  BY ScoresOfProblem
<1>2. QED
  BY <1>1 DEF Beaten

\* Once a team has been looked at, the score known beats it.
LEMMA LookedAtIsBeaten ==
  ASSUME problem \in Problems, NEW d \in Scope(problem), NEW e \in Nat
  PROVE  Beaten(problem, d, ScoreAfter(d, e))
<1>1. SoundProblem(problem) /\ d \in problem.leadOk /\ d \in Decks
  BY ProblemAssumption, ScoresOfProblem DEF Scope, Eligible
<1>2. /\ problem.ep[d] \in Nat /\ problem.lo[d] \in Nat /\ problem.hi[d] \in Nat
      /\ problem.lo[d] <= problem.ep[d] /\ problem.ep[d] <= problem.hi[d]
  BY <1>1 DEF SoundProblem, ProblemType
<1>3. QED
  BY <1>1, <1>2 DEF ScoreAfter, BelowBest, AboveBest, ExactlyBetter, Beaten

\* A card of a team in scope is dropped only if the best score beats the team.
LEMMA PruneKeepsTeams ==
  ASSUME TypeOK, NEW c \in Combos, NEW d \in TeamsFrom(charPools, c), d \in Scope(problem),
         ~Beaten(problem, d, bestEp)
  PROVE  d \in TeamsFrom(NewPools, c)
<1> DEFINE pruned == IF shouldPrune THEN PrunePools(charPools) ELSE charPools
           skip == ShouldSkipLowValCards /\ TotalCardsInPools(pruned) > SkipLowValThresh
<1>1. /\ SoundProblem(problem) /\ d \in Eligible(problem) /\ d \in Decks
      /\ \A i \in Slots : c[i] \in Chars /\ d[i] \in charPools[c[i]] /\ d[i] \in Cards
  BY ProblemAssumption DEF Scope, TeamsFrom, TypeOK, Combos, Decks
<1>2. ASSUME NEW i \in Slots
      PROVE  d[i] \in pruned[c[i]]
  <2>1. problem.ep[d] <= problem.pruneAt[d[i]]
    BY <1>1 DEF SoundProblem
  <2>2. bestEp < problem.pruneAt[d[i]]
    <3>1. SUFFICES ASSUME ~(bestEp < problem.pruneAt[d[i]])
                   PROVE  FALSE
      OBVIOUS
    <3>2. /\ problem.ep[d] \in Nat /\ problem.lo[d] \in Nat /\ problem.pruneAt[d[i]] \in Nat
          /\ problem.lo[d] <= problem.ep[d] /\ bestEp \in Nat
      BY <1>1, ScoresOfProblem DEF TypeOK
    <3>3. problem.ep[d] <= bestEp /\ problem.lo[d] <= bestEp
      BY <2>1, <3>1, <3>2
    <3>4. QED
      BY <3>3 DEF Beaten
  <2>3. QED
    BY <1>1, <2>2 DEF PrunePools
<1>3. pruned \in [Chars -> SUBSET Cards]
  BY DEF TypeOK, PrunePools
<1>4. ASSUME skip, NEW i \in Slots
      PROVE  d[i] \notin LowRarity
  <2> HIDE DEF pruned
  <2>1. UNION {pruned[x] : x \in Chars} \subseteq Cards
    BY <1>3
  <2>2. /\ TotalCardsInPools(pruned) \in Nat /\ Cardinality(Cards) \in Nat
        /\ TotalCardsInPools(pruned) <= Cardinality(Cards)
    BY <2>1, CountCards DEF TotalCardsInPools
  <2>3. MayDropLowValue
    BY <1>4, <2>2, ProblemAssumption DEF ShouldSkipLowValCards, MayDropLowValue
  <2>4. QED
    BY <2>3 DEF Scope, CardsOf
<1>5. NewPools = IF skip THEN RemoveLowValCards(pruned) ELSE pruned
  BY DEF NewPools
<1>6. \A i \in Slots : d[i] \in NewPools[c[i]]
  <2> HIDE DEF skip, pruned
  <2>1. QED
    BY <1>1, <1>2, <1>4, <1>5 DEF RemoveLowValCards
<1>7. QED
  BY <1>6 DEF TeamsFrom

\* Where a team in scope can be while the best score does not beat it.
Queued(d) == \E t \in Range(queue) : d \in TaskTeams(charPools, t)
Held(d) == \E w \in Busy : InHand(w, d)
Unsettled(d) == Beaten(problem, d, bestEp) \/ d \in TeamsToCome \/ Queued(d) \/ Held(d)

LEMMA InitToCome ==
  ASSUME Init, NEW d \in Scope(problem)
  PROVE  d \in TeamsToCome
<1>1. d \in Decks /\ CharsOf(d) \in Combos
  BY ProblemAssumption, ScoresOfProblem DEF Scope, Eligible, Decks, Init
<1>2. \A i \in Slots : d[i] \in Cards /\ d[i] \in OrigPools[CharOf[d[i]]]
  BY <1>1, ProblemAssumption DEF Decks, OrigPools
<1>3. \A i \in Slots : CharsOf(d)[i] = CharOf[d[i]]
  BY DEF CharsOf
<1>4. d \in TeamsFrom(OrigPools, CharsOf(d))
  BY <1>1, <1>2, <1>3 DEF TeamsFrom
<1>5. QED
  BY <1>1, <1>4 DEF TeamsToCome, TeamsUncut, Init

LEMMA InitCover == Init => CoverInv
BY InitToCome DEF CoverInv

LEMMA PendingAreToCome ==
  ASSUME NEW e, NEW d
  PROVE  /\ e \in pending /\ d \in TaskTeams(charPools, [chars |-> chars, extents |-> e])
             => d \in TeamsToCome
         /\ e \in pending' /\ d \in TaskTeams(charPools', [chars |-> chars', extents |-> e])
             => d \in TeamsToCome'
BY DEF TeamsToCome, TeamsPending

\* While nothing but the main thread's position changes, it is enough that the teams it still
\* has to hand out stay the same, or are beaten, or are queued.
LEMMA MainKeepsCover ==
  ASSUME ScoresInv, CoverInv, Main
  PROVE  CoverInv'
<1> USE DEF ScoresInv, PhasesInv
<1>1. UNCHANGED <<problem, bestVars, workerVars>>
  BY DEF Main, SkipCombination, TakeCombination, Drain, Prune, Partition, Submit,
     Throttle, Unthrottle, DetachTask, LeaveLoop, FinalWait, Publish
<1>2. ASSUME NEW d \in Scope(problem)
      PROVE  Unsettled(d)
  BY DEF CoverInv, Unsettled, Queued, Held
<1>3. ASSUME \A d \in Scope(problem) : Unsettled(d)'
      PROVE  CoverInv'
  BY <1>1, <1>3 DEF CoverInv, Unsettled, Queued, Held
<1>4. ASSUME charPools' = charPools, Range(queue) \subseteq Range(queue'), NEW d,
             Queued(d) \/ Held(d)
      PROVE  Queued(d)' \/ Held(d)'
  BY <1>1, <1>4 DEF Queued, Held, InHand, Busy, workerVars
<1>5. ASSUME NEW d, Beaten(problem, d, bestEp)
      PROVE  Beaten(problem, d, bestEp)'
  BY <1>1, <1>5 DEF bestVars
<1>6. CASE SkipCombination
  <2>1. PICK c \in combosLeft : c \notin problem.satisfying /\ combosLeft' = combosLeft \ {c}
    BY <1>6 DEF SkipCombination
  <2>2. ASSUME NEW d \in Scope(problem), d \in TeamsToCome
        PROVE  d \in TeamsToCome'
    <3>1. PICK b \in combosLeft : d \in TeamsFrom(charPools, b)
      BY <1>6, <2>2 DEF TeamsToCome, TeamsUncut, TeamsPending, SkipCombination, PhaseInv
    <3>2. b # c
      BY <2>1, <3>1 DEF Scope, Eligible, TeamsFrom
    <3>3. b \in combosLeft' /\ charPools' = charPools
      BY <1>6, <2>1, <3>1, <3>2 DEF SkipCombination
    <3>4. QED
      BY <3>1, <3>3 DEF TeamsToCome, TeamsUncut
  <2>3. charPools' = charPools /\ queue' = queue
    BY <1>6 DEF SkipCombination
  <2>4. QED
    BY <1>2, <1>3, <1>4, <1>5, <2>2, <2>3 DEF Unsettled
<1>7. CASE TakeCombination
  <2>1. PICK c \in combosLeft : combosLeft' = combosLeft \ {c} /\ chars' = c
    BY <1>7 DEF TakeCombination
  <2>2. pending = {} /\ pending' = {} /\ mpc' \in {"drain", "partition"}
    BY <1>7 DEF TakeCombination, PhaseInv
  <2>3. combosLeft = combosLeft' \cup {chars'} /\ charPools' = charPools /\ queue' = queue
    BY <1>7, <2>1 DEF TakeCombination
  <2>4. TeamsToCome \subseteq TeamsToCome'
    BY <1>7, <2>2, <2>3 DEF TeamsToCome, TeamsUncut, TeamsPending, TakeCombination
  <2>5. QED
    BY <1>2, <1>3, <1>4, <1>5, <2>3, <2>4 DEF Unsettled
<1>8. CASE Prune
  <2>1. /\ Outstanding = {} /\ pending = {} /\ pending' = {}
        /\ charPools' = NewPools /\ combosLeft' = combosLeft /\ chars' = chars
    BY <1>8, DrainedIsEmpty DEF Prune, PhaseInv
  <2>2. ASSUME NEW d \in Scope(problem), ~Beaten(problem, d, bestEp)
        PROVE  d \in TeamsToCome'
    <3>1. ~Queued(d) /\ ~Held(d)
      BY <2>1 DEF Outstanding, Queued, Held
    <3>2. d \in TeamsToCome
      BY <1>2, <2>2, <3>1 DEF Unsettled
    <3>3. PICK c \in combosLeft \cup {chars} : d \in TeamsFrom(charPools, c)
      BY <1>8, <2>1, <3>2 DEF TeamsToCome, TeamsUncut, TeamsPending, Prune
    <3>4. c \in Combos
      BY <1>8, <3>3 DEF Prune, TypeOK
    <3>5. d \in TeamsFrom(charPools', c)
      BY <2>1, <2>2, <3>3, <3>4, PruneKeepsTeams
    <3>6. CASE c \in combosLeft
      BY <2>1, <3>5, <3>6 DEF TeamsToCome, TeamsUncut, TeamsPending
    <3>7. CASE c = chars
      BY <1>8, <2>1, <3>5, <3>7 DEF TeamsToCome, TeamsUncut, TeamsPending, Prune
    <3>8. QED
      BY <3>3, <3>6, <3>7
  <2>3. QED
    BY <1>3, <1>5, <2>2 DEF Unsettled
<1>9. CASE Partition
  <2>1. charPools' = charPools /\ queue' = queue /\ combosLeft' = combosLeft /\ chars' = chars
    BY <1>9 DEF Partition
  <2>2. ASSUME NEW d \in TeamsFrom(charPools, chars)
        PROVE  \E e \in pending' : d \in TaskTeams(charPools, [chars |-> chars, extents |-> e])
    BY <1>9, BlocksCover DEF Partition, TypeOK
  <2>3. TeamsToCome \subseteq TeamsToCome'
    <3>1. TeamsToCome = UNION {TeamsFrom(charPools, c) : c \in combosLeft \cup {chars}}
      BY <1>9 DEF TeamsToCome, TeamsUncut, TeamsPending, Partition, PhaseInv
    <3>2. UNION {TeamsFrom(charPools, c) : c \in combosLeft} \subseteq TeamsToCome'
      BY <2>1 DEF TeamsToCome, TeamsUncut, TeamsPending
    <3>3. TeamsFrom(charPools, chars) \subseteq TeamsToCome'
      BY <2>1, <2>2, PendingAreToCome
    <3>4. QED
      BY <3>1, <3>2, <3>3
  <2>4. QED
    BY <1>2, <1>3, <1>4, <1>5, <2>1, <2>3 DEF Unsettled
<1>10. CASE Submit \/ Unthrottle
  <2>1. PICK e \in pending : /\ pending' = pending \ {e}
                             /\ queue' = Append(queue, [chars |-> chars, extents |-> e])
    BY <1>10 DEF Submit, Unthrottle, DetachTask
  <2>2. charPools' = charPools /\ combosLeft' = combosLeft /\ chars' = chars
    BY <1>10 DEF Submit, Unthrottle, DetachTask
  <2>3. [chars |-> chars, extents |-> e] \in Task
    BY <1>10 DEF TypeOK, Task, Submit, Unthrottle
  <2>4. Range(queue') = Range(queue) \cup {[chars |-> chars, extents |-> e]}
    BY <2>1, <2>3, RangeOfQueue DEF TypeOK
  <2>5. ASSUME NEW d, d \in TeamsToCome
        PROVE  d \in TeamsToCome' \/ Queued(d)'
    <3>1. CASE \E c \in combosLeft : d \in TeamsFrom(charPools, c)
      BY <2>2, <3>1 DEF TeamsToCome, TeamsUncut, TeamsPending
    <3>2. CASE \E f \in pending : d \in TaskTeams(charPools, [chars |-> chars, extents |-> f])
      <4>1. PICK f \in pending : d \in TaskTeams(charPools, [chars |-> chars, extents |-> f])
        BY <3>2
      <4>2. CASE f = e
        BY <2>2, <2>4, <4>1, <4>2 DEF Queued
      <4>3. CASE f # e
        <5>1. f \in pending'
          BY <2>1, <4>3
        <5>2. QED
          BY <2>2, <4>1, <5>1, PendingAreToCome
      <4>4. QED
        BY <4>2, <4>3
    <3>3. mpc \notin {"drain", "prune", "partition"}
      BY <1>10 DEF Submit, Unthrottle
    <3>4. QED
      BY <2>5, <3>1, <3>2, <3>3 DEF TeamsToCome, TeamsUncut, TeamsPending
  <2>6. QED
    BY <1>2, <1>3, <1>4, <1>5, <2>2, <2>4, <2>5 DEF Unsettled
<1>11. CASE Drain \/ Throttle \/ LeaveLoop \/ FinalWait \/ Publish
  <2>1. UNCHANGED <<charPools, queue, combosLeft, chars, pending>>
    BY <1>11 DEF Drain, Throttle, LeaveLoop, FinalWait, Publish
  <2>2. mpc \in {"drain", "prune", "partition"} <=> mpc' \in {"drain", "prune", "partition"}
    BY <1>11 DEF Drain, Throttle, LeaveLoop, FinalWait, Publish
  <2>3. TeamsToCome' = TeamsToCome
    BY <2>1, <2>2 DEF TeamsToCome, TeamsUncut, TeamsPending
  <2>4. QED
    BY <1>2, <1>3, <1>4, <1>5, <2>1, <2>3 DEF Unsettled
<1>12. QED
  BY <1>6, <1>7, <1>8, <1>9, <1>10, <1>11 DEF Main

\* A worker that scans a team leaves it beaten; one that merges passes its score on.
LEMMA WorkerKeepsCover ==
  ASSUME ScoresInv, CoverInv, NEW w \in Workers, Worker(w)
  PROVE  CoverInv'
<1> USE DEF ScoresInv, PhasesInv, TypeOK
<1>1. UNCHANGED <<problem, mainVars, charPools>>
  BY DEF Worker, StartTask, ReadBest, Scan, MergeCounters, MergeBest
<1>2. TeamsToCome' = TeamsToCome
  BY <1>1 DEF TeamsToCome, TeamsUncut, TeamsPending, mainVars
<1>3. SUFFICES ASSUME NEW d \in Scope(problem)
               PROVE  Unsettled(d)'
  BY <1>1 DEF CoverInv, Unsettled, Queued, Held
<1>4. Unsettled(d) /\ d \in Decks
  BY ScoresOfProblem DEF CoverInv, Unsettled, Queued, Held, Scope, Eligible
<1>5. CASE StartTask(w)
  <2>1. /\ Range(queue) = Range(queue') \cup {Head(queue)}
        /\ wtask'[w] = Head(queue) /\ wpc'[w] = "start"
    BY <1>5, RangeOfQueue DEF StartTask
  <2>2. \A v \in Workers \ {w} : wtask'[v] = wtask[v] /\ wpc'[v] = wpc[v]
    BY <1>5 DEF StartTask
  <2>3. UNCHANGED <<bestEp, wtodo, wBestEp>> /\ w \notin Busy
    BY <1>5 DEF StartTask, bestVars, Busy
  <2>4. Held(d) => Held(d)'
    BY <1>1, <2>2, <2>3 DEF Held, InHand, Busy
  <2>5. Queued(d) => Queued(d)' \/ (InHand(w, d)' /\ w \in Busy')
    BY <1>1, <2>1 DEF Queued, InHand, Busy
  <2>6. QED
    BY <1>1, <1>2, <1>4, <2>3, <2>4, <2>5 DEF Unsettled, Held
<1>6. CASE ReadBest(w)
  <2>1. UNCHANGED <<queue, bestEp, wtask>> /\ Busy' = Busy
    BY <1>6 DEF ReadBest, bestVars, Busy
  <2>2. \A v \in Workers : InHand(v, d) => InHand(v, d)'
    BY <1>1, <1>6 DEF ReadBest, InHand
  <2>3. Held(d) => Held(d)'
    BY <2>1, <2>2 DEF Held, Busy
  <2>4. QED
    BY <1>1, <1>2, <1>4, <2>1, <2>3 DEF Unsettled, Queued
<1>7. CASE Scan(w)
  <2>1. PICK x \in wtodo[w] : /\ wtodo' = [wtodo EXCEPT ![w] = @ \ {x}]
                              /\ wBestEp' = [wBestEp EXCEPT ![w] = ScoreAfter(x, @)]
    BY <1>7 DEF Scan
  <2>2. UNCHANGED <<queue, bestEp, wtask, wpc>> /\ Busy' = Busy
    BY <1>7 DEF Scan, bestVars, Busy
  <2>3. /\ wBestEp'[w] = ScoreAfter(x, wBestEp[w]) /\ wtodo'[w] = wtodo[w] \ {x}
        /\ wBestEp'[w] \in Nat /\ wBestEp[w] \in Nat /\ wBestEp'[w] >= wBestEp[w]
    BY <2>1, ScoreAfterRises
  <2>4. Beaten(problem, d, wBestEp[w]) => Beaten(problem, d, wBestEp'[w])
    BY <1>4, <2>3, BeatenIsStable
  <2>5. x = d => Beaten(problem, d, wBestEp'[w])
    BY <2>3, LookedAtIsBeaten
  <2>6. InHand(w, d) => InHand(w, d)'
    BY <1>1, <2>2, <2>3, <2>4, <2>5 DEF InHand
  <2>7. \A v \in Workers \ {w} : InHand(v, d) => InHand(v, d)'
    BY <1>1, <2>1, <2>2 DEF InHand
  <2>8. QED
    BY <1>1, <1>2, <1>4, <2>2, <2>6, <2>7 DEF Unsettled, Held, Queued, Busy
<1>8. CASE MergeCounters(w)
  <2>1. UNCHANGED <<queue, bestEp, wtask, wtodo, wBestEp>> /\ Busy' = Busy
    BY <1>8 DEF MergeCounters, bestVars, Busy
  <2>2. \A v \in Workers : InHand(v, d) => InHand(v, d)'
    BY <1>1, <1>8, <2>1 DEF MergeCounters, InHand
  <2>3. Held(d) => Held(d)'
    BY <2>1, <2>2 DEF Held, Busy
  <2>4. QED
    BY <1>1, <1>2, <1>4, <2>1, <2>3 DEF Unsettled, Queued
<1>9. CASE MergeBest(w)
  <2>1. /\ bestEp' >= bestEp /\ bestEp' >= wBestEp[w] /\ wBestEp[w] \in Nat /\ bestEp' \in Nat
    BY <1>9, MergeBestKeepsScores, WorkerType
  <2>2. Beaten(problem, d, bestEp) => Beaten(problem, d, bestEp')
    BY <1>4, <2>1, BeatenIsStable
  <2>3. InHand(w, d) => Beaten(problem, d, bestEp')
    <3>1. wtodo[w] = {}
      BY <1>9 DEF MergeBest, WorkerInv
    <3>2. InHand(w, d) => Beaten(problem, d, wBestEp[w])
      BY <1>9, <3>1 DEF MergeBest, InHand
    <3>3. QED
      BY <1>4, <2>1, <3>2, BeatenIsStable
  <2>4. /\ queue' = queue /\ wtodo' = wtodo
        /\ \A v \in Workers \ {w} : /\ wpc'[v] = wpc[v] /\ wtask'[v] = wtask[v]
                                    /\ wBestEp'[v] = wBestEp[v]
    BY <1>9 DEF MergeBest
  <2>5. \A v \in Workers \ {w} : v \in Busy /\ InHand(v, d) => v \in Busy' /\ InHand(v, d)'
    BY <1>1, <2>4 DEF InHand, Busy
  <2>6. QED
    BY <1>1, <1>2, <1>4, <2>2, <2>3, <2>4, <2>5 DEF Unsettled, Held, Queued, Busy
<1>10. QED
  BY <1>5, <1>6, <1>7, <1>8, <1>9 DEF Worker

LEMMA SearchStep == SearchInv /\ [Next]_vars => SearchInv'
<1> SUFFICES ASSUME SearchInv, [Next]_vars
             PROVE  SearchInv'
  OBVIOUS
<1>1. ScoresInv /\ CoverInv
  BY DEF SearchInv, ScoresInv, PhasesInv
<1>2. ScoresInv'
  BY <1>1, ScoresStep
<1>3. CoverInv'
  <2>1. CASE Main
    BY <1>1, <2>1, MainKeepsCover
  <2>2. CASE \E w \in Workers : Worker(w)
    BY <1>1, <2>2, WorkerKeepsCover
  <2>3. CASE UNCHANGED vars
    BY <1>1, <2>3 DEF vars, mainVars, bestVars, workerVars, CoverInv, TeamsToCome, TeamsUncut,
       TeamsPending, InHand, Busy
  <2>4. QED
    BY <2>1, <2>2, <2>3 DEF Next, Returned
<1>4. QED
  BY <1>2, <1>3 DEF SearchInv, ScoresInv, PhasesInv

\* The inductive invariant: wherever the threads are, each team in scope is beaten by the
\* best score, still to be handed out, queued, or in the hand of a worker.
THEOREM SearchInvHolds == Spec => []SearchInv
<1>1. Init => SearchInv
  BY InitScores, InitCover DEF SearchInv, ScoresInv, PhasesInv
<1>2. QED
  BY <1>1, SearchStep, PTL DEF Spec

\* No team is lost: when the search is over, its best score beats every team in scope.
THEOREM NoTeamIsLost == Spec => []AnswerBeatsAll
<1>1. SearchInv => AnswerBeatsAll
  <2> SUFFICES ASSUME SearchInv, mpc = "done", NEW d \in Scope(problem)
               PROVE  Beaten(problem, d, bestEp)
    BY DEF AnswerBeatsAll
  <2>1. combosLeft = {} /\ pending = {} /\ Drained
    BY DEF SearchInv, PhaseInv
  <2>2. TeamsToCome = {}
    BY <2>1 DEF TeamsToCome, TeamsUncut, TeamsPending
  <2>3. Outstanding = {}
    BY <2>1, DrainedIsEmpty DEF SearchInv
  <2>4. QED
    BY <2>2, <2>3 DEF SearchInv, CoverInv, Outstanding
<1>2. QED
  BY <1>1, SearchInvHolds, PTL
-----------------------------------------------------------------------------
(***************************************************************************)
(* The builder implements the abstract search.                             *)
(***************************************************************************)

\* The blocks of a character set hold teams of that set only.
LEMMA BlocksInTeams ==
  ASSUME NEW pools, NEW c, NEW e
  PROVE  TaskTeams(pools, [chars |-> c, extents |-> e]) \subseteq TeamsFrom(pools, c)
BY DEF TaskTeams, TeamsFrom

\* No step puts a settled team back.
LEMMA MainOpensNoTeam ==
  ASSUME SearchInv, Main
  PROVE  TeamsOpen' \subseteq TeamsOpen
<1> USE DEF SearchInv
<1>1. wtask' = wtask /\ Busy' = Busy
  BY DEF Main, SkipCombination, TakeCombination, Drain, Prune, Partition, Submit,
     Throttle, Unthrottle, DetachTask, LeaveLoop, FinalWait, Publish, workerVars, Busy
<1>2. CASE queue' = queue /\ charPools' = charPools /\ TeamsToCome' \subseteq TeamsToCome
  BY <1>1, <1>2 DEF TeamsOpen, TeamsOf, Outstanding
<1>3. CASE SkipCombination
  <2>1. /\ queue' = queue /\ charPools' = charPools /\ pending' = {}
        /\ combosLeft' \subseteq combosLeft /\ mpc' = "combine"
    BY <1>3 DEF SkipCombination, PhaseInv
  <2>2. TeamsToCome' \subseteq TeamsToCome
    BY <2>1 DEF TeamsToCome, TeamsUncut, TeamsPending
  <2>3. QED
    BY <1>2, <2>1, <2>2
<1>4. CASE TakeCombination
  <2>1. /\ queue' = queue /\ charPools' = charPools /\ pending' = {}
        /\ combosLeft' \cup {chars'} \subseteq combosLeft
    BY <1>4 DEF TakeCombination, PhaseInv
  <2>2. TeamsToCome' \subseteq TeamsToCome
    BY <2>1 DEF TeamsToCome, TeamsUncut, TeamsPending
  <2>3. QED
    BY <1>2, <2>1, <2>2
<1>5. CASE Prune
  <2>1. /\ Outstanding = {} /\ pending' = {} /\ charPools' = NewPools /\ queue' = queue
        /\ combosLeft' = combosLeft /\ chars' = chars /\ mpc = "prune" /\ mpc' = "partition"
    BY <1>5, DrainedIsEmpty DEF Prune, PhaseInv
  <2>2. Outstanding' = {}
    BY <1>1, <2>1 DEF Outstanding
  <2>3. ASSUME NEW c \in Combos
        PROVE  TeamsFrom(charPools', c) \subseteq TeamsFrom(charPools, c)
    <3>1. \A i \in Slots : c[i] \in Chars
      BY DEF Combos
    <3>2. QED
      BY <2>1, <3>1, PoolsShrink DEF TeamsFrom, TypeOK
  <2>4. chars \in Combos /\ combosLeft \subseteq Combos
    BY <2>1 DEF TypeOK
  <2>5. TeamsUncut' \subseteq TeamsUncut
    BY <2>1, <2>3, <2>4 DEF TeamsUncut
  <2>6. QED
    BY <2>1, <2>2, <2>5 DEF TeamsOpen, TeamsToCome, TeamsPending, TeamsOf
<1>6. CASE Partition
  <2>1. /\ queue' = queue /\ charPools' = charPools /\ combosLeft' = combosLeft
        /\ chars' = chars /\ mpc = "partition" /\ mpc' \in {"combine", "submit"}
    BY <1>6 DEF Partition
  <2>2. TeamsPending' \subseteq TeamsFrom(charPools, chars)
    BY <2>1, BlocksInTeams DEF TeamsPending
  <2>3. TeamsUncut' \subseteq TeamsUncut /\ TeamsFrom(charPools, chars) \subseteq TeamsUncut
    BY <2>1 DEF TeamsUncut
  <2>4. QED
    BY <1>2, <2>1, <2>2, <2>3 DEF TeamsToCome
<1>7. CASE Submit \/ Unthrottle
  <2>1. /\ charPools' = charPools /\ combosLeft' = combosLeft /\ chars' = chars
        /\ pending' \subseteq pending
        /\ mpc \notin {"drain", "prune", "partition"} /\ mpc' \in {"combine", "submit"}
    BY <1>7 DEF Submit, Unthrottle, DetachTask
  <2>2. TeamsToCome' \subseteq TeamsToCome
    BY <2>1 DEF TeamsToCome, TeamsUncut, TeamsPending
  <2>3. Outstanding' \subseteq Outstanding \cup {[chars |-> chars, extents |-> e] : e \in pending}
    BY NewTasks
  <2>4. TeamsOf({[chars |-> chars, extents |-> e] : e \in pending}) \subseteq TeamsToCome
    BY DEF TeamsOf, TeamsToCome, TeamsPending
  <2>5. QED
    BY <2>1, <2>2, <2>3, <2>4 DEF TeamsOpen, TeamsOf
<1>8. CASE Drain \/ Throttle \/ LeaveLoop \/ FinalWait \/ Publish
  <2>1. UNCHANGED <<charPools, queue, combosLeft, chars, pending>>
    BY <1>8 DEF Drain, Throttle, LeaveLoop, FinalWait, Publish
  <2>2. mpc \in {"drain", "prune", "partition"} <=> mpc' \in {"drain", "prune", "partition"}
    BY <1>8 DEF Drain, Throttle, LeaveLoop, FinalWait, Publish
  <2>3. TeamsToCome' = TeamsToCome
    BY <2>1, <2>2 DEF TeamsToCome, TeamsUncut, TeamsPending
  <2>4. QED
    BY <1>2, <2>1, <2>3
<1>9. QED
  BY <1>3, <1>4, <1>5, <1>6, <1>7, <1>8 DEF Main

LEMMA WorkerOpensNoTeam ==
  ASSUME SearchInv, NEW w \in Workers, Worker(w)
  PROVE  TeamsOpen' \subseteq TeamsOpen
<1>1. UNCHANGED <<problem, mainVars, charPools>>
  BY DEF Worker, StartTask, ReadBest, Scan, MergeCounters, MergeBest
<1>2. TeamsToCome' = TeamsToCome
  BY <1>1 DEF TeamsToCome, TeamsUncut, TeamsPending, mainVars
<1>3. Outstanding' \subseteq Outstanding
  BY NoNewTasks DEF SearchInv
<1>4. QED
  BY <1>1, <1>2, <1>3 DEF TeamsOpen, TeamsOf

\* The best score changes only for a better one, with an eligible team that reaches it.
BestImproves ==
  \/ UNCHANGED <<bestEp, bestTeam>>
  \/ /\ bestEp' > bestEp
     /\ bestTeam' \in Eligible(problem)
     /\ bestEp' <= problem.ep[bestTeam']

LEMMA StepImproves ==
  ASSUME SearchInv, Main \/ \E w \in Workers : Worker(w)
  PROVE  BestImproves /\ problem' = problem
<1>1. CASE Main
  BY <1>1 DEF Main, SkipCombination, TakeCombination, Drain, Prune, Partition, Submit,
     Throttle, Unthrottle, DetachTask, LeaveLoop, FinalWait, Publish, bestVars, BestImproves
<1>2. ASSUME NEW w \in Workers, MergeBest(w), Improves(w)
      PROVE  BestImproves /\ problem' = problem
  <2>1. bestEp' = wBestEp[w] /\ bestTeam' = wBestTeam[w] /\ problem' = problem
    BY <1>2 DEF MergeBest
  <2>2. wBestEp[w] \in Nat /\ bestEp \in Nat /\ wBestEp[w] > bestEp
    BY <1>2 DEF SearchInv, TypeOK, Improves
  <2>3. LocalBest(w)
    BY <1>2 DEF MergeBest, SearchInv, WorkerInv, LocalBest
  <2>4. wBestTeam[w] # NoTeam
    BY <2>2, <2>3 DEF LocalBest
  <2>5. QED
    BY <2>1, <2>2, <2>3, <2>4 DEF LocalBest, BestImproves
<1>3. ASSUME NEW w \in Workers, MergeBest(w), ~Improves(w)
      PROVE  BestImproves /\ problem' = problem
  BY <1>3 DEF MergeBest, BestImproves
<1>4. ASSUME NEW w \in Workers, StartTask(w) \/ ReadBest(w) \/ Scan(w) \/ MergeCounters(w)
      PROVE  BestImproves /\ problem' = problem
  BY <1>4 DEF StartTask, ReadBest, Scan, MergeCounters, bestVars, BestImproves
<1>5. QED
  BY <1>1, <1>2, <1>3, <1>4 DEF Worker

\* The instance of the abstract search is about the same teams.
LEMMA SameVocabulary ==
  ASSUME NEW p, NEW d, NEW e
  PROVE  /\ Search!NoTeam = NoTeam
         /\ Search!Eligible(p) = Eligible(p)
         /\ Search!Scope(p) = Scope(p)
         /\ Search!Beaten(p, d, e) <=> Beaten(p, d, e)
<1>1. Search!NoTeam = NoTeam
  BY DEF NoTeam, Search!NoTeam
<1>2. \A x : Search!CharsOf(x) = CharsOf(x) /\ Search!CardsOf(x) = CardsOf(x)
  BY DEF CharsOf, Search!CharsOf, CardsOf, Search!CardsOf, Slots, Search!Slots
<1>3. Search!Eligible(p) = Eligible(p)
  BY <1>2 DEF Eligible, Search!Eligible
<1>4. Search!Scope(p) = Scope(p)
  <2>1. Search!MayDropLowValue <=> MayDropLowValue
    BY DEF MayDropLowValue, Search!MayDropLowValue, Cardinality, Search!Cardinality
  <2>2. \A x : x \in Search!Scope(p) <=> x \in Scope(p)
    BY <1>2, <1>3, <2>1 DEF Scope, Search!Scope
  <2>3. QED
    BY <2>2
<1>5. Search!Beaten(p, d, e) <=> Beaten(p, d, e)
  BY DEF Beaten, Search!Beaten
<1>6. QED
  BY <1>1, <1>3, <1>4, <1>5

LEMMA InitSearches == Init => Search!Init
<1> SUFFICES ASSUME Init
             PROVE  Search!Init
  OBVIOUS
<1>1. Busy = {} /\ queue = <<>>
  BY DEF Init, Busy
<1>2. Range(queue) = {}
  BY <1>1, InitType, RangeOfQueue DEF TypeOK
<1>3. ASSUME NEW d \in Scope(problem)
      PROVE  d \in TeamsOpen
  <2>1. TypeOK /\ CoverInv
    BY InitType, InitCover
  <2>2. d \in TeamsToCome
    BY InitToCome
  <2>3. QED
    BY <2>2 DEF TeamsOpen
<1>4. TeamsOpen \cap Scope(problem) = Scope(problem)
  BY <1>3
<1>5. (mpc = "done") = FALSE
  BY DEF Init
<1>6. QED
  <2>1. Search!Scope(problem) = Scope(problem) /\ Search!NoTeam = NoTeam
    BY SameVocabulary
  <2>2. problem \in Problems /\ bestEp = problem.minEp /\ bestTeam = NoTeam
    BY DEF Init
  <2>3. QED
    BY <1>4, <1>5, <2>1, <2>2 DEF Search!Init

LEMMA StepSearches == SearchInv /\ SearchInv' /\ [Next]_vars => [Search!Next]_(Search!vars)
<1> SUFFICES ASSUME SearchInv, SearchInv', [Next]_vars
             PROVE  Search!Next \/ UNCHANGED Search!vars
  OBVIOUS
<1>1. CASE UNCHANGED vars
  <2>1. UNCHANGED <<problem, bestEp, bestTeam, mpc>>
    BY <1>1 DEF vars, bestVars, mainVars
  <2>2. TeamsOpen' = TeamsOpen
    BY <1>1 DEF vars, mainVars, workerVars, TeamsOpen, TeamsOf, Outstanding, Busy, TeamsToCome,
       TeamsUncut, TeamsPending
  <2>3. (TeamsOpen \cap Scope(problem))' = TeamsOpen \cap Scope(problem)
    BY <2>1, <2>2
  <2>4. (mpc = "done")' = (mpc = "done")
    BY <2>1
  <2>5. QED
    BY <2>1, <2>3, <2>4 DEF Search!vars
<1>2. CASE Publish
  <2>1. combosLeft = {} /\ pending = {} /\ Outstanding = {}
    BY <1>2, DrainedIsEmpty DEF Publish, SearchInv, PhaseInv
  <2>2. TeamsOpen = {}
    BY <1>2, <2>1 DEF Publish, TeamsOpen, TeamsOf, TeamsToCome, TeamsUncut, TeamsPending
  <2>3. TeamsOpen' \subseteq TeamsOpen
    BY <1>2, MainOpensNoTeam DEF Main
  <2>4. UNCHANGED <<problem, bestEp, bestTeam>> /\ mpc # "done" /\ mpc' = "done"
    BY <1>2 DEF Publish, bestVars
  <2>5. QED
    BY <2>2, <2>3, <2>4 DEF Search!Next, Search!Answer
<1>3. CASE (Main \/ \E w \in Workers : Worker(w)) /\ ~Publish
  <2>1. mpc # "done" /\ mpc' # "done"
    <3>1. CASE Main
      BY <1>3, <3>1 DEF Main, SkipCombination, TakeCombination, Drain, Prune, Partition, Submit,
         Throttle, Unthrottle, DetachTask, LeaveLoop, FinalWait
    <3>2. ASSUME NEW w \in Workers, Worker(w)
          PROVE  mpc # "done" /\ mpc' = mpc
      <4>1. ~Drained /\ mpc' = mpc
        BY <3>2 DEF Worker, StartTask, ReadBest, Scan, MergeCounters, MergeBest, Drained,
           mainVars, SearchInv, TypeOK
      <4>2. QED
        BY <4>1 DEF SearchInv, PhaseInv
    <3>3. QED
      BY <1>3, <3>1, <3>2
  <2>2. BestImproves /\ problem' = problem
    BY <1>3, StepImproves
  <2>3. TeamsOpen' \subseteq TeamsOpen
    BY <1>3, MainOpensNoTeam, WorkerOpensNoTeam
  <2>4. \A d \in Scope(problem) : d \notin TeamsOpen' => Beaten(problem, d, bestEp')
    BY <2>2 DEF SearchInv, CoverInv, TeamsOpen, TeamsOf, Outstanding, InHand
  <2>5. /\ Search!Eligible(problem) = Eligible(problem)
        /\ \A d, e : Search!Beaten(problem, d, e) <=> Beaten(problem, d, e)
    BY SameVocabulary
  <2>6. (mpc = "done") = FALSE /\ (mpc' = "done") = FALSE
    BY <2>1
  <2>7. \A d \in (TeamsOpen \cap Scope(problem)) \ (TeamsOpen' \cap Scope(problem')) :
          Search!Beaten(problem, d, bestEp')
    BY <2>2, <2>4, <2>5
  <2>8. TeamsOpen' \cap Scope(problem') \subseteq TeamsOpen \cap Scope(problem)
    BY <2>2, <2>3
  <2>9. Search!Settle
    BY <2>2, <2>5, <2>6, <2>7, <2>8 DEF Search!Settle, BestImproves
  <2>10. QED
    BY <2>9 DEF Search!Next
<1>4. QED
  BY <1>1, <1>2, <1>3 DEF Next, Returned

\* The builder is a best-team search: each of its steps settles teams the abstract search
\* may settle, answers, or changes nothing the abstract search can see.
THEOREM ImplementsTeamSearch == Spec => IsTeamSearch
<1>1. Init => Search!Init
  BY InitSearches
<1>2. SearchInv /\ SearchInv' /\ [Next]_vars => [Search!Next]_(Search!vars)
  BY StepSearches
<1>3. QED
  BY <1>1, <1>2, SearchInvHolds, PTL DEF Spec, IsTeamSearch, Search!Spec
-----------------------------------------------------------------------------
(***************************************************************************)
(* Progress.  ProgressConserved needs to know that no team is counted      *)
(* twice: each lies in one task, one pending block or one character set    *)
(* still to come (OnceInv); that a worker's count is that of its task      *)
(* (CountInv); and that the sets that have been through are the first ones *)
(* of the loop, by which pruning works out the progress again (WalkInv).   *)
(***************************************************************************)
CombosToCut == combosLeft \cup (IF mpc \in {"drain", "prune", "partition"} THEN {chars} ELSE {})

WalkInv ==
  /\ Cardinality(CombosToCut) + charCombsEvaluated = Cardinality(Combos)
  /\ \A b \in CombosToCut, c \in Combos : CombBefore(b, c) => c \in CombosToCut
  /\ mpc \in {"drain", "prune", "partition"} => \A b \in combosLeft : CombBefore(chars, b)

\* Workers whose task has not added its count.
Counting == {w \in Busy : wpc[w] # "merge"}

Apart(pools, s, t) == TaskTeams(pools, s) \cap TaskTeams(pools, t) = {}

OnceInv ==
  /\ mpc \notin {"combine", "wait", "publish", "done"} => chars \notin combosLeft
  /\ \A e \in pending : e \in PartitionedProduct(PoolSizes(charPools, chars))
  /\ \A t \in Outstanding : t.chars \notin CombosToCut
  /\ \A t \in Outstanding, e \in pending : Apart(charPools, t, [chars |-> chars, extents |-> e])
  /\ \A i, j \in DOMAIN queue : i # j => Apart(charPools, queue[i], queue[j])
  /\ \A i \in DOMAIN queue, w \in Busy : Apart(charPools, queue[i], wtask[w])
  /\ \A v, w \in Busy : v # w => Apart(charPools, wtask[v], wtask[w])

CountInv ==
  \A w \in Workers : wpc[w] = "scan" =>
    wConsidered[w] + Cardinality(wtodo[w]) = Cardinality(TaskTeams(charPools, wtask[w]))

ProgressInv ==
  SearchInv /\ CountInv /\ OnceInv /\ (problem.satisfying = Combos => WalkInv /\ ProgressConserved)

\* A set of naturals has a least element.
LEMMA LeastNat ==
  ASSUME NEW T, T \subseteq Nat, T # {}
  PROVE  \E m \in T : \A n \in T : m <= n
<1> DEFINE R == OpToRel(<, Nat)
<1>1. \A m, n \in Nat : <<m, n>> \in R <=> m < n
  BY DEF OpToRel
<1>2. IsWellFoundedOn(R, Nat)
  BY NatLessThanWellFounded
<1>3. PICK m \in T : \A n \in T : ~ (<<n, m>> \in R)
  <2> HIDE DEF R
  <2>1. QED
    BY <1>2, WFMin
<1>4. \A n \in T : ~ (n < m)
  BY <1>1, <1>3
<1>5. QED
  BY <1>4

\* There are finitely many character sets.
LEMMA CombosFinite == IsFiniteSet(Combos)
<1> DEFINE G(c) == {<<i, c[i]>> : i \in Slots}
           f == [c \in Combos |-> G(c)]
           T == SUBSET (Slots \X Chars)
<1>1. IsFiniteSet(Slots) /\ IsFiniteSet(Chars)
  BY FS_Interval, ProblemAssumption DEF Slots, Chars
<1>2. IsFiniteSet(T)
  BY <1>1, FS_Product, FS_SUBSET
<1>3. ASSUME NEW c \in Combos
      PROVE  G(c) \in T
  BY DEF Combos
<1>4. ASSUME NEW c \in Combos, NEW d \in Combos, G(c) = G(d)
      PROVE  c = d
  <2>1. \A i \in Slots : <<i, c[i]>> \in G(d)
    BY <1>4
  <2>2. \A i \in Slots : c[i] = d[i]
    BY <2>1
  <2>3. QED
    BY <2>2 DEF Combos
<1>5. f \in Injection(Combos, T)
  <2>1. f \in [Combos -> T]
    BY <1>3
  <2>2. \A c, d \in Combos : f[c] = f[d] => c = d
    BY <1>4
  <2>3. QED
    BY <2>1, <2>2 DEF Injection, IsInjective
<1>6. QED
  BY <1>2, <1>5, FS_Injection

\* The loop visits the sets in a strict order, and in a total one.
LEMMA LoopIsStrict ==
  ASSUME NEW a \in Combos, NEW b \in Combos, CombBefore(a, b)
  PROVE  ~CombBefore(b, a) /\ a # b
<1>1. \A i \in Slots : a[i] \in Int /\ b[i] \in Int /\ i \in Int
  BY DEF Combos, Chars, Slots
<1>2. PICK i \in Slots : a[i] < b[i] /\ \A j \in 1 .. i - 1 : a[j] = b[j]
  BY DEF CombBefore
<1>3. ASSUME NEW k \in Slots, b[k] < a[k], \A j \in 1 .. k - 1 : b[j] = a[j]
      PROVE  FALSE
  <2>1. i < k => i \in 1 .. k - 1
    BY DEF Slots
  <2>2. k < i => k \in 1 .. i - 1
    BY DEF Slots
  <2>3. QED
    BY <1>1, <1>2, <1>3, <2>1, <2>2
<1>4. QED
  BY <1>1, <1>2, <1>3 DEF CombBefore

LEMMA LoopIsTotal ==
  ASSUME NEW a \in Combos, NEW b \in Combos, a # b
  PROVE  CombBefore(a, b) \/ CombBefore(b, a)
<1> DEFINE D == {i \in Slots : a[i] # b[i]}
<1>1. \A i \in Slots : a[i] \in Int /\ b[i] \in Int
  BY DEF Combos, Chars
<1>2. D # {}
  BY DEF Combos
<1>3. D \subseteq Nat
  BY DEF Slots
<1>4. PICK i \in D : \A j \in D : i <= j
  <2> HIDE DEF D
  <2>1. QED
    BY <1>2, <1>3, LeastNat
<1>5. \A j \in 1 .. i - 1 : j \in Slots /\ ~(i <= j)
  BY <1>4, ProblemAssumption DEF Slots
<1>6. \A j \in 1 .. i - 1 : a[j] = b[j]
  BY <1>4, <1>5
<1>7. a[i] < b[i] \/ b[i] < a[i]
  BY <1>1
<1>8. QED
  BY <1>6, <1>7 DEF CombBefore

\* Two disjoint sets of teams.
LEMMA CountBoth ==
  ASSUME NEW S, NEW T, S \subseteq Decks, T \subseteq Decks, S \cap T = {}
  PROVE  /\ Cardinality(S) \in Nat /\ Cardinality(T) \in Nat
         /\ Cardinality(S \cup T) = Cardinality(S) + Cardinality(T)
<1>1. IsFiniteSet(S) /\ IsFiniteSet(T)
  BY DecksFinite, FS_Subset
<1>2. Cardinality(S \cap T) = 0
  BY FS_EmptySet
<1>3. Cardinality(S) \in Nat /\ Cardinality(T) \in Nat
  BY <1>1, FS_CardinalityType
<1>4. Cardinality(S \cup T) = Cardinality(S) + Cardinality(T) - Cardinality(S \cap T)
  BY <1>1, FS_Union
<1>5. QED
  BY <1>2, <1>3, <1>4

\* The last sets of the loop: those before them are as many as there are others.
ClosedUp(U) == U \subseteq Combos /\ \A b \in U, c \in Combos : CombBefore(b, c) => c \in U

LEMMA FirstCombosAre ==
  ASSUME NEW U, ClosedUp(U), NEW n \in Nat, Cardinality(U) + n = Cardinality(Combos)
  PROVE  FirstCombos(n) = Combos \ U
<1> DEFINE D == Combos \ U
           P(c) == {b \in Combos : CombBefore(b, c)}
<1>1. IsFiniteSet(Combos) /\ IsFiniteSet(U) /\ IsFiniteSet(D) /\ Cardinality(U) \in Nat
  BY CombosFinite, FS_Subset, FS_CardinalityType DEF ClosedUp
<1>2. Cardinality(D) = n
  <2>1. U \cup D = Combos /\ Cardinality(U \cap D) = 0
    BY FS_EmptySet DEF ClosedUp
  <2>2. Cardinality(D) \in Nat
    BY <1>1, FS_CardinalityType
  <2>3. Cardinality(Combos) = Cardinality(U) + Cardinality(D)
    <3>1. Cardinality(U \cup D) = Cardinality(U) + Cardinality(D) - Cardinality(U \cap D)
      BY <1>1, FS_Union
    <3>2. Cardinality(U \cup D) = Cardinality(Combos)
      BY <2>1, Zenon
    <3>3. Cardinality(U \cap D) = 0
      BY <2>1
    <3> HIDE DEF D
    <3>4. QED
      BY <1>1, <2>2, <3>1, <3>2, <3>3
  <2>4. QED
    BY <1>1, <2>2, <2>3
<1>3. ASSUME NEW c \in D
      PROVE  Cardinality(P(c)) < n
  <2>1. P(c) \subseteq D \ {c}
    BY LoopIsStrict DEF ClosedUp
  <2>2. IsFiniteSet(D \ {c}) /\ Cardinality(D \ {c}) = n - 1
    BY <1>1, <1>2, FS_RemoveElement
  <2>3. Cardinality(P(c)) <= Cardinality(D \ {c}) /\ IsFiniteSet(P(c))
    BY <2>1, <2>2, FS_Subset
  <2>4. Cardinality(P(c)) \in Nat
    BY <2>3, FS_CardinalityType
  <2>5. QED
    BY <2>2, <2>3, <2>4
<1>4. ASSUME NEW c \in U
      PROVE  ~(Cardinality(P(c)) < n)
  <2>1. D \subseteq P(c)
    BY LoopIsTotal DEF ClosedUp
  <2>2. IsFiniteSet(P(c))
    BY <1>1, FS_Subset
  <2>3. Cardinality(D) <= Cardinality(P(c))
    BY <2>1, <2>2, FS_Subset
  <2>4. Cardinality(P(c)) \in Nat
    BY <2>2, FS_CardinalityType
  <2>5. QED
    BY <1>2, <2>3, <2>4
<1>5. QED
  BY <1>3, <1>4 DEF FirstCombos, ClosedUp

\* What pruning sets the progress counter to: the teams of the sets still to come are all that
\* is not counted.
ComingTeams(pools, U) == UNION {TeamsFrom(pools, c) : c \in U}

LEMMA PrunedIsCounted ==
  ASSUME NEW pools, NEW U, ClosedUp(U), NEW n \in Nat,
         Cardinality(U) + n = Cardinality(Combos)
  PROVE  PrunedProgress(pools, n, TotalTeams(OrigPools) - TotalTeams(pools))
           + Cardinality(ComingTeams(pools, U)) = TotalTeams(OrigPools)
<1> DEFINE Ev(p) == ComingTeams(p, FirstCombos(n))
<1>1. FirstCombos(n) = Combos \ U /\ U \subseteq Combos
  BY FirstCombosAre DEF ClosedUp
<1>2. ASSUME NEW p
      PROVE  /\ TotalTeams(p) = Cardinality(Ev(p)) + Cardinality(ComingTeams(p, U))
             /\ Cardinality(Ev(p)) \in Nat /\ Cardinality(ComingTeams(p, U)) \in Nat
  <2>1. Ev(p) \subseteq Decks /\ ComingTeams(p, U) \subseteq Decks
    BY DEF ComingTeams, TeamsFrom
  <2>2. Ev(p) \cap ComingTeams(p, U) = {}
    BY <1>1 DEF ComingTeams, TeamsFrom
  <2>3. Ev(p) \cup ComingTeams(p, U) = UNION {TeamsFrom(p, c) : c \in Combos}
    BY <1>1 DEF ComingTeams
  <2>4. QED
    BY <2>1, <2>2, <2>3, CountBoth DEF TotalTeams
<1>3. PrunedProgress(pools, n, TotalTeams(OrigPools) - TotalTeams(pools))
        = Cardinality(Ev(OrigPools)) + ((TotalTeams(OrigPools) - TotalTeams(pools))
            - (Cardinality(Ev(OrigPools)) - Cardinality(Ev(pools))))
  BY DEF PrunedProgress, ComingTeams
<1>4. QED
  <2> HIDE DEF Ev
  <2>1. QED
    BY <1>2, <1>3

\* Two cuts of a vector share no index, two blocks no team.
LEMMA CutsApart ==
  ASSUME NEW size \in Nat, NEW e \in Cuts(size), NEW f \in Cuts(size), NEW p \in Nat,
         e.lo <= p, p < e.hi, f.lo <= p, p < f.hi
  PROVE  e = f
<1>1. BlockSize \in Nat /\ BlockSize > 0
  BY BuilderAssumption
<1>2. PICK k \in 0 .. size - 1 :
        /\ k % BlockSize = 0
        /\ e = [lo |-> k, hi |-> IF k + BlockSize <= size THEN k + BlockSize ELSE size]
  BY DEF Cuts
<1>3. PICK m \in 0 .. size - 1 :
        /\ m % BlockSize = 0
        /\ f = [lo |-> m, hi |-> IF m + BlockSize <= size THEN m + BlockSize ELSE size]
  BY DEF Cuts
<1>4. k < m + BlockSize /\ m < k + BlockSize /\ k \in Nat /\ m \in Nat
  <2>1. e.lo = k /\ f.lo = m /\ e.hi <= k + BlockSize /\ f.hi <= m + BlockSize
    BY <1>1, <1>2, <1>3
  <2>2. e.hi \in Nat /\ f.hi \in Nat
    BY <1>1, <1>2, <1>3
  <2>3. QED
    BY <1>1, <2>1, <2>2
<1>5. k = m
  <2>1. PICK i \in Nat : k = i * BlockSize
    BY <1>1, <1>2, <1>4
  <2>2. PICK j \in Nat : m = j * BlockSize
    BY <1>1, <1>3, <1>4
  <2>3. i < j + 1 /\ j < i + 1
    <3>1. i * BlockSize < (j + 1) * BlockSize /\ j * BlockSize < (i + 1) * BlockSize
      BY <1>1, <1>4, <2>1, <2>2
    <3>2. QED
      BY <1>1, <3>1
  <2>4. QED
    BY <2>1, <2>2, <2>3
<1>6. QED
  BY <1>2, <1>3, <1>5

LEMMA BlocksApart ==
  ASSUME NEW pools \in [Chars -> SUBSET Cards], NEW c \in Combos,
         NEW e \in PartitionedProduct(PoolSizes(pools, c)),
         NEW f \in PartitionedProduct(PoolSizes(pools, c)), e # f
  PROVE  TaskTeams(pools, [chars |-> c, extents |-> e])
           \cap TaskTeams(pools, [chars |-> c, extents |-> f]) = {}
<1> SUFFICES ASSUME NEW d \in TaskTeams(pools, [chars |-> c, extents |-> e]),
                    d \in TaskTeams(pools, [chars |-> c, extents |-> f])
             PROVE  FALSE
  OBVIOUS
<1>1. PICK i \in Slots : e[i] # f[i]
  BY DEF PartitionedProduct
<1>2. d[i] \in pools[c[i]] /\ pools[c[i]] \in SUBSET Cards
  BY DEF TaskTeams, Combos
<1>3. InExtent(pools[c[i]], d[i], e[i]) /\ InExtent(pools[c[i]], d[i], f[i])
  BY DEF TaskTeams
<1>4. IndexIn(pools[c[i]], d[i]) \in Nat /\ Cardinality(pools[c[i]]) \in Nat
  BY <1>2, IndexInPool
<1>5. /\ e[i] \in Cuts(Cardinality(pools[c[i]]))
      /\ f[i] \in Cuts(Cardinality(pools[c[i]]))
  BY DEF PartitionedProduct, PoolSizes
<1>6. e[i] = f[i]
  BY <1>3, <1>4, <1>5, CutsApart DEF InExtent
<1>7. QED
  BY <1>1, <1>6
-----------------------------------------------------------------------------
LEMMA ApartIsMutual ==
  ASSUME NEW pools, NEW s, NEW t, Apart(pools, s, t)
  PROVE  Apart(pools, t, s)
BY DEF Apart

\* Tasks of different character sets share no team.
LEMMA OtherCharsApart ==
  ASSUME NEW pools, NEW s, NEW t, s.chars # t.chars
  PROVE  Apart(pools, s, t)
BY DEF Apart, TaskTeams

LEMMA InitOnce == Init => OnceInv /\ CountInv
<1> SUFFICES ASSUME Init
             PROVE  OnceInv /\ CountInv
  OBVIOUS
<1>1. TypeOK /\ Drained
  BY InitType DEF Init, Drained
<1>2. queue = <<>> /\ Busy = {} /\ Outstanding = {}
  BY <1>1, DrainedIsEmpty
<1>3. DOMAIN queue = {}
  BY <1>2
<1>4. pending = {} /\ mpc = "combine"
  BY DEF Init
<1>5. OnceInv
  BY <1>2, <1>3, <1>4 DEF OnceInv
<1>6. CountInv
  BY DEF Init, CountInv
<1>7. QED
  BY <1>5, <1>6

\* The main thread moves a block from pending to the queue; it makes blocks only of a character
\* set that no task is of.
LEMMA DetachKeepsOnce ==
  ASSUME SearchInv, OnceInv, DetachTask, mpc \in {"submit", "throttle"}
  PROVE  OnceInv'
<1> USE DEF SearchInv
<1>1. PICK e \in pending : /\ pending' = pending \ {e}
                           /\ queue' = Append(queue, [chars |-> chars, extents |-> e])
  BY DEF DetachTask
<1> DEFINE t == [chars |-> chars, extents |-> e]
<1>2. /\ charPools' = charPools /\ combosLeft' = combosLeft /\ chars' = chars
      /\ wpc' = wpc /\ wtask' = wtask /\ mpc' \in {"combine", "submit"}
  BY DEF DetachTask, workerVars
<1>3. t \in Task /\ chars \in Combos
  BY DEF TypeOK, Task
<1>4. Range(queue') = Range(queue) \cup {t} /\ Busy' = Busy
  BY <1>1, <1>2, <1>3, RangeOfQueue DEF TypeOK, Busy
<1>5. Outstanding' = Outstanding \cup {t}
  BY <1>2, <1>4 DEF Outstanding
<1>6. /\ DOMAIN queue = 1 .. Len(queue) /\ DOMAIN queue' = 1 .. Len(queue) + 1
      /\ \A i \in 1 .. Len(queue) : queue'[i] = queue[i] /\ i # Len(queue) + 1
      /\ queue'[Len(queue) + 1] = t
      /\ \A i \in 1 .. Len(queue) + 1 : i \in 1 .. Len(queue) \/ i = Len(queue) + 1
  BY <1>1, <1>3 DEF TypeOK
<1>7. chars \notin combosLeft /\ CombosToCut = combosLeft /\ CombosToCut' = combosLeft
  BY <1>2 DEF OnceInv, CombosToCut
<1>8. \A s \in Outstanding, f \in pending : Apart(charPools, s, [chars |-> chars, extents |-> f])
  BY DEF OnceInv
<1>9. \A i \in DOMAIN queue : queue[i] \in Outstanding
  BY DEF Outstanding, Range
<1>10. \A v \in Busy : wtask[v] \in Outstanding
  BY DEF Outstanding
<1>11. \A s \in Outstanding' : s.chars \notin CombosToCut'
  BY <1>5, <1>7 DEF OnceInv
<1>12. \A f \in pending' : f \in PartitionedProduct(PoolSizes(charPools, chars))
  BY <1>1 DEF OnceInv
<1>13. ASSUME NEW f \in pending'
       PROVE  Apart(charPools, t, [chars |-> chars, extents |-> f])
  <2>1. f # e /\ f \in PartitionedProduct(PoolSizes(charPools, chars))
    BY <1>1, <1>12
  <2>2. e \in PartitionedProduct(PoolSizes(charPools, chars))
    BY DEF OnceInv
  <2>3. QED
    BY <1>3, <2>1, <2>2, BlocksApart DEF Apart, TypeOK
<1>14. \A s \in Outstanding', f \in pending' :
          Apart(charPools, s, [chars |-> chars, extents |-> f])
  BY <1>1, <1>5, <1>8, <1>13
<1>15. \A s \in Outstanding : Apart(charPools, s, t) /\ Apart(charPools, t, s)
  BY <1>8, ApartIsMutual
<1> HIDE DEF t
<1>16. \A i, j \in DOMAIN queue' : i # j => Apart(charPools, queue'[i], queue'[j])
  BY <1>6, <1>9, <1>15 DEF OnceInv
<1>17. \A i \in DOMAIN queue', w \in Busy : Apart(charPools, queue'[i], wtask[w])
  BY <1>6, <1>10, <1>15 DEF OnceInv
<1>18. QED
  BY <1>2, <1>4, <1>7, <1>11, <1>12, <1>14, <1>16, <1>17 DEF OnceInv

LEMMA MainKeepsOnce ==
  ASSUME SearchInv, OnceInv, Main
  PROVE  OnceInv'
<1> USE DEF SearchInv
<1>1. wtask' = wtask /\ wpc' = wpc /\ Busy' = Busy
  BY DEF Main, SkipCombination, TakeCombination, Drain, Prune, Partition, Submit,
     Throttle, Unthrottle, DetachTask, LeaveLoop, FinalWait, Publish, workerVars, Busy
<1>2. ASSUME queue' = queue, charPools' = charPools, pending' = {}, CombosToCut' \subseteq CombosToCut,
             mpc' \notin {"combine", "wait", "publish", "done"} => chars' \notin combosLeft'
      PROVE  OnceInv'
  <2>1. Outstanding' = Outstanding
    BY <1>1, <1>2 DEF Outstanding
  <2>2. QED
    BY <1>1, <1>2, <2>1 DEF OnceInv
<1>3. CASE SkipCombination
  <2>1. /\ queue' = queue /\ charPools' = charPools /\ pending' = {} /\ mpc = "combine"
        /\ mpc' = "combine" /\ combosLeft' \subseteq combosLeft
    BY <1>3 DEF SkipCombination, PhaseInv
  <2>2. CombosToCut' \subseteq CombosToCut
    BY <2>1 DEF CombosToCut
  <2>3. QED
    BY <1>2, <2>1, <2>2
<1>4. CASE TakeCombination
  <2>1. PICK c \in combosLeft : combosLeft' = combosLeft \ {c} /\ chars' = c
    BY <1>4 DEF TakeCombination
  <2>2. /\ queue' = queue /\ charPools' = charPools /\ pending' = {} /\ mpc = "combine"
    BY <1>4 DEF TakeCombination, PhaseInv
  <2>3. CombosToCut' \subseteq CombosToCut
    BY <2>1, <2>2 DEF CombosToCut
  <2>4. QED
    BY <1>2, <2>1, <2>2, <2>3
<1>5. CASE Prune
  <2>1. /\ Outstanding = {} /\ Busy = {} /\ queue' = <<>> /\ pending' = {}
        /\ combosLeft' = combosLeft /\ chars' = chars /\ mpc = "prune"
    BY <1>5, DrainedIsEmpty DEF Prune, PhaseInv
  <2>2. Outstanding' = {} /\ DOMAIN queue' = {}
    BY <1>1, <1>5, <2>1 DEF Outstanding, Prune
  <2>3. QED
    BY <1>1, <2>1, <2>2 DEF OnceInv
<1>6. CASE Partition
  <2>1. /\ queue' = queue /\ charPools' = charPools /\ combosLeft' = combosLeft
        /\ chars' = chars /\ mpc = "partition" /\ mpc' \in {"combine", "submit"}
        /\ pending' = PartitionedProduct(PoolSizes(charPools, chars))
    BY <1>6 DEF Partition
  <2>2. Outstanding' = Outstanding
    BY <1>1, <2>1 DEF Outstanding
  <2>3. chars \in CombosToCut /\ CombosToCut' \subseteq CombosToCut
    BY <2>1 DEF CombosToCut
  <2>4. ASSUME NEW t \in Outstanding, NEW e
        PROVE  Apart(charPools, t, [chars |-> chars, extents |-> e])
    <3>1. t.chars # chars
      BY <2>3 DEF OnceInv
    <3>2. QED
      BY <3>1, OtherCharsApart
  <2>5. QED
    BY <1>1, <2>1, <2>2, <2>3, <2>4 DEF OnceInv
<1>7. CASE Submit \/ Unthrottle
  BY <1>7, DetachKeepsOnce DEF Submit, Unthrottle
<1>8. CASE Drain \/ Throttle \/ LeaveLoop \/ FinalWait \/ Publish
  <2>1. UNCHANGED <<charPools, queue, combosLeft, chars, pending>>
    BY <1>8 DEF Drain, Throttle, LeaveLoop, FinalWait, Publish
  <2>2. /\ mpc \in {"drain", "prune", "partition"} <=> mpc' \in {"drain", "prune", "partition"}
        /\ mpc' \notin {"combine", "wait", "publish", "done"} =>
             mpc \notin {"combine", "wait", "publish", "done"}
    BY <1>8 DEF Drain, Throttle, LeaveLoop, FinalWait, Publish
  <2>3. Outstanding' = Outstanding /\ CombosToCut' = CombosToCut
    BY <1>1, <2>1, <2>2 DEF Outstanding, CombosToCut
  <2>4. QED
    BY <1>1, <2>1, <2>2, <2>3 DEF OnceInv
<1>9. QED
  BY <1>3, <1>4, <1>5, <1>6, <1>7, <1>8 DEF Main

\* A worker takes the first task of the queue, or is done with one.
LEMMA WorkerKeepsOnce ==
  ASSUME SearchInv, OnceInv, NEW w \in Workers, Worker(w)
  PROVE  OnceInv'
<1> USE DEF SearchInv
<1>1. UNCHANGED <<problem, mainVars, charPools>>
  BY DEF Worker, StartTask, ReadBest, Scan, MergeCounters, MergeBest
<1>2. Outstanding' \subseteq Outstanding
  BY NoNewTasks
<1>3. /\ mpc' = mpc /\ combosLeft' = combosLeft /\ chars' = chars /\ pending' = pending
      /\ CombosToCut' = CombosToCut
  BY <1>1 DEF mainVars, CombosToCut
<1>4. CASE StartTask(w)
  <2>1. /\ queue # <<>> /\ queue' = Tail(queue) /\ w \notin Busy /\ Busy' = Busy \cup {w}
        /\ wtask'[w] = Head(queue) /\ \A v \in Busy : wtask'[v] = wtask[v]
    BY <1>4 DEF StartTask, Busy, TypeOK
  <2>2. /\ DOMAIN queue' = 1 .. Len(queue) - 1 /\ DOMAIN queue = 1 .. Len(queue)
        /\ \A i \in 1 .. Len(queue) - 1 : queue'[i] = queue[i + 1] /\ i + 1 \in 1 .. Len(queue)
        /\ Head(queue) = queue[1] /\ 1 \in 1 .. Len(queue)
        /\ \A i \in 1 .. Len(queue) - 1 : i + 1 # 1
        /\ \A i, j \in 1 .. Len(queue) - 1 : i # j => i + 1 # j + 1
    BY <2>1 DEF TypeOK
  <2>3. \A i, j \in DOMAIN queue' : i # j => Apart(charPools, queue'[i], queue'[j])
    BY <2>2 DEF OnceInv
  <2>4. \A i \in DOMAIN queue' : Apart(charPools, queue'[i], wtask'[w])
    BY <2>1, <2>2 DEF OnceInv
  <2>5. \A i \in DOMAIN queue', v \in Busy' : Apart(charPools, queue'[i], wtask'[v])
    BY <2>1, <2>2, <2>4 DEF OnceInv
  <2>6. \A v \in Busy : Apart(charPools, wtask'[w], wtask'[v]) /\ Apart(charPools, wtask'[v], wtask'[w])
    BY <2>1, <2>2, ApartIsMutual DEF OnceInv
  <2>7. \A u, v \in Busy' : u # v => Apart(charPools, wtask'[u], wtask'[v])
    BY <2>1, <2>6 DEF OnceInv
  <2>8. QED
    BY <1>1, <1>2, <1>3, <2>3, <2>5, <2>7 DEF OnceInv
<1>5. CASE ReadBest(w) \/ Scan(w) \/ MergeCounters(w) \/ MergeBest(w)
  <2>1. /\ queue' = queue /\ Busy' \subseteq Busy /\ \A v \in Busy' : wtask'[v] = wtask[v]
    BY <1>5 DEF ReadBest, Scan, MergeCounters, MergeBest, Busy, TypeOK
  <2>2. QED
    BY <1>1, <1>2, <1>3, <2>1 DEF OnceInv
<1>6. QED
  BY <1>4, <1>5 DEF Worker

\* A worker counts the teams of its task as it scans them.
LEMMA StepKeepsCount ==
  ASSUME SearchInv, CountInv, [Next]_vars
  PROVE  CountInv'
<1> USE DEF SearchInv
<1>1. ASSUME charPools' = charPools, NEW W \in SUBSET Workers,
             \A v \in W : /\ wpc'[v] = wpc[v] /\ wtask'[v] = wtask[v] /\ wtodo'[v] = wtodo[v]
                          /\ wConsidered'[v] = wConsidered[v],
             \A v \in Workers \ W : wpc'[v] # "scan"
      PROVE  CountInv'
  BY <1>1 DEF CountInv
<1>2. CASE Main /\ ~Prune
  BY <1>1, <1>2 DEF Main, SkipCombination, TakeCombination, Drain, Partition, Submit,
     Throttle, Unthrottle, DetachTask, LeaveLoop, FinalWait, Publish, workerVars
<1>3. CASE Prune
  <2>1. Drained /\ wpc' = wpc
    BY <1>3 DEF Prune, PhaseInv, workerVars
  <2>2. \A v \in Workers : wpc'[v] # "scan"
    BY <2>1 DEF Drained
  <2>3. QED
    BY <2>2 DEF CountInv
<1>4. ASSUME NEW w \in Workers, Worker(w)
      PROVE  CountInv'
  <2> DEFINE W == Workers \ {w}
  <2>1. /\ charPools' = charPools
        /\ \A v \in W : /\ wpc'[v] = wpc[v] /\ wtask'[v] = wtask[v] /\ wtodo'[v] = wtodo[v]
                        /\ wConsidered'[v] = wConsidered[v]
    BY <1>4 DEF Worker, StartTask, ReadBest, Scan, MergeCounters, MergeBest, TypeOK
  <2>2. ASSUME wpc'[w] = "scan" =>
                 wConsidered'[w] + Cardinality(wtodo'[w]) = Cardinality(TaskTeams(charPools, wtask'[w]))
        PROVE  CountInv'
    BY <2>1, <2>2 DEF CountInv
  <2>3. CASE StartTask(w) \/ MergeCounters(w) \/ MergeBest(w)
    <3>1. wpc'[w] # "scan"
      BY <2>3 DEF StartTask, MergeCounters, MergeBest, TypeOK
    <3>2. QED
      BY <2>2, <3>1
  <2>4. CASE ReadBest(w)
    <3>1. /\ wConsidered'[w] = 0 /\ wtask' = wtask
          /\ wtodo'[w] = TaskTeams(charPools, wtask[w])
      BY <2>4 DEF ReadBest, TypeOK
    <3>2. TaskTeams(charPools, wtask[w]) \subseteq Decks
      BY DEF TaskTeams
    <3>3. Cardinality(TaskTeams(charPools, wtask[w])) \in Nat
      BY <3>2, CountTeams
    <3>4. QED
      BY <2>2, <3>1, <3>3
  <2>5. CASE Scan(w)
    <3>1. PICK d \in wtodo[w] : wtodo' = [wtodo EXCEPT ![w] = @ \ {d}]
      BY <2>5 DEF Scan
    <3>2. /\ wpc[w] = "scan" /\ wtodo'[w] = wtodo[w] \ {d}
          /\ wConsidered'[w] = wConsidered[w] + 1 /\ wtask' = wtask
      BY <2>5, <3>1 DEF Scan, TypeOK
    <3>3. IsFiniteSet(wtodo[w]) /\ wConsidered[w] \in Nat
      BY DecksFinite, FS_Subset DEF TypeOK
    <3>4. Cardinality(wtodo[w] \ {d}) = Cardinality(wtodo[w]) - 1 /\ Cardinality(wtodo[w]) \in Nat
      BY <3>1, <3>3, FS_RemoveElement, FS_CardinalityType
    <3>5. wConsidered[w] + Cardinality(wtodo[w]) = Cardinality(TaskTeams(charPools, wtask[w]))
      BY <3>2 DEF CountInv
    <3>6. QED
      BY <2>2, <3>2, <3>3, <3>4, <3>5
  <2>6. QED
    BY <1>4, <2>3, <2>4, <2>5 DEF Worker
<1>5. CASE UNCHANGED vars
  BY <1>5 DEF vars, workerVars, CountInv
<1>6. QED
  BY <1>2, <1>3, <1>4, <1>5 DEF Next, Returned, Main
-----------------------------------------------------------------------------
\* The character sets go through in the order of the loop, and are counted.
LEMMA InitWalk == Init => WalkInv
<1> SUFFICES ASSUME Init
             PROVE  WalkInv
  OBVIOUS
<1>1. CombosToCut = Combos /\ charCombsEvaluated = 0 /\ mpc = "combine"
  BY DEF CombosToCut, Init
<1>2. Cardinality(Combos) \in Nat
  BY CombosFinite, FS_CardinalityType
<1>3. QED
  BY <1>1, <1>2 DEF WalkInv

LEMMA StepKeepsWalk ==
  ASSUME SearchInv, OnceInv, problem.satisfying = Combos, WalkInv, [Next]_vars
  PROVE  WalkInv'
<1> USE DEF SearchInv
<1>1. CASE UNCHANGED <<combosLeft, chars, charCombsEvaluated>>
           /\ (mpc \in {"drain", "prune", "partition"} <=> mpc' \in {"drain", "prune", "partition"})
  <2>1. CombosToCut' = CombosToCut
    BY <1>1 DEF CombosToCut
  <2>2. QED
    BY <1>1, <2>1 DEF WalkInv
<1>2. CASE SkipCombination
  BY <1>2 DEF SkipCombination, TypeOK
<1>3. CASE TakeCombination
  <2>1. PICK c \in combosLeft : NextCombo(c) /\ combosLeft' = combosLeft \ {c} /\ chars' = c
    BY <1>3 DEF TakeCombination
  <2>2. /\ mpc = "combine" /\ mpc' \in {"drain", "partition"}
        /\ charCombsEvaluated' = charCombsEvaluated
    BY <1>3 DEF TakeCombination
  <2>3. CombosToCut' = CombosToCut
    BY <2>1, <2>2 DEF CombosToCut
  <2>4. \A b \in combosLeft' : CombBefore(chars', b)
    BY <2>1 DEF NextCombo
  <2>5. QED
    BY <2>2, <2>3, <2>4 DEF WalkInv
<1>4. CASE Partition
  <2>1. /\ combosLeft' = combosLeft /\ chars' = chars /\ mpc = "partition"
        /\ mpc' \in {"combine", "submit"} /\ charCombsEvaluated' = charCombsEvaluated + 1
    BY <1>4 DEF Partition
  <2>2. CombosToCut = combosLeft \cup {chars} /\ CombosToCut' = combosLeft
    BY <2>1 DEF CombosToCut
  <2>3. chars \notin combosLeft /\ combosLeft \subseteq Combos /\ chars \in Combos
    BY <2>1 DEF OnceInv, TypeOK
  <2>4. IsFiniteSet(combosLeft) /\ Cardinality(combosLeft) \in Nat
    BY <2>3, CombosFinite, FS_Subset, FS_CardinalityType
  <2>5. Cardinality(CombosToCut) = Cardinality(combosLeft) + 1
    BY <2>2, <2>3, <2>4, FS_AddElement
  <2>6. Cardinality(CombosToCut') + charCombsEvaluated' = Cardinality(Combos)
    BY <2>1, <2>2, <2>4, <2>5 DEF WalkInv, TypeOK
  <2>7. ASSUME NEW b \in combosLeft, NEW c \in Combos, CombBefore(b, c)
        PROVE  c \in combosLeft
    <3>1. c \in combosLeft \cup {chars}
      BY <2>2, <2>7 DEF WalkInv
    <3>2. CombBefore(chars, b)
      BY <2>1 DEF WalkInv
    <3>3. c # chars
      BY <2>3, <2>7, <3>2, LoopIsStrict
    <3>4. QED
      BY <3>1, <3>3
  <2>8. QED
    BY <2>1, <2>2, <2>6, <2>7 DEF WalkInv
<1>5. CASE Main /\ ~(SkipCombination \/ TakeCombination \/ Partition)
  <2>1. UNCHANGED <<combosLeft, chars, charCombsEvaluated>>
    BY <1>5 DEF Main, Drain, Prune, Submit, Throttle, Unthrottle, DetachTask, LeaveLoop,
       FinalWait, Publish
  <2>2. mpc \in {"drain", "prune", "partition"} <=> mpc' \in {"drain", "prune", "partition"}
    BY <1>5 DEF Main, Drain, Prune, Submit, Throttle, Unthrottle, DetachTask, LeaveLoop,
       FinalWait, Publish
  <2>3. QED
    BY <1>1, <2>1, <2>2
<1>6. CASE (\E w \in Workers : Worker(w)) \/ UNCHANGED vars
  <2>1. UNCHANGED mainVars
    BY <1>6 DEF Worker, StartTask, ReadBest, Scan, MergeCounters, MergeBest, vars
  <2>2. QED
    BY <1>1, <2>1 DEF mainVars
<1>7. QED
  BY <1>2, <1>3, <1>4, <1>5, <1>6 DEF Next, Returned
-----------------------------------------------------------------------------
TasksCounting == Range(queue) \cup {wtask[w] : w \in Counting}

\* Where the uncounted teams are.
LEMMA UncountedAre ==
  /\ TeamsUncut = ComingTeams(charPools, CombosToCut)
  /\ TeamsUncounted = TeamsToCome \cup TeamsOf(TasksCounting)
  /\ TeamsUncounted' = TeamsToCome' \cup TeamsOf(TasksCounting)'
BY DEF TeamsUncut, ComingTeams, CombosToCut, TeamsUncounted, TeamsOf, TasksCounting, Counting

\* The blocks of a character set hold all its teams.
LEMMA BlocksHoldTeams ==
  ASSUME NEW pools \in [Chars -> SUBSET Cards], NEW c \in Combos
  PROVE  UNION {TaskTeams(pools, [chars |-> c, extents |-> e]) :
                  e \in PartitionedProduct(PoolSizes(pools, c))} = TeamsFrom(pools, c)
BY BlocksCover, BlocksInTeams

LEMMA InitConserved == Init => ProgressConserved
<1> SUFFICES ASSUME Init
             PROVE  ProgressConserved
  OBVIOUS
<1>1. TypeOK /\ Drained
  BY InitType DEF Init, Drained
<1>2. Busy = {} /\ Range(queue) = {}
  BY <1>1, DrainedIsEmpty, RangeOfQueue DEF TypeOK
<1>3. TasksCounting = {} /\ CombosToCut = Combos /\ pending = {}
  BY <1>2 DEF TasksCounting, Counting, CombosToCut, Init
<1>4. TeamsUncounted = ComingTeams(OrigPools, Combos)
  BY <1>3, UncountedAre DEF TeamsToCome, TeamsPending, TeamsOf, Init
<1>5. ComingTeams(OrigPools, Combos) \subseteq Decks
  BY DEF ComingTeams, TeamsFrom
<1>6. Cardinality(ComingTeams(OrigPools, Combos)) \in Nat
  BY <1>5, CountTeams
<1>7. TotalTeams(OrigPools) = Cardinality(ComingTeams(OrigPools, Combos))
  BY DEF TotalTeams, ComingTeams
<1>8. QED
  BY <1>4, <1>6, <1>7 DEF ProgressConserved, Init

\* Apart from pruning, the main thread only moves uncounted teams on.
LEMMA MainMovesTeams ==
  ASSUME SearchInv, problem.satisfying = Combos, Main, ~Prune
  PROVE  TeamsUncounted' = TeamsUncounted /\ teamsConsidered' = teamsConsidered
<1> USE DEF SearchInv
<1>1. /\ wtask' = wtask /\ Busy' = Busy /\ Counting' = Counting
      /\ charPools' = charPools /\ teamsConsidered' = teamsConsidered
  BY DEF Main, SkipCombination, TakeCombination, Drain, Partition, Submit,
     Throttle, Unthrottle, DetachTask, LeaveLoop, FinalWait, Publish, workerVars, Busy, Counting
<1>2. CASE queue' = queue /\ TeamsToCome' = TeamsToCome
  <2>1. TeamsOf(TasksCounting)' = TeamsOf(TasksCounting)
    BY <1>1, <1>2 DEF TeamsOf, TasksCounting
  <2>2. QED
    BY <1>1, <1>2, <2>1, UncountedAre
<1>3. CASE SkipCombination
  BY <1>3 DEF SkipCombination, TypeOK
<1>4. CASE TakeCombination
  <2>1. /\ queue' = queue /\ pending' = {} /\ pending = {} /\ mpc = "combine"
        /\ mpc' \in {"drain", "partition"} /\ combosLeft' \cup {chars'} = combosLeft
    BY <1>4 DEF TakeCombination, PhaseInv
  <2>2. TeamsToCome' = TeamsToCome
    BY <1>1, <2>1 DEF TeamsToCome, TeamsUncut, TeamsPending
  <2>3. QED
    BY <1>2, <2>1, <2>2
<1>5. CASE Partition
  <2>1. /\ queue' = queue /\ combosLeft' = combosLeft /\ pending = {}
        /\ chars' = chars /\ mpc = "partition" /\ mpc' \in {"combine", "submit"}
        /\ pending' = PartitionedProduct(PoolSizes(charPools, chars))
    BY <1>5 DEF Partition, PhaseInv
  <2>2. TeamsPending' = TeamsFrom(charPools, chars)
    <3>1. chars \in Combos /\ charPools \in [Chars -> SUBSET Cards]
      BY <2>1 DEF TypeOK
    <3>2. QED
      BY <1>1, <2>1, <3>1, BlocksHoldTeams DEF TeamsPending
  <2>3. TeamsPending = {}
    BY <2>1 DEF TeamsPending
  <2>4. TeamsUncut = TeamsUncut' \cup TeamsFrom(charPools, chars)
    BY <1>1, <2>1 DEF TeamsUncut
  <2>5. QED
    BY <1>2, <2>1, <2>2, <2>3, <2>4 DEF TeamsToCome
<1>6. CASE Submit \/ Unthrottle
  <2>1. PICK e \in pending : /\ pending' = pending \ {e}
                             /\ queue' = Append(queue, [chars |-> chars, extents |-> e])
    BY <1>6 DEF Submit, Unthrottle, DetachTask
  <2> DEFINE t == [chars |-> chars, extents |-> e]
  <2>2. /\ combosLeft' = combosLeft /\ chars' = chars
        /\ mpc \in {"submit", "throttle"} /\ mpc' \in {"combine", "submit"}
    BY <1>6 DEF Submit, Unthrottle, DetachTask
  <2>3. Range(queue') = Range(queue) \cup {t}
    <3>1. t \in Task
      BY <2>2 DEF TypeOK, Task
    <3>2. QED
      BY <2>1, <3>1, RangeOfQueue DEF TypeOK
  <2>4. TasksCounting' = TasksCounting \cup {t}
    BY <1>1, <2>3 DEF TasksCounting
  <2>5. TeamsOf(TasksCounting)' = TeamsOf(TasksCounting) \cup TaskTeams(charPools, t)
    <3> HIDE DEF t
    <3>1. QED
      BY <1>1, <2>4 DEF TeamsOf
  <2>6. TeamsPending = TeamsPending' \cup TaskTeams(charPools, t)
    BY <1>1, <2>1, <2>2 DEF TeamsPending
  <2>7. TeamsUncut' = TeamsUncut
    BY <1>1, <2>2 DEF TeamsUncut
  <2> HIDE DEF t
  <2>8. QED
    BY <1>1, <2>5, <2>6, <2>7, UncountedAre DEF TeamsToCome
<1>7. CASE Drain \/ Throttle \/ LeaveLoop \/ FinalWait \/ Publish
  <2>1. UNCHANGED <<charPools, queue, combosLeft, chars, pending>>
    BY <1>7 DEF Drain, Throttle, LeaveLoop, FinalWait, Publish
  <2>2. mpc \in {"drain", "prune", "partition"} <=> mpc' \in {"drain", "prune", "partition"}
    BY <1>7 DEF Drain, Throttle, LeaveLoop, FinalWait, Publish
  <2>3. TeamsToCome' = TeamsToCome
    BY <2>1, <2>2 DEF TeamsToCome, TeamsUncut, TeamsPending
  <2>4. QED
    BY <1>2, <2>1, <2>3
<1>8. QED
  BY <1>3, <1>4, <1>5, <1>6, <1>7 DEF Main

\* Pruning works the progress out anew.
LEMMA PruneConserves ==
  ASSUME SearchInv, WalkInv, Prune
  PROVE  ProgressConserved'
<1> USE DEF SearchInv
<1>1. /\ Drained /\ charPools' = NewPools /\ pending' = {} /\ mpc = "prune" /\ mpc' = "partition"
      /\ teamsConsidered' = PrunedProgress(NewPools, charCombsEvaluated,
                                           TotalTeams(OrigPools) - TotalTeams(NewPools))
      /\ UNCHANGED <<combosLeft, chars, queue, wpc, wtask>>
  BY DEF Prune, PhaseInv, workerVars
<1>2. TasksCounting' = {}
  <2>1. Range(queue) = {} /\ Busy = {}
    BY <1>1, DrainedIsEmpty, RangeOfQueue DEF TypeOK
  <2>2. QED
    BY <1>1, <2>1 DEF TasksCounting, Counting, Busy
<1>3. TeamsUncounted' = ComingTeams(NewPools, CombosToCut)
  <2>1. TeamsOf(TasksCounting)' = {}
    BY <1>2 DEF TeamsOf
  <2>2. TeamsToCome' = ComingTeams(NewPools, CombosToCut)
    BY <1>1 DEF TeamsToCome, TeamsPending, TeamsUncut, CombosToCut, ComingTeams
  <2>3. QED
    BY <2>1, <2>2, UncountedAre
<1>4. ClosedUp(CombosToCut)
  BY <1>1 DEF ClosedUp, WalkInv, CombosToCut, TypeOK
<1>5. Cardinality(CombosToCut) + charCombsEvaluated = Cardinality(Combos) /\ charCombsEvaluated \in Nat
  BY DEF WalkInv, TypeOK
<1>6. teamsConsidered' + Cardinality(TeamsUncounted') = TotalTeams(OrigPools)
  BY <1>1, <1>3, <1>4, <1>5, PrunedIsCounted
<1>7. QED
  BY <1>6 DEF ProgressConserved

\* A worker that reports takes the teams of its task, and no other, off the uncounted ones.
LEMMA ReportConserves ==
  ASSUME SearchInv, CountInv, OnceInv, ProgressConserved, NEW w \in Workers, MergeCounters(w)
  PROVE  ProgressConserved'
<1> USE DEF SearchInv
<1> DEFINE mine == TaskTeams(charPools, wtask[w])
<1>1. /\ wpc[w] = "scan" /\ wtodo[w] = {} /\ wtask' = wtask /\ queue' = queue
      /\ teamsConsidered' = teamsConsidered + wConsidered[w]
      /\ UNCHANGED <<problem, mainVars, charPools>>
      /\ wpc' = [wpc EXCEPT ![w] = "merge"]
  BY DEF MergeCounters
<1>2. w \in Counting /\ Counting' = Counting \ {w}
  BY <1>1 DEF Counting, Busy, TypeOK
<1>3. TeamsToCome' = TeamsToCome
  BY <1>1 DEF TeamsToCome, TeamsUncut, TeamsPending, mainVars
<1> DEFINE rest == TeamsToCome \cup TeamsOf(Range(queue) \cup {wtask[v] : v \in Counting \ {w}})
<1>4. TeamsUncounted' = rest
  BY <1>1, <1>2, <1>3, UncountedAre DEF TasksCounting, TeamsOf
<1>5. TeamsUncounted = rest \cup mine
  BY <1>2, UncountedAre DEF TasksCounting, TeamsOf
<1>6. wtask[w] \in Outstanding /\ w \in Busy
  BY <1>2 DEF Outstanding, Counting
<1>7. rest \cap mine = {}
  <2>1. ASSUME NEW c \in CombosToCut
        PROVE  TeamsFrom(charPools, c) \cap mine = {}
    <3>1. wtask[w].chars # c
      BY <1>6, <2>1 DEF OnceInv
    <3>2. QED
      BY <3>1 DEF TeamsFrom, TaskTeams
  <2>2. TeamsUncut \cap mine = {}
    BY <2>1, UncountedAre DEF ComingTeams
  <2>3. TeamsPending \cap mine = {}
    <3>1. \A e \in pending : Apart(charPools, wtask[w], [chars |-> chars, extents |-> e])
      BY <1>6 DEF OnceInv
    <3>2. \A e \in pending : TaskTeams(charPools, [chars |-> chars, extents |-> e]) \cap mine = {}
      BY <3>1 DEF Apart
    <3> HIDE DEF mine
    <3>3. QED
      BY <3>2 DEF TeamsPending
  <2>4. TeamsOf(Range(queue)) \cap mine = {}
    <3>1. \A i \in DOMAIN queue : TaskTeams(charPools, queue[i]) \cap mine = {}
      BY <1>6 DEF OnceInv, Apart
    <3> HIDE DEF mine
    <3>2. QED
      BY <3>1 DEF TeamsOf, Range
  <2>5. TeamsOf({wtask[v] : v \in Counting \ {w}}) \cap mine = {}
    BY <1>6 DEF TeamsOf, OnceInv, Apart, Counting
  <2>6. TeamsOf(Range(queue) \cup {wtask[v] : v \in Counting \ {w}})
          = TeamsOf(Range(queue)) \cup TeamsOf({wtask[v] : v \in Counting \ {w}})
    BY DEF TeamsOf
  <2> HIDE DEF mine
  <2>7. QED
    BY <2>2, <2>3, <2>4, <2>5, <2>6 DEF TeamsToCome
<1>8. wConsidered[w] = Cardinality(mine)
  <2>1. Cardinality(wtodo[w]) = 0
    BY <1>1, FS_EmptySet
  <2>2. wConsidered[w] + Cardinality(wtodo[w]) = Cardinality(mine)
    BY <1>1 DEF CountInv
  <2>3. wConsidered[w] \in Nat
    BY DEF TypeOK
  <2> HIDE DEF mine
  <2>4. QED
    BY <2>1, <2>2, <2>3
<1>9. rest \subseteq Decks /\ mine \subseteq Decks
  BY DEF TeamsToCome, TeamsUncut, TeamsPending, TeamsOf, TaskTeams, TeamsFrom
<1>10. problem' = problem
  BY <1>1
<1>11. QED
  <2> HIDE DEF rest, mine
  <2>1. Cardinality(rest \cup mine) = Cardinality(rest) + Cardinality(mine)
          /\ Cardinality(rest) \in Nat /\ Cardinality(mine) \in Nat
    BY <1>7, <1>9, CountBoth
  <2>2. QED
    BY <1>1, <1>4, <1>5, <1>8, <1>10, <2>1 DEF ProgressConserved, TypeOK

\* Nothing else a worker does changes what is uncounted.
LEMMA WorkerMovesTeams ==
  ASSUME SearchInv, NEW w \in Workers, Worker(w), ~MergeCounters(w)
  PROVE  TeamsUncounted' = TeamsUncounted /\ teamsConsidered' = teamsConsidered
<1> USE DEF SearchInv
<1>1. UNCHANGED <<problem, mainVars, charPools>> /\ teamsConsidered' = teamsConsidered
  BY DEF Worker, StartTask, ReadBest, Scan, MergeBest
<1>2. TeamsToCome' = TeamsToCome
  BY <1>1 DEF TeamsToCome, TeamsUncut, TeamsPending, mainVars
<1>3. TasksCounting' = TasksCounting
  <2>1. CASE StartTask(w)
    <3>1. /\ queue # <<>> /\ queue' = Tail(queue) /\ wpc[w] = "idle"
          /\ wtask' = [wtask EXCEPT ![w] = Head(queue)] /\ wpc' = [wpc EXCEPT ![w] = "start"]
      BY <2>1 DEF StartTask
    <3>2. Counting' = Counting \cup {w} /\ w \notin Counting
      BY <3>1 DEF Counting, Busy, TypeOK
    <3>3. wtask'[w] = Head(queue) /\ \A v \in Counting : wtask'[v] = wtask[v]
      BY <3>1, <3>2 DEF TypeOK, Counting, Busy
    <3>4. Range(queue) = Range(queue') \cup {Head(queue)}
      BY <3>1, RangeOfQueue DEF TypeOK
    <3>5. QED
      BY <3>2, <3>3, <3>4 DEF TasksCounting
  <2>2. CASE ReadBest(w) \/ Scan(w)
    <3>1. queue' = queue /\ wtask' = wtask /\ Counting' = Counting
      BY <2>2 DEF ReadBest, Scan, Counting, Busy, TypeOK
    <3>2. QED
      BY <3>1 DEF TasksCounting
  <2>3. CASE MergeBest(w)
    <3>1. /\ queue' = queue /\ Counting' = Counting /\ w \notin Counting
          /\ wtask' = [wtask EXCEPT ![w] = NoTask]
      BY <2>3 DEF MergeBest, Counting, Busy, TypeOK
    <3>2. \A v \in Counting : wtask'[v] = wtask[v]
      BY <3>1 DEF TypeOK, Counting, Busy
    <3>3. QED
      BY <3>1, <3>2 DEF TasksCounting
  <2>4. QED
    BY <2>1, <2>2, <2>3 DEF Worker
<1>4. QED
  BY <1>1, <1>2, <1>3, UncountedAre DEF TeamsOf

LEMMA ProgressStep == ProgressInv /\ [Next]_vars => ProgressInv'
<1> SUFFICES ASSUME ProgressInv, [Next]_vars
             PROVE  ProgressInv'
  OBVIOUS
<1>1. SearchInv /\ CountInv /\ OnceInv /\ SearchInv' /\ CountInv'
  BY SearchStep, StepKeepsCount DEF ProgressInv
<1>2. OnceInv'
  <2>1. CASE UNCHANGED vars
    BY <1>1, <2>1 DEF vars, mainVars, workerVars, OnceInv, Outstanding, Busy, CombosToCut
  <2>2. QED
    BY <1>1, <2>1, MainKeepsOnce, WorkerKeepsOnce DEF Next, Returned
<1>3. problem' = problem
  BY DEF Next, Main, SkipCombination, TakeCombination, Drain, Prune, Partition, Submit, Throttle,
     Unthrottle, DetachTask, LeaveLoop, FinalWait, Publish, Worker, StartTask, ReadBest, Scan,
     MergeCounters, MergeBest, Returned, vars
<1>4. ASSUME problem.satisfying = Combos
      PROVE  WalkInv' /\ ProgressConserved'
  <2>1. WalkInv /\ ProgressConserved
    BY <1>4 DEF ProgressInv
  <2>2. WalkInv'
    BY <1>1, <1>4, <2>1, StepKeepsWalk
  <2>3. ASSUME TeamsUncounted' = TeamsUncounted, teamsConsidered' = teamsConsidered
        PROVE  ProgressConserved'
    BY <1>3, <2>1, <2>3 DEF ProgressConserved
  <2>4. CASE Main
    <3>1. CASE Prune
      BY <1>1, <2>1, <2>2, <3>1, PruneConserves
    <3>2. CASE ~Prune
      BY <1>1, <1>4, <2>2, <2>3, <2>4, <3>2, MainMovesTeams
    <3>3. QED
      BY <3>1, <3>2
  <2>5. ASSUME NEW w \in Workers, Worker(w)
        PROVE  ProgressConserved'
    <3>1. CASE MergeCounters(w)
      BY <1>1, <2>1, <3>1, ReportConserves
    <3>2. CASE ~MergeCounters(w)
      BY <1>1, <2>3, <2>5, <3>2, WorkerMovesTeams
    <3>3. QED
      BY <3>1, <3>2
  <2>6. CASE UNCHANGED vars
    <3>1. TeamsUncounted' = TeamsUncounted /\ teamsConsidered' = teamsConsidered
      BY <2>6 DEF vars, mainVars, workerVars, TeamsUncounted, TeamsToCome, TeamsUncut, TeamsPending,
         TeamsOf, Busy
    <3>2. QED
      BY <2>2, <2>3, <3>1
  <2>7. QED
    BY <2>2, <2>4, <2>5, <2>6 DEF Next, Returned
<1>5. QED
  BY <1>1, <1>2, <1>3, <1>4 DEF ProgressInv

\* If every character set is accepted, the progress counter and the teams that no task has
\* counted yet add up to all teams, whatever is pruned and in whatever order tasks report.
THEOREM ProgressAddsUp == Spec => []ProgressConserved
<1>1. Init => ProgressInv
  <2>1. Init => SearchInv
    BY InitScores, InitCover DEF SearchInv, ScoresInv, PhasesInv
  <2>2. QED
    BY <2>1, InitOnce, InitWalk, InitConserved DEF ProgressInv
<1>2. ProgressInv => ProgressConserved
  BY DEF ProgressInv, ProgressConserved
<1>3. QED
  BY <1>1, <1>2, ProgressStep, PTL DEF Spec
=============================================================================
