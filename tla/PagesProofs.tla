----------------------------- MODULE PagesProofs -----------------------------
(***************************************************************************)
(* Proofs about the two pages that keep state of their own: the save data  *)
(* (SaveData), for every number of tabs, profiles and copies under way,    *)
(* and the max character rank planner (CharacterRank), for every master    *)
(* database, XP table and calendar that its assumptions allow.  The first  *)
(* part, on the save data, is an invariant argument tab by tab; the        *)
(* second is arithmetic: every count, sum and quotient that a rank is made *)
(* of grows with time.                                                     *)
(***************************************************************************)
EXTENDS SaveData, CharacterRank, FiniteSetTheorems, SequenceTheorems, WellFoundedInduction,
        TLAPS

-----------------------------------------------------------------------------
(***************************************************************************)
(* The save data.                                                          *)
(***************************************************************************)
\* What the invariant says of one tab.
OfTab(t) ==
  /\ Len(syncs[t]) <= MaxSyncs
  /\ t \notin open => syncs[t] = <<>>
  /\ \A k \in 1 .. Len(syncs[t]) :
       /\ syncs[t][k].populate => k = 1
       /\ ~syncs[t][k].populate => syncs[t][k].file \in asked /\ file[t] \in asked
  /\ t \in open => file[t] \in asked \cup {NoFile}
  /\ t \in open \ early =>
       /\ Populating(t) => file[t] = NoFile /\ Len(syncs[t]) = 1
       /\ syncs[t] # <<>> /\ ~syncs[t][Len(syncs[t])].populate =>
            syncs[t][Len(syncs[t])].file = file[t]
       /\ lastStore = t /\ syncs[t] = <<>> => store = file[t]

\* The range of every variable, but for the bound on copies under way.
Ranges ==
  /\ open \subseteq Tabs
  /\ profile \in [Tabs -> Profiles]
  /\ file \in [Tabs -> SaveFile]
  /\ syncs \in [Tabs -> Seq(Sync)]
  /\ store \in SaveFile
  /\ lastStore \in Tabs \cup {NoTab}
  /\ early \subseteq Tabs
  /\ asked \subseteq SaveFile

\* SaveInv, tab by tab.
TabInv == Ranges /\ store \in asked /\ \A t \in Tabs : OfTab(t)

LEMMA SaveInvByTab == SaveInv <=> TabInv
<1>1. ASSUME SaveInv PROVE Ranges /\ store \in asked
  BY <1>1 DEF SaveInv, TypeOK, Ranges, StoreWasAsked
<1>2. ASSUME SaveInv, NEW t \in Tabs PROVE OfTab(t)
  BY <1>2 DEF SaveInv, TypeOK, StoreFollowsFile, PendingInv, LastCopyInv, OfTab
<1>3. ASSUME Ranges, store \in asked, \A t \in Tabs : OfTab(t) PROVE SaveInv
  <2>1. TypeOK
    BY <1>3 DEF Ranges, TypeOK, OfTab
  <2>2. StoreWasAsked
    BY <1>3 DEF StoreWasAsked
  <2>3. \A t \in open : t \in Tabs
    BY <1>3 DEF Ranges
  <2>4. StoreFollowsFile
    BY <1>3, <2>3 DEF StoreFollowsFile, OfTab
  <2>5. PendingInv
    BY <1>3 DEF PendingInv, OfTab
  <2>6. LastCopyInv
    BY <1>3, <2>3 DEF LastCopyInv, OfTab
  <2>7. QED
    BY <2>1, <2>2, <2>4, <2>5, <2>6 DEF SaveInv
<1>4. QED
  BY <1>1, <1>2, <1>3 DEF TabInv

\* A tab that the step leaves alone, while more may have been asked for and another tab may
\* have stored its file.
LEMMA OtherTab ==
  ASSUME NEW u \in Tabs, OfTab(u), asked \subseteq asked',
         u \in open' <=> u \in open, u \in early' <=> u \in early,
         file'[u] = file[u], syncs'[u] = syncs[u],
         lastStore' = u => lastStore = u /\ store' = store
  PROVE  OfTab(u)'
<1>1. Populating(u)' <=> Populating(u)
  BY DEF Populating
<1>2. QED
  BY <1>1 DEF OfTab
-----------------------------------------------------------------------------
(***************************************************************************)
(* One lemma per action.                                                   *)
(***************************************************************************)
LEMMA InitHolds == Init => TabInv
<1> SUFFICES ASSUME Init PROVE Ranges /\ store \in asked /\ \A t \in Tabs : OfTab(t)
  BY DEF TabInv
<1>1. <<>> \in Seq(Sync) /\ Len(<<>>) = 0
  BY EmptySeq
<1>2. Ranges /\ store \in asked
  BY <1>1, SaveDataAssumption DEF Init, Ranges, SaveFile
<1>3. ASSUME NEW t \in Tabs PROVE OfTab(t)
  BY <1>1, SaveDataAssumption DEF Init, OfTab, Populating
<1>4. QED
  BY <1>2, <1>3

LEMMA OpenPreserves ==
  ASSUME TabInv, NEW t \in Tabs, Open(t)
  PROVE  TabInv'
<1>0. Ranges /\ store \in asked /\ \A u \in Tabs : OfTab(u)
  BY DEF TabInv
<1>1. <<FirstSync>> \in Seq(Sync) /\ Len(<<FirstSync>>) = 1 /\ <<FirstSync>>[1] = FirstSync
      /\ <<FirstSync>> # <<>> /\ FirstSync.populate /\ FirstSync \in Sync
  BY DEF FirstSync, Sync, SaveFile
<1>2. Ranges'
  BY <1>0, <1>1, SaveDataAssumption DEF Open, Ranges, SaveFile
<1>3. ASSUME NEW u \in Tabs, u # t PROVE OfTab(u)'
  <2>1. /\ u \in open' <=> u \in open
        /\ u \in early' <=> u \in early
        /\ file'[u] = file[u] /\ syncs'[u] = syncs[u]
        /\ lastStore' = lastStore /\ store' = store /\ asked' = asked
    BY <1>0, <1>3 DEF Open, Ranges
  <2>2. OfTab(u)
    BY <1>0
  <2>3. QED
    BY <2>1, <2>2, OtherTab
<1>4. OfTab(t)'
  <2>1. syncs'[t] = <<FirstSync>> /\ file'[t] = NoFile /\ t \notin early'
    BY <1>0 DEF Open, Ranges
  <2>2. MaxSyncs \in Nat \ {0}
    BY SaveDataAssumption
  <2>3. t \in open'
    BY DEF Open
  <2>4. QED
    BY <1>1, <2>1, <2>2, <2>3 DEF OfTab
<1>5. store' \in asked'
  BY <1>0 DEF Open
<1>6. QED
  BY <1>2, <1>3, <1>4, <1>5 DEF TabInv

LEMMA ClosePreserves ==
  ASSUME TabInv, NEW t \in Tabs, Close(t)
  PROVE  TabInv'
<1>0. Ranges /\ store \in asked /\ \A u \in Tabs : OfTab(u)
  BY DEF TabInv
<1>1. <<>> \in Seq(Sync) /\ Len(<<>>) = 0
  BY EmptySeq
<1>2. Ranges'
  BY <1>0, <1>1 DEF Close, Ranges
<1>3. ASSUME NEW u \in Tabs, u # t PROVE OfTab(u)'
  <2>1. /\ u \in open' <=> u \in open
        /\ u \in early' <=> u \in early
        /\ file'[u] = file[u] /\ syncs'[u] = syncs[u]
        /\ lastStore' = lastStore /\ store' = store /\ asked' = asked
    BY <1>0, <1>3 DEF Close, Ranges
  <2>2. OfTab(u)
    BY <1>0
  <2>3. QED
    BY <2>1, <2>2, OtherTab
<1>4. OfTab(t)'
  <2>1. syncs'[t] = <<>> /\ t \notin open'
    BY <1>0 DEF Close, Ranges
  <2>2. QED
    BY <1>1, <2>1, SaveDataAssumption DEF OfTab
<1>5. store' \in asked'
  BY <1>0 DEF Close
<1>6. QED
  BY <1>2, <1>3, <1>4, <1>5 DEF TabInv

\* Edit, the button "Load" and steps that change nothing leave all but the profiles alone.
LEMMA OnlyProfileChanges ==
  ASSUME TabInv, profile' \in [Tabs -> Profiles],
         UNCHANGED <<open, file, syncs, store, lastStore, early, asked>>
  PROVE  TabInv'
<1>0. Ranges /\ store \in asked /\ \A u \in Tabs : OfTab(u)
  BY DEF TabInv
<1>1. Ranges' /\ store' \in asked'
  BY <1>0 DEF Ranges
<1>2. ASSUME NEW u \in Tabs PROVE OfTab(u)'
  <2>1. OfTab(u)
    BY <1>0
  <2>2. QED
    BY <2>1, OtherTab
<1>3. QED
  BY <1>1, <1>2 DEF TabInv

\* A file read is a profile.
LEMMA ReadFileType ==
  ASSUME Ranges, NEW t \in Tabs, NEW f \in SaveFile, ReadFile(t, f)
  PROVE  profile' \in [Tabs -> Profiles]
<1>1. CASE f = NoFile
  BY <1>1 DEF Ranges, ReadFile
<1>2. CASE f # NoFile
  BY <1>2 DEF Ranges, ReadFile, SaveFile
<1>3. QED
  BY <1>1, <1>2

LEMMA ChangeFilePreserves ==
  ASSUME TabInv, NEW t \in open, NEW f \in SaveFile,
         Len(syncs[t]) < MaxSyncs, ChangeFile(t, f)
  PROVE  TabInv'
<1>0. Ranges /\ store \in asked /\ t \in Tabs /\ \A u \in Tabs : OfTab(u)
  BY DEF TabInv, Ranges
<1> DEFINE new == [populate |-> FALSE, file |-> f]
           s == syncs[t]
<1>1. new \in Sync /\ s \in Seq(Sync)
  BY <1>0 DEF Ranges, Sync
<1>2. syncs' = [syncs EXCEPT ![t] = Append(s, new)] /\ file' = [file EXCEPT ![t] = f]
  BY DEF ChangeFile, StartStore
<1>3. /\ Append(s, new) \in Seq(Sync) /\ Append(s, new) # <<>>
      /\ Len(Append(s, new)) = Len(s) + 1
      /\ \A k \in 1 .. Len(s) : Append(s, new)[k] = s[k]
      /\ Append(s, new)[Len(s) + 1] = new
      /\ Len(s) \in Nat
  BY <1>1, AppendProperties, LenProperties
<1>4. early' \subseteq early \cup {t} /\ early \subseteq early' /\ asked' = asked \cup {f}
      /\ (Populating(t) => t \in early')
  BY DEF ChangeFile
<1>5. open' = open /\ profile' = profile /\ store' = store /\ lastStore' = lastStore
  BY DEF ChangeFile
<1>6. Ranges'
  BY <1>0, <1>2, <1>3, <1>4, <1>5 DEF Ranges
<1>7. ASSUME NEW u \in Tabs, u # t PROVE OfTab(u)'
  <2>1. OfTab(u) /\ file'[u] = file[u] /\ syncs'[u] = syncs[u]
    BY <1>0, <1>2, <1>7 DEF Ranges
  <2>2. QED
    BY <1>4, <1>5, <1>7, <2>1, OtherTab
<1>8. OfTab(t)'
  <2>1. syncs'[t] = Append(s, new) /\ file'[t] = f
    BY <1>0, <1>2 DEF Ranges
  <2>2. Len(syncs'[t]) <= MaxSyncs /\ t \in open' /\ syncs'[t] # <<>>
    BY <1>3, <1>5, <2>1, SaveDataAssumption
  <2>3. ASSUME NEW k \in 1 .. Len(syncs'[t])
        PROVE  /\ syncs'[t][k].populate => k = 1
               /\ ~syncs'[t][k].populate => syncs'[t][k].file \in asked' /\ file'[t] \in asked'
    <3>1. CASE k = Len(s) + 1
      BY <1>3, <1>4, <2>1, <3>1
    <3>2. CASE k \in 1 .. Len(s)
      BY <1>0, <1>3, <1>4, <2>1, <3>2 DEF OfTab
    <3>3. QED
      BY <1>3, <2>1, <3>1, <3>2
  <2>4. syncs'[t][Len(syncs'[t])].file = file'[t]
    BY <1>3, <2>1
  <2>5. t \notin early' => ~Populating(t)'
    <3> SUFFICES ASSUME t \notin early', NEW k \in 1 .. Len(syncs'[t]), syncs'[t][k].populate
                 PROVE  FALSE
      BY DEF Populating
    <3>1. k \in 1 .. Len(s)
      BY <1>3, <2>1
    <3>2. s[k].populate
      BY <1>3, <2>1, <3>1
    <3>3. QED
      BY <1>4, <3>1, <3>2 DEF Populating
  <2>6. file'[t] \in asked'
    BY <1>4, <2>1
  <2>7. QED
    BY <2>2, <2>3, <2>4, <2>5, <2>6 DEF OfTab
<1>9. QED
  BY <1>0, <1>4, <1>5, <1>6, <1>7, <1>8 DEF TabInv

\* A copy to IndexedDB ends, or the first read does: the first call of the list is gone.
LEMMA TailFacts ==
  ASSUME NEW s \in Seq(Sync), s # <<>>
  PROVE  /\ Tail(s) \in Seq(Sync) /\ Len(s) \in Nat \ {0}
         /\ Len(Tail(s)) = Len(s) - 1
         /\ \A k \in 1 .. Len(Tail(s)) : Tail(s)[k] = s[k + 1]
         /\ Tail(s) = <<>> => Len(s) = 1
         /\ Head(s) = s[1] /\ Head(s) \in Sync
<1>1. Len(s) \in Nat \ {0}
  BY EmptySeq
<1>2. Tail(s) \in Seq(Sync) /\ Len(Tail(s)) = Len(s) - 1 /\ Head(s) \in Sync
      /\ \A k \in 1 .. Len(Tail(s)) : Tail(s)[k] = s[k + 1]
  BY HeadTailProperties
<1>3. Tail(s) = <<>> => Len(Tail(s)) = 0
  BY EmptySeq
<1>4. Head(s) = s[1]
  BY <1>1
<1>5. QED
  BY <1>1, <1>2, <1>3, <1>4

LEMMA PopulateEndsPreserves ==
  ASSUME TabInv, NEW t \in Tabs, PopulateEnds(t)
  PROVE  TabInv'
<1>0. Ranges /\ store \in asked /\ \A u \in Tabs : OfTab(u)
  BY DEF TabInv
<1> DEFINE s == syncs[t]
<1>1. s \in Seq(Sync) /\ s # <<>> /\ Head(s).populate /\ store \in SaveFile
  BY <1>0 DEF Ranges, PopulateEnds
<1>2. /\ Tail(s) \in Seq(Sync) /\ Len(s) \in Nat \ {0} /\ Len(Tail(s)) = Len(s) - 1
      /\ \A k \in 1 .. Len(Tail(s)) : Tail(s)[k] = s[k + 1]
      /\ Head(s) = s[1]
  BY <1>1, TailFacts
<1>3. syncs' = [syncs EXCEPT ![t] = Tail(s)] /\ file' = [file EXCEPT ![t] = store]
      /\ UNCHANGED <<open, store, lastStore, early, asked>>
  BY DEF PopulateEnds
<1>4. profile' \in [Tabs -> Profiles]
  BY <1>0, <1>1, ReadFileType DEF PopulateEnds
<1>5. Ranges'
  BY <1>0, <1>1, <1>2, <1>3, <1>4 DEF Ranges
<1>6. ASSUME NEW u \in Tabs, u # t PROVE OfTab(u)'
  <2>1. OfTab(u) /\ file'[u] = file[u] /\ syncs'[u] = syncs[u]
    BY <1>0, <1>3, <1>6 DEF Ranges
  <2>2. QED
    BY <1>3, <2>1, OtherTab
<1>7. OfTab(t)'
  <2>1. syncs'[t] = Tail(s) /\ file'[t] = store
    BY <1>0, <1>3 DEF Ranges
  <2>2. OfTab(t)
    BY <1>0
  <2>3. t \in open
    BY <1>1, <2>2 DEF OfTab
  <2>4. Len(syncs'[t]) <= MaxSyncs
    BY <1>2, <2>1, <2>2, SaveDataAssumption DEF OfTab
  <2>5. ASSUME NEW k \in 1 .. Len(syncs'[t])
        PROVE  ~syncs'[t][k].populate /\ syncs'[t][k].file \in asked'
    <3>1. k + 1 \in 1 .. Len(s) /\ k + 1 # 1 /\ syncs'[t][k] = s[k + 1]
      BY <1>2, <2>1
    <3>2. QED
      BY <1>3, <2>2, <3>1 DEF OfTab
  <2>6. Populating(t)
    BY <1>1, <1>2 DEF Populating
  <2>7. t \in open' \ early' => Len(syncs'[t]) = 0
    <3>1. t \in open' \ early' => Len(s) = 1
      BY <1>3, <2>2, <2>6 DEF OfTab
    <3>2. QED
      BY <1>2, <2>1, <3>1
  <2>8. t \in open' \ early' => syncs'[t] = <<>>
    BY <1>2, <2>1, <2>7, EmptySeq
  <2>9. t \in open' \ early' => ~Populating(t)'
    BY <2>7 DEF Populating
  <2>10. store' = file'[t] /\ file'[t] \in asked' /\ t \in open'
    BY <1>0, <1>3, <2>1, <2>3
  <2>11. QED
    BY <2>4, <2>5, <2>8, <2>9, <2>10 DEF OfTab
<1>8. QED
  BY <1>0, <1>3, <1>5, <1>6, <1>7 DEF TabInv

LEMMA StoreEndsPreserves ==
  ASSUME TabInv, NEW t \in Tabs, StoreEnds(t)
  PROVE  TabInv'
<1>0. Ranges /\ store \in asked /\ \A u \in Tabs : OfTab(u)
  BY DEF TabInv
<1> DEFINE s == syncs[t]
<1>1. s \in Seq(Sync) /\ s # <<>> /\ ~Head(s).populate
  BY <1>0 DEF Ranges, StoreEnds
<1>2. /\ Tail(s) \in Seq(Sync) /\ Len(s) \in Nat \ {0} /\ Len(Tail(s)) = Len(s) - 1
      /\ \A k \in 1 .. Len(Tail(s)) : Tail(s)[k] = s[k + 1]
      /\ Tail(s) = <<>> => Len(s) = 1
      /\ Head(s) = s[1] /\ Head(s) \in Sync
  BY <1>1, TailFacts
<1>3. syncs' = [syncs EXCEPT ![t] = Tail(s)] /\ store' \in {Head(s).file, file[t]}
      /\ lastStore' = t /\ UNCHANGED <<open, profile, file, early, asked>>
  BY DEF StoreEnds
<1>4. Head(s).file \in SaveFile /\ file[t] \in SaveFile
  BY <1>0, <1>2 DEF Ranges, Sync
<1>5. Ranges'
  BY <1>0, <1>2, <1>3, <1>4 DEF Ranges
<1>6. ASSUME NEW u \in Tabs, u # t PROVE OfTab(u)'
  <2>1. OfTab(u) /\ syncs'[u] = syncs[u] /\ file'[u] = file[u] /\ lastStore' # u
    BY <1>0, <1>3, <1>6 DEF Ranges
  <2>2. QED
    BY <1>3, <2>1, OtherTab
<1>7. OfTab(t)
  BY <1>0
<1>8. store' \in asked'
  BY <1>1, <1>2, <1>3, <1>7 DEF OfTab
<1>9. OfTab(t)'
  <2>1. syncs'[t] = Tail(s) /\ file'[t] = file[t] /\ t \in open'
    BY <1>0, <1>1, <1>3, <1>7 DEF Ranges, OfTab
  <2>2. Len(syncs'[t]) <= MaxSyncs
    BY <1>2, <1>7, <2>1, SaveDataAssumption DEF OfTab
  <2>3. ASSUME NEW k \in 1 .. Len(syncs'[t])
        PROVE  /\ ~syncs'[t][k].populate
               /\ syncs'[t][k].file \in asked' /\ file'[t] \in asked'
    <3>1. k + 1 \in 1 .. Len(s) /\ k + 1 # 1 /\ syncs'[t][k] = s[k + 1]
      BY <1>2, <2>1
    <3>2. ~s[k + 1].populate
      BY <1>7, <3>1 DEF OfTab
    <3>3. s[k + 1].file \in asked /\ file[t] \in asked
      BY <1>7, <3>1, <3>2 DEF OfTab
    <3>4. QED
      BY <1>3, <2>1, <3>1, <3>2, <3>3
  <2>4. ~Populating(t)'
    BY <2>3 DEF Populating
  <2>5. file'[t] \in asked' \cup {NoFile}
    BY <1>3, <1>7, <2>1 DEF OfTab
  <2>6. ASSUME t \in open' \ early'
        PROVE  /\ syncs'[t] # <<>> /\ ~syncs'[t][Len(syncs'[t])].populate =>
                    syncs'[t][Len(syncs'[t])].file = file'[t]
               /\ syncs'[t] = <<>> => store' = file'[t]
    <3>1. ~s[Len(s)].populate
      <4>1. Len(s) \in 1 .. Len(s)
        BY <1>2
      <4>2. s[Len(s)].populate => Len(s) = 1
        BY <1>7, <4>1 DEF OfTab
      <4>3. QED
        BY <1>1, <4>2
    <3>2. s[Len(s)].file = file[t]
      BY <1>1, <1>3, <1>7, <2>6, <3>1 DEF OfTab
    <3>3. CASE Tail(s) = <<>>
      BY <1>2, <1>3, <2>1, <3>2, <3>3
    <3>4. CASE Tail(s) # <<>>
      <4>1. Len(Tail(s)) \in Nat \ {0}
        BY <1>2, <3>4, EmptySeq
      <4>2. Tail(s)[Len(Tail(s))] = s[Len(s)]
        BY <1>2, <4>1
      <4>3. QED
        BY <2>1, <3>2, <3>4, <4>2
    <3>5. QED
      BY <3>3, <3>4
  <2>7. QED
    BY <2>1, <2>2, <2>3, <2>4, <2>5, <2>6 DEF OfTab
<1>10. QED
  BY <1>0, <1>5, <1>6, <1>8, <1>9 DEF TabInv
-----------------------------------------------------------------------------
(***************************************************************************)
(* The theorems.                                                           *)
(***************************************************************************)
LEMMA NextPreserves == TabInv /\ [Next]_vars => TabInv'
<1> SUFFICES ASSUME TabInv, [Next]_vars PROVE TabInv'
  OBVIOUS
<1>0. Ranges
  BY DEF TabInv
<1>1. CASE UNCHANGED vars
  BY <1>0, <1>1, OnlyProfileChanges DEF Ranges, vars, tabVars
<1>2. CASE Next
  <2>1. PICK t \in Tabs :
          \/ Open(t) \/ Close(t)
          \/ \E p \in Profiles : Edit(t, p)
          \/ WriteSaveData(t) \/ DeleteSaveData(t) \/ ReadSaveData(t)
          \/ PopulateEnds(t) \/ StoreEnds(t)
    BY <1>2 DEF Next
  <2>2. CASE Open(t)
    BY <2>2, OpenPreserves
  <2>3. CASE Close(t)
    BY <2>3, ClosePreserves
  <2>4. ASSUME NEW p \in Profiles, Edit(t, p) PROVE TabInv'
    BY <1>0, <2>4, OnlyProfileChanges DEF Edit, Ranges
  <2>5. CASE WriteSaveData(t)
    <3>1. profile[t] \in SaveFile
      BY <1>0 DEF Ranges, SaveFile
    <3>2. QED
      BY <2>5, <3>1, ChangeFilePreserves DEF WriteSaveData
  <2>6. CASE DeleteSaveData(t)
    <3>1. NoFile \in SaveFile
      BY DEF SaveFile
    <3>2. QED
      BY <2>6, <3>1, ChangeFilePreserves DEF DeleteSaveData
  <2>7. CASE ReadSaveData(t)
    <3>1. file[t] \in SaveFile
      BY <1>0 DEF Ranges
    <3>2. profile' \in [Tabs -> Profiles]
      BY <1>0, <2>7, <3>1, ReadFileType DEF ReadSaveData
    <3>3. QED
      BY <2>7, <3>2, OnlyProfileChanges DEF ReadSaveData
  <2>8. CASE PopulateEnds(t)
    BY <2>8, PopulateEndsPreserves
  <2>9. CASE StoreEnds(t)
    BY <2>9, StoreEndsPreserves
  <2>10. QED
    BY <2>1, <2>2, <2>3, <2>4, <2>5, <2>6, <2>7, <2>8, <2>9
<1>3. QED
  BY <1>1, <1>2

\* SaveInv is an invariant of every execution: pages opened, closed, saving and deleting in any
\* order.
THEOREM SaveInvHolds == Spec => []SaveInv
<1>1. Spec => []TabInv
  BY InitHolds, NextPreserves, PTL DEF Spec
<1>2. TabInv => SaveInv
  BY SaveInvByTab
<1>3. QED
  BY <1>1, <1>2, PTL

\* Every variable stays in its range.
THEOREM TypeCorrect == Spec => []TypeOK
<1>1. SaveInv => TypeOK
  BY DEF SaveInv
<1>2. QED
  BY SaveInvHolds, <1>1, PTL

\* Overlapping copies of WriteSaveData and DeleteSaveData settle on the tab's file.
THEOREM StoreSettles == Spec => []StoreFollowsFile
<1>1. SaveInv => StoreFollowsFile
  BY DEF SaveInv
<1>2. QED
  BY SaveInvHolds, <1>1, PTL

\* main() alone never changes what IndexedDB holds: every state it is in was asked for by a save
\* or a delete.
THEOREM NothingUnaskedIsStored == Spec => []StoreWasAsked
<1>1. SaveInv => StoreWasAsked
  BY DEF SaveInv
<1>2. QED
  BY SaveInvHolds, <1>1, PTL

\* Of the subsets of a finite set that are bad, one is smallest.
LEMMA SmallestSubset ==
  ASSUME NEW S, IsFiniteSet(S), NEW Bad \in SUBSET SUBSET S, Bad # {}
  PROVE  \E T \in Bad : \A U \in SUBSET T : U \in Bad => U = T
<1>1. IsWellFoundedOn(StrictSubsetOrdering(S), SUBSET S)
  BY FS_StrictSubsetOrderingWellFounded, FS_FiniteSubsetsOfFinite
<1>2. PICK T \in Bad : \A U \in Bad : ~ (<<U, T>> \in StrictSubsetOrdering(S))
  BY <1>1, WFMin
<1>3. QED
  BY <1>2 DEF StrictSubsetOrdering

-----------------------------------------------------------------------------
(***************************************************************************)
(* Sums over a set, in the order in which CHOOSE takes its members: that   *)
(* there is such a function, and that any member may be taken out first.   *)
(* Each induction looks at a smallest set for which the claim fails.       *)
(***************************************************************************)
Chosen(S) == CHOOSE x \in S : TRUE
Sums(g, f, S) ==
  g = [T \in SUBSET S |-> IF T = {} THEN 0 ELSE f[Chosen(T)] + g[T \ {Chosen(T)}]]

\* A sum is the entry of the table that CHOOSE takes.
LEMMA SumIsChosen ==
  ASSUME NEW f, NEW S
  PROVE  SumFunctionOnSet(f, S) = (CHOOSE g : Sums(g, f, S))[S]
BY DEF SumFunctionOnSet, FoldFunctionOnSet, MapThenFoldSet, Sums, Chosen

\* CHOOSE takes a member.
LEMMA ChosenIn == ASSUME NEW T, T # {} PROVE Chosen(T) \in T
BY DEF Chosen

\* What a table of sums says of a set that has an element.
LEMMA SumsAt ==
  ASSUME NEW f, NEW S, NEW g, Sums(g, f, S), NEW T \in SUBSET S
  PROVE  g[T] = IF T = {} THEN 0 ELSE f[Chosen(T)] + g[T \ {Chosen(T)}]
BY DEF Sums

\* What it says of the empty set.
LEMMA SumsAtEmpty ==
  ASSUME NEW f, NEW S, NEW g, Sums(g, f, S)
  PROVE  g[{}] = 0
<1>1. {} \in SUBSET S
  OBVIOUS
<1>2. QED
  BY <1>1, SumsAt

\* Two tables of sums agree where both have an entry.
LEMMA SumsAgree ==
  ASSUME NEW f, NEW S, IsFiniteSet(S), NEW R \in SUBSET S, NEW g, NEW h,
         Sums(g, f, S), Sums(h, f, R)
  PROVE  \A T \in SUBSET R : g[T] = h[T]
<1> DEFINE Bad == {T \in SUBSET R : g[T] # h[T]}
<1> SUFFICES ASSUME Bad # {} PROVE FALSE
  OBVIOUS
<1>1. IsFiniteSet(R)
  BY FS_Subset
<1>2. PICK T \in Bad : \A U \in SUBSET T : U \in Bad => U = T
  <2>1. Bad \in SUBSET SUBSET R
    OBVIOUS
  <2> HIDE DEF Bad
  <2>2. QED
    BY <1>1, <2>1, SmallestSubset
<1>3. T \in SUBSET R /\ T \in SUBSET S /\ g[T] # h[T]
  BY <1>2
<1>4. T # {}
  <2>1. g[{}] = 0 /\ h[{}] = 0
    BY SumsAtEmpty
  <2>2. QED
    BY <1>3, <2>1
<1>5. Chosen(T) \in T
  BY <1>4, ChosenIn
<1>6. g[T \ {Chosen(T)}] = h[T \ {Chosen(T)}]
  BY <1>2, <1>3, <1>5
<1>7. QED
  BY <1>3, <1>4, <1>6, SumsAt

\* A finite set has a table of sums.
LEMMA SumsExist ==
  ASSUME NEW f, NEW S, IsFiniteSet(S)
  PROVE  \E g : Sums(g, f, S)
<1> DEFINE Bad == {T \in SUBSET S : ~ \E g : Sums(g, f, T)}
<1> SUFFICES ASSUME Bad # {} PROVE FALSE
  OBVIOUS
<1>2. PICK T \in Bad : \A U \in SUBSET T : U \in Bad => U = T
  <2>1. Bad \in SUBSET SUBSET S
    OBVIOUS
  <2> HIDE DEF Bad
  <2>2. QED
    BY <2>1, SmallestSubset
<1>3. T \in SUBSET S /\ ~ \E g : Sums(g, f, T)
  BY <1>2
<1> DEFINE Table(U) == CHOOSE g : Sums(g, f, U)
           Below(U) == IF U = {} THEN 0 ELSE f[Chosen(U)] + Table(U \ {Chosen(U)})[U \ {Chosen(U)}]
           g == [U \in SUBSET T |-> Below(U)]
<1>4. \A U \in SUBSET T : U # T => Sums(Table(U), f, U) /\ IsFiniteSet(U)
  BY <1>2, <1>3, FS_Subset
<1>5. ASSUME NEW U \in SUBSET T, U # {}
      PROVE  Table(U \ {Chosen(U)})[U \ {Chosen(U)}] = Below(U \ {Chosen(U)})
  <2> DEFINE W == U \ {Chosen(U)}
  <2>1. Chosen(U) \in U
    BY <1>5, ChosenIn
  <2>2. W \in SUBSET T /\ W # T /\ Sums(Table(W), f, W) /\ IsFiniteSet(W)
    BY <1>4, <2>1
  <2>3. CASE W = {}
    <3>1. Sums(Table({}), f, {})
      BY <2>2, <2>3
    <3> HIDE DEF Table, W
    <3>2. Table({})[{}] = 0
      BY <3>1, SumsAtEmpty
    <3>3. QED
      BY <2>3, <3>2 DEF W
  <2>4. CASE W # {}
    <3> DEFINE V == W \ {Chosen(W)}
    <3>1. V \in SUBSET W /\ V # T /\ V \in SUBSET T
      BY <2>2, <2>4, ChosenIn
    <3>2. Sums(Table(V), f, V)
      BY <1>4, <3>1
    <3>3. Table(W)[W] = f[Chosen(W)] + Table(W)[V]
      <4> HIDE DEF Table, W
      <4>1. W \in SUBSET W
        OBVIOUS
      <4>2. QED
        BY <2>2, <2>4, <4>1, SumsAt
    <3>4. Table(W)[V] = Table(V)[V]
      <4>1. V \in SUBSET V
        OBVIOUS
      <4> HIDE DEF Table, W, V
      <4>2. \A X \in SUBSET V : Table(W)[X] = Table(V)[X]
        BY <2>2, <3>1, <3>2, SumsAgree
      <4>3. QED
        BY <4>1, <4>2
    <3>5. QED
      BY <2>4, <3>3, <3>4
  <2>5. QED
    BY <2>3, <2>4
<1>6. Sums(g, f, T)
  <2>1. ASSUME NEW U \in SUBSET T
        PROVE  Below(U) = IF U = {} THEN 0 ELSE f[Chosen(U)] + g[U \ {Chosen(U)}]
    <3>1. U \ {Chosen(U)} \in SUBSET T
      OBVIOUS
    <3>2. g[U \ {Chosen(U)}] = Below(U \ {Chosen(U)})
      BY <3>1
    <3>3. CASE U = {}
      BY <3>3
    <3>4. CASE U # {}
      <4>1. Below(U) = f[Chosen(U)] + Table(U \ {Chosen(U)})[U \ {Chosen(U)}]
        BY <3>4
      <4>2. Table(U \ {Chosen(U)})[U \ {Chosen(U)}] = Below(U \ {Chosen(U)})
        BY <1>5, <3>4
      <4> HIDE DEF Below, Table, g
      <4>3. QED
        BY <3>2, <3>4, <4>1, <4>2
    <3>5. QED
      BY <3>3, <3>4
  <2> HIDE DEF Below
  <2>2. QED
    BY <2>1 DEF Sums
<1>7. QED
  BY <1>3, <1>6

\* The two equations of a sum over a set.
LEMMA SumEmpty ==
  ASSUME NEW f
  PROVE  SumFunctionOnSet(f, {}) = 0
<1> DEFINE g == CHOOSE g : Sums(g, f, {})
<1>1. Sums(g, f, {})
  BY SumsExist, FS_EmptySet
<1>2. g[{}] = 0
  <2> HIDE DEF g
  <2>1. QED
    BY <1>1, SumsAt
<1>3. QED
  BY <1>2, SumIsChosen

\* Taking out the element that CHOOSE takes.
LEMMA SumChosen ==
  ASSUME NEW f, NEW S, IsFiniteSet(S), S # {}
  PROVE  SumFunctionOnSet(f, S) = f[Chosen(S)] + SumFunctionOnSet(f, S \ {Chosen(S)})
<1> DEFINE R == S \ {Chosen(S)}
           g == CHOOSE g : Sums(g, f, S)
           h == CHOOSE h : Sums(h, f, R)
<1>1. R \in SUBSET S /\ IsFiniteSet(R)
  BY FS_Subset
<1>2. Sums(g, f, S) /\ Sums(h, f, R)
  BY <1>1, SumsExist
<1>3. SumFunctionOnSet(f, S) = g[S] /\ SumFunctionOnSet(f, R) = h[R]
  BY SumIsChosen
<1> HIDE DEF g, h
<1>4. g[S] = f[Chosen(S)] + g[R]
  BY <1>2, SumsAt
<1>5. g[R] = h[R]
  <2>1. R \in SUBSET R
    OBVIOUS
  <2> HIDE DEF R
  <2>2. QED
    BY <1>1, <1>2, <2>1, SumsAgree
<1>6. QED
  BY <1>3, <1>4, <1>5

\* The sum of integers is one.
LEMMA SumInt ==
  ASSUME NEW f, NEW S, IsFiniteSet(S), \A x \in S : f[x] \in Int
  PROVE  SumFunctionOnSet(f, S) \in Int
<1> DEFINE Bad == {T \in SUBSET S : SumFunctionOnSet(f, T) \notin Int}
<1> SUFFICES ASSUME Bad # {} PROVE FALSE
  OBVIOUS
<1>1. PICK T \in Bad : \A U \in SUBSET T : U \in Bad => U = T
  <2>1. Bad \in SUBSET SUBSET S
    OBVIOUS
  <2> HIDE DEF Bad
  <2>2. QED
    BY <2>1, SmallestSubset
<1>2. T \in SUBSET S /\ IsFiniteSet(T) /\ SumFunctionOnSet(f, T) \notin Int
  BY <1>1, FS_Subset
<1>3. T # {}
  BY <1>2, SumEmpty
<1>4. Chosen(T) \in T
  BY <1>3, ChosenIn
<1>5. SumFunctionOnSet(f, T \ {Chosen(T)}) \in Int
  BY <1>1, <1>2, <1>4
<1>6. QED
  BY <1>2, <1>3, <1>4, <1>5, SumChosen

\* Any element can be taken out first.
LEMMA SumTake ==
  ASSUME NEW f, NEW S, IsFiniteSet(S), \A x \in S : f[x] \in Int, NEW a \in S
  PROVE  SumFunctionOnSet(f, S) = f[a] + SumFunctionOnSet(f, S \ {a})
<1> DEFINE Holds(T, x) == SumFunctionOnSet(f, T) = f[x] + SumFunctionOnSet(f, T \ {x})
           Bad == {T \in SUBSET S : \E x \in T : ~Holds(T, x)}
<1>1. Bad = {}
  <2> SUFFICES ASSUME Bad # {} PROVE FALSE
    OBVIOUS
  <2>1. PICK T \in Bad : \A U \in SUBSET T : U \in Bad => U = T
    <3>1. Bad \in SUBSET SUBSET S
      OBVIOUS
    <3> HIDE DEF Bad
    <3>2. QED
      BY <3>1, SmallestSubset
  <2>2. T \in SUBSET S /\ IsFiniteSet(T)
    BY <2>1, FS_Subset
  <2>3. PICK x \in T : ~Holds(T, x)
    BY <2>1
  <2> DEFINE c == Chosen(T)
  <2>4. c \in T
    BY <2>3, ChosenIn
  <2>5. Holds(T, c)
    BY <2>2, <2>3, SumChosen
  <2>6. x # c
    BY <2>3, <2>5
  <2>7. Holds(T \ {c}, x)
    <3>1. T \ {c} \in SUBSET T /\ T \ {c} # T /\ T \ {c} \in SUBSET S /\ x \in T \ {c}
      BY <2>2, <2>3, <2>4, <2>6
    <3> HIDE DEF Holds, c
    <3>2. QED
      BY <2>1, <3>1
  <2>8. Holds(T \ {x}, c)
    <3>1. T \ {x} \in SUBSET T /\ T \ {x} # T /\ T \ {x} \in SUBSET S /\ c \in T \ {x}
      BY <2>2, <2>3, <2>4, <2>6
    <3> HIDE DEF Holds, c
    <3>2. QED
      BY <2>1, <3>1
  <2>9. (T \ {c}) \ {x} = (T \ {x}) \ {c}
    OBVIOUS
  <2>10. SumFunctionOnSet(f, (T \ {c}) \ {x}) \in Int /\ f[x] \in Int /\ f[c] \in Int
    <3>1. IsFiniteSet((T \ {c}) \ {x})
      BY <2>2, FS_Subset
    <3>2. QED
      BY <2>2, <2>3, <2>4, <3>1, SumInt
  <2>11. Holds(T, x)
    <3> DEFINE both == SumFunctionOnSet(f, (T \ {c}) \ {x})
    <3>1. /\ SumFunctionOnSet(f, T) = f[c] + (f[x] + both)
          /\ SumFunctionOnSet(f, T \ {x}) = f[c] + both
      BY <2>5, <2>7, <2>8, <2>9
    <3> HIDE DEF both, c
    <3>2. QED
      BY <2>10, <3>1 DEF both
  <2>12. QED
    BY <2>3, <2>11
<1>2. S \notin Bad
  BY <1>1
<1>3. QED
  BY <1>2

\* Two functions that agree on a set have the same sum over it; a larger one has a larger sum.
LEMMA SumMonotone ==
  ASSUME NEW f, NEW g, NEW S, IsFiniteSet(S),
         \A x \in S : f[x] \in Int /\ g[x] \in Int /\ f[x] <= g[x]
  PROVE  SumFunctionOnSet(f, S) <= SumFunctionOnSet(g, S)
<1> DEFINE Bad == {T \in SUBSET S : ~ (SumFunctionOnSet(f, T) <= SumFunctionOnSet(g, T))}
<1> SUFFICES ASSUME Bad # {} PROVE FALSE
  OBVIOUS
<1>1. PICK T \in Bad : \A U \in SUBSET T : U \in Bad => U = T
  <2>1. Bad \in SUBSET SUBSET S
    OBVIOUS
  <2> HIDE DEF Bad
  <2>2. QED
    BY <2>1, SmallestSubset
<1>2. /\ T \in SUBSET S /\ IsFiniteSet(T)
      /\ ~ (SumFunctionOnSet(f, T) <= SumFunctionOnSet(g, T))
  BY <1>1, FS_Subset
<1>3. T # {}
  BY <1>2, SumEmpty
<1>4. PICK a \in T : TRUE
  BY <1>3
<1> DEFINE R == T \ {a}
<1>5. R \in SUBSET T /\ R # T /\ R \in SUBSET S /\ IsFiniteSet(R)
  BY <1>2, FS_Subset
<1>6. SumFunctionOnSet(f, R) <= SumFunctionOnSet(g, R)
  <2> HIDE DEF R
  <2>1. QED
    BY <1>1, <1>5
<1>7. /\ SumFunctionOnSet(f, T) = f[a] + SumFunctionOnSet(f, R)
      /\ SumFunctionOnSet(g, T) = g[a] + SumFunctionOnSet(g, R)
  BY <1>2, SumTake
<1>8. SumFunctionOnSet(f, R) \in Int /\ SumFunctionOnSet(g, R) \in Int
  <2>1. \A x \in R : f[x] \in Int /\ g[x] \in Int
    BY <1>5
  <2> HIDE DEF R
  <2>2. QED
    BY <1>5, <2>1, SumInt
<1>9. f[a] \in Int /\ g[a] \in Int /\ f[a] <= g[a]
  BY <1>2
<1> HIDE DEF R
<1>10. QED
  BY <1>2, <1>6, <1>7, <1>8, <1>9

\* Functions that agree on a set have the same sum over it.
LEMMA SumAgree ==
  ASSUME NEW f, NEW g, NEW S, IsFiniteSet(S), \A x \in S : f[x] \in Int /\ f[x] = g[x]
  PROVE  SumFunctionOnSet(f, S) = SumFunctionOnSet(g, S)
<1>1. SumFunctionOnSet(f, S) \in Int /\ SumFunctionOnSet(g, S) \in Int
  BY SumInt
<1>2. \A x \in S : f[x] \in Int /\ g[x] \in Int /\ f[x] <= g[x] /\ g[x] <= f[x]
  OBVIOUS
<1>3. /\ SumFunctionOnSet(f, S) <= SumFunctionOnSet(g, S)
      /\ SumFunctionOnSet(g, S) <= SumFunctionOnSet(f, S)
  BY <1>2, SumMonotone
<1>4. QED
  BY <1>1, <1>3

\* A sum of ones or more is at least the number of its terms, one of natural numbers is one.
LEMMA SumAtLeast ==
  ASSUME NEW f, NEW S, IsFiniteSet(S), NEW low \in {0, 1},
         \A x \in S : f[x] \in Int /\ low <= f[x]
  PROVE  low * Cardinality(S) <= SumFunctionOnSet(f, S)
<1> DEFINE Bad == {T \in SUBSET S : ~ (low * Cardinality(T) <= SumFunctionOnSet(f, T))}
<1> SUFFICES ASSUME Bad # {} PROVE FALSE
  <2>1. S \in SUBSET S
    OBVIOUS
  <2>2. QED
    BY <2>1
<1>1. PICK T \in Bad : \A U \in SUBSET T : U \in Bad => U = T
  <2>1. Bad \in SUBSET SUBSET S
    OBVIOUS
  <2> HIDE DEF Bad
  <2>2. QED
    BY <2>1, SmallestSubset
<1>2. /\ T \in SUBSET S /\ IsFiniteSet(T) /\ Cardinality(T) \in Nat
      /\ ~ (low * Cardinality(T) <= SumFunctionOnSet(f, T))
  BY <1>1, FS_Subset, FS_CardinalityType
<1>3. T # {}
  <2>1. Cardinality({}) = 0 /\ SumFunctionOnSet(f, {}) = 0
    BY FS_EmptySet, SumEmpty
  <2>2. low * 0 <= 0
    OBVIOUS
  <2>3. QED
    BY <1>2, <2>1, <2>2
<1>4. PICK a \in T : TRUE
  BY <1>3
<1> DEFINE R == T \ {a}
<1>5. R \in SUBSET T /\ R # T /\ R \in SUBSET S /\ IsFiniteSet(R)
  BY <1>2, FS_Subset
<1>6. low * Cardinality(R) <= SumFunctionOnSet(f, R)
  <2> HIDE DEF R
  <2>1. QED
    BY <1>1, <1>5
<1>7. SumFunctionOnSet(f, T) = f[a] + SumFunctionOnSet(f, R)
  BY <1>2, SumTake
<1>8. SumFunctionOnSet(f, R) \in Int
  <2>1. \A x \in R : f[x] \in Int
    BY <1>5
  <2> HIDE DEF R
  <2>2. QED
    BY <1>5, <2>1, SumInt
<1>9. f[a] \in Int /\ low <= f[a]
  BY <1>2
<1>10. Cardinality(R) = Cardinality(T) - 1
  BY <1>2, FS_RemoveElement
<1> HIDE DEF R
<1>11. low * (Cardinality(T) - 1) + low = low * Cardinality(T)
  BY <1>2
<1>12. QED
  <2>1. CASE low = 0
    BY <1>2, <1>6, <1>7, <1>8, <1>9, <1>10, <2>1
  <2>2. CASE low = 1
    BY <1>2, <1>6, <1>7, <1>8, <1>9, <1>10, <2>2
  <2>3. QED
    BY <2>1, <2>2

\* A sum of natural numbers is one.
LEMMA SumNat ==
  ASSUME NEW f, NEW S, IsFiniteSet(S), \A x \in S : f[x] \in Nat
  PROVE  SumFunctionOnSet(f, S) \in Nat
<1>1. SumFunctionOnSet(f, S) \in Int /\ Cardinality(S) \in Nat
  BY SumInt, FS_CardinalityType
<1>2. 0 * Cardinality(S) <= SumFunctionOnSet(f, S)
  BY SumAtLeast
<1>3. QED
  BY <1>1, <1>2

\* A sum is that over a part and that over the rest.
LEMMA SumSplit ==
  ASSUME NEW f, NEW S, IsFiniteSet(S), \A x \in S : f[x] \in Int, NEW P \in SUBSET S
  PROVE  SumFunctionOnSet(f, S) = SumFunctionOnSet(f, P) + SumFunctionOnSet(f, S \ P)
<1> DEFINE Splits(T) == SumFunctionOnSet(f, S) = SumFunctionOnSet(f, T) + SumFunctionOnSet(f, S \ T)
           Bad == {T \in SUBSET P : ~ Splits(T)}
<1> SUFFICES ASSUME Bad # {} PROVE FALSE
  <2>1. P \in SUBSET P
    OBVIOUS
  <2>2. QED
    BY <2>1
<1>1. IsFiniteSet(P)
  BY FS_Subset
<1>2. PICK T \in Bad : \A U \in SUBSET T : U \in Bad => U = T
  <2>1. Bad \in SUBSET SUBSET P
    OBVIOUS
  <2> HIDE DEF Bad
  <2>2. QED
    BY <1>1, <2>1, SmallestSubset
<1>3. T \in SUBSET P /\ T \in SUBSET S /\ IsFiniteSet(T) /\ ~ Splits(T)
  BY <1>1, <1>2, FS_Subset
<1>4. T # {}
  <2>1. S \ {} = S
    OBVIOUS
  <2>2. SumFunctionOnSet(f, {}) = 0 /\ SumFunctionOnSet(f, S) \in Int
    BY SumEmpty, SumInt
  <2>3. Splits({})
    BY <2>1, <2>2
  <2> HIDE DEF Splits
  <2>4. QED
    BY <1>3, <2>3
<1>5. PICK a \in T : TRUE
  BY <1>4
<1> DEFINE R == T \ {a}
<1>6. R \in SUBSET T /\ R # T /\ R \in SUBSET P
  BY <1>3
<1>7. Splits(R)
  <2> HIDE DEF R, Splits
  <2>1. QED
    BY <1>2, <1>6
<1>8. a \in S \ R /\ (S \ R) \ {a} = S \ T /\ IsFiniteSet(S \ R) /\ IsFiniteSet(S \ T)
      /\ IsFiniteSet(R)
  BY <1>3, FS_Subset
<1>9. SumFunctionOnSet(f, T) = f[a] + SumFunctionOnSet(f, R)
  <2>1. \A x \in T : f[x] \in Int
    BY <1>3
  <2>2. QED
    BY <1>3, <2>1, SumTake
<1>10. SumFunctionOnSet(f, S \ R) = f[a] + SumFunctionOnSet(f, S \ T)
  <2>1. \A x \in S \ R : f[x] \in Int
    OBVIOUS
  <2> HIDE DEF R
  <2>2. SumFunctionOnSet(f, S \ R) = f[a] + SumFunctionOnSet(f, (S \ R) \ {a})
    BY <1>8, <2>1, SumTake
  <2>3. QED
    BY <1>8, <2>2
<1>11. SumFunctionOnSet(f, R) \in Int /\ SumFunctionOnSet(f, S \ T) \in Int /\ f[a] \in Int
  <2>1. (\A x \in R : f[x] \in Int) /\ \A x \in S \ T : f[x] \in Int
    BY <1>3
  <2>2. f[a] \in Int
    BY <1>3
  <2> HIDE DEF R
  <2>3. QED
    BY <1>8, <2>1, <2>2, SumInt
<1> HIDE DEF R
<1>12. QED
  BY <1>3, <1>7, <1>9, <1>10, <1>11

\* Of natural numbers, a part has the smaller sum.
LEMMA SumOfPart ==
  ASSUME NEW f, NEW S, IsFiniteSet(S), \A x \in S : f[x] \in Nat, NEW P \in SUBSET S
  PROVE  SumFunctionOnSet(f, P) <= SumFunctionOnSet(f, S)
<1>1. IsFiniteSet(P) /\ IsFiniteSet(S \ P)
  BY FS_Subset
<1>2. SumFunctionOnSet(f, P) \in Nat /\ SumFunctionOnSet(f, S \ P) \in Nat
  <2>1. (\A x \in P : f[x] \in Nat) /\ \A x \in S \ P : f[x] \in Nat
    OBVIOUS
  <2>2. QED
    BY <1>1, <2>1, SumNat
<1>3. \A x \in S : f[x] \in Int
  OBVIOUS
<1>4. SumFunctionOnSet(f, S) = SumFunctionOnSet(f, P) + SumFunctionOnSet(f, S \ P)
  BY <1>3, SumSplit
<1>5. QED
  BY <1>2, <1>4

-----------------------------------------------------------------------------
(***************************************************************************)
(* The least and the greatest member of a set, and quotients.              *)
(***************************************************************************)
\* A set of natural numbers has a least one.
LEMMA LeastNat ==
  ASSUME NEW T, T \subseteq Nat, T # {}
  PROVE  \E m \in T : \A n \in T : m <= n
<1> DEFINE R == OpToRel(<, Nat)
<1>1. \A m, n \in Nat : <<m, n>> \in R <=> m < n
  BY DEF OpToRel
<1>2. IsWellFoundedOn(R, Nat)
  BY NatLessThanWellFounded
<1>3. PICK m \in T : \A n \in T : ~ (<<n, m>> \in R)
  <2> HIDE DEF R
  <2>1. QED
    BY <1>2, WFMin
<1>4. \A n \in T : ~ (n < m)
  BY <1>1, <1>3
<1>5. QED
  BY <1>4

\* Min and its bound, from the least number.
LEMMA MinIs ==
  ASSUME NEW S, S \subseteq Nat, S # {}
  PROVE  Min(S) \in S /\ \A x \in S : Min(S) <= x
<1>1. \E m \in S : \A x \in S : m <= x
  BY LeastNat
<1>2. QED
  BY <1>1 DEF Min

\* The larger of two numbers is one of them and bounds both.
LEMMA TwoBounds ==
  ASSUME NEW a \in Int, NEW b \in Int
  PROVE  /\ Max({a, b}) = IF a >= b THEN a ELSE b
         /\ Min({a, b}) = IF a <= b THEN a ELSE b
BY DEF Max, Min

\* Of finitely many rows, one comes last.
LEMMA LastRow ==
  ASSUME NEW rows, IsFiniteSet(rows), rows # {}, \A p \in rows : p.seq \in Nat
  PROVE  /\ \E p \in rows : p.seq = Max({q.seq : q \in rows})
         /\ \A q \in rows : q.seq <= Max({r.seq : r \in rows})
<1> DEFINE Bad == {T \in SUBSET rows : T # {} /\ ~ \E p \in T : \A q \in T : q.seq <= p.seq}
<1>1. Bad = {}
  <2> SUFFICES ASSUME Bad # {} PROVE FALSE
    OBVIOUS
  <2>1. PICK T \in Bad : \A U \in SUBSET T : U \in Bad => U = T
    <3>1. Bad \in SUBSET SUBSET rows
      OBVIOUS
    <3> HIDE DEF Bad
    <3>2. QED
      BY <3>1, SmallestSubset
  <2>2. T \in SUBSET rows /\ T # {} /\ ~ \E p \in T : \A q \in T : q.seq <= p.seq
    BY <2>1
  <2>3. PICK a \in T : TRUE
    BY <2>2
  <2> DEFINE R == T \ {a}
  <2>4. R \in SUBSET T /\ R # T /\ R \in SUBSET rows
    BY <2>2
  <2>5. R # {}
    BY <2>2
  <2>6. \E p \in R : \A q \in R : q.seq <= p.seq
    BY <2>1, <2>4, <2>5
  <2>7. PICK p \in R : \A q \in R : q.seq <= p.seq
    BY <2>6
  <2>8. p \in T /\ p.seq \in Nat /\ a.seq \in Nat /\ \A q \in T : q.seq \in Nat
    BY <2>2, <2>4
  <2>9. CASE a.seq <= p.seq
    <3>1. \A q \in T : q.seq <= p.seq
      BY <2>7, <2>9
    <3>2. QED
      BY <2>2, <2>8, <3>1
  <2>10. CASE p.seq <= a.seq
    <3>1. \A q \in T : q.seq <= a.seq
      BY <2>7, <2>8, <2>10
    <3>2. QED
      BY <2>2, <3>1
  <2>11. QED
    BY <2>8, <2>9, <2>10
<1>2. PICK p \in rows : \A q \in rows : q.seq <= p.seq
  <2>1. rows \in SUBSET rows
    OBVIOUS
  <2>2. QED
    BY <1>1, <2>1
<1> DEFINE S == {q.seq : q \in rows}
<1>3. p.seq \in S /\ \A x \in S : x \in Nat /\ x <= p.seq
  BY <1>2
<1> HIDE DEF S
<1>4. Max(S) = p.seq
  <2>1. \A m \in S : (\A x \in S : m >= x) => m = p.seq
    BY <1>3
  <2>2. \A x \in S : p.seq >= x
    BY <1>3
  <2>3. QED
    BY <1>3, <2>1, <2>2 DEF Max
<1>5. QED
  BY <1>2, <1>4 DEF S

\* A product is smaller when a factor is.
LEMMA ProductGrows ==
  ASSUME NEW x \in Int, NEW y \in Int, NEW c \in Int, c > 0
  PROVE  /\ x <= y => c * x <= c * y
         /\ x < y => c * x + c <= c * y
<1>1. ASSUME NEW d \in Nat PROVE c * d >= 0 /\ (d > 0 => c * d >= c)
  OBVIOUS
<1>2. x <= y => y - x \in Nat /\ c * (y - x) = c * y - c * x
  OBVIOUS
<1>3. QED
  BY <1>1, <1>2

\* What \div gives.
LEMMA QuotientIs ==
  ASSUME NEW a \in Int, NEW c \in Int, c > 0
  PROVE  a \div c \in Int /\ c * (a \div c) <= a /\ a < c * (a \div c) + c
OBVIOUS

\* A quotient grows with what is divided.
LEMMA QuotientGrows ==
  ASSUME NEW a \in Int, NEW b \in Int, NEW c \in Int, c > 0, a <= b
  PROVE  a \div c <= b \div c
<1> DEFINE p == a \div c
           q == b \div c
<1>1. /\ p \in Int /\ c * p <= a
      /\ q \in Int /\ b < c * q + c
  BY QuotientIs
<1> HIDE DEF p, q
<1>2. ~(q < p)
  <2>1. q < p => c * q + c <= c * p
    BY <1>1, ProductGrows
  <2>2. c * p \in Int /\ c * q \in Int
    BY <1>1
  <2>3. QED
    BY <1>1, <2>1, <2>2
<1>3. QED
  BY <1>1, <1>2 DEF p, q

-----------------------------------------------------------------------------
(***************************************************************************)
(* What the dates of the game give: all of it grows with the time, up to   *)
(* the sixth anniversary.                                                  *)
(***************************************************************************)
\* Every release has a time.
LEMMA ReleaseTimes ==
  /\ \A k \in 1..10 : Releases[k] \in Int
  /\ DOMAIN Releases = 1..10
<1>1. Releases \in Seq(Int) /\ Len(Releases) = 10
  BY ReleasesAssumption DEF kAnni6
<1>2. DOMAIN Releases = 1..10
  BY <1>1
<1>3. \A k \in 1..10 : Releases[k] \in Int
  <2> TAKE k \in 1..10
  <2>1. QED
    BY <1>1, <1>2, ElementOfSeq
<1>4. QED
  BY <1>2, <1>3

\* A version that is out has its release behind it.
LEMMA VersionAhead ==
  ASSUME NEW db \in Databases, NEW time \in Int
  PROVE  LET ahead == {k \in 1..10 : time < Releases[k]}
         IN /\ ahead # {} => /\ GetAssetVersionAt(db, time) = Min(ahead) - 1
                             /\ Min(ahead) \in ahead /\ \A k \in ahead : Min(ahead) <= k
            /\ ahead = {} => GetAssetVersionAt(db, time) = db.version
            /\ GetAssetVersionAt(db, time) \in Int
<1> DEFINE ahead == {k \in 1..10 : time < Releases[k]}
<1>1. GetAssetVersionAt(db, time) = IF ahead = {} THEN db.version ELSE Min(ahead) - 1
  BY ReleaseTimes DEF GetAssetVersionAt
<1>2. ahead \subseteq Nat /\ db.version \in Int
  BY DatabaseAssumption
<1> HIDE DEF ahead
<1>3. ahead # {} => Min(ahead) \in ahead /\ (\A k \in ahead : Min(ahead) <= k) /\ Min(ahead) \in Nat
  BY <1>2, MinIs
<1>4. QED
  BY <1>1, <1>2, <1>3 DEF ahead

\* Up to the last release, a later time has no earlier version.
LEMMA VersionGrows ==
  ASSUME NEW db \in Databases, NEW s \in Int, NEW t \in Int, s <= t, t < Releases[kAnni6]
  PROVE  GetAssetVersionAt(db, s) <= GetAssetVersionAt(db, t)
<1> DEFINE Ahead(time) == {k \in 1..10 : time < Releases[k]}
<1>1. Ahead(t) \subseteq Ahead(s) /\ 10 \in Ahead(t) /\ Ahead(s) \subseteq Int
  BY ReleaseTimes DEF kAnni6
<1>2. \A time \in {s, t} : Ahead(time) # {} =>
        /\ GetAssetVersionAt(db, time) = Min(Ahead(time)) - 1
        /\ Min(Ahead(time)) \in Ahead(time) /\ \A k \in Ahead(time) : Min(Ahead(time)) <= k
  BY VersionAhead
<1> HIDE DEF Ahead
<1>3. Min(Ahead(s)) <= Min(Ahead(t)) /\ Min(Ahead(s)) \in Int /\ Min(Ahead(t)) \in Int
  BY <1>1, <1>2
<1>4. QED
  BY <1>1, <1>2, <1>3

\* Once the first releases are out, so is the version of the last of them.
LEMMA VersionReached ==
  ASSUME NEW db \in Databases, NEW t \in Int, t < Releases[kAnni6], NEW v \in 1..10,
         \A k \in 1..v : Releases[k] <= t
  PROVE  GetAssetVersionAt(db, t) >= v
<1> DEFINE ahead == {k \in 1..10 : t < Releases[k]}
<1>1. 10 \in ahead
  BY DEF kAnni6
<1>2. \A k \in ahead : k \in Int /\ k > v
  BY ReleaseTimes
<1>3. GetAssetVersionAt(db, t) = Min(ahead) - 1 /\ Min(ahead) \in ahead
  BY <1>1, VersionAhead
<1> HIDE DEF ahead
<1>4. QED
  BY <1>2, <1>3

\* The days since a reset grow.
LEMMA DaysGrow ==
  ASSUME NEW release \in Int, NEW reset \in Int, NEW s \in Int, NEW t \in Int, s <= t
  PROVE  /\ DaysSince(release, reset, s) \in Nat
         /\ DaysSince(release, reset, s) <= DaysSince(release, reset, t)
<1>1. Day \in Int /\ Day > 0
  BY PointsAssumption
<1> DEFINE Begun(time) == ((time - reset) + Day - 1) \div Day
           Most(time) == IF Begun(time) >= 1 THEN Begun(time) ELSE 1
<1>2. Begun(s) \in Int /\ Begun(t) \in Int /\ Begun(s) <= Begun(t)
  <2>1. /\ (s - reset) + Day - 1 \in Int /\ (t - reset) + Day - 1 \in Int
        /\ (s - reset) + Day - 1 <= (t - reset) + Day - 1
    BY <1>1
  <2>2. QED
    BY <1>1, <2>1, QuotientIs, QuotientGrows
<1>3. \A time \in {s, t} : Max({Begun(time), 1}) = Most(time)
  <2> HIDE DEF Begun
  <2>1. QED
    BY <1>2, TwoBounds
<1>4. \A time \in {s, t} :
        DaysSince(release, reset, time) = IF time < release THEN 0 ELSE Most(time)
  BY <1>3 DEF DaysSince
<1> HIDE DEF Begun
<1>5. QED
  BY <1>2, <1>4

\* What a stage asks for.
LEMMA PointsAreAsked ==
  ASSUME NEW db \in Databases, NEW char \in Characters
  PROVE  /\ DOMAIN GetChallengeLiveStagePointRequirement(db, char) = 0..LastStage(db, char)
         /\ LastStage(db, char) \in Nat
         /\ \A rank \in 0..LastStage(db, char) :
                GetChallengeLiveStagePointRequirement(db, char)[rank] \in Nat
         /\ {Cap4, Cap6} \subseteq 0..LastStage(db, char)
<1> DEFINE stages == db.stages[char]
<1>1. stages \in Seq(Nat) /\ {Cap4, Cap6} \subseteq 0..Len(stages) + 1
  BY DatabaseAssumption
<1> HIDE DEF stages
<1>2. Len(stages) \in Nat /\ DOMAIN stages = 1..Len(stages)
  BY <1>1
<1>3. ASSUME NEW rank \in 0..Len(stages) + 1
      PROVE  SumFunctionOnSet(stages, 1..rank - 1) \in Nat
  <2>1. IsFiniteSet(1..rank - 1)
    BY <1>2, FS_Interval
  <2>2. \A k \in 1..rank - 1 : stages[k] \in Nat
    BY <1>1, <1>2
  <2>3. QED
    BY <2>1, <2>2, SumNat
<1>4. QED
  BY <1>1, <1>2, <1>3 DEF GetChallengeLiveStagePointRequirement, LastStage, stages

StagePoints(db, char, time) ==
  LET reqs == GetChallengeLiveStagePointRequirement(db, char)
  IN IF time < Releases[kAnni6]
     THEN reqs[Cap4] + ExPoints - 1 + DaysSince(Releases[kAnni4], Reset4, time) * PerDay4
     ELSE reqs[Cap6] + DaysSince(Releases[kAnni6], Reset6, time) * PerDay6

StagesBeyond(db, char, time) ==
  {rank \in 0..LastStage(db, char) :
      StagePoints(db, char, time) < GetChallengeLiveStagePointRequirement(db, char)[rank]}

\* What GetMaxChallengeLiveStage finds.
LEMMA StageIs ==
  ASSUME NEW db \in Databases, NEW char \in Characters, NEW time \in Int
  PROVE  /\ GetMaxChallengeLiveStage(db, char, time) =
              IF StagesBeyond(db, char, time) = {} THEN LastStage(db, char)
              ELSE Min(StagesBeyond(db, char, time)) - 1
         /\ StagesBeyond(db, char, time) # {} =>
              /\ Min(StagesBeyond(db, char, time)) \in StagesBeyond(db, char, time)
              /\ \A rank \in StagesBeyond(db, char, time) :
                    Min(StagesBeyond(db, char, time)) <= rank
         /\ GetMaxChallengeLiveStage(db, char, time) \in Int
         /\ GetMaxChallengeLiveStage(db, char, time) <= LastStage(db, char)
<1> DEFINE beyond == StagesBeyond(db, char, time)
<1>1. GetMaxChallengeLiveStage(db, char, time) =
        IF beyond = {} THEN LastStage(db, char) ELSE Min(beyond) - 1
  BY PointsAreAsked DEF GetMaxChallengeLiveStage, StagesBeyond, StagePoints
<1>2. LastStage(db, char) \in Nat
      /\ \A rank \in beyond : rank \in Nat /\ rank <= LastStage(db, char)
  BY PointsAreAsked DEF StagesBeyond
<1> HIDE DEF beyond
<1>3. beyond # {} => Min(beyond) \in beyond /\ \A rank \in beyond : Min(beyond) <= rank
  <2>1. beyond \subseteq Nat
    BY <1>2
  <2>2. QED
    BY <2>1, MinIs
<1>4. QED
  BY <1>1, <1>2, <1>3 DEF beyond

\* The stage grows, and is never beyond the last.
LEMMA StageGrows ==
  ASSUME NEW db \in Databases, NEW char \in Characters, NEW s \in Int, NEW t \in Int,
         s <= t, t < Releases[kAnni6]
  PROVE  GetMaxChallengeLiveStage(db, char, s) <= GetMaxChallengeLiveStage(db, char, t)
<1> DEFINE reqs == GetChallengeLiveStagePointRequirement(db, char)
           days(time) == DaysSince(Releases[kAnni4], Reset4, time)
<1>1. /\ \A rank \in 0..LastStage(db, char) : reqs[rank] \in Int
      /\ reqs[Cap4] \in Int /\ LastStage(db, char) \in Nat
  BY PointsAreAsked
<1>2. s < Releases[kAnni6]
  BY ReleaseTimes DEF kAnni6
<1>3. days(s) \in Nat /\ days(t) \in Nat /\ days(s) <= days(t)
  <2>1. Releases[kAnni4] \in Int /\ Reset4 \in Int /\ t <= t
    BY ReleaseTimes, PointsAssumption DEF kAnni4
  <2>2. QED
    BY <2>1, DaysGrow
<1>4. \A time \in {s, t} :
        StagePoints(db, char, time) = reqs[Cap4] + ExPoints - 1 + days(time) * PerDay4
  BY <1>2 DEF StagePoints
<1> HIDE DEF reqs, days
<1>5. /\ StagePoints(db, char, s) \in Int /\ StagePoints(db, char, t) \in Int
      /\ StagePoints(db, char, s) <= StagePoints(db, char, t)
  <2>1. PerDay4 \in Nat /\ ExPoints \in Nat
    BY PointsAssumption
  <2>2. days(s) * PerDay4 \in Int /\ days(t) * PerDay4 \in Int
        /\ days(s) * PerDay4 <= days(t) * PerDay4
    <3>1. CASE PerDay4 = 0
      BY <1>3, <3>1
    <3>2. CASE PerDay4 > 0
      <4>1. PerDay4 * days(s) <= PerDay4 * days(t)
        BY <1>3, <2>1, <3>2, ProductGrows
      <4>2. QED
        BY <1>3, <2>1, <4>1
    <3>3. QED
      BY <2>1, <3>1, <3>2
  <2>3. QED
    BY <1>1, <1>4, <2>1, <2>2
<1>6. StagesBeyond(db, char, t) \subseteq StagesBeyond(db, char, s)
  BY <1>1, <1>5 DEF StagesBeyond, reqs
<1>7. \A rank \in StagesBeyond(db, char, s) : rank \in Int
  BY DEF StagesBeyond
<1> DEFINE M(time) == Min(StagesBeyond(db, char, time))
           G(time) == GetMaxChallengeLiveStage(db, char, time)
<1>8. \A time \in {s, t} :
        /\ G(time) = IF StagesBeyond(db, char, time) = {} THEN LastStage(db, char) ELSE M(time) - 1
        /\ StagesBeyond(db, char, time) # {} =>
             /\ M(time) \in StagesBeyond(db, char, time)
             /\ \A rank \in StagesBeyond(db, char, time) : M(time) <= rank
        /\ G(time) \in Int /\ G(time) <= LastStage(db, char)
  BY StageIs
<1> HIDE DEF M, G
<1>9. G(s) <= G(t)
  <2>1. CASE StagesBeyond(db, char, t) = {}
    BY <1>8, <2>1
  <2>2. CASE StagesBeyond(db, char, t) # {}
    <3>1. M(t) \in StagesBeyond(db, char, s) /\ StagesBeyond(db, char, s) # {}
      BY <1>6, <1>8, <2>2
    <3>2. M(s) <= M(t) /\ M(s) \in Int /\ M(t) \in Int
      BY <1>7, <1>8, <3>1
    <3>3. QED
      BY <1>8, <2>2, <3>1, <3>2
  <2>3. QED
    BY <2>1, <2>2
<1>10. QED
  BY <1>9 DEF G

\* The birthday XP grows, and is never more than one.
LEMMA BdayGrows ==
  ASSUME NEW char \in Characters, NEW s \in Int, NEW t \in Int, s <= t
  PROVE  /\ GetCharBdayProgressAt(char, s) \in Int
         /\ GetCharBdayProgressAt(char, s) <= GetCharBdayProgressAt(char, t)
         /\ GetCharBdayProgressAt(char, s) <= kMaxBdayXp
         /\ GetCharBdayProgressAt(char, s) > 0 => Birthday[char] <= s
<1>1. Birthday[char] \in Int /\ Year \in Int /\ Year > 0
  BY ReleasesAssumption, PointsAssumption
<1> DEFINE Years(time) == (time - Birthday[char]) \div Year
           Progress(time) == IF 1 <= Years(time) + 1 THEN 1 ELSE Years(time) + 1
<1>2. Years(s) \in Int /\ Years(t) \in Int /\ Years(s) <= Years(t)
  <2>1. s - Birthday[char] \in Int /\ t - Birthday[char] \in Int
        /\ s - Birthday[char] <= t - Birthday[char]
    BY <1>1
  <2>2. QED
    BY <1>1, <2>1, QuotientIs, QuotientGrows
<1>3. \A time \in {s, t} : time >= Birthday[char] => Years(time) >= 0
  <2> TAKE time \in {s, t}
  <2>1. time - Birthday[char] \in Int
    BY <1>1
  <2>2. Years(time) \in Int /\ time - Birthday[char] < Year * Years(time) + Year
    BY <1>1, <2>1, QuotientIs
  <2> HIDE DEF Years
  <2>3. Years(time) < 0 => Year * Years(time) + Year <= Year * 0
    <3>1. Years(time) < 0 => Years(time) < 0 /\ 0 \in Int
      OBVIOUS
    <3>2. QED
      BY <1>1, <2>2, ProductGrows
  <2>4. Year * 0 = 0 /\ Year * Years(time) \in Int
    BY <1>1, <2>2
  <2>5. QED
    BY <1>1, <2>1, <2>2, <2>3, <2>4
<1>4. \A time \in {s, t} : Min({1, Years(time) + 1}) = Progress(time)
  <2> TAKE time \in {s, t}
  <2> DEFINE y == Years(time) + 1
  <2>1. y \in Int
    BY <1>2
  <2> HIDE DEF y
  <2>2. Min({1, y}) = IF 1 <= y THEN 1 ELSE y
    BY <2>1, TwoBounds
  <2>3. QED
    BY <2>2 DEF y
<1>5. \A time \in {s, t} :
        GetCharBdayProgressAt(char, time) = IF time < Birthday[char] THEN 0 ELSE Progress(time)
  BY <1>4 DEF GetCharBdayProgressAt, kMaxBdayXp
<1> HIDE DEF Years
<1>6. QED
  BY <1>1, <1>2, <1>3, <1>5 DEF kMaxBdayXp

-----------------------------------------------------------------------------
(***************************************************************************)
(* The sources with dates of their own.                                    *)
(***************************************************************************)
Dependent == {"WORLD_LINK_2", "WORLD_LINK_3", "BDAY_LIVE"}

\* The rewards are natural numbers of known versions.
LEMMA RewardIs ==
  /\ Reward["WORLD_LINK_2"] = [version |-> 4, amount |-> 2]
  /\ Reward["WORLD_LINK_3"] = [version |-> 9, amount |-> 2]
  /\ Reward["BDAY_LIVE"] = [version |-> 7, amount |-> 1]
  /\ Dependent \subseteq DOMAIN Reward
  /\ \A source \in DOMAIN Reward : Reward[source].version \in Int /\ Reward[source].amount \in Nat
<1>1. DOMAIN Reward =
        {"ANNI_2_STAMP", "ANNI_3_STAMP", "WORLD_LINK", "ANNI_4_STAMP", "ANNI_4_MEMORIAL_SELECT",
         "MOVIE_STAMP", "ANNI_4_5_STAMP", "WORLD_LINK_2", "ANNI_5_STAMP",
         "ANNI_5_MEMORIAL_SELECT", "BDAY_LIVE", "NEW_YEAR_5_GACHA", "PLATINUM_EXCHANGE",
         "ANNI_5_5_STAMP", "WORLD_LINK_3", "ANNI_6_STAMP", "ANNI_6_MEMORIAL_SELECT"}
  BY DEF Reward
<1>2. /\ Reward["ANNI_2_STAMP"] = [version |-> 1, amount |-> 3]
      /\ Reward["ANNI_3_STAMP"] = [version |-> 2, amount |-> 3]
      /\ Reward["WORLD_LINK"] = [version |-> 3, amount |-> 2]
      /\ Reward["ANNI_4_STAMP"] = [version |-> 4, amount |-> 2]
      /\ Reward["ANNI_4_MEMORIAL_SELECT"] = [version |-> 4, amount |-> 1]
      /\ Reward["MOVIE_STAMP"] = [version |-> 5, amount |-> 2]
      /\ Reward["ANNI_4_5_STAMP"] = [version |-> 6, amount |-> 2]
      /\ Reward["WORLD_LINK_2"] = [version |-> 4, amount |-> 2]
      /\ Reward["ANNI_5_STAMP"] = [version |-> 7, amount |-> 2]
  BY DEF Reward, kAnni2, kAnni3, kEndOfWl, kAnni4, kMovie, kAnni4p5, kAnni5
<1>3. /\ Reward["ANNI_5_MEMORIAL_SELECT"] = [version |-> 7, amount |-> 2]
      /\ Reward["BDAY_LIVE"] = [version |-> 7, amount |-> 1]
      /\ Reward["NEW_YEAR_5_GACHA"] = [version |-> 8, amount |-> 3]
      /\ Reward["PLATINUM_EXCHANGE"] = [version |-> 9, amount |-> 5]
      /\ Reward["ANNI_5_5_STAMP"] = [version |-> 9, amount |-> 3]
      /\ Reward["WORLD_LINK_3"] = [version |-> 9, amount |-> 2]
      /\ Reward["ANNI_6_STAMP"] = [version |-> 10, amount |-> 3]
      /\ Reward["ANNI_6_MEMORIAL_SELECT"] = [version |-> 10, amount |-> 1]
  BY DEF Reward, kAnni5, kNewYear5, kAnni5p5, kAnni6
<1>4. Dependent \subseteq DOMAIN Reward
  BY <1>1 DEF Dependent
<1>5. \A source \in DOMAIN Reward : Reward[source].version \in Int /\ Reward[source].amount \in Nat
  BY <1>1, <1>2, <1>3
<1>6. QED
  BY <1>2, <1>3, <1>4, <1>5

\* The progress of the sources that do not only wait for a version.
LEMMA OtherProgressIs ==
  ASSUME NEW db, NEW char, NEW time
  PROVE  /\ OtherProgress(db, char, "CHALLENGE_LIVE", time) =
              GetMaxChallengeLiveStage(db, char, time)
         /\ OtherProgress(db, char, "WORLD_LINK_2", time) =
              IF WorldLink2ChapterStarted(db, char, time) THEN 2 ELSE 0
         /\ OtherProgress(db, char, "WORLD_LINK_3", time) =
              IF WorldLink3ChapterStarted(db, char, time) THEN 2 ELSE 0
         /\ OtherProgress(db, char, "BDAY_LIVE", time) = GetCharBdayProgressAt(char, time)
<1>1. OtherProgress(db, char, "CHALLENGE_LIVE", time) = GetMaxChallengeLiveStage(db, char, time)
  BY DEF OtherProgress
<1>2. OtherProgress(db, char, "WORLD_LINK_2", time) =
        IF WorldLink2ChapterStarted(db, char, time) THEN 2 ELSE 0
  BY DEF OtherProgress
<1>3. OtherProgress(db, char, "WORLD_LINK_3", time) =
        IF WorldLink3ChapterStarted(db, char, time) THEN 2 ELSE 0
  BY DEF OtherProgress
<1>4. OtherProgress(db, char, "BDAY_LIVE", time) = GetCharBdayProgressAt(char, time)
  BY DEF OtherProgress
<1>5. QED
  BY <1>1, <1>2, <1>3, <1>4

\* The progress of the sources that do.
LEMMA OtherProgressElse ==
  ASSUME NEW db, NEW char, NEW time, NEW source, source \notin Dependent \cup {"CHALLENGE_LIVE"}
  PROVE  OtherProgress(db, char, source, time) = Rewarded(db, source, time)
BY DEF OtherProgress, Dependent

\* A reward that is given stays given.
LEMMA RewardedGrows ==
  ASSUME NEW db \in Databases, NEW s \in Int, NEW t \in Int, NEW source \in DOMAIN Reward
  PROVE  /\ Rewarded(db, source, s) \in Nat
         /\ s <= t /\ t < Releases[kAnni6] => Rewarded(db, source, s) <= Rewarded(db, source, t)
<1>1. /\ GetAssetVersionAt(db, s) \in Int /\ GetAssetVersionAt(db, t) \in Int
      /\ s <= t /\ t < Releases[kAnni6] => GetAssetVersionAt(db, s) <= GetAssetVersionAt(db, t)
  BY VersionAhead, VersionGrows
<1>2. Reward[source].version \in Int /\ Reward[source].amount \in Nat
  BY RewardIs
<1>3. QED
  BY <1>1, <1>2 DEF Rewarded

\* A chapter that has started stays started.
LEMMA ChaptersStarted ==
  ASSUME NEW db \in Databases, NEW char \in Characters, NEW s \in Int, NEW t \in Int, s <= t
  PROVE  /\ WorldLink2ChapterStarted(db, char, s) => WorldLink2ChapterStarted(db, char, t)
         /\ WorldLink3ChapterStarted(db, char, s) => WorldLink3ChapterStarted(db, char, t)
<1>1. \A c \in db.chapters : c.start \in Int
  BY DatabaseAssumption
<1>2. ASSUME NEW events, ChapterStarted(db, char, s, events)
      PROVE  ChapterStarted(db, char, t, events)
  <2>1. PICK c \in db.chapters : c.event \in events /\ c.character = char /\ c.start <= s
    BY <1>2 DEF ChapterStarted
  <2>2. c.start <= t
    BY <1>1, <2>1
  <2>3. QED
    BY <2>1, <2>2 DEF ChapterStarted
<1>3. QED
  BY <1>2 DEF WorldLink2ChapterStarted, WorldLink3ChapterStarted

\* Progress grows.
LEMMA OtherGrows ==
  ASSUME NEW db \in Databases, NEW char \in Characters, NEW source \in OtherSources,
         NEW s \in Int, NEW t \in Int, s <= t
  PROVE  /\ OtherProgress(db, char, source, s) \in Int
         /\ t < Releases[kAnni6] =>
              OtherProgress(db, char, source, s) <= OtherProgress(db, char, source, t)
<1>1. CASE source = "CHALLENGE_LIVE"
  BY <1>1, OtherProgressIs, StageIs, StageGrows
<1>2. CASE source = "WORLD_LINK_2"
  BY <1>2, OtherProgressIs, ChaptersStarted
<1>3. CASE source = "WORLD_LINK_3"
  BY <1>3, OtherProgressIs, ChaptersStarted
<1>4. CASE source = "BDAY_LIVE"
  BY <1>4, OtherProgressIs, BdayGrows
<1>5. CASE source \notin Dependent \cup {"CHALLENGE_LIVE"}
  <2>1. source \in DOMAIN Reward
    BY <1>5 DEF OtherSources
  <2>2. OtherProgress(db, char, source, s) = Rewarded(db, source, s)
    BY <1>5, OtherProgressElse
  <2>3. OtherProgress(db, char, source, t) = Rewarded(db, source, t)
    BY <1>5, OtherProgressElse
  <2>4. QED
    BY <2>1, <2>2, <2>3, RewardedGrows
<1>6. QED
  BY <1>1, <1>2, <1>3, <1>4, <1>5 DEF Dependent

\* The release that the maximum of a source waits for is out, if its progress goes by chapters.
Due(db, source, time) ==
  source \in ByChapters => GetAssetVersionAt(db, time) >= Reward[source].version

\* Progress stays within its maximum, chapters before their release aside.
LEMMA OtherWithinMax ==
  ASSUME NEW db \in Databases, NEW char \in Characters, NEW source \in OtherSources,
         NEW t \in Int
  PROVE  /\ OtherMaxProgress(db, char, source, t) \in Int
         /\ t < Releases[kAnni6] /\ Due(db, source, t) =>
              OtherProgress(db, char, source, t) <= OtherMaxProgress(db, char, source, t)
<1>1. CASE source = "CHALLENGE_LIVE"
  <2>1. OtherMaxProgress(db, char, source, t) = LastStage(db, char)
    BY <1>1 DEF OtherMaxProgress
  <2>2. QED
    BY <1>1, <2>1, OtherProgressIs, StageIs, PointsAreAsked
<1>2. CASE source # "CHALLENGE_LIVE"
  <2>1. source \in DOMAIN Reward /\ OtherMaxProgress(db, char, source, t) = Rewarded(db, source, t)
    BY <1>2 DEF OtherMaxProgress, OtherSources
  <2>2. Rewarded(db, source, t) \in Nat
    BY <2>1, RewardedGrows
  <2>3. t <= t
    OBVIOUS
  <2>4. CASE source = "WORLD_LINK_2"
    <3>1. ASSUME Due(db, source, t)
          PROVE  Rewarded(db, source, t) = 2
      <4>1. GetAssetVersionAt(db, t) >= Reward[source].version
        BY <2>4, <3>1 DEF Due, ByChapters
      <4>2. QED
        BY <2>4, <4>1, RewardIs DEF Rewarded
    <3>2. QED
      BY <2>1, <2>2, <2>4, <3>1, OtherProgressIs
  <2>5. CASE source = "WORLD_LINK_3"
    <3>1. ASSUME Due(db, source, t)
          PROVE  Rewarded(db, source, t) = 2
      <4>1. GetAssetVersionAt(db, t) >= Reward[source].version
        BY <2>5, <3>1 DEF Due, ByChapters
      <4>2. QED
        BY <2>5, <4>1, RewardIs DEF Rewarded
    <3>2. QED
      BY <2>1, <2>2, <2>5, <3>1, OtherProgressIs
  <2>6. CASE source = "BDAY_LIVE"
    <3>1. /\ GetCharBdayProgressAt(char, t) \in Int /\ GetCharBdayProgressAt(char, t) <= 1
          /\ GetCharBdayProgressAt(char, t) > 0 => Birthday[char] <= t
      BY <2>3, BdayGrows DEF kMaxBdayXp
    <3>2. ASSUME t < Releases[kAnni6], Birthday[char] <= t
          PROVE  Rewarded(db, source, t) = 1
      <4>1. \A k \in 1..7 : Releases[k] <= Birthday[char]
        BY ReleasesAssumption DEF kAnni5
      <4>2. \A k \in 1..7 : Releases[k] <= t
        <5>1. Birthday[char] \in Int /\ \A k \in 1..7 : Releases[k] \in Int
          BY ReleasesAssumption, ReleaseTimes
        <5>2. QED
          BY <3>2, <4>1, <5>1
      <4>3. GetAssetVersionAt(db, t) >= 7
        BY <3>2, <4>2, VersionReached
      <4>4. QED
        BY <2>6, <4>3, RewardIs DEF Rewarded
    <3>3. QED
      BY <2>1, <2>2, <2>6, <3>1, <3>2, OtherProgressIs
  <2>7. CASE source \notin Dependent
    <3>1. OtherProgress(db, char, source, t) = Rewarded(db, source, t)
      BY <1>2, <2>7, OtherProgressElse
    <3>2. QED
      BY <2>1, <2>2, <3>1
  <2>8. QED
    BY <2>4, <2>5, <2>6, <2>7 DEF Dependent
<1>3. QED
  BY <1>1, <1>2

-----------------------------------------------------------------------------
(***************************************************************************)
(* The missions: what the database holds at a later time is a larger set.  *)
(***************************************************************************)
\* A larger set has more elements.
LEMMA Larger ==
  ASSUME NEW S, IsFiniteSet(S), NEW T \in SUBSET S
  PROVE  Cardinality(T) \in Nat /\ Cardinality(S) \in Nat /\ Cardinality(T) <= Cardinality(S)
BY FS_Subset, FS_CardinalityType

Earlier(rows, s, t) ==
  /\ Out(rows, s) \in SUBSET Out(rows, t)
  /\ IsFiniteSet(Out(rows, s)) /\ IsFiniteSet(Out(rows, t))

\* What is out stays out.
LEMMA OutGrows ==
  ASSUME NEW rows, Dated(rows), NEW s \in Int, NEW t \in Int, s <= t
  PROVE  Earlier(rows, s, t)
<1>1. IsFiniteSet(rows) /\ \A r \in rows : r.published \in Int
  BY DEF Dated
<1>2. Out(rows, s) \in SUBSET rows /\ Out(rows, t) \in SUBSET rows
  BY DEF Out
<1>3. Out(rows, s) \in SUBSET Out(rows, t)
  BY <1>1 DEF Out
<1>4. QED
  BY <1>1, <1>2, <1>3, FS_Subset DEF Earlier

\* Of those rows, the ones that are counted.
Grows(A, B) == Cardinality(A) \in Nat /\ Cardinality(B) \in Nat /\ Cardinality(A) <= Cardinality(B)

\* So do the cards of a character.
LEMMA CardsGrow ==
  ASSUME NEW db \in Databases, NEW char \in Characters, NEW s \in Int, NEW t \in Int, s <= t
  PROVE  /\ CardsOf(db, char, s) \in SUBSET CardsOf(db, char, t)
         /\ IsFiniteSet(CardsOf(db, char, s)) /\ IsFiniteSet(CardsOf(db, char, t))
<1>1. Dated(db.cards)
  BY DatabaseAssumption
<1>2. Earlier(db.cards, s, t)
  BY <1>1, OutGrows
<1>3. /\ CardsOf(db, char, s) \in SUBSET Out(db.cards, s)
      /\ CardsOf(db, char, t) \in SUBSET Out(db.cards, t)
      /\ CardsOf(db, char, s) \in SUBSET CardsOf(db, char, t)
  BY <1>2 DEF CardsOf, Earlier
<1>4. QED
  BY <1>2, <1>3, FS_Subset DEF Earlier

\* The counts of dated rows grow.
LEMMA CountsGrow ==
  ASSUME NEW db \in Databases, NEW char \in Characters, NEW s \in Int, NEW t \in Int, s <= t
  PROVE  /\ CountAlts(db, char, s) \in Nat /\ CountAlts(db, char, s) <= CountAlts(db, char, t)
         /\ CountCostumes(db, char, s) \in Nat
         /\ CountCostumes(db, char, s) <= CountCostumes(db, char, t)
         /\ CountStamps(db, char, s) \in Nat /\ CountStamps(db, char, s) <= CountStamps(db, char, t)
         /\ CountAreaConvos(db, char, s) \in Nat
         /\ CountAreaConvos(db, char, s) <= CountAreaConvos(db, char, t)
         /\ CountVoiceLine(db, char, s) \in Nat
         /\ CountVoiceLine(db, char, s) <= CountVoiceLine(db, char, t)
<1>1. /\ Earlier(db.vocals, s, t) /\ Earlier(db.costumes, s, t) /\ Earlier(db.stamps, s, t)
      /\ Earlier(db.actionSets, s, t) /\ Earlier(db.voices, s, t)
  <2>1. /\ Dated(db.vocals) /\ Dated(db.costumes) /\ Dated(db.stamps)
        /\ Dated(db.actionSets) /\ Dated(db.voices)
    BY DatabaseAssumption
  <2>2. QED
    BY <2>1, OutGrows
<1>2. CountAlts(db, char, s) \in Nat /\ CountAlts(db, char, s) <= CountAlts(db, char, t)
  <2> DEFINE Counted(time) == {v \in Out(db.vocals, time) : v.type = "ANOTHER_VOCAL"
                /\ [type |-> "GAME_CHARACTER", id |-> char] \in v.characters}
  <2>1. Counted(s) \in SUBSET Counted(t) /\ IsFiniteSet(Counted(t))
    BY <1>1, FS_Subset DEF Earlier
  <2>2. CountAlts(db, char, s) = Cardinality(Counted(s))
        /\ CountAlts(db, char, t) = Cardinality(Counted(t))
    BY DEF CountAlts
  <2> HIDE DEF Counted
  <2>3. QED
    BY <2>1, <2>2, Larger
<1>3. CountCostumes(db, char, s) \in Nat /\ CountCostumes(db, char, s) <= CountCostumes(db, char, t)
  <2> DEFINE Counted(time) == {c \in Out(db.costumes, time) : c.character = char /\ c.part = "BODY"}
  <2>1. Counted(s) \in SUBSET Counted(t) /\ IsFiniteSet(Counted(t))
    BY <1>1, FS_Subset DEF Earlier
  <2>2. /\ CountCostumes(db, char, s) = Cardinality(Counted(s))
        /\ CountCostumes(db, char, t) = Cardinality(Counted(t))
    BY DEF CountCostumes
  <2> HIDE DEF Counted
  <2>3. QED
    BY <2>1, <2>2, Larger
<1>4. CountStamps(db, char, s) \in Nat /\ CountStamps(db, char, s) <= CountStamps(db, char, t)
  <2> DEFINE Counted(time) == {p \in Out(db.stamps, time) : char \in p.characters}
  <2>1. Counted(s) \in SUBSET Counted(t) /\ IsFiniteSet(Counted(t))
    BY <1>1, FS_Subset DEF Earlier
  <2>2. /\ CountStamps(db, char, s) = Cardinality(Counted(s))
        /\ CountStamps(db, char, t) = Cardinality(Counted(t))
    BY DEF CountStamps
  <2> HIDE DEF Counted
  <2>3. QED
    BY <2>1, <2>2, Larger
<1>5. /\ CountAreaConvos(db, char, s) \in Nat
      /\ CountAreaConvos(db, char, s) <= CountAreaConvos(db, char, t)
  <2> DEFINE Counted(time) == {a \in Out(db.actionSets, time) :
                                  \E m \in a.models : db.character2d[m] = char}
  <2>1. Counted(s) \in SUBSET Counted(t) /\ IsFiniteSet(Counted(t))
    BY <1>1, FS_Subset DEF Earlier
  <2>2. /\ CountAreaConvos(db, char, s) = Cardinality(Counted(s))
        /\ CountAreaConvos(db, char, t) = Cardinality(Counted(t))
    BY DEF CountAreaConvos
  <2> HIDE DEF Counted
  <2>3. QED
    BY <2>1, <2>2, Larger
<1>6. CountVoiceLine(db, char, s) \in Nat
      /\ CountVoiceLine(db, char, s) <= CountVoiceLine(db, char, t)
  <2> DEFINE Counted(time) == {v \in Out(db.voices, time) : v.character = char
                /\ v.type \notin {"COMMENT_LIVE_TOP", "COMMENT_LOGIN_BONUS", "PRACTICE"}}
  <2>1. Counted(s) \in SUBSET Counted(t) /\ IsFiniteSet(Counted(t))
    BY <1>1, FS_Subset DEF Earlier
  <2>2. /\ CountVoiceLine(db, char, s) = Cardinality(Counted(s))
        /\ CountVoiceLine(db, char, t) = Cardinality(Counted(t))
    BY DEF CountVoiceLine
  <2> HIDE DEF Counted
  <2>3. QED
    BY <2>1, <2>2, Larger
<1>7. QED
  BY <1>2, <1>3, <1>4, <1>5, <1>6

\* The counts of cards grow.
LEMMA MembersGrow ==
  ASSUME NEW db \in Databases, NEW char \in Characters, NEW s \in Int, NEW t \in Int, s <= t
  PROVE  /\ CountRareMember(db, char, s) \in Nat /\ CountCommonMember(db, char, s) \in Nat
         /\ CountRareMember(db, char, s) <= CountRareMember(db, char, t)
         /\ CountCommonMember(db, char, s) <= CountCommonMember(db, char, t)
         /\ \A part : /\ CountCardEpisodes(db, char, part, s) \in Nat
                      /\ CountCardEpisodes(db, char, part, s) <=
                           CountCardEpisodes(db, char, part, t)
<1>1. /\ CardsOf(db, char, s) \in SUBSET CardsOf(db, char, t)
      /\ IsFiniteSet(CardsOf(db, char, t))
  BY CardsGrow
<1>2. /\ CountRareMember(db, char, s) \in Nat
      /\ CountRareMember(db, char, s) <= CountRareMember(db, char, t)
  <2> DEFINE Counted(time) == {c \in CardsOf(db, char, time) : IsRare(c.rarity)}
  <2>1. Counted(s) \in SUBSET Counted(t) /\ IsFiniteSet(Counted(t))
    BY <1>1, FS_Subset
  <2>2. /\ CountRareMember(db, char, s) = Cardinality(Counted(s))
        /\ CountRareMember(db, char, t) = Cardinality(Counted(t))
    BY DEF CountRareMember
  <2> HIDE DEF Counted
  <2>3. QED
    BY <2>1, <2>2, Larger
<1>3. /\ CountCommonMember(db, char, s) \in Nat
      /\ CountCommonMember(db, char, s) <= CountCommonMember(db, char, t)
  <2> DEFINE Counted(time) == {c \in CardsOf(db, char, time) : IsCommon(c.rarity)}
  <2>1. Counted(s) \in SUBSET Counted(t) /\ IsFiniteSet(Counted(t))
    BY <1>1, FS_Subset
  <2>2. /\ CountCommonMember(db, char, s) = Cardinality(Counted(s))
        /\ CountCommonMember(db, char, t) = Cardinality(Counted(t))
    BY DEF CountCommonMember
  <2> HIDE DEF Counted
  <2>3. QED
    BY <2>1, <2>2, Larger
<1>4. ASSUME NEW part
      PROVE  /\ CountCardEpisodes(db, char, part, s) \in Nat
             /\ CountCardEpisodes(db, char, part, s) <= CountCardEpisodes(db, char, part, t)
  <2> DEFINE Counted(time) == {c \in CardsOf(db, char, time) : part \in c.episodes}
  <2>1. Counted(s) \in SUBSET Counted(t) /\ IsFiniteSet(Counted(t))
    BY <1>1, FS_Subset
  <2>2. /\ CountCardEpisodes(db, char, part, s) = Cardinality(Counted(s))
        /\ CountCardEpisodes(db, char, part, t) = Cardinality(Counted(t))
    BY DEF CountCardEpisodes
  <2> HIDE DEF Counted
  <2>3. QED
    BY <2>1, <2>2, Larger
<1>5. QED
  BY <1>2, <1>3, <1>4

\* A card that comes out adds one place of the album or two, and takes away one at most.
LEMMA AlbumGrows ==
  ASSUME NEW db \in Databases, NEW char \in Characters, NEW s \in Int, NEW t \in Int, s <= t
  PROVE  /\ CountAlbumMember(db, char, s) \in Int
         /\ CountAlbumMember(db, char, s) <= CountAlbumMember(db, char, t)
<1> DEFINE A == CardsOf(db, char, s)
           B == CardsOf(db, char, t)
           TA == {c \in A : c.trainedOnly}
           TB == {c \in B : c.trainedOnly}
           f == [c \in B |-> AlbumRarityFactor(c.rarity)]
           h == [c \in A |-> AlbumRarityFactor(c.rarity)]
<1>1. A \in SUBSET B /\ IsFiniteSet(A) /\ IsFiniteSet(B)
  BY CardsGrow
<1>2. /\ \A c \in B : f[c] \in Nat /\ f[c] >= 1
      /\ \A c \in A : h[c] \in Int /\ h[c] = f[c]
      /\ DOMAIN f = B /\ DOMAIN h = A
  BY <1>1 DEF AlbumRarityFactor
<1>3. /\ CountAlbumMember(db, char, s) = SumFunctionOnSet(h, A) - Cardinality(TA)
      /\ CountAlbumMember(db, char, t) = SumFunctionOnSet(f, B) - Cardinality(TB)
  BY <1>2 DEF CountAlbumMember, CountTrainedOnlyCards, SumFunction
<1>4. TA \in SUBSET TB /\ TB \ TA \in SUBSET (B \ A) /\ IsFiniteSet(TA) /\ IsFiniteSet(TB)
      /\ IsFiniteSet(B \ A) /\ TB \cap TA = TA
  BY <1>1, FS_Subset
<1>5. /\ Cardinality(TB \ TA) = Cardinality(TB) - Cardinality(TA)
      /\ Cardinality(TB) \in Nat /\ Cardinality(TA) \in Nat
  <2> HIDE DEF TA, TB
  <2>1. QED
    BY <1>4, FS_Difference, FS_CardinalityType
<1>6. /\ Cardinality(TB \ TA) <= Cardinality(B \ A)
      /\ Cardinality(B \ A) \in Nat /\ Cardinality(TB \ TA) \in Nat
  <2> HIDE DEF TA, TB, A, B
  <2>1. QED
    BY <1>4, Larger
<1> HIDE DEF A, B, TA, TB, f, h
<1>7. SumFunctionOnSet(h, A) = SumFunctionOnSet(f, A)
  BY <1>1, <1>2, SumAgree
<1>8. SumFunctionOnSet(f, B) = SumFunctionOnSet(f, A) + SumFunctionOnSet(f, B \ A)
  <2>1. \A c \in B : f[c] \in Int
    BY <1>2
  <2>2. QED
    BY <1>1, <2>1, SumSplit
<1>9. SumFunctionOnSet(f, A) \in Int /\ SumFunctionOnSet(f, B \ A) \in Int
  <2>1. (\A c \in A : f[c] \in Int) /\ \A c \in B \ A : f[c] \in Int
    BY <1>1, <1>2
  <2>2. QED
    BY <1>1, <1>4, <2>1, SumInt
<1>10. 1 * Cardinality(B \ A) <= SumFunctionOnSet(f, B \ A)
  <2>1. \A c \in B \ A : f[c] \in Int /\ 1 <= f[c]
    BY <1>2
  <2>2. 1 \in {0, 1}
    OBVIOUS
  <2>3. QED
    BY <1>4, <2>1, <2>2, SumAtLeast
<1>11. QED
  BY <1>3, <1>5, <1>6, <1>7, <1>8, <1>9, <1>10

\* What every mission counts.
LEMMA MissionProgressIs ==
  ASSUME NEW db, NEW char, NEW time
  PROVE  /\ \A type \in AreaItemMissions :
              MissionProgress(db, char, type, time) = GetMaxAreaItemLevelForMission(db, char, type)
         /\ \A type \in EndlessMissions : MissionProgress(db, char, type, time) = Endless
         /\ MissionProgress(db, char, "COLLECT_ANOTHER_VOCAL", time) = CountAlts(db, char, time)
         /\ MissionProgress(db, char, "COLLECT_COSTUME_3D", time) = CountCostumes(db, char, time)
         /\ MissionProgress(db, char, "COLLECT_MEMBER", time) = CountAlbumMember(db, char, time)
         /\ MissionProgress(db, char, "COLLECT_STAMP", time) = CountStamps(db, char, time)
         /\ MissionProgress(db, char, "READ_AREA_TALK", time) = CountAreaConvos(db, char, time)
         /\ MissionProgress(db, char, "COLLECT_CHARACTER_ARCHIVE_VOICE", time) =
              CountVoiceLine(db, char, time)
<1>1. ASSUME NEW type \in AreaItemMissions
      PROVE  MissionProgress(db, char, type, time) = GetMaxAreaItemLevelForMission(db, char, type)
  BY <1>1 DEF MissionProgress, AreaItemMissions, EndlessMissions, ExMissions
<1>2. ASSUME NEW type \in EndlessMissions
      PROVE  MissionProgress(db, char, type, time) = Endless
  BY <1>2 DEF MissionProgress, AreaItemMissions, EndlessMissions, ExMissions
<1>3. MissionProgress(db, char, "COLLECT_ANOTHER_VOCAL", time) = CountAlts(db, char, time)
  BY DEF MissionProgress, AreaItemMissions, EndlessMissions, ExMissions
<1>4. MissionProgress(db, char, "COLLECT_COSTUME_3D", time) = CountCostumes(db, char, time)
  BY DEF MissionProgress, AreaItemMissions, EndlessMissions, ExMissions
<1>5. MissionProgress(db, char, "COLLECT_MEMBER", time) = CountAlbumMember(db, char, time)
  BY DEF MissionProgress, AreaItemMissions, EndlessMissions, ExMissions
<1>6. MissionProgress(db, char, "COLLECT_STAMP", time) = CountStamps(db, char, time)
  BY DEF MissionProgress, AreaItemMissions, EndlessMissions, ExMissions
<1>7. MissionProgress(db, char, "READ_AREA_TALK", time) = CountAreaConvos(db, char, time)
  BY DEF MissionProgress, AreaItemMissions, EndlessMissions, ExMissions
<1>8. MissionProgress(db, char, "COLLECT_CHARACTER_ARCHIVE_VOICE", time) =
        CountVoiceLine(db, char, time)
  BY DEF MissionProgress, AreaItemMissions, EndlessMissions, ExMissions
<1>9. QED
  BY <1>1, <1>2, <1>3, <1>4, <1>5, <1>6, <1>7, <1>8

\* What the missions about cards count.
LEMMA CardMissionProgressIs ==
  ASSUME NEW db, NEW char, NEW time
  PROVE  /\ MissionProgress(db, char, "MASTER_RANK_UP_RARE", time) =
              CountRareMember(db, char, time) * MasterRankMax
         /\ MissionProgress(db, char, "MASTER_RANK_UP_STANDARD", time) =
              CountCommonMember(db, char, time) * MasterRankMax
         /\ MissionProgress(db, char, "SKILL_LEVEL_UP_RARE", time) =
              CountRareMember(db, char, time) * (SkillLevelMax - 1)
         /\ MissionProgress(db, char, "SKILL_LEVEL_UP_STANDARD", time) =
              CountCommonMember(db, char, time) * (SkillLevelMax - 1)
         /\ MissionProgress(db, char, "READ_CARD_EPISODE_FIRST", time) =
              CountCardEpisodes(db, char, "FIRST_PART", time)
         /\ MissionProgress(db, char, "READ_CARD_EPISODE_SECOND", time) =
              CountCardEpisodes(db, char, "SECOND_PART", time)
         /\ MissionProgress(db, char, "COLLECT_MYSEKAI_FIXTURE", time) =
              CountMySekaiFixtures(db, char)
         /\ MissionProgress(db, char, "COLLECT_MYSEKAI_CANVAS", time) = CountMembers(db, char, time)
         /\ MissionProgress(db, char, "READ_MYSEKAI_FIXTURE_TALK", time) =
              CountMySekaiTalks(db, char)
<1>1. MissionProgress(db, char, "MASTER_RANK_UP_RARE", time) =
        CountRareMember(db, char, time) * MasterRankMax
  BY DEF MissionProgress, AreaItemMissions, EndlessMissions, ExMissions
<1>2. MissionProgress(db, char, "MASTER_RANK_UP_STANDARD", time) =
        CountCommonMember(db, char, time) * MasterRankMax
  BY DEF MissionProgress, AreaItemMissions, EndlessMissions, ExMissions
<1>3. MissionProgress(db, char, "SKILL_LEVEL_UP_RARE", time) =
        CountRareMember(db, char, time) * (SkillLevelMax - 1)
  BY DEF MissionProgress, AreaItemMissions, EndlessMissions, ExMissions
<1>4. MissionProgress(db, char, "SKILL_LEVEL_UP_STANDARD", time) =
        CountCommonMember(db, char, time) * (SkillLevelMax - 1)
  BY DEF MissionProgress, AreaItemMissions, EndlessMissions, ExMissions
<1>5. MissionProgress(db, char, "READ_CARD_EPISODE_FIRST", time) =
        CountCardEpisodes(db, char, "FIRST_PART", time)
  BY DEF MissionProgress, AreaItemMissions, EndlessMissions, ExMissions
<1>6. MissionProgress(db, char, "READ_CARD_EPISODE_SECOND", time) =
        CountCardEpisodes(db, char, "SECOND_PART", time)
  BY DEF MissionProgress, AreaItemMissions, EndlessMissions, ExMissions
<1>7. MissionProgress(db, char, "COLLECT_MYSEKAI_FIXTURE", time) = CountMySekaiFixtures(db, char)
  BY DEF MissionProgress, AreaItemMissions, EndlessMissions, ExMissions
<1>8. MissionProgress(db, char, "COLLECT_MYSEKAI_CANVAS", time) = CountMembers(db, char, time)
  BY DEF MissionProgress, AreaItemMissions, EndlessMissions, ExMissions
<1>9. MissionProgress(db, char, "READ_MYSEKAI_FIXTURE_TALK", time) = CountMySekaiTalks(db, char)
  BY DEF MissionProgress, AreaItemMissions, EndlessMissions, ExMissions
<1>10. QED
  BY <1>1, <1>2, <1>3, <1>4, <1>5, <1>6, <1>7, <1>8, <1>9

\* The counts that have no date.
LEMMA UndatedCounts ==
  ASSUME NEW db \in Databases, NEW char \in Characters
  PROVE  /\ CountMySekaiTalks(db, char) \in Int /\ CountMySekaiFixtures(db, char) \in Int
         /\ \A type : GetMaxAreaItemLevelForMission(db, char, type) \in Int
<1>1. /\ IsFiniteSet(db.talks) /\ IsFiniteSet(db.fixtures) /\ IsFiniteSet(db.areaItems)
      /\ \A item \in db.areaItems : item.levels \in Nat
  BY DatabaseAssumption
<1>2. CountMySekaiFixtures(db, char) \in Int
  <2> DEFINE Counted == {f \in db.fixtures :
                \E tag \in f.tags : db.fixtureTag[tag] = [type |-> "GAME_CHARACTER", id |-> char]}
  <2>1. Counted \in SUBSET db.fixtures
    OBVIOUS
  <2>2. CountMySekaiFixtures(db, char) = Cardinality(Counted)
    BY DEF CountMySekaiFixtures
  <2> HIDE DEF Counted
  <2>3. QED
    BY <1>1, <2>1, <2>2, Larger
<1>3. CountMySekaiTalks(db, char) \in Int
  <2> DEFINE Counted == {t \in db.talks : /\ \E u \in t.units : db.gameCharacterUnit[u] = char
                                          /\ t.condition = "MYSEKAI_FIXTURE_ID"}
             Scripts == {t.lua : t \in Counted}
             lua == [t \in Counted |-> t.lua]
  <2>1. IsFiniteSet(Counted)
    BY <1>1, FS_Subset
  <2>2. lua \in Surjection(Counted, Scripts)
    BY DEF Surjection
  <2>3. CountMySekaiTalks(db, char) = Cardinality(Scripts)
    BY DEF CountMySekaiTalks
  <2> HIDE DEF Counted, Scripts, lua
  <2>4. IsFiniteSet(Scripts)
    BY <2>1, <2>2, FS_Surjection
  <2>5. QED
    BY <2>3, <2>4, FS_CardinalityType
<1>4. ASSUME NEW type
      PROVE  GetMaxAreaItemLevelForMission(db, char, type) \in Int
  <2> DEFINE items == GetValidAreaItemsForMission(db, char, type)
             f == [item \in items |-> item.levels]
  <2>1. items \in SUBSET db.areaItems
    BY DEF GetValidAreaItemsForMission
  <2>2. IsFiniteSet(items) /\ DOMAIN f = items /\ \A item \in items : f[item] \in Int
    BY <1>1, <2>1, FS_Subset
  <2>3. GetMaxAreaItemLevelForMission(db, char, type) = SumFunctionOnSet(f, items)
    BY <2>2 DEF GetMaxAreaItemLevelForMission, SumFunction
  <2> HIDE DEF items, f
  <2>4. QED
    BY <2>2, <2>3, SumInt
<1>5. QED
  BY <1>2, <1>3, <1>4

\* The progress of every mission grows.
LEMMA MissionGrows ==
  ASSUME NEW db \in Databases, NEW char \in Characters, NEW type \in MissionTypes,
         NEW s \in Int, NEW t \in Int, s <= t
  PROVE  /\ MissionProgress(db, char, type, s) \in Int
         /\ MissionProgress(db, char, type, s) <= MissionProgress(db, char, type, t)
<1>1. CASE type \in AreaItemMissions
  <2>1. MissionProgress(db, char, type, s) = GetMaxAreaItemLevelForMission(db, char, type)
    BY <1>1, MissionProgressIs
  <2>2. MissionProgress(db, char, type, t) = GetMaxAreaItemLevelForMission(db, char, type)
    BY <1>1, MissionProgressIs
  <2>3. GetMaxAreaItemLevelForMission(db, char, type) \in Int
    BY UndatedCounts
  <2>4. QED
    BY <2>1, <2>2, <2>3
<1>2. CASE type \in EndlessMissions
  <2>1. MissionProgress(db, char, type, s) = Endless /\ MissionProgress(db, char, type, t) = Endless
    BY <1>2, MissionProgressIs
  <2>2. Endless \in Int
    BY SMT DEF Endless
  <2>3. QED
    BY <2>1, <2>2
<1>3. CASE type \in {"COLLECT_ANOTHER_VOCAL", "COLLECT_COSTUME_3D", "COLLECT_STAMP",
                     "READ_AREA_TALK", "COLLECT_CHARACTER_ARCHIVE_VOICE"}
  BY <1>3, MissionProgressIs, CountsGrow
<1>4. CASE type = "COLLECT_MEMBER"
  BY <1>4, MissionProgressIs, AlbumGrows
<1>5. CASE type \in {"MASTER_RANK_UP_RARE", "MASTER_RANK_UP_STANDARD", "SKILL_LEVEL_UP_RARE",
                     "SKILL_LEVEL_UP_STANDARD"}
  <2>1. /\ CountRareMember(db, char, s) \in Nat /\ CountCommonMember(db, char, s) \in Nat
        /\ CountRareMember(db, char, t) \in Nat /\ CountCommonMember(db, char, t) \in Nat
        /\ CountRareMember(db, char, s) <= CountRareMember(db, char, t)
        /\ CountCommonMember(db, char, s) <= CountCommonMember(db, char, t)
    <3>1. t <= t
      OBVIOUS
    <3>2. QED
      BY <3>1, MembersGrow
  <2>2. ASSUME NEW a \in Nat, NEW b \in Nat, a <= b, NEW m \in Nat
        PROVE  a * m \in Int /\ a * m <= b * m
    <3>1. b - a \in Nat /\ (b - a) * m \in Nat /\ b * m = a * m + (b - a) * m
      BY <2>2
    <3>2. QED
      BY <3>1
  <2>3. MasterRankMax \in Nat /\ SkillLevelMax - 1 \in Nat
    BY PointsAssumption
  <2>4. ASSUME NEW m \in {MasterRankMax, SkillLevelMax - 1}
        PROVE  /\ CountRareMember(db, char, s) * m \in Int
               /\ CountRareMember(db, char, s) * m <= CountRareMember(db, char, t) * m
               /\ CountCommonMember(db, char, s) * m \in Int
               /\ CountCommonMember(db, char, s) * m <= CountCommonMember(db, char, t) * m
    <3>1. m \in Nat
      BY <2>3
    <3>2. QED
      BY <2>1, <2>2, <3>1
  <2>5. CASE type = "MASTER_RANK_UP_RARE"
    BY <2>4, <2>5, CardMissionProgressIs
  <2>6. CASE type = "MASTER_RANK_UP_STANDARD"
    BY <2>4, <2>6, CardMissionProgressIs
  <2>7. CASE type = "SKILL_LEVEL_UP_RARE"
    BY <2>4, <2>7, CardMissionProgressIs
  <2>8. CASE type = "SKILL_LEVEL_UP_STANDARD"
    BY <2>4, <2>8, CardMissionProgressIs
  <2>9. QED
    BY <1>5, <2>5, <2>6, <2>7, <2>8
<1>6. CASE type \in {"READ_CARD_EPISODE_FIRST", "READ_CARD_EPISODE_SECOND"}
  BY <1>6, CardMissionProgressIs, MembersGrow
<1>7. CASE type = "COLLECT_MYSEKAI_CANVAS"
  <2>1. MissionProgress(db, char, type, s) =
          CountRareMember(db, char, s) + CountCommonMember(db, char, s)
    BY <1>7, CardMissionProgressIs DEF CountMembers
  <2>2. MissionProgress(db, char, type, t) =
          CountRareMember(db, char, t) + CountCommonMember(db, char, t)
    BY <1>7, CardMissionProgressIs DEF CountMembers
  <2>3. /\ CountRareMember(db, char, s) \in Nat /\ CountCommonMember(db, char, s) \in Nat
        /\ CountRareMember(db, char, t) \in Nat /\ CountCommonMember(db, char, t) \in Nat
        /\ CountRareMember(db, char, s) <= CountRareMember(db, char, t)
        /\ CountCommonMember(db, char, s) <= CountCommonMember(db, char, t)
    <3>1. t <= t
      OBVIOUS
    <3>2. QED
      BY <3>1, MembersGrow
  <2>4. QED
    BY <2>1, <2>2, <2>3
<1>8. CASE type \in {"COLLECT_MYSEKAI_FIXTURE", "READ_MYSEKAI_FIXTURE_TALK"}
  BY <1>8, CardMissionProgressIs, UndatedCounts
<1>9. QED
  BY <1>1, <1>2, <1>3, <1>4, <1>5, <1>6, <1>7, <1>8 DEF MissionTypes

-----------------------------------------------------------------------------
(***************************************************************************)
(* The steps of a mission, and the XP that progress brings.                *)
(***************************************************************************)
Latest(rows, k) == Max({q.seq : q \in {q \in rows : q.seq <= k}})

\* The row of a step is one that comes no later.
LEMMA RowsOfSteps ==
  ASSUME NEW rows, NEW ex \in BOOLEAN, MissionRowsAssumed(rows, ex)
  PROVE  /\ LastStep(rows) \in Nat \ {0}
         /\ \A k \in Nat \ {0} :
              /\ RowOfStep(rows, k) \in rows
              /\ RowOfStep(rows, k).seq = Latest(rows, k) /\ Latest(rows, k) \in Nat
         /\ \A j, k \in Nat \ {0} : j <= k => Latest(rows, j) <= Latest(rows, k)
<1>1. /\ IsFiniteSet(rows)
      /\ \A p \in rows : p.seq \in Nat \ {0} /\ p.requirement \in Nat /\ p.exp \in Nat
      /\ \E p \in rows : p.seq = 1
      /\ \A p \in rows : p.seq = 1 => p.exp > 0
  BY DEF MissionRowsAssumed
<1>2. PICK first \in rows : first.seq = 1
  BY <1>1
<1>3. LastStep(rows) \in Nat \ {0}
  <2> DEFINE zeros == {p.seq : p \in {p \in rows : p.exp = 0}}
  <2>1. LastStep(rows) = IF zeros = {} THEN Max({p.seq : p \in rows}) ELSE Min(zeros) - 1
    BY DEF LastStep
  <2>2. Max({p.seq : p \in rows}) \in Nat \ {0}
    <3>1. \E p \in rows : p.seq = Max({q.seq : q \in rows})
      BY <1>1, LastRow
    <3>2. QED
      BY <1>1, <3>1
  <2>3. zeros \subseteq Nat /\ \A z \in zeros : z \in Nat /\ z >= 2
    <3>1. \A p \in rows : p.exp = 0 => p.seq \in Nat /\ p.seq >= 2
      BY <1>1
    <3>2. QED
      BY <3>1
  <2> HIDE DEF zeros
  <2>4. CASE zeros = {}
    BY <2>1, <2>2, <2>4
  <2>5. CASE zeros # {}
    <3>1. Min(zeros) \in Nat /\ Min(zeros) >= 2
      BY <2>3, <2>5, MinIs
    <3>2. LastStep(rows) = Min(zeros) - 1
      BY <2>1, <2>5
    <3>3. QED
      BY <3>1, <3>2
  <2>6. QED
    BY <2>4, <2>5
<1>4. ASSUME NEW k \in Nat \ {0}
      PROVE  /\ \E p \in {q \in rows : q.seq <= k} : p.seq = Latest(rows, k)
             /\ \A q \in rows : q.seq <= k => q.seq <= Latest(rows, k)
  <2> DEFINE below == {q \in rows : q.seq <= k}
  <2>1. first \in below
    BY <1>2
  <2>2. IsFiniteSet(below) /\ below # {} /\ \A p \in below : p.seq \in Nat
    BY <1>1, <2>1, FS_Subset
  <2>3. Latest(rows, k) = Max({q.seq : q \in below})
    BY DEF Latest
  <2>4. \A q \in rows : q.seq <= k => q \in below
    OBVIOUS
  <2> HIDE DEF below
  <2>5. /\ \E p \in below : p.seq = Max({q.seq : q \in below})
        /\ \A q \in below : q.seq <= Max({r.seq : r \in below})
    BY <2>2, LastRow
  <2>6. (\E p \in below : p.seq = Latest(rows, k))
        /\ \A q \in rows : q.seq <= k => q.seq <= Latest(rows, k)
    BY <2>3, <2>4, <2>5
  <2>7. QED
    BY <2>6 DEF below
<1>5. ASSUME NEW k \in Nat \ {0}
      PROVE  /\ RowOfStep(rows, k) \in rows
             /\ RowOfStep(rows, k).seq = Latest(rows, k) /\ Latest(rows, k) \in Nat
  <2>1. \E p \in rows : p.seq = Latest(rows, k)
    BY <1>4
  <2>2. RowOfStep(rows, k) = CHOOSE p \in rows : p.seq = Latest(rows, k)
    BY DEF RowOfStep, Latest
  <2>3. RowOfStep(rows, k) \in rows /\ RowOfStep(rows, k).seq = Latest(rows, k)
    BY <2>1, <2>2
  <2>4. QED
    BY <1>1, <2>3
<1>6. ASSUME NEW j \in Nat \ {0}, NEW k \in Nat \ {0}, j <= k
      PROVE  Latest(rows, j) <= Latest(rows, k)
  <2>1. PICK p \in rows : p.seq <= j /\ p.seq = Latest(rows, j)
    BY <1>4
  <2>2. p.seq \in Nat
    BY <1>1
  <2>3. p.seq <= k
    BY <1>6, <2>1, <2>2
  <2>4. QED
    BY <1>4, <2>1, <2>3
<1>7. QED
  BY <1>3, <1>5, <1>6

\* Later steps do not ask for less.
StepsRise(steps, n) ==
  /\ n \in Nat \ {0} /\ DOMAIN steps = 1..n
  /\ \A k \in 1..n : steps[k].exp \in Nat /\ steps[k].requirement \in Nat
  /\ \A j, k \in 1..n : j <= k => steps[j].requirement <= steps[k].requirement

\* Expanded steps rise, and give XP.
LEMMA ExpandedRise ==
  ASSUME NEW rows, NEW ex \in BOOLEAN, MissionRowsAssumed(rows, ex)
  PROVE  StepsRise(ExpandGroup(rows, ex), LastStep(rows))
<1> DEFINE n == LastStep(rows)
           Row(k) == RowOfStep(rows, k)
           Asked(k) == IF ex THEN SumFunction([j \in 1..k |-> Row(j).requirement])
                       ELSE Row(k).requirement
           all == [j \in 1..n |-> Row(j).requirement]
           steps == ExpandGroup(rows, ex)
<1>1. n \in Nat \ {0}
  BY RowsOfSteps
<1>2. \A k \in 1..n : k \in Nat \ {0}
  BY <1>1
<1>3. \A k \in 1..n : Row(k) \in rows /\ Row(k).exp \in Nat /\ Row(k).requirement \in Nat
  <2>1. \A p \in rows : p.requirement \in Nat /\ p.exp \in Nat
    BY DEF MissionRowsAssumed
  <2>2. \A k \in 1..n : Row(k) \in rows
    BY <1>2, RowsOfSteps
  <2>3. QED
    BY <2>1, <2>2
<1>4. steps = [k \in 1..n |-> [exp |-> Row(k).exp, requirement |-> Asked(k)]]
  BY DEF ExpandGroup
<1>5. ~ex => \A j, k \in 1..n : j <= k => Row(j).requirement <= Row(k).requirement
  <2> SUFFICES ASSUME ~ex, NEW j \in 1..n, NEW k \in 1..n, j <= k
               PROVE  Row(j).requirement <= Row(k).requirement
    OBVIOUS
  <2>1. /\ Row(j).seq = Latest(rows, j) /\ Row(k).seq = Latest(rows, k)
        /\ Latest(rows, j) <= Latest(rows, k) /\ Latest(rows, j) \in Nat /\ Latest(rows, k) \in Nat
    BY <1>2, RowsOfSteps
  <2>2. CASE Latest(rows, j) = Latest(rows, k)
    <3>1. Row(j) = Row(k)
      BY <2>2 DEF RowOfStep, Latest
    <3>2. QED
      BY <1>3, <3>1
  <2>3. CASE Latest(rows, j) # Latest(rows, k)
    <3>1. Row(j).seq < Row(k).seq
      BY <2>1, <2>3
    <3>2. \A p, q \in rows : p.seq < q.seq => p.requirement <= q.requirement
      BY DEF MissionRowsAssumed
    <3>3. Row(j) \in rows /\ Row(k) \in rows
      BY <1>3
    <3> HIDE DEF Row
    <3>4. QED
      BY <3>1, <3>2, <3>3
  <2>4. QED
    BY <2>2, <2>3
<1>6. \A j \in 1..n : all[j] \in Nat
  BY <1>3
<1>7. \A k \in 1..n : SumFunction([j \in 1..k |-> Row(j).requirement]) = SumFunctionOnSet(all, 1..k)
  <2> TAKE k \in 1..n
  <2> DEFINE part == [j \in 1..k |-> Row(j).requirement]
  <2>1. IsFiniteSet(1..k)
    BY <1>2, FS_Interval
  <2>2. \A j \in 1..k : part[j] \in Int /\ part[j] = all[j]
    BY <1>1, <1>3
  <2>3. SumFunction(part) = SumFunctionOnSet(part, 1..k)
    BY DEF SumFunction
  <2> HIDE DEF part, all
  <2>4. SumFunctionOnSet(part, 1..k) = SumFunctionOnSet(all, 1..k)
    BY <2>1, <2>2, SumAgree
  <2>5. SumFunction(part) = SumFunctionOnSet(all, 1..k)
    BY <2>3, <2>4
  <2>6. QED
    BY <2>5 DEF part
<1> HIDE DEF all
<1>8. \A k \in 1..n : SumFunctionOnSet(all, 1..k) \in Nat
  <2> TAKE k \in 1..n
  <2>1. IsFiniteSet(1..k) /\ \A j \in 1..k : all[j] \in Nat
    BY <1>1, <1>2, <1>6, FS_Interval
  <2>2. QED
    BY <2>1, SumNat
<1>9. \A j, k \in 1..n : j <= k => SumFunctionOnSet(all, 1..j) <= SumFunctionOnSet(all, 1..k)
  <2> TAKE j, k \in 1..n
  <2> HAVE j <= k
  <2>1. IsFiniteSet(1..k)
    BY <1>2, FS_Interval
  <2>2. \A i \in 1..k : all[i] \in Nat
    BY <1>1, <1>6
  <2>3. 1..j \in SUBSET (1..k)
    BY <1>1
  <2>4. QED
    BY <2>1, <2>2, <2>3, SumOfPart
<1>10. \A k \in 1..n : Asked(k) = IF ex THEN SumFunctionOnSet(all, 1..k) ELSE Row(k).requirement
  BY <1>7
<1> HIDE DEF Asked, Row, steps, n
<1>11. \A k \in 1..n : Asked(k) \in Nat
  BY <1>3, <1>8, <1>10
<1>12. \A j, k \in 1..n : j <= k => Asked(j) <= Asked(k)
  BY <1>5, <1>9, <1>10
<1>13. DOMAIN steps = 1..n
       /\ \A k \in 1..n : steps[k].exp = Row(k).exp /\ steps[k].requirement = Asked(k)
  BY <1>4
<1>14. StepsRise(steps, n)
  BY <1>1, <1>3, <1>11, <1>12, <1>13 DEF StepsRise
<1>15. QED
  BY <1>14 DEF steps, n

\* The steps of a mission of the database.
LEMMA StepsOfMission ==
  ASSUME NEW db \in Databases, NEW char, NEW type, HasMission(db, char, type)
  PROVE  \E n : StepsRise(Steps(db, char, type), n)
<1> DEFINE rows == db.missions[<<char, type>>]
           ex == type \in ExMissions
<1>1. MissionRowsAssumed(rows, ex)
  <2>1. \A m \in DOMAIN db.missions :
          MissionRowsAssumed(db.missions[m], m[2] \in {"PLAY_LIVE_EX", "WAITING_ROOM_EX"})
    BY DatabaseAssumption
  <2>2. <<char, type>> \in DOMAIN db.missions /\ <<char, type>>[2] = type
    BY DEF HasMission
  <2>3. QED
    BY <2>1, <2>2 DEF ExMissions
<1>2. ex \in BOOLEAN
  OBVIOUS
<1>3. Steps(db, char, type) = ExpandGroup(rows, ex)
  BY DEF Steps
<1> HIDE DEF rows, ex
<1>4. StepsRise(ExpandGroup(rows, ex), LastStep(rows))
  BY <1>1, <1>2, ExpandedRise
<1>5. QED
  BY <1>3, <1>4

\* The steps that progress meets.
Met(steps, p) == {k \in DOMAIN steps : \A j \in 1..k : steps[j].requirement <= p}

\* More progress gives no less XP, and the last requirement gives all there is.
LEMMA XpOfMission ==
  ASSUME NEW db \in Databases, NEW char, NEW type, HasMission(db, char, type),
         NEW p \in Int, NEW q \in Int
  PROVE  /\ MissionXp(db, char, type, p) \in Nat
         /\ p <= q => MissionXp(db, char, type, p) <= MissionXp(db, char, type, q)
         /\ type \notin AreaItemMissions =>
              /\ MissionMaxProgress(db, char, type) \in Int
              /\ MissionXp(db, char, type, p) <=
                   MissionXp(db, char, type, MissionMaxProgress(db, char, type))
<1> DEFINE steps == Steps(db, char, type)
           exps == [k \in DOMAIN steps |-> steps[k].exp]
<1>1. PICK n : StepsRise(steps, n)
  BY StepsOfMission
<1>2. /\ n \in Nat \ {0} /\ DOMAIN steps = 1..n /\ IsFiniteSet(1..n)
      /\ \A k \in 1..n : steps[k].exp \in Nat /\ steps[k].requirement \in Nat
      /\ \A j, k \in 1..n : j <= k => steps[j].requirement <= steps[k].requirement
  BY <1>1, FS_Interval DEF StepsRise
<1>3. \A x : MissionXp(db, char, type, x) = SumFunctionOnSet(exps, Met(steps, x))
  BY DEF MissionXp, Met
<1>4. \A k \in 1..n : exps[k] \in Nat
  BY <1>2
<1> HIDE DEF exps, steps
<1>5. ASSUME NEW x PROVE Met(steps, x) \in SUBSET (1..n) /\ IsFiniteSet(Met(steps, x))
  <2>1. Met(steps, x) \in SUBSET (1..n)
    BY <1>2 DEF Met
  <2>2. QED
    BY <1>2, <2>1, FS_Subset
<1>6. ASSUME NEW x, NEW y, Met(steps, x) \in SUBSET Met(steps, y)
      PROVE  MissionXp(db, char, type, x) <= MissionXp(db, char, type, y)
  <2>1. \A k \in Met(steps, y) : exps[k] \in Nat
    BY <1>4, <1>5
  <2>2. IsFiniteSet(Met(steps, y))
    BY <1>5
  <2>3. SumFunctionOnSet(exps, Met(steps, x)) <= SumFunctionOnSet(exps, Met(steps, y))
    BY <1>6, <2>1, <2>2, SumOfPart
  <2>4. QED
    BY <1>3, <2>3
<1>7. MissionXp(db, char, type, p) \in Nat
  <2>1. IsFiniteSet(Met(steps, p)) /\ \A k \in Met(steps, p) : exps[k] \in Nat
    BY <1>4, <1>5
  <2>2. SumFunctionOnSet(exps, Met(steps, p)) \in Nat
    BY <2>1, SumNat
  <2>3. QED
    BY <1>3, <2>2
<1>8. p <= q => Met(steps, p) \in SUBSET Met(steps, q)
  <2>1. \A k \in 1..n : \A j \in 1..k : steps[j].requirement \in Int
    BY <1>2
  <2>2. QED
    BY <1>2, <2>1 DEF Met
<1>9. ASSUME type \notin AreaItemMissions
      PROVE  /\ MissionMaxProgress(db, char, type) \in Int
             /\ Met(steps, p) \in SUBSET Met(steps, MissionMaxProgress(db, char, type))
  <2>1. Len(steps) = n
    BY <1>2
  <2>2. MissionMaxProgress(db, char, type) = steps[n].requirement
    BY <1>9, <2>1 DEF MissionMaxProgress, steps
  <2>3. \A k \in 1..n : \A j \in 1..k : steps[j].requirement <= steps[n].requirement
    BY <1>2
  <2>4. 1..n \in SUBSET Met(steps, steps[n].requirement)
    BY <1>2, <2>3 DEF Met
  <2>5. QED
    BY <1>2, <1>5, <2>2, <2>4
<1>10. p <= q => MissionXp(db, char, type, p) <= MissionXp(db, char, type, q)
  BY <1>6, <1>8
<1>11. type \notin AreaItemMissions =>
         MissionXp(db, char, type, p) <=
           MissionXp(db, char, type, MissionMaxProgress(db, char, type))
  BY <1>6, <1>9
<1>12. QED
  BY <1>7, <1>9, <1>10, <1>11

-----------------------------------------------------------------------------
(***************************************************************************)
(* The sources of a character, and their XP.                               *)
(***************************************************************************)
\* A set of six is finite.
LEMMA FewAreFinite ==
  ASSUME NEW a, NEW b, NEW c, NEW d, NEW e, NEW f
  PROVE  IsFiniteSet({a, b, c, d, e, f})
<1>1. IsFiniteSet({a} \cup {b})
  BY FS_Singleton, FS_AddElement
<1>2. IsFiniteSet(({a} \cup {b}) \cup {c})
  BY <1>1, FS_AddElement
<1>3. IsFiniteSet((({a} \cup {b}) \cup {c}) \cup {d})
  BY <1>2, FS_AddElement
<1>4. IsFiniteSet(((({a} \cup {b}) \cup {c}) \cup {d}) \cup {e})
  BY <1>3, FS_AddElement
<1>5. IsFiniteSet((((({a} \cup {b}) \cup {c}) \cup {d}) \cup {e}) \cup {f})
  BY <1>4, FS_AddElement
<1>6. (((({a} \cup {b}) \cup {c}) \cup {d}) \cup {e}) \cup {f} = {a, b, c, d, e, f}
  OBVIOUS
<1>7. QED
  BY <1>5, <1>6

\* A character has finitely many sources.
LEMMA SourcesFinite ==
  ASSUME NEW db, NEW char
  PROVE  IsFiniteSet(SourcesOf(db, char))
<1>1. IsFiniteSet(MissionTypes)
  <2> DEFINE A == {"AREA_ITEM_LEVEL_UP_CHARACTER", "AREA_ITEM_LEVEL_UP_ALL_CHARACTER",
                   "AREA_ITEM_LEVEL_UP_REALITY_WORLD", "AREA_ITEM_LEVEL_UP_UNIT",
                   "PLAY_LIVE", "WAITING_ROOM"}
             B == {"PLAY_LIVE_EX", "WAITING_ROOM_EX", "COLLECT_ANOTHER_VOCAL",
                   "COLLECT_COSTUME_3D", "COLLECT_MEMBER", "COLLECT_STAMP"}
             C == {"MASTER_RANK_UP_RARE", "MASTER_RANK_UP_STANDARD", "READ_AREA_TALK",
                   "READ_CARD_EPISODE_FIRST", "READ_CARD_EPISODE_SECOND", "SKILL_LEVEL_UP_RARE"}
             D == {"SKILL_LEVEL_UP_STANDARD", "COLLECT_CHARACTER_ARCHIVE_VOICE",
                   "COLLECT_MYSEKAI_FIXTURE", "COLLECT_MYSEKAI_CANVAS",
                   "READ_MYSEKAI_FIXTURE_TALK", "READ_MYSEKAI_FIXTURE_TALK"}
  <2>1. IsFiniteSet(A) /\ IsFiniteSet(B) /\ IsFiniteSet(C) /\ IsFiniteSet(D)
    BY FewAreFinite
  <2>2. MissionTypes \subseteq ((A \cup B) \cup C) \cup D
    BY DEF MissionTypes, AreaItemMissions, EndlessMissions, ExMissions
  <2> HIDE DEF A, B, C, D
  <2>3. IsFiniteSet(((A \cup B) \cup C) \cup D)
    BY <2>1, FS_Union
  <2>4. QED
    BY <2>2, <2>3, FS_Subset
<1>2. IsFiniteSet(OtherSources)
  <2> DEFINE A == {"ANNI_2_STAMP", "ANNI_3_STAMP", "WORLD_LINK", "ANNI_4_STAMP",
                   "ANNI_4_MEMORIAL_SELECT", "MOVIE_STAMP"}
             B == {"ANNI_4_5_STAMP", "WORLD_LINK_2", "ANNI_5_STAMP", "ANNI_5_MEMORIAL_SELECT",
                   "BDAY_LIVE", "NEW_YEAR_5_GACHA"}
             C == {"PLATINUM_EXCHANGE", "ANNI_5_5_STAMP", "WORLD_LINK_3", "ANNI_6_STAMP",
                   "ANNI_6_MEMORIAL_SELECT", "CHALLENGE_LIVE"}
  <2>1. IsFiniteSet(A) /\ IsFiniteSet(B) /\ IsFiniteSet(C)
    BY FewAreFinite
  <2>2. OtherSources \subseteq (A \cup B) \cup C
    <3>1. DOMAIN Reward \subseteq (A \cup B) \cup C
      BY DEF Reward
    <3>2. QED
      BY <3>1 DEF OtherSources
  <2> HIDE DEF A, B, C
  <2>3. IsFiniteSet((A \cup B) \cup C)
    BY <2>1, FS_Union
  <2>4. QED
    BY <2>2, <2>3, FS_Subset
<1>3. IsFiniteSet(MissionTypes \cup OtherSources)
  BY <1>1, <1>2, FS_Union
<1>4. SourcesOf(db, char) \in SUBSET (MissionTypes \cup OtherSources)
  BY DEF SourcesOf
<1>5. QED
  BY <1>3, <1>4, FS_Subset

\* The missions of the sources have rows.
LEMMA SourceHasMission ==
  ASSUME NEW db, ChecksHold(db), NEW char \in Characters,
         NEW source \in SourcesOf(db, char), source \in MissionTypes
  PROVE  HasMission(db, char, source)
<1>1. OtherSources \cap MissionTypes = {}
  <2>1. DOMAIN Reward \cap MissionTypes = {}
    BY DEF Reward, MissionTypes, AreaItemMissions, EndlessMissions, ExMissions
  <2>2. "CHALLENGE_LIVE" \notin MissionTypes
    BY DEF MissionTypes, AreaItemMissions, EndlessMissions, ExMissions
  <2>3. QED
    BY <2>1, <2>2 DEF OtherSources
<1>2. source \in AreaItemMissions \/ HasMission(db, char, source)
  BY <1>1 DEF SourcesOf
<1>3. QED
  BY <1>2 DEF ChecksHold

\* What is known of the XP of every source.
LEMMA XpOfSource ==
  ASSUME NEW db \in Databases, ChecksHold(db), NEW char \in Characters,
         NEW source \in SourcesOf(db, char),
         NEW s \in Int, NEW t \in Int, s <= t
  PROVE  /\ Sources(db, char, s)[source].xp \in Int
         /\ Sources(db, char, s)[source].maxXp \in Int
         /\ t < Releases[kAnni6] =>
              Sources(db, char, s)[source].xp <= Sources(db, char, t)[source].xp
         /\ s < Releases[kAnni6] /\ (source \in OtherSources => Due(db, source, s)) =>
              Sources(db, char, s)[source].xp <= Sources(db, char, s)[source].maxXp
<1>1. s <= s
  OBVIOUS
<1>2. CASE source \in MissionTypes
  <2> DEFINE P(time) == MissionProgress(db, char, source, time)
             M == MissionMaxProgress(db, char, source)
             X(p) == MissionXp(db, char, source, p)
  <2>1. \A time \in {s, t} : /\ Sources(db, char, time)[source].xp = X(P(time))
                             /\ Sources(db, char, time)[source].maxXp = X(M)
    BY <1>2 DEF Sources, MissionSource, Source
  <2>2. HasMission(db, char, source)
    BY <1>2, SourceHasMission
  <2>3. P(s) \in Int /\ P(t) \in Int /\ P(s) <= P(t)
    <3>1. t <= t
      OBVIOUS
    <3>2. QED
      BY <1>2, <3>1, MissionGrows
  <2>4. X(P(s)) \in Nat /\ X(P(s)) <= X(P(t))
    BY <2>2, <2>3, XpOfMission
  <2>5. M \in Int /\ X(P(s)) <= X(M)
    <3>1. CASE source \in AreaItemMissions
      <4>1. M = P(s)
        BY <3>1, MissionProgressIs DEF MissionMaxProgress
      <4>2. QED
        BY <2>3, <2>4, <4>1
    <3>2. CASE source \notin AreaItemMissions
      BY <2>2, <2>3, <3>2, XpOfMission
    <3>3. QED
      BY <3>1, <3>2
  <2>6. X(M) \in Nat
    BY <2>2, <2>5, XpOfMission
  <2> HIDE DEF X, P, M
  <2>7. QED
    BY <2>1, <2>4, <2>5, <2>6
<1>3. CASE source \notin MissionTypes
  <2> DEFINE P(time) == OtherProgress(db, char, source, time)
             M(time) == OtherMaxProgress(db, char, source, time)
  <2>1. \A time \in {s, t} : /\ Sources(db, char, time)[source].xp = OtherXp(source, P(time))
                             /\ Sources(db, char, time)[source].maxXp = OtherXp(source, M(time))
    BY <1>3 DEF Sources, OtherSource, Source
  <2>2. source \in OtherSources
    BY <1>3 DEF SourcesOf
  <2>3. /\ P(s) \in Int /\ P(t) \in Int /\ (t < Releases[kAnni6] => P(s) <= P(t))
        /\ M(s) \in Int /\ (s < Releases[kAnni6] /\ Due(db, source, s) => P(s) <= M(s))
    <3>1. t <= t
      OBVIOUS
    <3>2. P(s) \in Int /\ P(t) \in Int /\ (t < Releases[kAnni6] => P(s) <= P(t))
      BY <2>2, <3>1, OtherGrows
    <3>3. M(s) \in Int /\ (s < Releases[kAnni6] /\ Due(db, source, s) => P(s) <= M(s))
      BY <2>2, OtherWithinMax
    <3>4. QED
      BY <3>2, <3>3
  <2> HIDE DEF P, M
  <2>4. \A p, q \in Int : /\ OtherXp(source, p) \in Int
                          /\ p <= q => OtherXp(source, p) <= OtherXp(source, q)
    BY DEF OtherXp
  <2>5. t < Releases[kAnni6] => OtherXp(source, P(s)) <= OtherXp(source, P(t))
    BY <2>3, <2>4
  <2>6. s < Releases[kAnni6] /\ Due(db, source, s) => OtherXp(source, P(s)) <= OtherXp(source, M(s))
    BY <2>3, <2>4
  <2>7. OtherXp(source, P(s)) \in Int /\ OtherXp(source, M(s)) \in Int
    BY <2>3, <2>4
  <2> HIDE DEF P, M
  <2>8. QED
    BY <2>1, <2>2, <2>5, <2>6, <2>7
<1>4. QED
  BY <1>2, <1>3

\* The XP of all sources.
TotalXp(db, char, time) ==
  SumFunction([s \in DOMAIN Sources(db, char, time) |-> Sources(db, char, time)[s].xp])

\* A character's XP does not fall.
LEMMA TotalGrows ==
  ASSUME NEW db \in Databases, ChecksHold(db), NEW char \in Characters,
         NEW s \in Int, NEW t \in Int, s <= t
  PROVE  /\ TotalXp(db, char, s) \in Int
         /\ t < Releases[kAnni6] => TotalXp(db, char, s) <= TotalXp(db, char, t)
<1> DEFINE S == SourcesOf(db, char)
           f == [source \in S |-> Sources(db, char, s)[source].xp]
           g == [source \in S |-> Sources(db, char, t)[source].xp]
<1>1. IsFiniteSet(S)
  BY SourcesFinite
<1>2. TotalXp(db, char, s) = SumFunctionOnSet(f, S) /\ TotalXp(db, char, t) = SumFunctionOnSet(g, S)
  <2>1. DOMAIN Sources(db, char, s) = S /\ DOMAIN Sources(db, char, t) = S
    BY DEF Sources
  <2>2. DOMAIN f = S /\ DOMAIN g = S
    OBVIOUS
  <2>3. QED
    BY <2>1, <2>2 DEF TotalXp, SumFunction
<1>3. \A source \in S : f[source] \in Int /\ g[source] \in Int
                        /\ (t < Releases[kAnni6] => f[source] <= g[source])
  <2> TAKE source \in S
  <2>1. t <= t
    OBVIOUS
  <2>2. /\ Sources(db, char, s)[source].xp \in Int
        /\ t < Releases[kAnni6] =>
              Sources(db, char, s)[source].xp <= Sources(db, char, t)[source].xp
    BY XpOfSource
  <2>3. Sources(db, char, t)[source].xp \in Int
    BY <2>1, XpOfSource
  <2>4. QED
    BY <2>2, <2>3
<1> HIDE DEF S, f, g
<1>4. SumFunctionOnSet(f, S) \in Int
  BY <1>1, <1>3, SumInt
<1>5. t < Releases[kAnni6] => SumFunctionOnSet(f, S) <= SumFunctionOnSet(g, S)
  BY <1>1, <1>3, SumMonotone
<1>6. QED
  BY <1>2, <1>4, <1>5

-----------------------------------------------------------------------------
(***************************************************************************)
(* Ranks.                                                                  *)
(***************************************************************************)
\* Every rank asks for more XP than the one below it.
LEMMA XpForRises ==
  /\ \A r \in 1..MaxRank : XpFor(r) \in Nat
  /\ \A r \in 1..MaxRank : r + 1 \in 1..MaxRank => XpFor(r) < XpFor(r + 1)
<1> DEFINE n == Len(RankXp)
<1>1. RankXp \in Seq(Nat \ {0}) /\ RankXp # <<>> /\ MaxRank \in Nat /\ RankXpIncrement \in Nat \ {0}
      /\ \A k \in 1..n - 1 : RankXp[k] < RankXp[k + 1]
  BY RankAssumption
<1>2. n \in Nat \ {0}
  BY <1>1, EmptySeq
<1>3. \A k \in 1..n : RankXp[k] \in Nat \ {0}
  BY <1>1
<1> HIDE DEF n
<1>4. \A r \in 1..MaxRank :
        XpFor(r) = IF r = 1 THEN 0 ELSE IF r - 1 <= n THEN RankXp[r - 1]
                   ELSE RankXp[n] + (r - 1 - n) * RankXpIncrement
  BY DEF XpFor, n
<1>5. \A r \in 1..MaxRank : XpFor(r) \in Nat
  <2> TAKE r \in 1..MaxRank
  <2>1. CASE r = 1
    BY <1>4, <2>1
  <2>2. CASE r # 1 /\ r - 1 <= n
    <3>1. r - 1 \in 1..n
      BY <1>1, <1>2, <2>2
    <3>2. QED
      BY <1>3, <1>4, <2>2, <3>1
  <2>3. CASE r # 1 /\ r - 1 > n
    <3>1. r - 1 - n \in Nat /\ RankXp[n] \in Nat /\ RankXpIncrement \in Nat
      BY <1>1, <1>2, <1>3, <2>3
    <3>2. (r - 1 - n) * RankXpIncrement \in Nat
      BY <3>1
    <3>3. XpFor(r) = RankXp[n] + (r - 1 - n) * RankXpIncrement
      BY <1>1, <1>2, <1>4, <2>3
    <3>4. QED
      BY <3>1, <3>2, <3>3
  <2>4. QED
    BY <1>1, <1>2, <2>1, <2>2, <2>3
<1>6. \A r \in 1..MaxRank : r + 1 \in 1..MaxRank => XpFor(r) < XpFor(r + 1)
  <2> TAKE r \in 1..MaxRank
  <2> HAVE r + 1 \in 1..MaxRank
  <2>1. r \in Nat \ {0}
    BY <1>1
  <2>2. CASE r = 1
    <3>1. 1 \in 1..n /\ r + 1 - 1 = 1 /\ r + 1 # 1
      BY <1>2, <2>2
    <3>2. XpFor(r) = 0 /\ XpFor(r + 1) = RankXp[1]
      <4>1. XpFor(r) = 0
        BY <1>4, <2>2
      <4>2. XpFor(r + 1) = RankXp[r + 1 - 1]
        <5>1. r + 1 - 1 <= n
          BY <1>2, <3>1
        <5>2. QED
          BY <1>4, <3>1, <5>1
      <4>3. QED
        BY <3>1, <4>1, <4>2
    <3>3. QED
      BY <1>3, <3>1, <3>2
  <2>3. CASE r # 1 /\ r <= n
    <3>1. r - 1 \in 1..n - 1 /\ (r - 1) + 1 = r /\ r \in 1..n /\ r - 1 <= n
          /\ (r + 1) - 1 = r /\ r + 1 # 1
      BY <1>2, <2>1, <2>3
    <3>2. XpFor(r) = RankXp[r - 1] /\ XpFor(r + 1) = RankXp[r]
      <4>1. XpFor(r) = RankXp[r - 1]
        BY <1>4, <2>3, <3>1
      <4>2. XpFor(r + 1) = RankXp[(r + 1) - 1]
        <5>1. (r + 1) - 1 <= n /\ r + 1 # 1
          BY <2>3, <3>1
        <5>2. QED
          BY <1>4, <5>1
      <4>3. QED
        BY <3>1, <4>1, <4>2
    <3>3. RankXp[r - 1] < RankXp[(r - 1) + 1]
      BY <1>1, <3>1 DEF n
    <3>4. QED
      BY <3>1, <3>2, <3>3
  <2>4. CASE r # 1 /\ r > n
    <3>1. n \in Int /\ RankXpIncrement \in Int /\ RankXpIncrement > 0 /\ RankXp[n] \in Int
      BY <1>1, <1>2, <1>3
    <3> DEFINE d == r - 1 - n
    <3>2. d \in Int /\ (r + 1) - 1 - n = d + 1 /\ d >= 0
      BY <2>1, <2>4, <3>1
    <3>3. XpFor(r + 1) = RankXp[n] + (d + 1) * RankXpIncrement
      <4>1. ~ ((r + 1) - 1 <= n) /\ r + 1 # 1
        BY <2>1, <2>4, <3>1
      <4>2. XpFor(r + 1) = RankXp[n] + ((r + 1) - 1 - n) * RankXpIncrement
        BY <1>4, <4>1
      <4>3. QED
        BY <3>2, <4>2
    <3>4. XpFor(r) = RankXp[n] + d * RankXpIncrement
      <4>1. CASE r - 1 <= n
        <5>1. r - 1 = n /\ d = 0
          BY <2>1, <2>4, <3>1, <4>1
        <5>2. XpFor(r) = RankXp[n]
          BY <1>4, <2>4, <5>1, <3>1
        <5>3. 0 * RankXpIncrement = 0
          BY <3>1
        <5>4. QED
          BY <3>1, <5>1, <5>2, <5>3
      <4>2. CASE ~ (r - 1 <= n)
        BY <1>4, <2>4, <4>2
      <4>3. QED
        BY <4>1, <4>2
    <3> HIDE DEF d
    <3>5. (d + 1) * RankXpIncrement = d * RankXpIncrement + RankXpIncrement
          /\ d * RankXpIncrement \in Int
      BY <3>1, <3>2
    <3>6. QED
      BY <3>1, <3>3, <3>4, <3>5
  <2>5. QED
    BY <1>2, <2>1, <2>2, <2>3, <2>4
<1>7. QED
  BY <1>5, <1>6

\* A rank that is reached has its XP, and one beyond it has not.
LEMMA RankIs ==
  ASSUME NEW xp \in Int
  PROVE  /\ GetRank(xp).rank \in 1..MaxRank
         /\ GetRank(xp).excess = xp - XpFor(GetRank(xp).rank)
         /\ \A r \in 2..MaxRank : r <= GetRank(xp).rank => XpFor(r) <= xp
         /\ GetRank(xp).rank < MaxRank => xp < XpFor(GetRank(xp).rank + 1)
<1> DEFINE short == {r \in 2..MaxRank : xp < XpFor(r)}
           rank == IF short = {} THEN MaxRank ELSE Min(short) - 1
<1>1. MaxRank \in Nat /\ MaxRank >= 2
  BY RankAssumption
<1>2. GetRank(xp).rank = rank /\ GetRank(xp).excess = xp - XpFor(rank)
  BY DEF GetRank
<1>3. \A r \in 2..MaxRank : XpFor(r) \in Int
  BY <1>1, XpForRises
<1>4. short # {} => Min(short) \in short /\ \A r \in short : Min(short) <= r
  <2>1. short \subseteq Nat
    OBVIOUS
  <2> HIDE DEF short
  <2>2. QED
    BY <2>1, MinIs
<1>5. rank \in 1..MaxRank
  BY <1>1, <1>4
<1>6. \A r \in 2..MaxRank : r <= rank => XpFor(r) <= xp
  <2> TAKE r \in 2..MaxRank
  <2> HAVE r <= rank
  <2>1. r \notin short
    BY <1>1, <1>4
  <2>2. QED
    BY <1>3, <2>1
<1>7. rank < MaxRank => xp < XpFor(rank + 1)
  <2> SUFFICES ASSUME rank < MaxRank PROVE xp < XpFor(rank + 1)
    OBVIOUS
  <2>1. short # {}
    BY <1>1
  <2>2. rank + 1 = Min(short) /\ Min(short) \in short
    BY <1>4, <2>1
  <2>3. QED
    BY <2>2
<1> HIDE DEF rank
<1>8. QED
  BY <1>2, <1>5, <1>6, <1>7

\* More XP gives no lower rank.
LEMMA RankGrows ==
  ASSUME NEW x \in Int, NEW y \in Int, x <= y
  PROVE  GetRank(x).rank <= GetRank(y).rank
<1> DEFINE a == GetRank(x).rank
           b == GetRank(y).rank
<1>1. /\ a \in 1..MaxRank /\ b \in 1..MaxRank /\ MaxRank \in Nat
      /\ \A r \in 2..MaxRank : r <= a => XpFor(r) <= x
      /\ b < MaxRank => y < XpFor(b + 1)
  BY RankIs, RankAssumption
<1> HIDE DEF a, b
<1>2. ~ (b < a)
  <2> SUFFICES ASSUME b < a PROVE FALSE
    OBVIOUS
  <2>1. b + 1 \in 2..MaxRank /\ b + 1 <= a /\ b < MaxRank
    BY <1>1
  <2>2. XpFor(b + 1) <= x /\ y < XpFor(b + 1)
    BY <1>1, <2>1
  <2>3. XpFor(b + 1) \in Int
    <3>1. b + 1 \in 1..MaxRank
      BY <1>1, <2>1
    <3>2. QED
      BY <3>1, XpForRises
  <2>4. QED
    BY <2>2, <2>3
<1>3. QED
  BY <1>1, <1>2 DEF a, b


-----------------------------------------------------------------------------
(***************************************************************************)
(* A character's rank, with the stamp taken off.                           *)
(***************************************************************************)
\* What GetMaxCharacterRank gives.
LEMMA RankOf ==
  ASSUME NEW db, NEW char, NEW time
  PROVE  LET r == GetMaxCharacterRank(db, char, time)
             xp == TotalXp(db, char, time)
             unearned == StampUnearned(GetRank(xp))
         IN /\ r.xp = xp
            /\ r.rank = GetRank(IF unearned THEN xp - 1 ELSE xp)
            /\ r.sources = IF unearned THEN WithoutStamp(db, Sources(db, char, time), char)
                           ELSE Sources(db, char, time)
BY DEF GetMaxCharacterRank, TotalXp

\* The same at one rank.
LEMMA XpForOrder ==
  ASSUME NEW r \in 1..MaxRank
  PROVE  /\ XpFor(r) \in Int
         /\ r + 1 \in 1..MaxRank => XpFor(r) < XpFor(r + 1) /\ XpFor(r + 1) \in Int
BY XpForRises

\* The rank of the stamp is a rank.
LEMMA StampIsRank ==
  /\ StampRank \in 2..MaxRank /\ StampRank \in 1..MaxRank /\ MaxRank \in Nat
  /\ XpFor(StampRank) \in Int
<1>1. StampRank \in 2..MaxRank /\ MaxRank \in Nat
  BY RankAssumption
<1>2. StampRank \in 1..MaxRank
  BY <1>1
<1>3. QED
  BY <1>1, <1>2, XpForRises

\* Without the stamp the rank is earned, or the rank is below it.
LEMMA EarnedWithoutStamp ==
  ASSUME NEW xp \in Int
  PROVE  /\ StampUnearned(GetRank(xp)) /\ GetRank(xp - 1).rank >= StampRank =>
              xp - 1 >= XpFor(StampRank)
         /\ ~ StampUnearned(GetRank(xp)) => xp - 1 >= XpFor(StampRank)
<1> DEFINE a == GetRank(xp)
           b == GetRank(xp - 1)
<1>1. /\ a.rank \in 1..MaxRank /\ a.excess = xp - XpFor(a.rank)
      /\ \A r \in 2..MaxRank : r <= a.rank => XpFor(r) <= xp
  BY RankIs
<1>2. \A r \in 2..MaxRank : r <= b.rank => XpFor(r) <= xp - 1
  <2>1. xp - 1 \in Int
    OBVIOUS
  <2>2. QED
    BY <2>1, RankIs
<1>3. b.rank \in 1..MaxRank
  <2>1. xp - 1 \in Int
    OBVIOUS
  <2>2. QED
    BY <2>1, RankIs
<1> HIDE DEF a, b
<1>4. b.rank >= StampRank => xp - 1 >= XpFor(StampRank)
  BY <1>2, <1>3, StampIsRank
<1>5. ASSUME ~ StampUnearned(a) PROVE xp - 1 >= XpFor(StampRank)
  <2>1. a.rank >= StampRank /\ ~ (a.rank = StampRank /\ a.excess = 0)
    BY <1>1, <1>5, StampIsRank DEF StampUnearned
  <2>2. XpFor(StampRank) <= xp
    BY <1>1, <2>1, StampIsRank
  <2>3. CASE a.rank = StampRank
    BY <1>1, <2>1, <2>2, <2>3, StampIsRank
  <2>4. CASE a.rank # StampRank
    <3>1. StampRank + 1 <= a.rank /\ StampRank + 1 \in 2..MaxRank /\ StampRank + 1 \in 1..MaxRank
      BY <1>1, <2>1, <2>4, StampIsRank
    <3>2. XpFor(StampRank + 1) <= xp
      BY <1>1, <3>1
    <3>3. XpFor(StampRank) < XpFor(StampRank + 1) /\ XpFor(StampRank + 1) \in Int
      BY <3>1, StampIsRank, XpForOrder
    <3>4. QED
      BY <3>2, <3>3, StampIsRank
  <2>5. QED
    BY <2>3, <2>4
<1>6. QED
  BY <1>4, <1>5 DEF a, b

\* A character at the rank of the stamp has the XP for it without the stamp.
LEMMA StampEarned ==
  ASSUME NEW db \in Databases, ChecksHold(db), NEW char \in Characters, NEW time \in Int,
         GetMaxCharacterRank(db, char, time).rank.rank >= StampRank
  PROVE  GetMaxCharacterRank(db, char, time).xp - 1 >= XpFor(StampRank)
<1> DEFINE xp == TotalXp(db, char, time)
<1>1. xp \in Int
  <2>1. time <= time
    OBVIOUS
  <2>2. QED
    BY <2>1, TotalGrows
<1>2. GetMaxCharacterRank(db, char, time).xp = xp
  BY RankOf
<1>3. GetMaxCharacterRank(db, char, time).rank =
        GetRank(IF StampUnearned(GetRank(xp)) THEN xp - 1 ELSE xp)
  BY RankOf
<1> HIDE DEF xp
<1>4. xp - 1 >= XpFor(StampRank)
  <2>1. CASE StampUnearned(GetRank(xp))
    <3>1. GetRank(xp - 1).rank >= StampRank
      BY <1>3, <2>1
    <3>2. QED
      BY <1>1, <2>1, <3>1, EarnedWithoutStamp
  <2>2. CASE ~ StampUnearned(GetRank(xp))
    BY <1>1, <2>2, EarnedWithoutStamp
  <2>3. QED
    BY <2>1, <2>2
<1>5. QED
  BY <1>2, <1>4

\* No source of a character has more XP than its maximum, chapters before their release aside.
LEMMA WithinMax ==
  ASSUME NEW db \in Databases, ChecksHold(db), NEW char \in Characters, NEW time \in Int,
         time < Releases[kAnni6],
         NEW source \in DOMAIN GetMaxCharacterRank(db, char, time).sources,
         source \in OtherSources => Due(db, source, time)
  PROVE  LET given == GetMaxCharacterRank(db, char, time).sources[source]
         IN given.xp \in Int /\ given.maxXp \in Int /\ given.xp <= given.maxXp
<1> DEFINE S == Sources(db, char, time)
           W == WithoutStamp(db, S, char)
           C == GetMaxCharacterRank(db, char, time).sources
<1>1. C = S \/ C = W
  BY RankOf
<1>2. DOMAIN S = SourcesOf(db, char) /\ DOMAIN W = SourcesOf(db, char)
  BY DEF Sources, WithoutStamp
<1>3. source \in SourcesOf(db, char)
  BY <1>1, <1>2
<1>4. S[source].xp \in Int /\ S[source].maxXp \in Int /\ S[source].xp <= S[source].maxXp
  <2>1. time <= time
    OBVIOUS
  <2>2. QED
    BY <1>3, <2>1, XpOfSource
<1>5. W[source].xp \in Int /\ W[source].maxXp \in Int /\ W[source].xp <= W[source].maxXp
  <2>1. CASE source # "COLLECT_STAMP"
    <3>1. W[source] = S[source]
      BY <1>2, <1>3, <2>1 DEF WithoutStamp
    <3>2. QED
      BY <1>4, <3>1
  <2>2. CASE source = "COLLECT_STAMP"
    <3> DEFINE p == MissionProgress(db, char, source, time)
    <3>1. source \in MissionTypes /\ source \notin OtherSources
      <4>1. source \in MissionTypes
        BY <2>2 DEF MissionTypes
      <4>2. source \notin DOMAIN Reward
        BY <2>2 DEF Reward
      <4>3. QED
        BY <2>2, <4>1, <4>2 DEF OtherSources
    <3>2. HasMission(db, char, source)
      BY <1>3, <3>1, SourceHasMission
    <3>3. S[source].progress = p /\ S[source].xp = MissionXp(db, char, source, p)
      BY <1>3, <3>1 DEF Sources, MissionSource, Source
    <3>4. p \in Int
      <4>1. time <= time
        OBVIOUS
      <4>2. QED
        BY <3>1, <4>1, MissionGrows
    <3>5. /\ W[source].xp = MissionXp(db, char, source, p - 1)
          /\ W[source].maxXp = S[source].maxXp
      <4>1. W[source] = Source(S[source].progress - 1, S[source].max,
                               MissionXp(db, char, source, S[source].progress - 1),
                               S[source].maxXp)
        BY <1>2, <1>3, <2>2 DEF WithoutStamp
      <4> HIDE DEF S, W, p
      <4>2. QED
        BY <3>3, <4>1 DEF Source
    <3> HIDE DEF p, S, W
    <3>6. p - 1 \in Int /\ p - 1 <= p
      BY <3>4
    <3>7. /\ MissionXp(db, char, source, p - 1) \in Nat
          /\ MissionXp(db, char, source, p - 1) <= MissionXp(db, char, source, p)
      BY <3>1, <3>2, <3>4, <3>6, XpOfMission
    <3>8. QED
      BY <1>4, <3>3, <3>5, <3>7
  <2>3. QED
    BY <2>1, <2>2
<1>6. QED
  BY <1>1, <1>4, <1>5

\* Where no source is over its maximum, neither are the XP and the rank.
LEMMA TotalWithinMax ==
  ASSUME NEW db \in Databases, ChecksHold(db), NEW char \in Characters, NEW time \in Int,
         \A source \in SourcesOf(db, char) :
           Sources(db, char, time)[source].xp <= Sources(db, char, time)[source].maxXp
  PROVE  LET r == GetMaxCharacterRank(db, char, time)
         IN r.xp <= r.maxXp /\ r.rank.rank <= r.maxRank.rank
<1> DEFINE S == SourcesOf(db, char)
           f == [source \in S |-> Sources(db, char, time)[source].xp]
           g == [source \in S |-> Sources(db, char, time)[source].maxXp]
           x == SumFunctionOnSet(f, S)
           y == SumFunctionOnSet(g, S)
           r == GetMaxCharacterRank(db, char, time)
           used == IF StampUnearned(GetRank(x)) THEN x - 1 ELSE x
<1>1. IsFiniteSet(S)
  BY SourcesFinite
<1>2. \A source \in S : f[source] \in Int /\ g[source] \in Int /\ f[source] <= g[source]
  <2>1. time <= time
    OBVIOUS
  <2>2. \A source \in S : /\ Sources(db, char, time)[source].xp \in Int
                         /\ Sources(db, char, time)[source].maxXp \in Int
    BY <2>1, XpOfSource
  <2>3. QED
    BY <2>2
<1>3. r.xp = x /\ r.maxXp = y /\ r.rank = GetRank(used) /\ r.maxRank = GetRank(y)
  <2>1. DOMAIN Sources(db, char, time) = S
    BY DEF Sources
  <2>2. DOMAIN f = S /\ DOMAIN g = S
    OBVIOUS
  <2>3. QED
    BY <2>1, <2>2 DEF GetMaxCharacterRank, SumFunction
<1> HIDE DEF S, f, g, r
<1>4. x \in Int /\ y \in Int /\ x <= y
  BY <1>1, <1>2, SumInt, SumMonotone
<1> HIDE DEF x, y
<1>5. used \in Int /\ used <= y
  BY <1>4
<1> HIDE DEF used
<1>6. GetRank(used).rank <= GetRank(y).rank
  BY <1>4, <1>5, RankGrows
<1>7. QED
  BY <1>3, <1>4, <1>6 DEF r

\* The sources over their maximum in what is shown of a character.
Over(r) == {s \in DOMAIN r.sources : r.sources[s].xp > r.sources[s].maxXp}

\* Only chapters before their release are over their maximum; without them the rank is within
\* the maximal one.
LEMMA CharacterWithinMax ==
  ASSUME NEW db \in Databases, ChecksHold(db), NEW char \in Characters, NEW time \in Int,
         time < Releases[kAnni6]
  PROVE  LET r == GetMaxCharacterRank(db, char, time)
         IN /\ \A s \in Over(r) : /\ s \in ByChapters
                                 /\ GetAssetVersionAt(db, time) < Reward[s].version
            /\ Over(r) = {} => r.xp <= r.maxXp /\ r.rank.rank <= r.maxRank.rank
<1> DEFINE r == GetMaxCharacterRank(db, char, time)
           S == Sources(db, char, time)
           W == WithoutStamp(db, S, char)
<1>1. DOMAIN S = SourcesOf(db, char) /\ DOMAIN r.sources = SourcesOf(db, char)
      /\ \A s \in SourcesOf(db, char) : s # "COLLECT_STAMP" => r.sources[s] = S[s]
  <2>1. DOMAIN S = SourcesOf(db, char) /\ DOMAIN W = SourcesOf(db, char)
        /\ \A s \in SourcesOf(db, char) : s # "COLLECT_STAMP" => W[s] = S[s]
    BY DEF Sources, WithoutStamp
  <2>2. r.sources = S \/ r.sources = W
    BY RankOf
  <2> HIDE DEF r, S, W
  <2>3. QED
    BY <2>1, <2>2
<1>2. ASSUME NEW s \in SourcesOf(db, char), s \in OtherSources => Due(db, s, time)
      PROVE  s \notin Over(r) /\ S[s].xp <= S[s].maxXp
  <2>1. time <= time
    OBVIOUS
  <2>2. S[s].xp <= S[s].maxXp
    BY <1>2, <2>1, XpOfSource
  <2>3. /\ r.sources[s].xp \in Int /\ r.sources[s].maxXp \in Int
        /\ r.sources[s].xp <= r.sources[s].maxXp
    BY <1>1, <1>2, WithinMax
  <2> HIDE DEF r, S
  <2>4. QED
    BY <2>2, <2>3 DEF Over
<1>3. ASSUME NEW s \in Over(r)
      PROVE  /\ s \in ByChapters
             /\ GetAssetVersionAt(db, time) < Reward[s].version
  <2>1. s \in SourcesOf(db, char)
    BY <1>1 DEF Over
  <2>2. ~ Due(db, s, time)
    BY <1>2, <2>1
  <2>3. s \in DOMAIN Reward
    BY <2>2 DEF Due, ByChapters, Reward
  <2>4. GetAssetVersionAt(db, time) \in Int /\ Reward[s].version \in Int
    BY <2>3, VersionAhead, RewardIs
  <2>5. QED
    BY <2>2, <2>4 DEF Due
<1>4. ASSUME Over(r) = {}
      PROVE  r.xp <= r.maxXp /\ r.rank.rank <= r.maxRank.rank
  <2>1. ASSUME NEW s \in SourcesOf(db, char)
        PROVE  S[s].xp <= S[s].maxXp
    <3>1. CASE s \in OtherSources
      <4>1. s # "COLLECT_STAMP"
        BY <3>1 DEF OtherSources, Reward
      <4>2. r.sources[s] = S[s] /\ s \in DOMAIN r.sources
        BY <1>1, <4>1
      <4>3. S[s].xp \in Int /\ S[s].maxXp \in Int
        <5>1. time <= time
          OBVIOUS
        <5>2. QED
          BY <5>1, XpOfSource
      <4> HIDE DEF r, S
      <4>4. QED
        BY <1>4, <4>2, <4>3 DEF Over
    <3>2. CASE s \notin OtherSources
      BY <1>2, <3>2
    <3>3. QED
      BY <3>1, <3>2
  <2>2. QED
    BY <2>1, TotalWithinMax
<1> HIDE DEF r
<1>5. QED
  BY <1>3, <1>4 DEF r

\* A character's rank does not fall.
LEMMA CharacterGrows ==
  ASSUME NEW db \in Databases, ChecksHold(db), NEW char \in Characters,
         NEW s \in Int, NEW t \in Int, s <= t, t < Releases[kAnni6]
  PROVE  /\ GetMaxCharacterRank(db, char, s).rank.rank <= GetMaxCharacterRank(db, char, t).rank.rank
         /\ GetMaxCharacterRank(db, char, s).xp <= GetMaxCharacterRank(db, char, t).xp
<1> DEFINE x == TotalXp(db, char, s)
           y == TotalXp(db, char, t)
           Used(xp) == IF StampUnearned(GetRank(xp)) THEN xp - 1 ELSE xp
<1>1. x \in Int /\ y \in Int /\ x <= y
  <2>1. t <= t
    OBVIOUS
  <2>2. x \in Int /\ x <= y
    BY TotalGrows
  <2>3. y \in Int
    BY <2>1, TotalGrows
  <2>4. QED
    BY <2>2, <2>3
<1>2. /\ GetMaxCharacterRank(db, char, s).xp = x /\ GetMaxCharacterRank(db, char, t).xp = y
      /\ GetMaxCharacterRank(db, char, s).rank = GetRank(Used(x))
      /\ GetMaxCharacterRank(db, char, t).rank = GetRank(Used(y))
  BY RankOf
<1> HIDE DEF x, y
<1>3. Used(x) \in Int /\ Used(y) \in Int /\ Used(x) <= Used(y)
  <2>1. CASE StampUnearned(GetRank(x)) \/ x < y \/ ~ StampUnearned(GetRank(y))
    BY <1>1, <2>1
  <2>2. CASE ~ StampUnearned(GetRank(x)) /\ ~ (x < y) /\ StampUnearned(GetRank(y))
    <3>1. x = y
      BY <1>1, <2>2
    <3>2. QED
      BY <2>2, <3>1
  <2>3. QED
    BY <2>1, <2>2
<1> HIDE DEF Used
<1>4. GetRank(Used(x)).rank <= GetRank(Used(y)).rank
  BY <1>3, RankGrows
<1>5. QED
  BY <1>1, <1>2, <1>4

-----------------------------------------------------------------------------
(***************************************************************************)
(* The page.                                                               *)
(***************************************************************************)
\* The table of a time, at every character.
LEMMA TableIs ==
  ASSUME NEW db \in Databases, ChecksHold(db), NEW time \in Times
  PROVE  /\ DOMAIN RanksAt[db][time] = Characters
         /\ \A char \in Characters :
              RanksAt[db][time][char] = GetMaxCharacterRank(db, char, time)
         /\ time \in Int /\ 0 <= time
BY PointsAssumption DEF RanksAt, GetMaxCharacterRanks, Times

\* A step shows no table but that of one time, and loads no database.
LEMMA StepKeepsTable ==
  ASSUME RankTypeOK, [RankNext]_rankVars
  PROVE  RankTypeOK' /\ masterDb' = masterDb
<1>1. LastTime \in Nat
  BY PointsAssumption
<1> DEFINE Shown(table, db) ==
      \/ table = NotShown
      \/ table = Aborted /\ ~ChecksHold(db)
      \/ /\ ChecksHold(db)
         /\ \E time \in Times : table = [time |-> time, ranks |-> RanksAt[db][time]]
<1>2. masterDb \in Databases /\ now \in Times /\ Shown(shown, masterDb)
  BY DEF RankTypeOK
<1>3. masterDb' = masterDb /\ now' \in Times /\ Shown(shown', masterDb)
  <2>1. CASE Tick
    BY <1>1, <1>2, <2>1 DEF Tick, Times
  <2>2. CASE OnSaveDataRead
    BY <1>2, <2>2 DEF OnSaveDataRead, Show
  <2>3. CASE \E time \in Times : RefreshMaxCr(time)
    BY <1>2, <2>3 DEF RefreshMaxCr, Show
  <2>4. CASE UNCHANGED rankVars
    BY <1>2, <2>4 DEF rankVars
  <2>5. QED
    BY <2>1, <2>2, <2>3, <2>4 DEF RankNext
<1>4. Shown(shown', masterDb')
  BY <1>3
<1>5. QED
  BY <1>3, <1>4 DEF RankTypeOK

\* The page shows no table, or that of one time.
THEOREM RankTypeCorrect == RankSpec => []RankTypeOK
<1>1. RankInit => RankTypeOK
  BY PointsAssumption DEF RankInit, RankTypeOK, Times
<1>2. RankTypeOK /\ [RankNext]_rankVars => RankTypeOK'
  BY StepKeepsTable
<1>3. QED
  BY <1>1, <1>2, PTL DEF RankSpec

\* Nothing is shown before the save data is read, and nothing once a check failed.
LEMMA NothingShown ==
  /\ DOMAIN NotShown.ranks = {} /\ NotShown.time = -1
  /\ DOMAIN Aborted.ranks = {} /\ Aborted.time = -2
BY EmptySeq DEF NotShown, Aborted

\* Nobody is shown at rank 168 or above who has not the XP for it without the stamp that
\* rank 168 gives, whatever the database and the XP table.
THEOREM StampAlwaysEarnsItself == RankSpec => []StampEarnsItself
<1>1. RankTypeOK => StampEarnsItself
  <2> SUFFICES ASSUME RankTypeOK, NEW char \in DOMAIN shown.ranks,
                      shown.ranks[char].rank.rank >= StampRank
               PROVE  shown.ranks[char].xp - 1 >= XpFor(StampRank)
    BY DEF StampEarnsItself
  <2>1. shown # NotShown /\ shown # Aborted
    BY NothingShown
  <2>2. PICK time \in Times : shown = [time |-> time, ranks |-> RanksAt[masterDb][time]]
    BY <2>1 DEF RankTypeOK
  <2>3. masterDb \in Databases /\ ChecksHold(masterDb) /\ shown.ranks = RanksAt[masterDb][time]
    BY <2>1, <2>2 DEF RankTypeOK
  <2>4. char \in Characters /\ time \in Int
        /\ shown.ranks[char] = GetMaxCharacterRank(masterDb, char, time)
    BY <2>3, TableIs
  <2>5. QED
    BY <2>3, <2>4, StampEarned
<1>2. QED
  BY <1>1, RankTypeCorrect, PTL

\* Up to the sixth anniversary no source gives more now than its maximum, but for chapters that
\* start before the version which the maximum of their round waits for, and without such chapters
\* the rank is within the maximal one: rewards go by the same versions as their maxima, the
\* challenge stages end at the last, the listed birthdays come after the fifth anniversary, and
\* no step of a mission asks for less than the one before it.
THEOREM CurrentAlwaysWithinMax == RankSpec => []CurrentWithinMax
<1>1. RankTypeOK => CurrentWithinMax
  <2> SUFFICES ASSUME RankTypeOK, shown.time < Releases[kAnni6], NEW char \in DOMAIN shown.ranks
               PROVE  LET r == shown.ranks[char]
                      IN /\ \A s \in Over(r) :
                              /\ s \in ByChapters
                              /\ GetAssetVersionAt(masterDb, shown.time) < Reward[s].version
                         /\ Over(r) = {} => r.xp <= r.maxXp /\ r.rank.rank <= r.maxRank.rank
    BY DEF CurrentWithinMax, Over
  <2>1. shown # NotShown /\ shown # Aborted
    BY NothingShown
  <2>2. PICK time \in Times : shown = [time |-> time, ranks |-> RanksAt[masterDb][time]]
    BY <2>1 DEF RankTypeOK
  <2>3. masterDb \in Databases /\ ChecksHold(masterDb)
        /\ shown.ranks = RanksAt[masterDb][time] /\ shown.time = time
    BY <2>1, <2>2 DEF RankTypeOK
  <2>4. char \in Characters /\ time \in Int /\ time < Releases[kAnni6]
        /\ shown.ranks[char] = GetMaxCharacterRank(masterDb, char, time)
    BY <2>3, TableIs
  <2>5. QED
    BY <2>3, <2>4, CharacterWithinMax
<1>2. QED
  BY <1>1, RankTypeCorrect, PTL

\* Two tables of one database, one later than the other.
LEMMA TablesGrow ==
  ASSUME RankTypeOK, RankTypeOK', masterDb' = masterDb,
         0 <= shown.time, shown.time <= shown'.time, shown'.time < Releases[kAnni6],
         NEW char \in Characters
  PROVE  /\ shown.ranks[char].rank.rank <= shown'.ranks[char].rank.rank
         /\ shown.ranks[char].xp <= shown'.ranks[char].xp
<1>1. shown # NotShown /\ shown # Aborted
  BY NothingShown
<1>2. PICK s \in Times : shown = [time |-> s, ranks |-> RanksAt[masterDb][s]]
  BY <1>1 DEF RankTypeOK
<1>3. masterDb \in Databases /\ ChecksHold(masterDb)
  BY <1>1 DEF RankTypeOK
<1>4. s \in Int /\ 0 <= s /\ shown.time = s
      /\ shown.ranks[char] = GetMaxCharacterRank(masterDb, char, s)
  BY <1>2, <1>3, TableIs
<1>5. shown' # NotShown /\ shown' # Aborted
  <2>1. shown'.time # -1 /\ shown'.time # -2
    BY <1>4
  <2>2. QED
    BY <2>1, NothingShown
<1>6. PICK t \in Times : shown' = [time |-> t, ranks |-> RanksAt[masterDb][t]]
  BY <1>5 DEF RankTypeOK
<1>7. t \in Int /\ shown'.time = t
      /\ shown'.ranks[char] = GetMaxCharacterRank(masterDb, char, t)
  BY <1>3, <1>6, TableIs
<1>8. s <= t /\ t < Releases[kAnni6]
  BY <1>4, <1>7
<1>9. QED
  BY <1>3, <1>4, <1>7, <1>8, CharacterGrows

\* Up to the sixth anniversary a later table never shows a lower rank or less XP: every count
\* and every reward grows with time, and taking the stamp off does not undo that.
THEOREM RanksNeverFallHolds == RankSpec => RanksNeverFall
<1>1. RankTypeOK /\ [RankNext]_rankVars
        => [0 <= shown.time /\ shown.time <= shown'.time /\ shown'.time < Releases[kAnni6]
              => \A char \in Characters :
                   /\ shown.ranks[char].rank.rank <= shown'.ranks[char].rank.rank
                   /\ shown.ranks[char].xp <= shown'.ranks[char].xp]_rankVars
  BY StepKeepsTable, TablesGrow
<1>2. QED
  BY <1>1, RankTypeCorrect, PTL DEF RankSpec, RanksNeverFall
=============================================================================
