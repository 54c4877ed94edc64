------------------------------ MODULE SaveData ------------------------------
(***************************************************************************)
(* The save data of the web pages (frontend/controller_base.cc, and main()*)
(* of frontend/main.cc and frontend/max_cr_main.cc).                       *)
(*                                                                         *)
(* A profile lives in three places: in the controller of a page, in the    *)
(* file /idbfs/profile of the page's own file system in memory, and in     *)
(* IndexedDB, which all tabs of the site share.  FS.syncfs copies between  *)
(* the last two and calls back when it is done; until then the page goes   *)
(* on.  A tab may be closed at any moment, and all it holds is gone.       *)
(*                                                                         *)
(* FS.syncfs is a library's: a copy makes the one side like the other, is  *)
(* taken to read the file as it was at the call or as it is when the copy  *)
(* runs, and does not fail; the copies of one tab run in the order they    *)
(* were asked for.                                                         *)
(***************************************************************************)
EXTENDS Naturals, Sequences

CONSTANTS
  Tabs,       \* tabs that show a page of the site
  Profiles,   \* what a profile may be
  Blank,      \* EmptyProfileProto()
  NoFile,     \* there is no save data
  NoTab,
  MaxSyncs    \* bound: syncfs calls of one tab in flight

ASSUME SaveDataAssumption ==
  /\ Blank \in Profiles /\ NoFile \notin Profiles /\ NoTab \notin Tabs
  /\ MaxSyncs \in Nat \ {0}

VARIABLES
  open,       \* the open tabs
  profile,    \* profile_proto_ of each tab
  file,       \* /idbfs/profile of each tab
  syncs,      \* syncfs calls of each tab whose callback is still to come
  store,      \* the file in IndexedDB
  \* not in the code
  lastStore,  \* the tab whose copy reached IndexedDB last
  early,      \* the tabs in which save data was written before the first read had ended
  asked       \* what the user asked IndexedDB to hold, at one time or another

tabVars == <<open, profile, file, syncs>>
vars == <<tabVars, store, lastStore, early, asked>>

SaveFile == Profiles \cup {NoFile}

\* A call of FS.syncfs, and the file at the time of the call.
Sync == [populate : BOOLEAN, file : SaveFile]
Populating(t) == \E k \in 1 .. Len(syncs[t]) : syncs[t][k].populate
-----------------------------------------------------------------------------
Init ==
  /\ open = {}
  /\ profile = [t \in Tabs |-> Blank]
  /\ file = [t \in Tabs |-> NoFile]
  /\ syncs = [t \in Tabs |-> <<>>]
  /\ store \in SaveFile
  /\ lastStore = NoTab
  /\ early = {}
  /\ asked = {store}

\* (The wrong direction.)
FirstSyncStores == [populate |-> FALSE, file |-> NoFile]

\* FS.syncfs(true, ...) in main().
FirstSync == [populate |-> TRUE, file |-> NoFile]

\* main(): an empty profile, an empty file system, and the first syncfs under way.
Open(t) ==
  /\ t \notin open
  /\ open' = open \cup {t}
  /\ profile' = [profile EXCEPT ![t] = Blank]
  /\ file' = [file EXCEPT ![t] = NoFile]
  /\ syncs' = [syncs EXCEPT ![t] = <<FirstSync>>]
  /\ early' = early \ {t}
  /\ UNCHANGED <<store, lastStore, asked>>

\* The tab is closed, or the browser dies; copies under way are lost.
Close(t) ==
  /\ t \in open
  /\ open' = open \ {t}
  /\ syncs' = [syncs EXCEPT ![t] = <<>>]
  /\ UNCHANGED <<profile, file, store, lastStore, early, asked>>

\* The user changes the profile, at any time once the page is up.
Edit(t, p) ==
  /\ t \in open
  /\ profile' = [profile EXCEPT ![t] = p]
  /\ UNCHANGED <<open, file, syncs, store, lastStore, early, asked>>

\* (The call is forgotten when the file is deleted.)
StoreUnlessDeleted(t, f) ==
  IF f = NoFile THEN UNCHANGED syncs
  ELSE syncs' = [syncs EXCEPT ![t] = Append(@, [populate |-> FALSE, file |-> f])]

\* FS.syncfs(false, ...) when the file has become f.
StartStore(t, f) == syncs' = [syncs EXCEPT ![t] = Append(@, [populate |-> FALSE, file |-> f])]

\* Both writers: the file becomes f, and is to be stored.
ChangeFile(t, f) ==
  /\ file' = [file EXCEPT ![t] = f]
  /\ StartStore(t, f)
  /\ early' = IF Populating(t) THEN early \cup {t} ELSE early
  /\ asked' = asked \cup {f}
  /\ UNCHANGED <<open, profile, store, lastStore>>

WriteSaveData(t) ==
  /\ t \in open
  /\ Len(syncs[t]) < MaxSyncs
  /\ ChangeFile(t, profile[t])

\* Without a file it only logs an error.
DeleteSaveData(t) ==
  /\ t \in open
  /\ Len(syncs[t]) < MaxSyncs
  /\ file[t] # NoFile
  /\ ChangeFile(t, NoFile)

\* (The test for the file is missing.)
ReadFileUnchecked(t, f) == profile' = [profile EXCEPT ![t] = f]

\* ReadSaveData, given the file: without one the profile stays.
ReadFile(t, f) ==
  profile' = IF f = NoFile THEN profile ELSE [profile EXCEPT ![t] = f]

\* The button "Load".
ReadSaveData(t) ==
  /\ t \in open
  /\ ReadFile(t, file[t])
  /\ UNCHANGED <<open, file, syncs, store, lastStore, early, asked>>

\* The first syncfs ends: the file is as in IndexedDB, and is read.
PopulateEnds(t) ==
  /\ syncs[t] # <<>> /\ Head(syncs[t]).populate
  /\ file' = [file EXCEPT ![t] = store]
  /\ ReadFile(t, store)
  /\ syncs' = [syncs EXCEPT ![t] = Tail(@)]
  /\ UNCHANGED <<open, store, lastStore, early, asked>>

\* A copy to IndexedDB ends.
StoreEnds(t) ==
  /\ syncs[t] # <<>> /\ ~Head(syncs[t]).populate
  /\ store' \in {Head(syncs[t]).file, file[t]}
  /\ syncs' = [syncs EXCEPT ![t] = Tail(@)]
  /\ lastStore' = t
  /\ UNCHANGED <<open, profile, file, early, asked>>

Next == \E t \in Tabs :
  \/ Open(t) \/ Close(t)
  \/ \E p \in Profiles : Edit(t, p)
  \/ WriteSaveData(t) \/ DeleteSaveData(t) \/ ReadSaveData(t)
  \/ PopulateEnds(t) \/ StoreEnds(t)

Spec == Init /\ [][Next]_vars
-----------------------------------------------------------------------------
(***************************************************************************)
(* Properties.                                                             *)
(***************************************************************************)

\* Every variable stays in its range.
TypeOK ==
  /\ open \subseteq Tabs
  /\ profile \in [Tabs -> Profiles]
  /\ file \in [Tabs -> SaveFile]
  /\ syncs \in [Tabs -> Seq(Sync)]
  /\ \A t \in Tabs : Len(syncs[t]) <= MaxSyncs
  /\ store \in SaveFile
  /\ lastStore \in Tabs \cup {NoTab}
  /\ early \subseteq Tabs
  /\ asked \subseteq SaveFile

\* Once the copies of the tab that stored last have all ended, IndexedDB holds that tab's file:
\* overlapping saves and deletes settle on the last one.  Not so if the tab wrote its file before
\* the first read had ended, which then replaced it.
StoreFollowsFile ==
  \A t \in open \ early : lastStore = t /\ syncs[t] = <<>> => store = file[t]

\* IndexedDB only ever holds what it held at first, a profile that was saved, or nothing after
\* a delete, whatever is closed or overtaken: opening a page alone never changes it.
StoreWasAsked == store \in asked

(***************************************************************************)
(* The inductive invariant: what is still to be stored was asked for, and  *)
(* the last copy under way, or else IndexedDB, agrees with the file.       *)
(***************************************************************************)
PendingInv ==
  \A t \in Tabs :
    /\ t \notin open => syncs[t] = <<>>
    /\ \A k \in 1 .. Len(syncs[t]) :
         /\ syncs[t][k].populate => k = 1
         /\ ~syncs[t][k].populate => syncs[t][k].file \in asked /\ file[t] \in asked
    /\ t \in open => file[t] \in asked \cup {NoFile}

LastCopyInv ==
  \A t \in open \ early :
    /\ Populating(t) => file[t] = NoFile
    /\ syncs[t] # <<>> /\ ~syncs[t][Len(syncs[t])].populate =>
         syncs[t][Len(syncs[t])].file = file[t]
    /\ Populating(t) => Len(syncs[t]) = 1

SaveInv == TypeOK /\ StoreWasAsked /\ StoreFollowsFile /\ PendingInv /\ LastCopyInv
=============================================================================
