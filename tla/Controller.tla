----------------------------- MODULE Controller -----------------------------
(***************************************************************************)
(* frontend/controller.cc and the handlers of the page (sajii_lib.js) that *)
(* call it.                                                                *)
(*                                                                         *)
(* The controller keeps the profile (profile_proto_), values derived from  *)
(* it (profile_, event_bonus_, constraints_, estimator_mode_, and the      *)
(* global FLAGS_subunitless_offset that event_bonus_ is computed with),    *)
(* the cards of each team slot, and the filter of the card list.  The page *)
(* keeps what its inputs show, which rows of the card list are visible,    *)
(* and the team tables last rendered.  Nothing ties these together but the *)
(* calls each handler makes.  The browser runs one handler at a time, so a *)
(* handler is one action.                                                  *)
(*                                                                         *)
(* Levels, ranks, episodes, area items, gates, fixtures, the custom event, *)
(* kizuna and rarity boxes follow the pattern of the settings modelled     *)
(* here: training, the event and the lead boxes.  Every card can be        *)
(* trained.  A card that the database does not know is left out.           *)
(***************************************************************************)
EXTENDS Naturals

CONSTANTS
  Cards,          \* the cards of the database
  DualSkill,      \* those with a secondary skill, used once trained
  Attrs, AttrOf,  \* attributes, and each card's
  Characters,     \* the boxes under Allowed Leads
  Events,         \* the events of the database, each an option of the dropdown
  Carnivals,      \* those that are cheerful carnivals
  Foreign,        \* event ids the database does not know: a profile from another server
  NoEvent,        \* event id 0, the custom event
  Teams,          \* the team tables
  FillTeam,       \* the table that BuildFillTeam fills: 1
  ParkingTeam,    \* the table that BuildParkingTeam fills: 2
  SlotsPerTeam,   \* kTeamSize
  NoCard,         \* card id 0
  Imports         \* the profiles a file or the save data may hold

ASSUME ControllerAssumption ==
  /\ DualSkill \subseteq Cards /\ NoCard \notin Cards
  /\ AttrOf \in [Cards -> Attrs]
  /\ Carnivals \subseteq Events /\ NoEvent \notin Events \cup Foreign
  /\ Events \cap Foreign = {}
  /\ ParkingTeam \in Teams /\ FillTeam \in Teams \ {ParkingTeam}
  /\ SlotsPerTeam \in Nat \ {0}

CardStates == {"absent", "untrained", "trained"}
CardMap == [Cards -> CardStates]
ProfileProto ==
  [cards : CardMap, event : Events \cup Foreign \cup {NoEvent}, useOld : BOOLEAN,
   excludedLeads : SUBSET Characters]

ASSUME ImportsAssumption == Imports \subseteq ProfileProto

Slots == 1 .. SlotsPerTeam
TeamCard == [card : Cards \cup {NoCard}, untrained : BOOLEAN]
EmptySlot == [card |-> NoCard, untrained |-> FALSE]
Filter == [attrs : SUBSET Attrs, owned : BOOLEAN]

VARIABLES
  proto,          \* profile_proto_
  profile,        \* profile_: its cards
  offset,         \* FLAGS_subunitless_offset
  eventBonus,     \* event_bonus_: the event and the offset it was made with
  leads,          \* constraints_: its lead characters
  estimatorMode,  \* estimator_mode_
  teams,          \* teams_
  target,         \* target_points_ has a value
  filter,         \* card_list_filter_state_
  page,           \* what the inputs of the page show
  visible,        \* the rows of the card list that are not hidden
  rendered,       \* the team tables as last rendered
  torn,           \* the last ResetView threw half way (no such variable in the code)
  moved           \* cards owned or given up under the owned filter (nor this)

derivedVars == <<profile, offset, eventBonus, leads, estimatorMode>>
profileVars == <<proto, derivedVars>>
listVars == <<filter, visible, moved>>
vars == <<profileVars, teams, target, listVars, page, rendered, torn>>

Owned(cards) == {c \in Cards : cards[c] # "absent"}
Trained(cards) == {c \in Cards : cards[c] = "trained"}
-----------------------------------------------------------------------------
(***************************************************************************)
(* RefreshTeam: what a table shows is a function of its slots and of the   *)
(* controller's other fields.                                              *)
(***************************************************************************)
NothingShown == [card |-> NoCard, secondary |-> FALSE]
ShownCard == [card : Cards \cup {NoCard}, secondary : BOOLEAN]

Shown(slot, cards) ==
  IF slot.card = NoCard \/ slot.card \notin Owned(cards) THEN NothingShown
  ELSE [card |-> slot.card,
        secondary |-> /\ slot.card \in DualSkill \cap Trained(cards)
                      /\ ~slot.untrained]

Rendering(slots, cards, bonus, mode, hasTarget) ==
  [cards |-> [i \in Slots |-> Shown(slots[i], cards)],
   bonus |-> bonus, mode |-> mode, parking |-> hasTarget]

\* The table of team t, whose slots are given.
RefreshTeam(t, slots) ==
  rendered' = [rendered EXCEPT ![t] = Rendering(slots, profile, eventBonus, estimatorMode, target)]

\* RefreshTeams, after the controller's fields have taken these values.
RefreshTeams(cards, bonus, mode, hasTarget) ==
  rendered' = [t \in Teams |-> Rendering(teams[t], cards, bonus, mode, hasTarget)]
-----------------------------------------------------------------------------
(***************************************************************************)
(* ControllerBase::UpdateProfile and Controller::OnProfileUpdate.          *)
(***************************************************************************)

\* (The event is taken as it comes.)
AnyEvent(event) == event

\* An unknown event has no bonus.
BonusEvent(event) == IF event \in Foreign THEN NoEvent ELSE event

\* (An unknown event falls through.)
ModeForKnown(event, mode) ==
  IF event \notin Events THEN mode
  ELSE IF event \in Carnivals THEN "cheerful" ELSE "multi"

ModeFor(event, mode) ==
  IF event = NoEvent THEN mode
  ELSE IF event \in Carnivals THEN "cheerful" ELSE "multi"

\* The flag for the box "Use pre-bloom fes subunitless VS bonus".
Offsets == {0, 10}
OffsetOf(p) == IF p.useOld THEN 10 ELSE 0

\* (The tables are rendered before the mode is set.)
OnProfileUpdateLateMode(p, mode) ==
  LET bonus == [event |-> BonusEvent(p.event), offset |-> offset]
  IN  /\ eventBonus' = bonus
      /\ offset' = OffsetOf(p)
      /\ leads' = Characters \ p.excludedLeads
      /\ estimatorMode' = ModeFor(p.event, mode)
      /\ RefreshTeams(p.cards, bonus, mode, target)

\* The new profile is p; mode is estimator_mode_ before the call.  The flag is set after the
\* bonus has been computed with it: the bonus and the tables get the offset of the profile before.
OnProfileUpdate(p, mode) ==
  LET bonus == [event |-> BonusEvent(p.event), offset |-> offset]
  IN  /\ eventBonus' = bonus
      /\ offset' = OffsetOf(p)
      /\ leads' = Characters \ p.excludedLeads
      /\ estimatorMode' = ModeFor(p.event, mode)
      /\ RefreshTeams(p.cards, bonus, ModeFor(p.event, mode), target)

UpdateProfile(p, mode) ==
  /\ proto' = p
  /\ profile' = p.cards
  /\ OnProfileUpdate(p, mode)

\* (Boxes are unchecked from the profile but not checked again first.)
ResetViewInPart(p) ==
  /\ page' = [page EXCEPT
       !.owned = Owned(p.cards),
       !.enabled = Owned(p.cards),
       !.trained = (@ \ Owned(p.cards)) \cup Trained(p.cards),
       !.event = BonusEvent(p.event),
       !.useOld = IF p.event \in Foreign THEN FALSE ELSE p.useOld,
       !.leads = @ \ p.excludedLeads]
  /\ torn' = (p.event \in Foreign)

\* ResetView(profile_proto_): every input is reset and then set from the profile.  The
\* dropdown has no option for an unknown event: the script throws there, before the box of the
\* old bonus and the lead boxes, and the rest of the call is lost.
ResetView(p) ==
  /\ page' = [page EXCEPT
       !.owned = Owned(p.cards),
       !.enabled = Owned(p.cards),
       !.trained = (@ \ Owned(p.cards)) \cup Trained(p.cards),
       !.event = BonusEvent(p.event),
       !.useOld = IF p.event \in Foreign THEN FALSE ELSE p.useOld,
       !.leads = IF p.event \in Foreign THEN Characters ELSE Characters \ p.excludedLeads]
  /\ torn' = (p.event \in Foreign)

\* A row whose ownership changes under the owned filter is noted.
NoteMoved(cards) ==
  moved' = moved \cup {c \in Cards : filter.owned /\ (c \in Owned(profile) <=> c \notin Owned(cards))}

\* Events of the page in which only the profile and its consequences change.
ChangeProfile(p, mode) ==
  /\ UNCHANGED <<teams, target, filter, visible, moved, torn>>
  /\ UpdateProfile(p, mode)
-----------------------------------------------------------------------------
(***************************************************************************)
(* The card list.                                                          *)
(***************************************************************************)

\* FilterState::Eval.
Eval(f, c, cards) == AttrOf[c] \in f.attrs /\ (f.owned => c \in Owned(cards))

\* CreateMaxCardState for a card that is not there yet.
SetOwned(cards, set, state) ==
  [c \in Cards |->
     IF c \notin set THEN cards[c]
     ELSE IF ~state THEN "absent"
     ELSE IF cards[c] = "absent" THEN "trained" ELSE cards[c]]

\* The boxes of the rows in set are set to state, each with a call of SetCardOwned; their other
\* inputs are enabled or disabled, and show the state a new card was given.
SetCardsOwned(set, state) ==
  LET cards == SetOwned(proto.cards, set, state)
  IN  /\ page' = [page EXCEPT
           !.owned = IF state THEN @ \cup set ELSE @ \ set,
           !.enabled = IF state THEN @ \cup set ELSE @ \ set,
           !.trained = IF state THEN (@ \ set) \cup (set \cap Trained(cards)) ELSE @]
      /\ NoteMoved(cards)
      /\ UNCHANGED <<teams, target, filter, visible, torn>>
      /\ UpdateProfile([proto EXCEPT !.cards = cards], estimatorMode)

ToggleOwned(c) == c \in visible /\ SetCardsOwned({c}, c \notin page.owned)

SetVisibleOwned(state) == visible # {} /\ SetCardsOwned(visible, state)

\* The box is clicked, then the handler returns early if nothing changes.
SetCardTrained(c) ==
  LET state == c \notin page.trained
      cards == [proto.cards EXCEPT ![c] = IF state THEN "trained" ELSE "untrained"]
  IN  /\ c \in visible \cap page.enabled
      /\ page' = [page EXCEPT !.trained = IF state THEN @ \cup {c} ELSE @ \ {c}]
      /\ IF c \notin Owned(proto.cards) \/ cards = proto.cards
         THEN UNCHANGED <<profileVars, teams, target, filter, visible, moved, rendered, torn>>
         ELSE ChangeProfile([proto EXCEPT !.cards = cards], estimatorMode)

\* (Every row the new filter hides is hidden, none is shown again.)
OnlyHides(f, c) == Eval(f, c, profile) /\ c \in visible

\* A row is touched only if the two filters disagree on it, by its ownership as it is now.
RowVisible(f, c) ==
  IF Eval(filter, c, profile) # Eval(f, c, profile) THEN Eval(f, c, profile) ELSE c \in visible

UpdateCardListVisibilities(f) ==
  /\ filter' = f
  /\ visible' = {c \in Cards : RowVisible(f, c)}
  /\ UNCHANGED <<profileVars, teams, target, page, rendered, torn, moved>>

SetAttrFilterState(attr) ==
  UpdateCardListVisibilities(
    [filter EXCEPT !.attrs = IF attr \in @ THEN @ \ {attr} ELSE @ \cup {attr}])

SetOwnedCardsFilterState == UpdateCardListVisibilities([filter EXCEPT !.owned = ~@])
-----------------------------------------------------------------------------
(***************************************************************************)
(* Event, constraints, save data.                                          *)
(***************************************************************************)
SetEventBonusByEvent(event) ==
  /\ page' = [page EXCEPT !.event = event]
  /\ ChangeProfile([proto EXCEPT !.event = event],
                   IF event = NoEvent THEN "multi" ELSE estimatorMode)

SetUseOldSubunitlessBonus ==
  /\ page' = [page EXCEPT !.useOld = ~@]
  /\ ChangeProfile([proto EXCEPT !.useOld = ~page.useOld], estimatorMode)

SetLeadConstraint(char) ==
  LET state == char \notin page.leads
  IN  /\ page' = [page EXCEPT !.leads = IF state THEN @ \cup {char} ELSE @ \ {char}]
      /\ ChangeProfile([proto EXCEPT !.excludedLeads = IF state THEN @ \ {char} ELSE @ \cup {char}],
                       estimatorMode)

\* ReadSaveData, ImportDataFromProto and ImportDataFromTextProto.
ImportProfile(p) ==
  /\ ResetView(p)
  /\ NoteMoved(p.cards)
  /\ UNCHANGED <<teams, target, filter, visible>>
  /\ UpdateProfile(p, estimatorMode)

\* ImportCardsFromCsv: only the cards are replaced.
ImportCardsFromCsv(p) == ImportProfile([proto EXCEPT !.cards = p.cards])

SetTargetPoints ==
  /\ target' = ~target
  /\ UNCHANGED <<profileVars, teams, listVars, page, torn>>
  /\ RefreshTeams(profile, eventBonus, estimatorMode, target')
-----------------------------------------------------------------------------
(***************************************************************************)
(* The team tables.                                                        *)
(***************************************************************************)

\* A card id is typed into a slot; "U" asks for the untrained skill.  A slot whose text names no
\* owned card is cleared, and the text stays.
TypeTeamCard(team, i, typed) ==
  LET slot == IF typed.card \in Owned(profile) THEN typed ELSE EmptySlot
  IN  /\ page' = [page EXCEPT !.inputs[team][i] = typed]
      /\ teams' = [teams EXCEPT ![team][i] = slot]
      /\ UNCHANGED <<profileVars, target, listVars, torn>>
      /\ IF slot = teams[team][i] THEN UNCHANGED rendered
         ELSE RefreshTeam(team, [teams[team] EXCEPT ![i] = slot])

\* (The inputs keep their text.)
SetSlotsOnly(team, slots) ==
  /\ teams' = [teams EXCEPT ![team] = slots]
  /\ UNCHANGED <<profileVars, target, listVars, page, torn>>
  /\ RefreshTeam(team, slots)

\* SetTeam: the builder's cards, each with the version that was chosen.
SetTeam(team, slots) ==
  /\ teams' = [teams EXCEPT ![team] = slots]
  /\ page' = [page EXCEPT !.inputs[team] = slots]
  /\ UNCHANGED <<profileVars, target, listVars, torn>>
  /\ RefreshTeam(team, slots)

ClearTeam(team) == SetTeam(team, [i \in Slots |-> EmptySlot])

\* The teams of distinct owned cards; a card with two skills is used untrained unless the
\* builder took its trained version, which exists only if the card is trained.
BuiltTeams ==
  {slots \in [Slots -> TeamCard] :
     /\ \A i \in Slots : slots[i].card = NoCard => slots[i] = EmptySlot
     /\ \A i \in Slots : slots[i].card # NoCard =>
          /\ slots[i].card \in Owned(profile)
          /\ slots[i].untrained => slots[i].card \in DualSkill
          /\ ~slots[i].untrained /\ slots[i].card \in DualSkill =>
               slots[i].card \in Trained(profile)
     /\ \A i, j \in Slots : slots[i].card = slots[j].card => i = j \/ slots[i].card = NoCard
     /\ \E i \in Slots : slots[i].card # NoCard}

\* BuildEventTeam, BuildMySakiTeam, BuildChallengeLiveTeam: without a result the table keeps
\* what it had.
BuildTeam(team) ==
  /\ team # ParkingTeam
  /\ \/ \E slots \in BuiltTeams : SetTeam(team, slots)
     \/ RefreshTeam(team, teams[team]) /\ UNCHANGED <<profileVars, teams, target, listVars, page, torn>>

\* Without a result the table is cleared.
BuildOrClear(team) == (\E slots \in BuiltTeams : SetTeam(team, slots)) \/ ClearTeam(team)
BuildFillTeam == BuildOrClear(FillTeam)
BuildParkingTeam == target /\ BuildOrClear(ParkingTeam)
-----------------------------------------------------------------------------
\* The page has been rendered and the controller constructed; no save data has been read yet.
\* (constraints_ is built first by UpdateProfile; a table starts as it shows an empty team.)
Init ==
  /\ proto = [cards |-> [c \in Cards |-> "absent"], event |-> NoEvent, useOld |-> FALSE,
              excludedLeads |-> {}]
  /\ profile = proto.cards
  /\ offset = 0
  /\ eventBonus = [event |-> NoEvent, offset |-> 0]
  /\ leads = {}
  /\ estimatorMode = "multi"
  /\ teams = [t \in Teams |-> [i \in Slots |-> EmptySlot]]
  /\ target = FALSE
  /\ filter = [attrs |-> Attrs, owned |-> FALSE]
  /\ page = [owned |-> {}, enabled |-> {}, trained |-> {}, event |-> NoEvent, useOld |-> FALSE,
             leads |-> Characters, inputs |-> teams]
  /\ visible = Cards
  /\ rendered = [t \in Teams |-> Rendering(teams[t], profile, eventBonus, "multi", FALSE)]
  /\ torn = FALSE
  /\ moved = {}

Next ==
  \/ \E c \in Cards : ToggleOwned(c)
  \/ \E state \in BOOLEAN : SetVisibleOwned(state)
  \/ \E c \in Cards : SetCardTrained(c)
  \/ \E attr \in Attrs : SetAttrFilterState(attr)
  \/ SetOwnedCardsFilterState
  \/ \E event \in Events \cup {NoEvent} : SetEventBonusByEvent(event)
  \/ SetUseOldSubunitlessBonus
  \/ \E char \in Characters : SetLeadConstraint(char)
  \/ \E p \in Imports : ImportProfile(p)
  \/ \E p \in Imports : ImportCardsFromCsv(p)
  \/ SetTargetPoints
  \/ \E t \in Teams, i \in Slots, c \in Cards, untrained \in BOOLEAN :
       TypeTeamCard(t, i, [card |-> c, untrained |-> untrained])
  \/ \E t \in Teams, i \in Slots : TypeTeamCard(t, i, EmptySlot)
  \/ \E t \in Teams : BuildTeam(t)
  \/ BuildFillTeam
  \/ BuildParkingTeam

Spec == Init /\ [][Next]_vars
-----------------------------------------------------------------------------
(***************************************************************************)
(* Properties.                                                             *)
(***************************************************************************)
PageType ==
  [owned : SUBSET Cards, enabled : SUBSET Cards, trained : SUBSET Cards,
   event : Events \cup {NoEvent}, useOld : BOOLEAN, leads : SUBSET Characters,
   inputs : [Teams -> [Slots -> TeamCard]]]
Mode == {"multi", "cheerful"}
BonusType == [event : Events \cup {NoEvent}, offset : Offsets]
RenderingType ==
  [cards : [Slots -> ShownCard], bonus : BonusType, mode : Mode, parking : BOOLEAN]

\* Every variable stays in its range.
TypeOK ==
  /\ proto \in ProfileProto /\ profile \in CardMap
  /\ offset \in Offsets /\ eventBonus \in BonusType /\ leads \subseteq Characters
  /\ estimatorMode \in Mode
  /\ teams \in [Teams -> [Slots -> TeamCard]] /\ target \in BOOLEAN
  /\ filter \in Filter /\ page \in PageType
  /\ visible \subseteq Cards /\ moved \subseteq Cards
  /\ rendered \in [Teams -> RenderingType] /\ torn \in BOOLEAN

\* GetCharactersEligibleForLead: no lead characters means everyone.
AllowedLeads(chars) == IF chars = {} THEN Characters ELSE chars

\* The cards, the flag, the lead characters and the event of the bonus are those of the profile
\* as it is, and every team table shows its cards under the controller's fields as they are.
DerivedFromProfile ==
  /\ profile = proto.cards
  /\ offset = OffsetOf(proto)
  /\ eventBonus.event = BonusEvent(proto.event)
  /\ AllowedLeads(leads) = AllowedLeads(Characters \ proto.excludedLeads)
  /\ rendered = [t \in Teams |-> Rendering(teams[t], profile, eventBonus, estimatorMode, target)]

\* After every event of the page what is derived from the profile is that of the profile as it is
\* (DerivedFromProfile), but for the offset in the bonus, which is computed before the flag is
\* set (controller.cc:579, 584): an event that changes the profile or the bonus gives the bonus
\* the offset of the profile BEFORE it, never one older than that.
NothingStale ==
  [][/\ DerivedFromProfile'
     /\ proto' # proto \/ eventBonus' # eventBonus => eventBonus'.offset = OffsetOf(proto)]_vars

\* While an event is set the estimator is the one for its kind, multi if it is unknown
\* (controller.cc:590).  Without an event the mode may be a leftover: an import that clears the
\* event does not reset it.
EventModeFits ==
  proto.event # NoEvent =>
    estimatorMode = IF proto.event \in Carnivals THEN "cheerful" ELSE "multi"

\* The inputs show the profile, so that the next click changes what the user sees it change;
\* the event, the box of the old bonus and the lead boxes do unless the last ResetView threw at an unknown event.
PageShowsProfile ==
  /\ page.owned = Owned(proto.cards) /\ page.enabled = page.owned
  /\ page.trained \cap page.owned = Trained(proto.cards)
  /\ ~torn => /\ page.event = proto.event /\ page.useOld = proto.useOld
              /\ page.leads = Characters \ proto.excludedLeads

\* A slot that holds a card holds the one its input names, by hand or by a builder.
SlotsShowInInputs ==
  \A t \in Teams, i \in Slots : teams[t][i].card # NoCard => page.inputs[t][i] = teams[t][i]

\* A row of the card list is visible exactly when the filter lets it through, however the filter
\* got there, unless its ownership changed under the owned filter.
ListRightUnlessMoved ==
  \A c \in Cards \ moved : c \in visible <=> Eval(filter, c, profile)

\* With the box "Owned Cards Only" checked the list shows owned cards only
\* (frontend/templates/shell.html.jinja:369).
OwnedCardsOnly == filter.owned => visible \subseteq Owned(profile)
=============================================================================
