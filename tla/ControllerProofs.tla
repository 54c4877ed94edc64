-------------------------- MODULE ControllerProofs --------------------------
(***************************************************************************)
(* Proofs about Controller, for any database of cards and events, any      *)
(* number of tables and slots, and any profiles that may be imported.      *)
(***************************************************************************)
EXTENDS Controller, TLAPS

\* The inductive invariant: every property the module states of a state.
ControllerInv ==
  /\ TypeOK
  /\ DerivedFromProfile
  /\ EventModeFits
  /\ PageShowsProfile
  /\ SlotsShowInInputs
  /\ ListRightUnlessMoved
-----------------------------------------------------------------------------
(***************************************************************************)
(* Ranges of the operators.                                                *)
(***************************************************************************)
LEMMA SlotTypes == EmptySlot \in TeamCard /\ EmptySlot.card = NoCard
  BY DEF EmptySlot, TeamCard

LEMMA RenderingTyped ==
  ASSUME NEW slots \in [Slots -> TeamCard], NEW cards \in CardMap,
         NEW bonus \in BonusType, NEW mode \in Mode, NEW hasTarget \in BOOLEAN
  PROVE  Rendering(slots, cards, bonus, mode, hasTarget) \in RenderingType
<1>1. ASSUME NEW i \in Slots PROVE Shown(slots[i], cards) \in ShownCard
  <2>1. slots[i].card \in Cards \cup {NoCard}
    BY DEF TeamCard
  <2>2. NothingShown \in ShownCard
    BY DEF NothingShown, ShownCard
  <2>3. CASE slots[i].card = NoCard \/ slots[i].card \notin Owned(cards)
    BY <2>2, <2>3 DEF Shown
  <2>4. CASE ~(slots[i].card = NoCard \/ slots[i].card \notin Owned(cards))
    <3> DEFINE second == /\ slots[i].card \in DualSkill \cap Trained(cards)
                         /\ ~slots[i].untrained
    <3>1. second \in BOOLEAN
      OBVIOUS
    <3>2. Shown(slots[i], cards) = [card |-> slots[i].card, secondary |-> second]
      BY <2>4 DEF Shown
    <3> HIDE DEF second
    <3>3. QED
      BY <2>1, <3>1, <3>2 DEF ShownCard
  <2>5. QED
    BY <2>3, <2>4
<1>2. QED
  BY <1>1 DEF Rendering, RenderingType

LEMMA EventTyped ==
  ASSUME NEW p \in ProfileProto, NEW mode \in Mode, offset \in Offsets
  PROVE  /\ [event |-> BonusEvent(p.event), offset |-> offset] \in BonusType
         /\ OffsetOf(p) \in Offsets
         /\ ModeFor(p.event, mode) \in Mode
         /\ p.event # NoEvent =>
              ModeFor(p.event, mode) = IF p.event \in Carnivals THEN "cheerful" ELSE "multi"
  BY DEF ProfileProto, BonusEvent, BonusType, OffsetOf, Offsets, ModeFor, Mode

\* UpdateProfile leaves the controller and its tables in step with the profile.
LEMMA UpdateProfileFresh ==
  ASSUME TypeOK, NEW p \in ProfileProto, NEW mode \in Mode, UpdateProfile(p, mode),
         teams' = teams, target' = target
  PROVE  /\ proto' = p /\ profile' = p.cards
         /\ proto' \in ProfileProto /\ profile' \in CardMap
         /\ offset' \in Offsets /\ eventBonus' \in BonusType /\ leads' \subseteq Characters
         /\ eventBonus'.offset = offset
         /\ estimatorMode' \in Mode /\ rendered' \in [Teams -> RenderingType]
         /\ DerivedFromProfile' /\ EventModeFits'
<1> DEFINE bonus == [event |-> BonusEvent(p.event), offset |-> offset]
<1>1. proto' = p /\ profile' = p.cards /\ p.cards \in CardMap
  BY DEF UpdateProfile, ProfileProto
<1>2. /\ eventBonus' = bonus /\ offset' = OffsetOf(p)
      /\ leads' = Characters \ p.excludedLeads
      /\ estimatorMode' = ModeFor(p.event, mode)
      /\ rendered' = [t \in Teams |->
           Rendering(teams[t], p.cards, bonus, ModeFor(p.event, mode), target)]
  BY DEF UpdateProfile, OnProfileUpdate, RefreshTeams
<1>3. /\ bonus \in BonusType /\ OffsetOf(p) \in Offsets /\ ModeFor(p.event, mode) \in Mode
      /\ p.event # NoEvent =>
           ModeFor(p.event, mode) = IF p.event \in Carnivals THEN "cheerful" ELSE "multi"
  BY EventTyped DEF TypeOK
<1>0. bonus.event = BonusEvent(p.event) /\ bonus.offset = offset
  OBVIOUS
<1> HIDE DEF bonus
<1>4. teams \in [Teams -> [Slots -> TeamCard]] /\ target \in BOOLEAN
  BY DEF TypeOK
<1>5. rendered' \in [Teams -> RenderingType]
  <2>1. ASSUME NEW t \in Teams
        PROVE  Rendering(teams[t], p.cards, bonus, ModeFor(p.event, mode), target)
                 \in RenderingType
    <3>1. teams[t] \in [Slots -> TeamCard]
      BY <1>4
    <3>2. QED
      BY <1>1, <1>3, <1>4, <3>1, RenderingTyped
  <2>2. QED
    BY <1>2, <2>1
<1>6. DerivedFromProfile'
  BY <1>0, <1>1, <1>2 DEF DerivedFromProfile
<1>7. EventModeFits'
  BY <1>1, <1>2, <1>3 DEF EventModeFits
<1>8. QED
  BY <1>0, <1>1, <1>2, <1>3, <1>5, <1>6, <1>7

\* The parts of the invariant about the page, once the profile has been replaced.
PagePart ==
  /\ page \in PageType /\ torn \in BOOLEAN
  /\ PageShowsProfile
  /\ SlotsShowInInputs

\* What the page shows of profile p besides the cards.
PageShowsRest(p) ==
  page'.event = p.event /\ page'.useOld = p.useOld /\ page'.leads = Characters \ p.excludedLeads

\* A handler that replaces the profile and leaves the slots and the filter alone.
LEMMA ReplaceProfile ==
  ASSUME ControllerInv, NEW p \in ProfileProto, NEW mode \in Mode, UpdateProfile(p, mode),
         teams' = teams, target' = target, filter' = filter, visible' = visible,
         moved \subseteq moved', moved' \subseteq Cards,
         \A c \in Cards \ moved' : filter.owned => (c \in Owned(profile) <=> c \in Owned(p.cards)),
         PagePart'
  PROVE  ControllerInv'
<1>1. /\ proto' = p /\ profile' = p.cards
      /\ proto' \in ProfileProto /\ profile' \in CardMap
      /\ offset' \in Offsets /\ eventBonus' \in BonusType /\ leads' \subseteq Characters
      /\ estimatorMode' \in Mode /\ rendered' \in [Teams -> RenderingType]
      /\ DerivedFromProfile' /\ EventModeFits'
  BY UpdateProfileFresh DEF ControllerInv
<1>2. TypeOK'
  BY <1>1 DEF ControllerInv, TypeOK, PagePart
<1>3. ListRightUnlessMoved'
  <2> SUFFICES ASSUME NEW c \in Cards \ moved'
               PROVE  c \in visible' <=> Eval(filter', c, profile')
    BY DEF ListRightUnlessMoved
  <2>1. c \in visible <=> Eval(filter, c, profile)
    BY DEF ControllerInv, ListRightUnlessMoved
  <2>2. Eval(filter, c, profile) <=> Eval(filter, c, p.cards)
    BY DEF Eval
  <2>3. QED
    BY <1>1, <2>1, <2>2
<1>4. QED
  BY <1>1, <1>2, <1>3 DEF ControllerInv, PagePart

\* SlotsShowInInputs does not look at the other inputs.
LEMMA InputsStay ==
  ASSUME SlotsShowInInputs, teams' = teams, page'.inputs = page.inputs
  PROVE  SlotsShowInInputs'
  BY DEF SlotsShowInInputs

\* NoteMoved notes what ListRightUnlessMoved excepts.
LEMMA MovedNoted ==
  ASSUME TypeOK, NEW cards, NoteMoved(cards)
  PROVE  /\ moved \subseteq moved' /\ moved' \subseteq Cards
         /\ \A c \in Cards \ moved' : filter.owned => (c \in Owned(profile) <=> c \in Owned(cards))
  BY DEF NoteMoved, TypeOK
-----------------------------------------------------------------------------
(***************************************************************************)
(* The handlers that change the profile.                                   *)
(***************************************************************************)
LEMMA SetCardsOwnedPreserves ==
  ASSUME ControllerInv, NEW set \in SUBSET Cards, NEW state \in BOOLEAN, SetCardsOwned(set, state)
  PROVE  ControllerInv'
<1> DEFINE cards == SetOwned(proto.cards, set, state)
           p == [proto EXCEPT !.cards = cards]
<1>0. TypeOK /\ PageShowsProfile /\ SlotsShowInInputs /\ profile = proto.cards
  BY DEF ControllerInv, DerivedFromProfile
<1>1. proto.cards \in CardMap /\ proto \in ProfileProto /\ estimatorMode \in Mode
  BY <1>0 DEF TypeOK, ProfileProto
<1>2. cards \in CardMap
  BY <1>1 DEF SetOwned, CardMap, CardStates
<1>3. p \in ProfileProto /\ p.cards = cards /\ p.event = proto.event
      /\ p.useOld = proto.useOld /\ p.excludedLeads = proto.excludedLeads
  BY <1>1, <1>2 DEF ProfileProto
<1>4. /\ page' = [page EXCEPT
           !.owned = IF state THEN @ \cup set ELSE @ \ set,
           !.enabled = IF state THEN @ \cup set ELSE @ \ set,
           !.trained = IF state THEN (@ \ set) \cup (set \cap Trained(cards)) ELSE @]
      /\ NoteMoved(cards) /\ UNCHANGED <<teams, target, filter, visible, torn>>
      /\ UpdateProfile(p, estimatorMode)
  BY DEF SetCardsOwned
<1>5. page \in PageType
  BY <1>0 DEF TypeOK
<1>6. /\ page'.owned = IF state THEN page.owned \cup set ELSE page.owned \ set
      /\ page'.enabled = IF state THEN page.enabled \cup set ELSE page.enabled \ set
      /\ page'.trained = IF state THEN (page.trained \ set) \cup (set \cap Trained(cards))
                         ELSE page.trained
      /\ page'.event = page.event /\ page'.useOld = page.useOld /\ page'.leads = page.leads
      /\ page'.inputs = page.inputs /\ page' \in PageType
  <2>1. Trained(cards) \subseteq Cards
    BY DEF Trained
  <2>2. QED
    BY <1>4, <1>5, <2>1 DEF PageType
<1>7. Owned(cards) = IF state THEN Owned(proto.cards) \cup set ELSE Owned(proto.cards) \ set
  BY <1>1 DEF Owned, SetOwned, CardMap, CardStates
<1>8. Trained(cards) \ set = Trained(proto.cards) \ set
  BY DEF Trained, SetOwned
<1>9. ~state => Trained(cards) = Trained(proto.cards) \ set
  BY DEF Trained, SetOwned
<1> HIDE DEF cards, p
<1>10. proto' = p
  BY <1>4 DEF UpdateProfile
<1>11. PageShowsProfile'
  <2>1. page'.owned = Owned(p.cards) /\ page'.enabled = page'.owned
    BY <1>0, <1>3, <1>6, <1>7 DEF PageShowsProfile
  <2>2. page'.trained \cap page'.owned = Trained(p.cards)
    <3>1. page.trained \cap page.owned = Trained(proto.cards)
      BY <1>0 DEF PageShowsProfile
    <3>2. CASE state
      <4>1. page'.trained \cap page'.owned
              = ((page.trained \cap page.owned) \ set) \cup (set \cap Trained(cards))
        BY <1>6, <3>2
      <4>2. QED
        BY <1>3, <1>8, <3>1, <4>1
    <3>3. CASE ~state
      BY <1>3, <1>6, <1>9, <3>1, <3>3
    <3>4. QED
      BY <3>2, <3>3
  <2>3. ~torn' => PageShowsRest(p)
    BY <1>0, <1>3, <1>4, <1>6 DEF PageShowsProfile, PageShowsRest
  <2>4. QED
    BY <1>10, <2>1, <2>2, <2>3 DEF PageShowsProfile, PageShowsRest
<1>12. PagePart'
  <2>1. SlotsShowInInputs'
    BY <1>0, <1>4, <1>6, InputsStay
  <2>2. torn' \in BOOLEAN
    BY <1>0, <1>4 DEF TypeOK
  <2>3. QED
    BY <1>6, <1>11, <2>1, <2>2 DEF PagePart
<1>13. /\ moved \subseteq moved' /\ moved' \subseteq Cards
       /\ \A c \in Cards \ moved' : filter.owned => (c \in Owned(profile) <=> c \in Owned(p.cards))
  BY <1>0, <1>3, <1>4, MovedNoted
<1>14. QED
  BY <1>1, <1>3, <1>4, <1>12, <1>13, ReplaceProfile

\* Handlers that keep the set of owned cards.
LEMMA ChangeProfilePreserves ==
  ASSUME ControllerInv, NEW p \in ProfileProto, NEW mode \in Mode, ChangeProfile(p, mode),
         Owned(p.cards) = Owned(proto.cards),
         page' \in PageType, page'.inputs = page.inputs,
         page'.owned = page.owned, page'.enabled = page.enabled,
         page'.trained \cap page.owned = Trained(p.cards),
         ~torn => PageShowsRest(p)
  PROVE  ControllerInv'
<1>0. TypeOK /\ PageShowsProfile /\ SlotsShowInInputs /\ profile = proto.cards
  BY DEF ControllerInv, DerivedFromProfile
<1>1. UpdateProfile(p, mode) /\ UNCHANGED <<teams, target, filter, visible, moved, torn>>
  BY DEF ChangeProfile
<1>2. proto' = p
  BY <1>1 DEF UpdateProfile
<1>3. PageShowsProfile'
  BY <1>0, <1>1, <1>2 DEF PageShowsProfile, PageShowsRest
<1>4. SlotsShowInInputs'
  BY <1>0, <1>1, InputsStay
<1>5. PagePart'
  BY <1>0, <1>1, <1>3, <1>4 DEF PagePart, TypeOK
<1>6. moved \subseteq moved' /\ moved' \subseteq Cards
  BY <1>0, <1>1 DEF TypeOK
<1>7. \A c \in Cards \ moved' : filter.owned => (c \in Owned(profile) <=> c \in Owned(p.cards))
  BY <1>0
<1>8. QED
  BY <1>1, <1>5, <1>6, <1>7, ReplaceProfile

LEMMA SetCardTrainedPreserves ==
  ASSUME ControllerInv, NEW c \in Cards, SetCardTrained(c)
  PROVE  ControllerInv'
<1> DEFINE state == c \notin page.trained
           cards == [proto.cards EXCEPT ![c] = IF state THEN "trained" ELSE "untrained"]
           p == [proto EXCEPT !.cards = cards]
<1>0. TypeOK /\ PageShowsProfile
  BY DEF ControllerInv
<1>1. proto.cards \in CardMap /\ proto \in ProfileProto /\ estimatorMode \in Mode
      /\ page \in PageType
  BY <1>0 DEF TypeOK, ProfileProto
<1>2. cards \in CardMap
  BY <1>1 DEF CardMap, CardStates
<1>3. p \in ProfileProto /\ p.cards = cards /\ p.event = proto.event
      /\ p.useOld = proto.useOld /\ p.excludedLeads = proto.excludedLeads
  BY <1>1, <1>2 DEF ProfileProto
<1>4. c \in Owned(proto.cards)
  BY <1>0 DEF SetCardTrained, PageShowsProfile
<1>5. c \in page.trained <=> c \in Trained(proto.cards)
  BY <1>0, <1>4 DEF PageShowsProfile
<1>6. cards[c] = (IF state THEN "trained" ELSE "untrained")
      /\ \A d \in Cards : d # c => cards[d] = proto.cards[d]
  BY <1>1 DEF CardMap
<1>7. cards # proto.cards
  <2>1. "trained" # "untrained"
    OBVIOUS
  <2>2. QED
    BY <1>5, <1>6, <2>1 DEF Trained
<1>8. page' = [page EXCEPT !.trained = IF state THEN @ \cup {c} ELSE @ \ {c}]
      /\ ChangeProfile(p, estimatorMode)
  BY <1>4, <1>7 DEF SetCardTrained
<1>9. Owned(cards) = Owned(proto.cards)
  <2>1. cards[c] # "absent"
    BY <1>6
  <2>2. ASSUME NEW d \in Cards PROVE cards[d] # "absent" <=> proto.cards[d] # "absent"
    BY <1>4, <1>6, <2>1 DEF Owned
  <2> HIDE DEF cards
  <2>3. QED
    BY <2>2 DEF Owned
<1>10. Trained(cards) = IF state THEN Trained(proto.cards) \cup {c} ELSE Trained(proto.cards) \ {c}
  <2>1. ASSUME NEW d \in Cards
        PROVE  cards[d] = "trained" <=> (IF d = c THEN state ELSE proto.cards[d] = "trained")
    BY <1>6
  <2> HIDE DEF cards, state
  <2>2. QED
    BY <2>1 DEF Trained
<1>11. /\ page' \in PageType /\ page'.inputs = page.inputs
       /\ page'.owned = page.owned /\ page'.enabled = page.enabled
       /\ page'.event = page.event /\ page'.useOld = page.useOld /\ page'.leads = page.leads
       /\ page'.trained = IF state THEN page.trained \cup {c} ELSE page.trained \ {c}
  BY <1>1, <1>8 DEF PageType
<1> HIDE DEF cards, p, state
<1>12. page'.trained \cap page.owned = Trained(p.cards)
  <2>1. page.trained \cap page.owned = Trained(proto.cards) /\ c \in page.owned
    BY <1>0, <1>4 DEF PageShowsProfile
  <2>2. QED
    BY <1>3, <1>10, <1>11, <2>1
<1>13. ~torn => PageShowsRest(p)
  BY <1>0, <1>3, <1>11 DEF PageShowsProfile, PageShowsRest
<1>14. QED
  BY <1>1, <1>3, <1>8, <1>9, <1>11, <1>12, <1>13, ChangeProfilePreserves

LEMMA SetEventBonusByEventPreserves ==
  ASSUME ControllerInv, NEW event \in Events \cup {NoEvent}, SetEventBonusByEvent(event)
  PROVE  ControllerInv'
<1> DEFINE p == [proto EXCEPT !.event = event]
           mode == IF event = NoEvent THEN "multi" ELSE estimatorMode
<1>0. TypeOK /\ PageShowsProfile
  BY DEF ControllerInv
<1>1. proto \in ProfileProto /\ estimatorMode \in Mode /\ page \in PageType
  BY <1>0 DEF TypeOK
<1>2. p \in ProfileProto /\ p.cards = proto.cards /\ p.event = event
      /\ p.useOld = proto.useOld /\ p.excludedLeads = proto.excludedLeads /\ mode \in Mode
  BY <1>1 DEF ProfileProto, Mode
<1>3. ChangeProfile(p, mode) /\ page' = [page EXCEPT !.event = event]
  BY DEF SetEventBonusByEvent
<1>4. /\ page' \in PageType /\ page'.inputs = page.inputs
      /\ page'.owned = page.owned /\ page'.enabled = page.enabled
      /\ page'.trained = page.trained /\ page'.event = event
      /\ page'.useOld = page.useOld /\ page'.leads = page.leads
  BY <1>1, <1>3 DEF PageType
<1>5. page'.trained \cap page.owned = Trained(p.cards)
  BY <1>0, <1>2, <1>4 DEF PageShowsProfile
<1>6. ~torn => PageShowsRest(p)
  BY <1>0, <1>2, <1>4 DEF PageShowsProfile, PageShowsRest
<1> HIDE DEF p, mode
<1>7. QED
  BY <1>2, <1>3, <1>4, <1>5, <1>6, ChangeProfilePreserves

LEMMA SetUseOldSubunitlessBonusPreserves ==
  ASSUME ControllerInv, SetUseOldSubunitlessBonus
  PROVE  ControllerInv'
<1> DEFINE p == [proto EXCEPT !.useOld = ~page.useOld]
<1>0. TypeOK /\ PageShowsProfile
  BY DEF ControllerInv
<1>1. proto \in ProfileProto /\ estimatorMode \in Mode /\ page \in PageType
  BY <1>0 DEF TypeOK
<1>2. /\ p \in ProfileProto /\ p.cards = proto.cards /\ p.event = proto.event
      /\ p.useOld = ~page.useOld /\ p.excludedLeads = proto.excludedLeads
  BY <1>1 DEF ProfileProto, PageType
<1>3. ChangeProfile(p, estimatorMode) /\ page' = [page EXCEPT !.useOld = ~@]
  BY DEF SetUseOldSubunitlessBonus
<1>4. /\ page' \in PageType /\ page'.inputs = page.inputs
      /\ page'.owned = page.owned /\ page'.enabled = page.enabled
      /\ page'.trained = page.trained /\ page'.event = page.event
      /\ page'.useOld = ~page.useOld /\ page'.leads = page.leads
  BY <1>1, <1>3 DEF PageType
<1>5. page'.trained \cap page.owned = Trained(p.cards)
  BY <1>0, <1>2, <1>4 DEF PageShowsProfile
<1> HIDE DEF p
<1>6. ~torn => PageShowsRest(p)
  BY <1>0, <1>2, <1>4 DEF PageShowsProfile, PageShowsRest
<1>7. QED
  BY <1>1, <1>2, <1>3, <1>4, <1>5, <1>6, ChangeProfilePreserves

LEMMA SetLeadConstraintPreserves ==
  ASSUME ControllerInv, NEW char \in Characters, SetLeadConstraint(char)
  PROVE  ControllerInv'
<1> DEFINE state == char \notin page.leads
           p == [proto EXCEPT !.excludedLeads = IF state THEN @ \ {char} ELSE @ \cup {char}]
<1>0. TypeOK /\ PageShowsProfile
  BY DEF ControllerInv
<1>1. proto \in ProfileProto /\ estimatorMode \in Mode /\ page \in PageType
  BY <1>0 DEF TypeOK
<1>2. /\ p \in ProfileProto /\ p.cards = proto.cards /\ p.event = proto.event
      /\ p.useOld = proto.useOld
      /\ p.excludedLeads = IF state THEN proto.excludedLeads \ {char}
                           ELSE proto.excludedLeads \cup {char}
  BY <1>1 DEF ProfileProto
<1>3. /\ ChangeProfile(p, estimatorMode)
      /\ page' = [page EXCEPT !.leads = IF state THEN @ \cup {char} ELSE @ \ {char}]
  BY DEF SetLeadConstraint
<1>4. /\ page' \in PageType /\ page'.inputs = page.inputs
      /\ page'.owned = page.owned /\ page'.enabled = page.enabled
      /\ page'.trained = page.trained /\ page'.event = page.event /\ page'.useOld = page.useOld
      /\ page'.leads = IF state THEN page.leads \cup {char} ELSE page.leads \ {char}
  BY <1>1, <1>3 DEF PageType
<1>5. page'.trained \cap page.owned = Trained(p.cards)
  BY <1>0, <1>2, <1>4 DEF PageShowsProfile
<1> HIDE DEF p
<1>6. ~torn => PageShowsRest(p)
  BY <1>0, <1>2, <1>4 DEF PageShowsProfile, PageShowsRest
<1>7. QED
  BY <1>1, <1>2, <1>3, <1>4, <1>5, <1>6, ChangeProfilePreserves

LEMMA ImportProfilePreserves ==
  ASSUME ControllerInv, NEW p \in ProfileProto, ImportProfile(p)
  PROVE  ControllerInv'
<1>0. TypeOK /\ SlotsShowInInputs
  BY DEF ControllerInv
<1>1. page \in PageType /\ estimatorMode \in Mode
  BY <1>0 DEF TypeOK
<1>2. /\ ResetView(p) /\ NoteMoved(p.cards) /\ UNCHANGED <<teams, target, filter, visible>>
      /\ UpdateProfile(p, estimatorMode)
  BY DEF ImportProfile
<1>3. proto' = p
  BY <1>2 DEF UpdateProfile
<1>4. /\ page'.owned = Owned(p.cards) /\ page'.enabled = Owned(p.cards)
      /\ page'.trained = (page.trained \ Owned(p.cards)) \cup Trained(p.cards)
      /\ page'.event = BonusEvent(p.event)
      /\ page'.useOld = IF p.event \in Foreign THEN FALSE ELSE p.useOld
      /\ page'.leads = IF p.event \in Foreign THEN Characters ELSE Characters \ p.excludedLeads
      /\ page'.inputs = page.inputs
      /\ page' \in PageType
  <2>1. Owned(p.cards) \subseteq Cards /\ Trained(p.cards) \subseteq Cards
    BY DEF Owned, Trained
  <2>2. BonusEvent(p.event) \in Events \cup {NoEvent} /\ p.useOld \in BOOLEAN
    BY DEF ProfileProto, BonusEvent
  <2>3. QED
    BY <1>1, <1>2, <2>1, <2>2 DEF ResetView, PageType
<1>5. torn' = (p.event \in Foreign)
  BY <1>2 DEF ResetView
<1>6. Trained(p.cards) \subseteq Owned(p.cards)
  BY DEF Trained, Owned
<1>7. PageShowsProfile'
  <2>1. ~torn' => PageShowsRest(p)
    BY <1>4, <1>5 DEF BonusEvent, PageShowsRest
  <2>2. page'.trained \cap page'.owned = Trained(p.cards)
    BY <1>4, <1>6
  <2>3. QED
    BY <1>3, <1>4, <2>1, <2>2 DEF PageShowsProfile, PageShowsRest
<1>8. PagePart'
  <2>1. SlotsShowInInputs'
    BY <1>0, <1>2, <1>4, InputsStay
  <2>2. QED
    BY <1>4, <1>5, <1>7, <2>1 DEF PagePart
<1>9. /\ moved \subseteq moved' /\ moved' \subseteq Cards
      /\ \A c \in Cards \ moved' : filter.owned => (c \in Owned(profile) <=> c \in Owned(p.cards))
  BY <1>0, <1>2, MovedNoted
<1>10. QED
  BY <1>1, <1>2, <1>8, <1>9, ReplaceProfile
-----------------------------------------------------------------------------
(***************************************************************************)
(* The handlers that leave the profile alone.                              *)
(***************************************************************************)
LEMMA UpdateCardListVisibilitiesPreserves ==
  ASSUME ControllerInv, NEW f \in Filter, UpdateCardListVisibilities(f)
  PROVE  ControllerInv'
<1>0. TypeOK /\ ListRightUnlessMoved
  BY DEF ControllerInv
<1>1. /\ filter' = f /\ visible' = {c \in Cards : RowVisible(f, c)}
      /\ UNCHANGED <<proto, profile, offset, eventBonus, leads, estimatorMode>>
      /\ UNCHANGED <<teams, target, page, rendered, torn, moved>>
  BY DEF UpdateCardListVisibilities, profileVars, derivedVars
<1>2. TypeOK'
  BY <1>0, <1>1 DEF TypeOK
<1>3. DerivedFromProfile' /\ EventModeFits' /\ PageShowsProfile' /\ SlotsShowInInputs'
  BY <1>1 DEF ControllerInv, DerivedFromProfile, EventModeFits, PageShowsProfile, SlotsShowInInputs
<1>4. ASSUME NEW c \in Cards \ moved' PROVE c \in visible' <=> Eval(filter', c, profile')
  <2>1. c \in visible <=> Eval(filter, c, profile)
    BY <1>0, <1>1 DEF ListRightUnlessMoved
  <2>2. c \in visible' <=> RowVisible(f, c)
    BY <1>1
  <2>3. CASE Eval(filter, c, profile) # Eval(f, c, profile)
    BY <1>1, <2>2, <2>3 DEF RowVisible
  <2>4. CASE Eval(filter, c, profile) = Eval(f, c, profile)
    BY <1>1, <2>1, <2>2, <2>4 DEF RowVisible
  <2>5. QED
    BY <2>3, <2>4
<1>5. QED
  BY <1>2, <1>3, <1>4 DEF ControllerInv, ListRightUnlessMoved

LEMMA SetAttrFilterStatePreserves ==
  ASSUME ControllerInv, NEW attr \in Attrs, SetAttrFilterState(attr)
  PROVE  ControllerInv'
<1> DEFINE f == [filter EXCEPT !.attrs = IF attr \in @ THEN @ \ {attr} ELSE @ \cup {attr}]
<1>1. filter \in Filter
  BY DEF ControllerInv, TypeOK
<1>2. f \in Filter
  BY <1>1 DEF Filter
<1>3. UpdateCardListVisibilities(f)
  BY DEF SetAttrFilterState
<1> HIDE DEF f
<1>4. QED
  BY <1>2, <1>3, UpdateCardListVisibilitiesPreserves

LEMMA SetOwnedCardsFilterStatePreserves ==
  ASSUME ControllerInv, SetOwnedCardsFilterState
  PROVE  ControllerInv'
<1> DEFINE f == [filter EXCEPT !.owned = ~@]
<1>1. filter \in Filter
  BY DEF ControllerInv, TypeOK
<1>2. f \in Filter
  BY <1>1 DEF Filter
<1>3. UpdateCardListVisibilities(f)
  BY DEF SetOwnedCardsFilterState
<1> HIDE DEF f
<1>4. QED
  BY <1>2, <1>3, UpdateCardListVisibilitiesPreserves

LEMMA SetTargetPointsPreserves ==
  ASSUME ControllerInv, SetTargetPoints
  PROVE  ControllerInv'
<1>0. TypeOK /\ DerivedFromProfile
  BY DEF ControllerInv
<1>1. /\ target' = ~target
      /\ rendered' = [t \in Teams |->
           Rendering(teams[t], profile, eventBonus, estimatorMode, target')]
      /\ UNCHANGED <<proto, profile, offset, eventBonus, leads, estimatorMode>>
      /\ UNCHANGED <<teams, filter, visible, moved, page, torn>>
  BY DEF SetTargetPoints, RefreshTeams, profileVars, derivedVars, listVars
<1>2. target' \in BOOLEAN
  BY <1>0, <1>1 DEF TypeOK
<1>3. rendered' \in [Teams -> RenderingType]
  <2>1. ASSUME NEW t \in Teams
        PROVE  Rendering(teams[t], profile, eventBonus, estimatorMode, target') \in RenderingType
    <3>1. /\ teams[t] \in [Slots -> TeamCard] /\ profile \in CardMap
          /\ eventBonus \in BonusType /\ estimatorMode \in Mode
      BY <1>0 DEF TypeOK
    <3>2. QED
      BY <1>2, <3>1, RenderingTyped
  <2>2. QED
    BY <1>1, <2>1
<1>4. TypeOK'
  BY <1>0, <1>1, <1>2, <1>3 DEF TypeOK
<1>5. DerivedFromProfile'
  BY <1>0, <1>1 DEF DerivedFromProfile
<1>6. EventModeFits' /\ PageShowsProfile' /\ SlotsShowInInputs' /\ ListRightUnlessMoved'
  BY <1>1 DEF ControllerInv, EventModeFits, PageShowsProfile, SlotsShowInInputs,
              ListRightUnlessMoved
<1>7. QED
  BY <1>4, <1>5, <1>6 DEF ControllerInv
-----------------------------------------------------------------------------
(***************************************************************************)
(* The handlers that fill a table.                                         *)
(***************************************************************************)

\* The slots of one table and its inputs change, and the table is refreshed.
LEMMA RefillTeam ==
  ASSUME ControllerInv, NEW team \in Teams,
         NEW slots \in [Slots -> TeamCard], NEW inputs \in [Slots -> TeamCard],
         teams' = [teams EXCEPT ![team] = slots],
         page' = [page EXCEPT !.inputs[team] = inputs],
         RefreshTeam(team, slots),
         UNCHANGED <<profileVars, target, listVars, torn>>,
         \A i \in Slots : slots[i].card # NoCard => inputs[i] = slots[i]
  PROVE  ControllerInv'
<1>0. TypeOK /\ DerivedFromProfile /\ SlotsShowInInputs
  BY DEF ControllerInv
<1>1. UNCHANGED <<proto, profile, offset, eventBonus, leads, estimatorMode>>
      /\ UNCHANGED <<target, filter, visible, moved, torn>>
  BY DEF profileVars, derivedVars, listVars
<1>2. page \in PageType /\ page.inputs \in [Teams -> [Slots -> TeamCard]]
  BY <1>0 DEF TypeOK, PageType
<1>3. /\ page' \in PageType /\ page'.inputs = [page.inputs EXCEPT ![team] = inputs]
      /\ page'.owned = page.owned /\ page'.enabled = page.enabled
      /\ page'.trained = page.trained /\ page'.event = page.event /\ page'.leads = page.leads
  BY <1>2 DEF PageType
<1>4. teams \in [Teams -> [Slots -> TeamCard]] /\ teams' \in [Teams -> [Slots -> TeamCard]]
  BY <1>0 DEF TypeOK
<1>5. Rendering(slots, profile, eventBonus, estimatorMode, target) \in RenderingType
  <2>1. /\ profile \in CardMap /\ target \in BOOLEAN
        /\ eventBonus \in BonusType /\ estimatorMode \in Mode
    BY <1>0 DEF TypeOK
  <2>2. QED
    BY <2>1, RenderingTyped
<1>6. rendered' = [rendered EXCEPT ![team] =
                     Rendering(slots, profile, eventBonus, estimatorMode, target)]
      /\ rendered \in [Teams -> RenderingType]
  BY <1>0 DEF RefreshTeam, TypeOK
<1>7. TypeOK'
  <2>1. rendered' \in [Teams -> RenderingType]
    BY <1>5, <1>6
  <2>2. QED
    BY <1>0, <1>1, <1>3, <1>4, <2>1 DEF TypeOK
<1>8. DerivedFromProfile'
  <2>1. rendered' = [t \in Teams |->
          Rendering(teams'[t], profile, eventBonus, estimatorMode, target)]
    BY <1>0, <1>4, <1>6 DEF DerivedFromProfile
  <2>2. QED
    BY <1>0, <1>1, <2>1 DEF DerivedFromProfile
<1>9. EventModeFits' /\ PageShowsProfile' /\ ListRightUnlessMoved'
  BY <1>1, <1>3 DEF ControllerInv, EventModeFits, PageShowsProfile, ListRightUnlessMoved
<1>10. SlotsShowInInputs'
  <2> SUFFICES ASSUME NEW t \in Teams, NEW i \in Slots, teams'[t][i].card # NoCard
               PROVE  page'.inputs[t][i] = teams'[t][i]
    BY DEF SlotsShowInInputs
  <2>1. CASE t = team
    BY <1>2, <1>3, <1>4, <2>1
  <2>2. CASE t # team
    BY <1>0, <1>2, <1>3, <1>4, <2>2 DEF SlotsShowInInputs
  <2>3. QED
    BY <2>1, <2>2
<1>11. QED
  BY <1>7, <1>8, <1>9, <1>10 DEF ControllerInv

LEMMA SetTeamPreserves ==
  ASSUME ControllerInv, NEW team \in Teams, NEW slots \in [Slots -> TeamCard], SetTeam(team, slots)
  PROVE  ControllerInv'
  BY RefillTeam DEF SetTeam

LEMMA ClearTeamPreserves ==
  ASSUME ControllerInv, NEW team \in Teams, ClearTeam(team)
  PROVE  ControllerInv'
<1>1. [i \in Slots |-> EmptySlot] \in [Slots -> TeamCard]
  BY SlotTypes
<1>2. QED
  BY <1>1, SetTeamPreserves DEF ClearTeam

\* A refresh of a table that is up to date changes nothing.
LEMMA RefreshPreserves ==
  ASSUME ControllerInv, NEW team \in Teams, RefreshTeam(team, teams[team]),
         UNCHANGED <<profileVars, teams, target, listVars, page, torn>>
  PROVE  ControllerInv'
<1>0. TypeOK /\ DerivedFromProfile
  BY DEF ControllerInv
<1>1. rendered' = rendered
  BY <1>0 DEF RefreshTeam, DerivedFromProfile, TypeOK
<1>2. UNCHANGED vars
  BY <1>1 DEF vars
<1>3. QED
  BY <1>2 DEF ControllerInv, TypeOK, DerivedFromProfile, EventModeFits, PageShowsProfile,
              SlotsShowInInputs, ListRightUnlessMoved, vars, profileVars, derivedVars, listVars

LEMMA TypeTeamCardPreserves ==
  ASSUME ControllerInv, NEW team \in Teams, NEW i \in Slots, NEW typed \in TeamCard,
         TypeTeamCard(team, i, typed)
  PROVE  ControllerInv'
<1> DEFINE slot == IF typed.card \in Owned(profile) THEN typed ELSE EmptySlot
           slots == [teams[team] EXCEPT ![i] = slot]
           inputs == [page.inputs[team] EXCEPT ![i] = typed]
<1>0. TypeOK /\ SlotsShowInInputs /\ DerivedFromProfile
  BY DEF ControllerInv
<1>1. page \in PageType /\ page.inputs \in [Teams -> [Slots -> TeamCard]]
      /\ teams \in [Teams -> [Slots -> TeamCard]]
  BY <1>0 DEF TypeOK, PageType
<1>2. slot \in TeamCard /\ (slot.card # NoCard => slot = typed)
  BY SlotTypes
<1>3. slots \in [Slots -> TeamCard] /\ inputs \in [Slots -> TeamCard]
  BY <1>1, <1>2
<1>4. teams' = [teams EXCEPT ![team] = slots]
  BY <1>1 DEF TypeTeamCard
<1>5. page' = [page EXCEPT !.inputs[team] = inputs]
  BY <1>1 DEF TypeTeamCard, PageType
<1>6. UNCHANGED <<profileVars, target, listVars, torn>>
  BY DEF TypeTeamCard
<1>7. RefreshTeam(team, slots)
  <2>1. CASE slot = teams[team][i]
    <3>1. slots = teams[team]
      BY <1>1, <2>1
    <3>2. rendered' = rendered
      BY <2>1 DEF TypeTeamCard
    <3> HIDE DEF slots
    <3>3. QED
      BY <1>0, <3>1, <3>2 DEF RefreshTeam, DerivedFromProfile
  <2>2. CASE slot # teams[team][i]
    BY <2>2 DEF TypeTeamCard
  <2>3. QED
    BY <2>1, <2>2
<1>8. \A j \in Slots : slots[j].card # NoCard => inputs[j] = slots[j]
  <2> SUFFICES ASSUME NEW j \in Slots, slots[j].card # NoCard PROVE inputs[j] = slots[j]
    OBVIOUS
  <2>1. CASE j = i
    BY <1>1, <1>2, <2>1
  <2>2. CASE j # i
    BY <1>0, <1>1, <2>2 DEF SlotsShowInInputs
  <2>3. QED
    BY <2>1, <2>2
<1> HIDE DEF slot, slots, inputs
<1>9. QED
  BY <1>3, <1>4, <1>5, <1>6, <1>7, <1>8, RefillTeam

LEMMA BuildPreserves ==
  ASSUME ControllerInv, NEW team \in Teams, BuildTeam(team) \/ BuildOrClear(team)
  PROVE  ControllerInv'
<1>1. BuiltTeams \subseteq [Slots -> TeamCard]
  BY DEF BuiltTeams
<1>2. CASE BuildTeam(team)
  BY <1>1, <1>2, SetTeamPreserves, RefreshPreserves DEF BuildTeam
<1>3. CASE BuildOrClear(team)
  BY <1>1, <1>3, SetTeamPreserves, ClearTeamPreserves DEF BuildOrClear
<1>4. QED
  BY <1>2, <1>3
-----------------------------------------------------------------------------
(***************************************************************************)
(* The theorems.                                                           *)
(***************************************************************************)
LEMMA InitHolds == Init => ControllerInv
<1> SUFFICES ASSUME Init PROVE ControllerInv
  OBVIOUS
<1>1. proto \in ProfileProto /\ profile \in CardMap /\ proto.cards = profile
      /\ proto.event = NoEvent /\ proto.excludedLeads = {}
      /\ \A c \in Cards : profile[c] = "absent"
  BY DEF Init, ProfileProto, CardMap, CardStates
<1>2. teams \in [Teams -> [Slots -> TeamCard]] /\ \A t \in Teams, i \in Slots : teams[t][i] = EmptySlot
  BY SlotTypes DEF Init
<1>3. page \in PageType
  BY <1>2 DEF Init, PageType
<1>4. filter \in Filter
  BY DEF Init, Filter
<1>5. /\ eventBonus = [event |-> NoEvent, offset |-> 0] /\ offset = 0 /\ proto.useOld = FALSE
      /\ eventBonus \in BonusType /\ page.useOld = FALSE /\ leads = {} /\ estimatorMode = "multi" /\ target = FALSE
      /\ rendered = [t \in Teams |-> Rendering(teams[t], profile, eventBonus, "multi", FALSE)]
      /\ visible = Cards /\ moved = {} /\ torn = FALSE
      /\ filter.attrs = Attrs /\ filter.owned = FALSE
      /\ page.owned = {} /\ page.enabled = {} /\ page.trained = {} /\ page.event = NoEvent
      /\ page.leads = Characters
  BY DEF Init, BonusType, Offsets
<1>6. rendered \in [Teams -> RenderingType]
  <2>1. ASSUME NEW t \in Teams
        PROVE  Rendering(teams[t], profile, eventBonus, "multi", FALSE) \in RenderingType
    <3>1. teams[t] \in [Slots -> TeamCard] /\ "multi" \in Mode
      BY <1>2 DEF Mode
    <3>2. QED
      BY <1>1, <1>5, <3>1, RenderingTyped
  <2>2. QED
    BY <1>5, <2>1
<1>7. TypeOK
  BY <1>1, <1>2, <1>3, <1>4, <1>5, <1>6 DEF TypeOK, Mode, Offsets
<1>8. DerivedFromProfile
  <2>1. BonusEvent(NoEvent) = NoEvent
    BY DEF BonusEvent
  <2>2. AllowedLeads(leads) = AllowedLeads(Characters \ proto.excludedLeads)
    BY <1>1, <1>5 DEF AllowedLeads
  <2>3. QED
    BY <1>1, <1>5, <2>1, <2>2 DEF DerivedFromProfile, OffsetOf
<1>9. EventModeFits
  BY <1>1 DEF EventModeFits
<1>10. PageShowsProfile
  BY <1>1, <1>5 DEF PageShowsProfile, Owned, Trained
<1>11. SlotsShowInInputs
  BY <1>2, SlotTypes DEF SlotsShowInInputs
<1>12. ListRightUnlessMoved
  BY <1>5, ControllerAssumption DEF ListRightUnlessMoved, Eval
<1>13. QED
  BY <1>7, <1>8, <1>9, <1>10, <1>11, <1>12 DEF ControllerInv

LEMMA NextPreserves == ControllerInv /\ [Next]_vars => ControllerInv'
<1> SUFFICES ASSUME ControllerInv, [Next]_vars PROVE ControllerInv'
  OBVIOUS
<1>0. proto \in ProfileProto
  BY DEF ControllerInv, TypeOK
<1>1. CASE UNCHANGED vars
  BY <1>1 DEF ControllerInv, TypeOK, DerivedFromProfile, EventModeFits, PageShowsProfile,
              SlotsShowInInputs, ListRightUnlessMoved, vars, profileVars, derivedVars, listVars
<1>2. ASSUME NEW c \in Cards, ToggleOwned(c) PROVE ControllerInv'
  BY <1>2, SetCardsOwnedPreserves DEF ToggleOwned
<1>3. ASSUME NEW state \in BOOLEAN, SetVisibleOwned(state) PROVE ControllerInv'
  <2>1. visible \in SUBSET Cards
    BY DEF ControllerInv, TypeOK
  <2>2. QED
    BY <1>3, <2>1, SetCardsOwnedPreserves DEF SetVisibleOwned
<1>4. ASSUME NEW c \in Cards, SetCardTrained(c) PROVE ControllerInv'
  BY <1>4, SetCardTrainedPreserves
<1>5. ASSUME NEW attr \in Attrs, SetAttrFilterState(attr) PROVE ControllerInv'
  BY <1>5, SetAttrFilterStatePreserves
<1>6. CASE SetOwnedCardsFilterState
  BY <1>6, SetOwnedCardsFilterStatePreserves
<1>7. ASSUME NEW event \in Events \cup {NoEvent}, SetEventBonusByEvent(event) PROVE ControllerInv'
  BY <1>7, SetEventBonusByEventPreserves
<1>8. ASSUME NEW char \in Characters, SetLeadConstraint(char) PROVE ControllerInv'
  BY <1>8, SetLeadConstraintPreserves
<1>18. CASE SetUseOldSubunitlessBonus
  BY <1>18, SetUseOldSubunitlessBonusPreserves
<1>9. ASSUME NEW p \in Imports, ImportProfile(p) PROVE ControllerInv'
  BY <1>9, ImportsAssumption, ImportProfilePreserves
<1>10. ASSUME NEW p \in Imports, ImportCardsFromCsv(p) PROVE ControllerInv'
  <2>1. [proto EXCEPT !.cards = p.cards] \in ProfileProto
    BY <1>0, ImportsAssumption DEF ProfileProto
  <2>2. QED
    BY <1>10, <2>1, ImportProfilePreserves DEF ImportCardsFromCsv
<1>11. CASE SetTargetPoints
  BY <1>11, SetTargetPointsPreserves
<1>12. ASSUME NEW t \in Teams, NEW i \in Slots, NEW typed \in TeamCard, TypeTeamCard(t, i, typed)
       PROVE  ControllerInv'
  BY <1>12, TypeTeamCardPreserves
<1>13. ASSUME NEW t \in Teams, BuildTeam(t) PROVE ControllerInv'
  BY <1>13, BuildPreserves
<1>14. CASE BuildFillTeam \/ BuildParkingTeam
  BY <1>14, ControllerAssumption, BuildPreserves DEF BuildFillTeam, BuildParkingTeam
<1>15. \A c \in Cards, untrained \in BOOLEAN : [card |-> c, untrained |-> untrained] \in TeamCard
  BY DEF TeamCard
<1>16. EmptySlot \in TeamCard
  BY SlotTypes
<1>17. QED
  BY <1>1, <1>2, <1>3, <1>4, <1>5, <1>6, <1>7, <1>8, <1>9, <1>10, <1>11, <1>12, <1>13, <1>14,
     <1>15, <1>16, <1>18 DEF Next

\* ControllerInv is an invariant of every sequence of events of the page.
THEOREM ControllerInvHolds == Spec => []ControllerInv
  BY InitHolds, NextPreserves, PTL DEF Spec

\* Every variable stays in its range.
THEOREM TypeCorrect == Spec => []TypeOK
<1>1. ControllerInv => TypeOK
  BY DEF ControllerInv
<1>2. QED
  BY ControllerInvHolds, <1>1, PTL

\* Only OnProfileUpdate makes a bonus, with the flag as the profile before left it.
LEMMA BonusOfProfileBefore ==
  ASSUME ControllerInv, [Next]_vars, proto' # proto \/ eventBonus' # eventBonus
  PROVE  eventBonus'.offset = OffsetOf(proto)
<1>1. offset = OffsetOf(proto) /\ TypeOK
  BY DEF ControllerInv, DerivedFromProfile
<1>2. ASSUME NEW p, NEW mode, UpdateProfile(p, mode) PROVE eventBonus'.offset = offset
  BY <1>2 DEF UpdateProfile, OnProfileUpdate
<1>3. ~UNCHANGED profileVars /\ ~UNCHANGED vars
  BY DEF profileVars, derivedVars, vars
<1>4. ASSUME NEW set, NEW state, SetCardsOwned(set, state) PROVE eventBonus'.offset = offset
  BY <1>2, <1>4 DEF SetCardsOwned
<1>5. ASSUME NEW p, NEW mode, ChangeProfile(p, mode) PROVE eventBonus'.offset = offset
  BY <1>2, <1>5 DEF ChangeProfile
<1>6. ASSUME NEW p, ImportProfile(p) PROVE eventBonus'.offset = offset
  BY <1>2, <1>6 DEF ImportProfile
<1>7. ASSUME NEW f, UpdateCardListVisibilities(f) PROVE FALSE
  BY <1>3, <1>7 DEF UpdateCardListVisibilities
<1>8. ASSUME NEW team, NEW slots, SetTeam(team, slots) PROVE FALSE
  BY <1>3, <1>8 DEF SetTeam
<1>9. ASSUME NEW team, BuildTeam(team) \/ BuildOrClear(team) PROVE FALSE
  BY <1>3, <1>8, <1>9 DEF BuildTeam, BuildOrClear, ClearTeam
<1>10. ASSUME NEW t, NEW i, NEW typed, TypeTeamCard(t, i, typed) PROVE FALSE
  BY <1>3, <1>10 DEF TypeTeamCard
<1>11. ASSUME NEW c \in Cards, ToggleOwned(c) \/ SetCardTrained(c) PROVE eventBonus'.offset = offset
  BY <1>3, <1>4, <1>5, <1>11 DEF ToggleOwned, SetCardTrained
<1>12. ASSUME NEW state \in BOOLEAN, SetVisibleOwned(state) PROVE eventBonus'.offset = offset
  BY <1>4, <1>12 DEF SetVisibleOwned
<1>13. ASSUME NEW attr \in Attrs, SetAttrFilterState(attr) PROVE FALSE
  BY <1>7, <1>13 DEF SetAttrFilterState
<1>14. ~SetOwnedCardsFilterState /\ ~SetTargetPoints
  BY <1>3, <1>7 DEF SetOwnedCardsFilterState, SetTargetPoints
<1>15. ASSUME NEW event \in Events \cup {NoEvent}, SetEventBonusByEvent(event)
       PROVE  eventBonus'.offset = offset
  BY <1>5, <1>15 DEF SetEventBonusByEvent
<1>16. ASSUME SetUseOldSubunitlessBonus \/ \E char \in Characters : SetLeadConstraint(char)
       PROVE  eventBonus'.offset = offset
  BY <1>5, <1>16 DEF SetUseOldSubunitlessBonus, SetLeadConstraint
<1>17. ASSUME NEW p \in Imports, ImportProfile(p) \/ ImportCardsFromCsv(p)
       PROVE  eventBonus'.offset = offset
  BY <1>6, <1>17 DEF ImportCardsFromCsv
<1>18. ~BuildFillTeam /\ ~BuildParkingTeam
  BY <1>9 DEF BuildFillTeam, BuildParkingTeam
<1>19. QED
  BY <1>1, <1>3, <1>9, <1>10, <1>11, <1>12, <1>13, <1>14, <1>15, <1>16, <1>17, <1>18 DEF Next

\* After every event the controller's derived fields and all tables are those of the profile,
\* and the offset in the bonus is that of the profile before the event.
THEOREM NothingGoesStale == Spec => NothingStale
<1>1. ControllerInv /\ ControllerInv' /\ [Next]_vars
        => [/\ DerivedFromProfile'
            /\ proto' # proto \/ eventBonus' # eventBonus => eventBonus'.offset = OffsetOf(proto)]_vars
  <2> SUFFICES ASSUME ControllerInv, ControllerInv', Next
               PROVE  /\ DerivedFromProfile'
                      /\ proto' # proto \/ eventBonus' # eventBonus
                           => eventBonus'.offset = OffsetOf(proto)
    OBVIOUS
  <2>1. DerivedFromProfile'
    BY DEF ControllerInv
  <2>2. QED
    BY <2>1, BonusOfProfileBefore
<1>2. QED
  BY ControllerInvHolds, <1>1, PTL DEF NothingStale, Spec

\* While an event is set, OnProfileUpdate keeps the estimator of its kind.
THEOREM EstimatorFitsEvent == Spec => []EventModeFits
<1>1. ControllerInv => EventModeFits
  BY DEF ControllerInv
<1>2. QED
  BY ControllerInvHolds, <1>1, PTL

\* ResetView and the setters keep the inputs of the page and the profile together.
THEOREM InputsShowProfile == Spec => []PageShowsProfile
<1>1. ControllerInv => PageShowsProfile
  BY DEF ControllerInv
<1>2. QED
  BY ControllerInvHolds, <1>1, PTL

\* SetTeam, ClearTeam and typing keep the slots and their inputs together.
THEOREM InputsShowSlots == Spec => []SlotsShowInInputs
<1>1. ControllerInv => SlotsShowInInputs
  BY DEF ControllerInv
<1>2. QED
  BY ControllerInvHolds, <1>1, PTL

\* UpdateCardListVisibilities, which updates rows by difference, gets every row right whose
\* ownership did not change under the owned filter.
THEOREM ListStaysRight == Spec => []ListRightUnlessMoved
<1>1. ControllerInv => ListRightUnlessMoved
  BY DEF ControllerInv
<1>2. QED
  BY ControllerInvHolds, <1>1, PTL
=============================================================================
