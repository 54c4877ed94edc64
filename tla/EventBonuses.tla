---------------------------- MODULE EventBonuses ----------------------------
(***************************************************************************)
(* What an event adds to the points of a team (event_bonus.cc), and the    *)
(* versions of the world bloom rules (config.cc).                          *)
(*                                                                         *)
(* Bonuses are in hundredths of a percent.  The bonus of a character       *)
(* depends on the card's attribute and unit: a cell <<char, attr, unit>>   *)
(* of the deck table holds the greatest rate granted to it.                *)
(***************************************************************************)
EXTENDS Cards

CONSTANTS
    Events,           \* the rows of the master database, by event id
    MasterRankRates,  \* rate by rarity and master rank
    DiffAttrRates,    \* rate by number of attributes
    SupportTeamSize,  \* support_team_size by version: 12, 20, 25
    MaxTeamPower      \* max_team_power of version 3: 336000

kDefaultBonusRate == 2500
kDefaultCardBonusRate == 2000
kSubunitlessOffset == 1000   \* of the old rules: 10 percent
kDefaultWorldBloomVersion == 3
kWorldBloomVersionCutoffs == {152, 198}
Cells == Chars \X Attrs \X Units
NoCards == [id \in CardIds |-> 0]

\* A row grants its rate to a character or to an attribute, and the tables have
\* a rate for every master rank and for every number of attributes.
ASSUME EventDataAssumption ==
    /\ IsFiniteSet(CardIds) /\ CardIds \subseteq Nat
    /\ TeamSize \in Nat \ {0} /\ MaxTeamPower \in Nat
    /\ \A id \in CardIds :
         /\ <<CardTable[id].char, CardTable[id].attr, PrimaryUnit(id)>> \in Cells
         /\ CardTable[id].rarity \in Rarities
    /\ \A e \in DOMAIN Events :
         /\ IsFiniteSet(Events[e].deck)
         /\ \A row \in Events[e].deck : row.rate \in Int /\ (row.char # 0 \/ row.attr # "NONE")
         /\ \A id \in DOMAIN Events[e].cards : Events[e].cards[id] \in Nat
    /\ MasterRankRates \in [Rarities -> [1..(kMasterRankMax + 1) -> Nat]]
    /\ \A n \in 0..TeamSize : DiffAttrRates[n] \in Nat

-----------------------------------------------------------------------------
(* The rules of the support deck.  A table has a row for each rarity; its  *)
(* columns are the master ranks from 0 and the skill levels from 1.        *)

V1 == [char |-> 500, card |-> 0, cards |-> {}, capped |-> FALSE,
       mr |-> <<<<100, 110, 120, 130, 140, 150>>, <<200, 220, 240, 260, 280, 300>>,
                <<300, 330, 360, 390, 420, 450>>, <<1000, 1050, 1100, 1150, 1200, 1250>>,
                <<500, 540, 580, 620, 660, 700>>>>,
       sl |-> <<<<0, 5, 20, 50>>, <<0, 10, 40, 100>>, <<0, 15, 60, 150>>, <<0, 25, 100, 250>>,
                <<0, 20, 80, 200>>>>]
V2 == [char |-> 500, card |-> 2000, capped |-> FALSE,
       cards |-> (785..788) \cup (848..851) \cup (884..887) \cup (921..924) \cup (961..964)
                   \cup (979..984),
       mr |-> <<<<50, 60, 60, 70, 70, 80>>, <<100, 120, 120, 130, 140, 150>>,
                <<200, 230, 240, 260, 280, 300>>, <<750, 800, 850, 900, 950, 1000>>,
                <<500, 540, 580, 620, 660, 700>>>>,
       sl |-> <<<<0, 5, 10, 30>>, <<0, 10, 20, 50>>, <<0, 15, 40, 100>>, <<0, 25, 100, 250>>,
                <<0, 20, 80, 200>>>>]
V3 == [char |-> 500, card |-> 2000, capped |-> TRUE,
       cards |-> V2.cards \cup (1151..1154) \cup (1169..1172) \cup (1185..1192)
                   \cup (1218..1221) \cup (1235..1240),
       mr |-> <<<<50, 60, 60, 70, 70, 80>>, <<100, 120, 120, 130, 140, 150>>,
                <<150, 180, 190, 210, 230, 250>>, <<700, 750, 800, 850, 900, 950>>,
                <<450, 490, 530, 670, 610, 650>>>>,
       sl |-> V2.sl]

Versions == 1..3
GetWorldBloomConfig(version) == CASE version = 1 -> V1 [] version = 2 -> V2 [] version = 3 -> V3
ASSUME SupportAssumption == \A version \in Versions : SupportTeamSize[version] \in Nat

GetWorldBloomVersion(event) == 1 + Cardinality({k \in kWorldBloomVersionCutoffs : event > k})

-----------------------------------------------------------------------------
(* Who is granted what.                                                    *)

Grants(chars, attrs, units, rate) ==
    [cell : chars \X attrs \X units, rate : {rate}]
IsVs(char) == CharUnit[char] = "VS"
Subunitless(char, attrs, rate) == IF IsVs(char) THEN Grants({char}, attrs, {"VS"}, rate) ELSE {}

PopulateAttrBonus(attr, rate) ==
    UNION {Grants({c}, {attr}, IF IsVs(c) THEN Units ELSE {CharUnit[c]}, rate) : c \in Chars}
PopulateCharBonus(char, unit, rate, offset) ==
    Grants({char}, Attrs, {unit}, rate) \cup Subunitless(char, Attrs, rate - offset)
PopulateAttrCharBonus(char, unit, attr, rate, offset) ==
    Grants({char}, {attr}, {unit}, rate) \cup Subunitless(char, {attr}, rate - offset)
Deck(grants) ==
    [cell \in Cells |-> Max({0} \cup {g.rate : g \in {h \in grants : h.cell = cell}})]

-----------------------------------------------------------------------------
(* The bonus of the support deck of a chapter.                             *)

CharacterAllowedForSupport(b, char, unit) ==
    IF b.unit = "VS" THEN IsVs(char) ELSE unit = b.unit

\* The chapter character's own bonus is the same with every subunit.
SupportUnitEventBonus(chapterChar, version) ==
    LET config == GetWorldBloomConfig(version)
    IN [kind |-> "support", unit |-> CharUnit[chapterChar],
        deck |-> Deck(Grants({chapterChar}, Attrs,
                             IF IsVs(chapterChar) THEN Units ELSE {CharUnit[chapterChar]},
                             config.char)),
        cards |-> [id \in CardIds |->
          IF id \in config.cards /\ CardTable[id].char = chapterChar THEN config.card ELSE 0],
        mr |-> config.mr, sl |-> config.sl]

NoSupport == [kind |-> "none"]

-----------------------------------------------------------------------------
(* The bonus of an event.                                                  *)

MainBonus(grants, cards, mr, hasDiff, support) ==
    [kind |-> "main", deck |-> Deck(grants), cards |-> cards, mr |-> mr,
     hasDiff |-> hasDiff, support |-> support]
NoRates == [r \in Rarities |-> [k \in 1..(kMasterRankMax + 1) |-> 0]]
NoBonus == MainBonus({}, NoCards, NoRates, FALSE, NoSupport)

GrantOf(row, offset) ==
    CASE row.char # 0 /\ row.attr # "NONE" ->
           PopulateAttrCharBonus(row.char, row.unit, row.attr, row.rate, offset)
      [] row.char # 0 /\ row.attr = "NONE" -> PopulateCharBonus(row.char, row.unit, row.rate, offset)
      [] row.char = 0 /\ row.attr # "NONE" -> PopulateAttrBonus(row.attr, row.rate)

\* An event of the database, or a chapter of it.  An unknown event has no bonus.
EventBonusById(event, chapter, version, offset) ==
    IF event \notin DOMAIN Events THEN NoBonus
    ELSE MainBonus(UNION {GrantOf(row, offset) : row \in Events[event].deck},
                   [id \in CardIds |-> IF id \in DOMAIN Events[event].cards
                                       THEN Events[event].cards[id] ELSE 0],
                   MasterRankRates, Events[event].type = "WORLD_BLOOM",
                   IF chapter > 0
                   THEN SupportUnitEventBonus(Events[event].chapters[chapter], version)
                   ELSE NoSupport)

\* An event put together by the user.
SimpleGrants(simple, offset) ==
    (IF simple.attr = "NONE" THEN {} ELSE PopulateAttrBonus(simple.attr, kDefaultBonusRate))
      \cup UNION {LET unit == IF cu.unit = "NONE" THEN CharUnit[cu.char] ELSE cu.unit
                  IN PopulateCharBonus(cu.char, unit, kDefaultBonusRate, offset)
                       \cup (IF simple.attr = "NONE" THEN {}
                             ELSE PopulateAttrCharBonus(cu.char, unit, simple.attr,
                                                        2 * kDefaultBonusRate, offset))
                  : cu \in simple.chars}
EventBonusBySimple(simple, version, offset) ==
    MainBonus(SimpleGrants(simple, offset),
              [id \in CardIds |-> IF id \in simple.cards THEN kDefaultCardBonusRate ELSE 0],
              MasterRankRates, simple.attr = "NONE" /\ simple.chapterChar > 0,
              IF simple.chapterChar > 0
              THEN SupportUnitEventBonus(simple.chapterChar, version) ELSE NoSupport)

-----------------------------------------------------------------------------
(* Cards under an event bonus.                                             *)

CardCell(c) == <<CardTable[c.id].char, CardTable[c.id].attr, PrimaryUnit(c.id)>>
MainBonusOf(c, b) ==
    b.cards[c.id] + b.deck[CardCell(c)] + b.mr[CardTable[c.id].rarity][c.state.masterRank + 1]
SupportBonusOf(c, b) ==
    IF b.kind = "none" \/ ~CharacterAllowedForSupport(b, CardTable[c.id].char, PrimaryUnit(c.id))
    THEN 0
    ELSE MainBonusOf(c, b) + b.sl[CardTable[c.id].rarity][c.state.skillLevel]

ApplyToCard(c, b) ==
    [c EXCEPT !.eventBonus = MainBonusOf(c, b), !.supportBonus = SupportBonusOf(c, b.support)]

\* Ties are left to the order of a hash map: the id stands for it.
BetterSupport(c, d) ==
    \/ c.supportBonus > d.supportBonus
    \/ c.supportBonus = d.supportBonus /\ (c.id < d.id \/ (c.id = d.id /\ d.second /\ ~c.second))
GetSortedSupportPool(pool) ==
    LET cards == {c \in pool : c.supportBonus > 0}
    IN [k \in 1..Cardinality(cards) |->
          CHOOSE c \in cards : Cardinality({d \in cards : BetterSupport(d, c)}) = k - 1]

ApplyEventBonus(profile, b) ==
    LET cards == [id \in DOMAIN profile.cards |-> ApplyToCard(profile.cards[id], b)]
    IN [profile EXCEPT !.cards = cards,
          !.secondary = [id \in DOMAIN profile.secondary |-> ApplyToCard(profile.secondary[id], b)],
          !.support = GetSortedSupportPool(Range(cards))]
=============================================================================
