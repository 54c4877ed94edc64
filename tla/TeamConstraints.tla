-------------------------- MODULE TeamConstraints --------------------------
(***************************************************************************)
(* sekai/team_builder/constraints.cc: what a Constraints object holds and  *)
(* what it is asked: which character sets are admissible, which characters *)
(* of a set may lead, and which cards may be used.                         *)
(***************************************************************************)
EXTENDS Integers, FiniteSets, Sequences, Functions

CONSTANTS
  MaxChar,     (* playable characters: bits 1 to 26 of Character             *)
  TeamSize,    (* cards in a team                                            *)
  Pool,        (* cards: two versions of a card share its id                 *)
  KizunaPairs, (* the pairs of characters asked for                          *)
  MinSkills,   (* the values min_lead_skill is set to                        *)
  Rarities     (* the rarities that can be excluded                          *)

CharIds == 1 .. MaxChar
Card == [id : Nat, char : CharIds, skill : Nat \ {0}, rarity : Rarities]

ASSUME ConstraintsAssumption ==
  /\ MaxChar \in Nat \ {0} /\ TeamSize \in Nat \ {0}
  /\ Pool \subseteq Card
  /\ \A p \in KizunaPairs : p \subseteq CharIds /\ Cardinality(p) = 2
  /\ MinSkills \subseteq Nat

ConstraintsType ==
  [leads : SUBSET CharIds, pairs : Seq(KizunaPairs), minSkill : Nat,
   rarities : SUBSET Rarities, empty : BOOLEAN]

Unconstrained ==
  [leads |-> {}, pairs |-> <<>>, minSkill |-> 0, rarities |-> {}, empty |-> TRUE]
-----------------------------------------------------------------------------
(***************************************************************************)
(* The object.                                                             *)
(***************************************************************************)
\* (Without the minimal skill.)
EmptyButSkill(c) ==
  [c EXCEPT !.empty = /\ c.leads = {} \/ Cardinality(c.leads) = MaxChar
                      /\ c.pairs = <<>> /\ c.rarities = {}]

UpdateEmpty(c) ==
  [c EXCEPT !.empty = /\ c.leads = {} \/ Cardinality(c.leads) = MaxChar
                      /\ c.pairs = <<>> /\ c.minSkill = 0 /\ c.rarities = {}]

\* (Every pair is kept.)
KeepsAnyPair(c, pair) == TRUE

\* A pair no admissible leader belongs to is dropped.
KeepsPair(c, pair) == pair \cap c.leads # {}

\* What the setters keep true of an object (ConstraintsProofs).
SoundObject(c) ==
  /\ c \in ConstraintsType
  /\ c = UpdateEmpty(c)
  /\ \A pair \in Range(c.pairs) : pair \cap c.leads # {}

CharacterSetSatisfies(c, chars) ==
  \/ c.empty
  \/ /\ c.leads # {} => c.leads \cap chars # {}
     /\ c.pairs # <<>> => \E pair \in Range(c.pairs) : pair \subseteq chars

\* GetCharactersEligibleForLead.
EligibleLeads(c, chars) ==
  LET leads == IF c.empty \/ c.leads = {} THEN CharIds ELSE c.leads
  IN  IF c.pairs = <<>> THEN leads
      ELSE leads \cap UNION {pair \in Range(c.pairs) : pair \subseteq chars}

FilterCardPool(c) == {card \in Pool : card.rarity \notin c.rarities}
=============================================================================
