---------------------------- MODULE TeamProblem ----------------------------
(***************************************************************************)
(* What a call of TeamBuilder::RecommendTeams is asked: a pool of cards,   *)
(* the teams that can be formed from it, and the numbers the estimator and *)
(* the constraints attach to each team.  The searches (EventTeamBuilder)   *)
(* and what they promise (TeamSearch) are stated over this vocabulary.     *)
(*                                                                         *)
(* A team has TeamSize cards of pairwise different characters (5 in the    *)
(* code).  Characters are numbered by their place in sorted_char_ids, and  *)
(* cards by their place in the pool, so that a sub-pool is a set of cards  *)
(* and the index of a card in a vector is the number of cards before it.   *)
(***************************************************************************)
EXTENDS Integers, FiniteSets

CONSTANTS
  TeamSize,   (* cards in a team: the 5 of Combinations<int, 5>              *)
  NumChars,   (* playable characters                                         *)
  Cards,      (* the pool, by position                                       *)
  CharOf,     (* character of a card                                         *)
  LowRarity,  (* the cards of one to three stars                             *)
  SkipLowValThresh, (* EventTeamBuilder::Options::skip_low_val_cards_thresh  *)
  Problems    (* the problem instances considered                            *)

Slots == 1 .. TeamSize
Chars == 1 .. NumChars

(***************************************************************************)
(* The character sets that Combinations<int, 5> visits: each set once, as  *)
(* the increasing tuple of positions in sorted_char_ids.                   *)
(***************************************************************************)
Combos == {c \in [Slots -> Chars] : \A i, j \in Slots : i < j => c[i] < c[j]}

CharsOf(d) == [i \in Slots |-> CharOf[d[i]]]
Decks == {d \in [Slots -> Cards] : CharsOf(d) \in Combos}
CardsOf(d) == {d[i] : i \in Slots}

\* PartitionCardPoolByCharacters of the whole pool.
OrigPools == [c \in Chars |-> {x \in Cards : CharOf[x] = c}]

(***************************************************************************)
(* A problem instance gives                                                *)
(*   ep, lo, hi    the expected points of a team under its best admissible *)
(*                 leader, and the entry of the estimator's lookup table   *)
(*                 its power and bonus fall in;                            *)
(*   leadOk        the teams whose leader's skill reaches min_lead_skill;  *)
(*   hasLeadSkill  whether there is a min_lead_skill at all;               *)
(*   satisfying    the character sets that meet the character constraints; *)
(*   pruneAt       for each card, the least score at which ShouldPrune     *)
(*                 drops it;                                               *)
(*   minEp         Options::min_ep.                                        *)
(***************************************************************************)
ProblemType ==
  [ep : [Decks -> Nat], lo : [Decks -> Nat], hi : [Decks -> Nat],
   leadOk : SUBSET Decks, hasLeadSkill : BOOLEAN, satisfying : SUBSET Combos,
   pruneAt : [Cards -> Nat], minEp : Nat]

Eligible(p) == {d \in p.leadOk : CharsOf(d) \in p.satisfying}

(***************************************************************************)
(* What the estimator and the pruning criterion owe the search: a lookup   *)
(* entry brackets the points of every team in its bucket, a card is        *)
(* dropped only when no eligible team that contains it scores more than    *)
(* the score it was dropped for, and without a min_lead_skill every leader *)
(* is acceptable.                                                          *)
(***************************************************************************)
SoundProblem(p) ==
  /\ p \in ProblemType
  /\ \A d \in Decks : p.lo[d] <= p.ep[d] /\ p.ep[d] <= p.hi[d]
  /\ \A d \in Eligible(p) : \A i \in Slots : p.ep[d] <= p.pruneAt[d[i]]
  /\ ~p.hasLeadSkill => p.leadOk = Decks

(***************************************************************************)
(* RemoveLowValCards may drop every low rarity card from a pool of more    *)
(* than SkipLowValThresh cards (a threshold of 0 never does): the teams    *)
(* the answer is owed over are the others.                                 *)
(***************************************************************************)
MayDropLowValue == SkipLowValThresh > 0 /\ Cardinality(Cards) > SkipLowValThresh

Scope(p) ==
  {d \in Eligible(p) : MayDropLowValue => CardsOf(d) \cap LowRarity = {}}

(***************************************************************************)
(* Team d need not be looked at again once the best score known is e.      *)
(* Without a min_lead_skill the search takes a team at the lower bound of  *)
(* its bucket (event_team_builder.cc:262), so only the bound is beaten.    *)
(***************************************************************************)
Beaten(p, d, e) ==
  /\ p.lo[d] <= e
  /\ p.hasLeadSkill => p.ep[d] <= e

NoTeam == <<>>     \* std::nullopt

ASSUME ProblemAssumption ==
  /\ TeamSize \in Nat \ {0}
  /\ NumChars \in Nat
  /\ IsFiniteSet(Cards) /\ Cards \subseteq Nat
  /\ CharOf \in [Cards -> Chars]
  /\ LowRarity \subseteq Cards
  /\ SkipLowValThresh \in Nat
  /\ \A p \in Problems : SoundProblem(p)
=============================================================================
