---------------------------- MODULE MCController ----------------------------
(***************************************************************************)
(* A card with two skills, two lead boxes, a carnival, another event and   *)
(* an event of another server, two tables of one slot.                     *)
(***************************************************************************)
EXTENDS Controller

MCAttrOf == [c \in Cards |-> "cute"]
MCImport(state, event, useOld, excluded) ==
  [cards |-> [c \in Cards |-> state], event |-> event, useOld |-> useOld,
   excludedLeads |-> excluded]
MCImports ==
  {MCImport("untrained", NoEvent, FALSE, {}), MCImport("trained", "foreign", TRUE, Characters),
   MCImport("absent", "carnival", TRUE, {"miku"})}
=============================================================================
