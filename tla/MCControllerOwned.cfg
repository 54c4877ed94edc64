\* Cards owned and given up while the list is filtered.
CONSTANTS
  Cards = {c1}
  DualSkill = {c1}
  Attrs = {"cute"}
  AttrOf <- MCAttrOf
  Characters = {"miku", "rin"}
  Events = {"carnival", "marathon"}
  Carnivals = {"carnival"}
  Foreign = {"foreign"}
  NoEvent = "none"
  Teams = {1, 2}
  FillTeam = 1
  ParkingTeam = 2
  SlotsPerTeam = 1
  NoCard = NoCard
  Imports <- MCImports
SPECIFICATION Spec
INVARIANT OwnedCardsOnly
