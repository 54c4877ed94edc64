\* Every event of the page, in any order.
CONSTANTS
  Cards = {c1}
  DualSkill = {c1}
  Attrs = {"cute"}
  AttrOf <- MCAttrOf
  Characters = {"miku", "rin"}
  Events = {"carnival", "marathon"}
  Carnivals = {"carnival"}
  Foreign = {"foreign"}
  NoEvent = "none"
  Teams = {1, 2}
  FillTeam = 1
  ParkingTeam = 2
  SlotsPerTeam = 1
  NoCard = NoCard
  Imports <- MCImports
SPECIFICATION Spec
INVARIANTS
  EventModeFits
  PageShowsProfile
  SlotsShowInInputs
  ListRightUnlessMoved
PROPERTY NothingStale
