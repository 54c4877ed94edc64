\* Two tabs, two profiles, two copies under way.
CONSTANTS
  Tabs = {t1, t2}
  Profiles = {blank, edited}
  Blank = blank
  NoFile = NoFile
  NoTab = NoTab
  MaxSyncs = 2
SPECIFICATION Spec
INVARIANTS
  StoreFollowsFile
  StoreWasAsked
