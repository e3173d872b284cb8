SPECIFICATION Spec
CONSTANTS
  Clients = {c1, c2}
  Texts = {1, 2}
  Sensitive = {2}
  MaxOps = 4
SYMMETRY Symmetry
INVARIANTS
  TypeOK
  RevisionsReadable
  HistoryIsLinear
  LinksServe
  NothingLeaks
PROPERTIES
  PublishedWasCurrent
CHECK_DEADLOCK FALSE
