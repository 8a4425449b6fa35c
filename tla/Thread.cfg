SPECIFICATION Spec
CONSTANTS
  c1 = c1
  c2 = c2
  Comments = {c1, c2}
  Own = {c1, c2}
  Parent <- MCParent
  NoParent = NoParent
  Nothing = Nothing
  MaxAsked = 2
  MaxNavs = 1
CHECK_DEADLOCK FALSE
INVARIANTS TypeOK ListOnce MissingOnlyIf
PROPERTIES ListIsReplica DetailIsReplica
