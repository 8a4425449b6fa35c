SPECIFICATION Spec
CONSTANTS
  a1 = a1
  a2 = a2
  k1 = k1
  k2 = k2
  Args = {a1, a2}
  Mine = {a2}
  Limit = 1
  ChunkSize = 2
  Clicks = {k1, k2}
  Bounds <- MCBounds
  None = None
  Unknown = Unknown
CONSTRAINT Calm
INVARIANTS TypeOK ShowsUrl StrandedOnlyIf StarOnlyIf
PROPERTY AnnouncedShown
