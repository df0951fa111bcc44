SPECIFICATION Spec
CONSTANTS
  t1 = t1
  t2 = t2
  r1 = r1
  r2 = r2
  Targets = {t1, t2}
  Runs = {r1, r2}
  Handlers = {h1, h2}
  None = None
  Sites <- MCSites
  Seen <- MCSeen
  MaxLooks = 2
  AgeRuns = {r2}
INVARIANTS  RowsSound
PROPERTIES LockFreed
