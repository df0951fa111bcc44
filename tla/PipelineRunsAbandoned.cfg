SPECIFICATION Spec
CONSTANTS
  t1 = t1
  t2 = t2
  r1 = r1
  r2 = r2
  Targets = {t1, t2}
  Runs = {r1}
  Handlers = {h1}
  None = None
  Sites <- MCOctopus
  Seen <- MCSeen
  MaxLooks = 2
  AgeRuns = {r1}
PROPERTIES AbandonedEnds
