SPECIFICATION Spec
CONSTANTS
  NoId = NoId
  n1 = n1
  n2 = n2
  t1 = t1
  t2 = t2
  g1 = g1
  p1 = p1
  p2 = p2
  Forms <- MCForms
  Tenants = {t1, t2}
  Names = {n1, n2}
  SlugOf <- MCSlugOf
  DeptIds = {1, 2}
  Groups = {g1}
  People = {p1, p2}
  Joiners = {p1}
  Lines <- MCLines
  ChainDepth = 2
  Handlers = {h1, h2}
  MaxRequests = 3
  MaxMoves = 2
INVARIANTS MembersExact DepartmentsSound NoGhostCards
 
CHECK_DEADLOCK FALSE
