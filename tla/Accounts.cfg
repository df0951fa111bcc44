SPECIFICATION Spec
CONSTANTS
  g1 = g1
  Browsers = {b1, b2}
  Groups = {g1}
  TenantIds = {1, 2}
  UserIds = {1, 2}
  Legacy <- MCLegacy
  NoId = NoId
  MaxEdits = 2
  Switchable = {2}
  MaxFlights = 1
SYMMETRY MCSymmetry
INVARIANTS SessionsSound 
 
CHECK_DEADLOCK FALSE
