SPECIFICATION Spec
CONSTANTS
  NoId = NoId
  Tenants = {t1, t2}
  Names = {"a", "A", "a!", "a 2"}
  Lower <- MCLower
  SlugOf <- MCSlugOf
  CustomRefs <- MCCustomRefs
  CredNames = {"a", "a!"}
  PayloadNames = {"a"}
  UnitIds = {1, 2, 3}
  HostIds = {1, 2}
  CredIds = {1, 2}
  SourceIds = {1}
  PipeIds = {1}
  PayloadIds = {1, 2, 3}
  Users = {w1}
  JUMP_CHAIN_MAX_DEPTH = 2
  MaxRows = 3
  MaxCopies = 1
SYMMETRY MCSymmetry
INVARIANTS    TokenIsOwn JumpsDirect
CHECK_DEADLOCK FALSE
