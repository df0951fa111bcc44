SPECIFICATION Spec
CONSTANTS
  h1 = h1
  h2 = h2
  dosm = dosm
  d1 = d1
  d2 = d2
  Hosts = {h1, h2}
  Source <- MCSource
  Server = dosm
  Requests <- MCRequests
  Ports = {22}
  Cap = 1
  MaxScans = 2
  MaxRows = 4
  MaxTasks = 2
  MaxEdits = 1
  MaxFaults = 1
INVARIANTS ScansSound CompletedIsChecked
 
CHECK_DEADLOCK FALSE
