SPECIFICATION Spec
CONSTANTS
  p1 = p1
  a1 = a1
  Pages = {p1}
  Attachments = {a1}
  Parent <- MCParent
  Titles = {ta, tb}
  Poller = poller
  Users = {}
  MaxVersion = 2
  MaxFailures = 2
 
PROPERTIES Reconciled
