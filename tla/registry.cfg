SPECIFICATION FairSpec
CONSTANTS
  dft = dft
  a = a
  n1 = n1
  n2 = n2
  None = None
  Deleted = Deleted
  Device = {1, 2}
  Library = {dft, a}
  Default = dft
  Name = {n1, n2}
  FirstName = n1
  Scenarios <- MCScenarios
  MaxEdits <- MCMaxEdits
  Slots <- MCSlots
INVARIANTS
  TypeOK
  NoSpuriousDeletion
PROPERTIES
  NothingLost
  Convergence
CHECK_DEADLOCK FALSE
