SPECIFICATION Spec
CONSTANTS
  dft = dft
  a = a
  n1 = n1
  n2 = n2
  None = None
  Deleted = Deleted
  Device = {1, 2}
  Library = {dft, a}
  Default = dft
  Name = {n1, n2}
  FirstName = n1
  Scenarios <- MCRevivals
  MaxEdits <- MCThree
  Slots <- MCSlots
PROPERTIES
  TombstonesKept
CHECK_DEADLOCK FALSE
