SPECIFICATION Spec
CONSTANTS
  e1 = e1
  e2 = e2
  m1 = m1
  m2 = m2
  None = None
  Device = {1, 2}
  Entry = {e1}
  Meta = {m1, m2}
  FileMeta = m1
  Importer <- MCOneImporter
  Now = {0}
  Scenarios = {{"import", "edit", "midpass"}}
  MaxEdits = 3
  MaxOps = 5
PROPERTIES
  UnrecordedEditKept
CHECK_DEADLOCK FALSE
