SPECIFICATION Spec
CONSTANTS
  e1 = e1
  e2 = e2
  m1 = m1
  m2 = m2
  None = None
  Device = {1, 2}
  Entry = {e1}
  Meta = {m1, m2}
  FileMeta = m1
  Importer <- MCAnyImporter
  Now = {0, 2}
  Scenarios <- MCSafetyScenarios
  MaxEdits = 2
  MaxOps = 3
INVARIANTS
  TypeOK
  CursorCovered
  PushedOnce
  SnapshotSound
  AvailableHasFile
PROPERTIES
  EditPrevails
  ImplementsOpLog
CHECK_DEADLOCK FALSE
