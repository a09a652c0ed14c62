SPECIFICATION FairSpec
CONSTANTS
  e1 = e1
  e2 = e2
  m1 = m1
  m2 = m2
  None = None
  Device = {1, 2}
  Entry = {e1}
  Meta = {m1, m2}
  FileMeta = m1
  Importer <- MCOneImporter
  Now = {0}
  Scenarios <- MCQuietScenarios
  MaxEdits = 4
  MaxOps = 9
INVARIANTS
  SkipIsSafe
  NoSpuriousPurge
  BlobBeforeMetadata
PROPERTIES
  ConvergesQuietly
