SPECIFICATION ServicesSpec
CONSTANTS
  None = None
  Nothing = Nothing
  Absent = Absent
  Device = {1, 2}
  Folder = {1, 2, 3}
  Pdf = {1}
  FolderStart <- MCFolderStart
  FolderScenarios <- MCFolderScenarios
  MaxChanges <- MCMaxChanges
  Item = {1, 2, 3, 4}
  Collection = {1, 2, 3}
  Content = {1, 2, 3, 4, 5}
  Mine = Mine
  Top = Top
  Accounts <- MCAccounts
  Safe <- MCSafe
  PerPage = 2
  ZipThreshold = 2
  MaxRedirects = 1
  Transfers <- MCTransfers
  MaxMoves <- MCMoves
  Account = {"me", "other"}
  Expected = "me"
  Torn = Torn
  Settings <- MCSettings
  First <- InFiles
  Life = 3
  Visits <- MCVisits
  MaxTime <- MCMaxTime
  MaxAttempts <- MCMaxAttempts
  Book = {1, 2}
  Junk = Junk
  Archive = Archive
  Sheet = Sheet
  Blank = Blank
  RootDir <- MCRootDir
  ShelfOf <- MCShelfOf
  TitleOf <- MCTitleOf
  Starts <- MCStarts
  Errands <- MCErrands
  MaxErrands <- MCMaxErrands
  MaxCopies = 3
  Path = {"p1", "elsewhere"}
  Listable = {"p1"}
  Rack = {"f"}
  NoRack = NoRack
  Leaf = {0, 1}
  Nowhere = Nowhere
  Garbled = Garbled
  Days <- MCDays
  MaxActs <- MCMaxActs
  MaxWrites = 3
  ServiceScenarios <- MCServiceScenarios
INVARIANTS
  ServicesTypeOK
  FilesKept
PROPERTIES
  FoldersTravel
  ImportsBring
  SignedInAsMeant
  SignInHeals
  SessionKept
CHECK_DEADLOCK FALSE
