\* Two threads, which are also the keys of the chain and the branches; half seconds, up to
\* one and a half.
CONSTANTS
  Threads = {t1, t2}
  Keys = {k1}
  Values <- Dictionaries
  MCLifetimes = {0, 1}
  Lifetimes <- WithoutExpiry
  Res = 2
  MaxNow = 3
  None = None
  Absent = None
  ChainKeys = {t1, t2}
  Vals = {v1, v2}
  KeyError = KeyError
  Nothing = Nothing
  Depth = 2
  Elements = {"a", "b", "c"}
  MaxLength = 4
  Texts <- ScannedTexts
  Steps = {0, 1, 2}
  MaxIndex = 5
  RuleSets <- Grammars
  TextLength = 2
  MaxRecursion = 4
  MaxScopes = 1
  Branches = {t1, t2}
  RemoteNames = {"origin", "fork"}
  Urls = {"u"}
  FileTexts = {"x", "y"}
  MaxCommits = 2
  Modules = {"a", "b"}
  Collected <- Collections
  MaxTime = 2
  MaxEdits = 2
  Options <- BuildOptions
SPECIFICATION LibrarySpec
SYMMETRY LibrarySymmetry
INVARIANTS
  CacheTypeOK
  
  
  ModulesAreComplete
  
PROPERTIES
  LoadedIsAlive
  ExpungeKeepsLoadable
  WrittenInClockOrder
  UpdatesAreLostToOverlapOnly
  
  
CHECK_DEADLOCK FALSE
