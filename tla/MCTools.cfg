CONSTANTS
  Callers = {"c1", "c2"}
  Ids = {"s1", "s2"}
  RETENTION_DAYS = 1
  Ages = {2}
  Days = 3
  MaxEntries = 2
  Names = {"n1"}
  Facts = {"f1", "f2"}
  Scopes = {"shared", "private"}
  Skill = {"n1", "n2", "n3"}
  Spellings = {"Dev", "dev", "Home"}
  Folded <- Lower
  Given = {"x"}
  Files = {"n1", "n2"}
  Modes = {"replace"}
  Fetched = {1}
  MAX_WRITE = 1
  QUOTA = 2
  MaxSize = 2
  MaxLate = 2
  Calls = {"c1"}
  OwnRoles = {"viewer"}
  GroupRoles = {"admin"}
  DefaultRoles = {"user"}
  Overrides = {None}
  MaxEdits = 1
  Odd = Odd
  Agents = {"a1", "a2"}
  Caps = {"x", "y"}
  Shown = 2
  MaxTasks = 3
  Written <- TwoParts
  MaxFields = 1
  Formats = {"pdf"}
  Octet = "octet-stream"
  Polls = 3
  Protocols = {"v1", "v2"}
  Offered = "v2"
  MaxIds = 2
  Window = 2
  MaxOutput = 4
  Paths = {"p1", "p2"}
  Parts = 2
  Missing = Missing
  Torn = Torn
  None = None
  NoAgent = NoAgent
SPECIFICATION Spec
INVARIANTS
  TypeOK
  CheckpointKept
  NotedIsKept
  CategoriesNotSplit
  CredentialsKept
  OvershootBounded
  RunAsPermitted
  OwnScopeOnly
  PolicyIntact
  FirstComeInClass
  DueAsListed
  PrintedOnce
  JustWorks
  AnswerIsTrue
  OkIsTaken
  ReportFindsListener
  StaysInSession
PROPERTIES
  TransferredWhole
  ScanEnds
  LoopStops
  AnsweredIfItFits
