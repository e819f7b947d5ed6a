SPECIFICATION Spec
CONSTANTS
  NONE = NONE
  u1 = u1
  u2 = u2
  m1 = m1
  m2 = m2
  Calls = {u1, u2}
  Items = {"i1", "i2"}
  Papers <- MCPapers
  Pool <- MCPool
  PublishedItems = {"i1", "i2"}
  Limits <- MCLimits
  MaxTime = 1
  MaxEvents = 3
  Reviewed = {"i1"}
  Syncs = {u1, u2}
  Intervals <- MCIntervals
  MaxAnswers = 3
  MaxDays = 1
  Txs = {u1, u2}
  Models = {m1, m2}
  Candidates = {"a", "b"}
  Weeks = {"w1"}
  Params <- MCParams
  LastDay = 2
  MaxRows = 3
  Bands <- MCBands
  Voices <- MCVoices
  Texts = {"short", "long", "odd"}
  Unspeakable = {"odd"}
  MaxJobs = 2
  Listeners = {"l1"}
  MaxPlays = 2
  Total = 2
  TwoStars = 6
  ThreeStars = 9
  MaxMoves = 7
  Movers = {u1, u2}
  MaxTransitions = 4
  Issued = {"cert"}
  Exporters = {u1, u2}
  Answers = {"a", "b"}
  Scores = {1}
  MaxExports = 3
  Speakers = {u1, u2}
  Sayings = {"short", "long", "odd"}
  Unclean = {"odd"}
  SpokenTokens = 2
  MaxOut = 1
  Limit = 3
  Capacity = 1
  MaxCalls = 4
  Switchers = {u1, u2}
  Versions = {"a", "b", "c"}
  MaxMoment = 2
  MaxSwitches = 4
  Starters = {u1, u2}
  Orders <- MCOrders
SYMMETRY Callers
INVARIANTS AnswersBacked RebuildCounts LedgersSound ListeningHonest LeftOnCertificate MigrationsReversible SpentBounded AudioAccounted AnswersTrue
PROPERTIES EndedStays SyncRestores PastKept
CHECK_DEADLOCK FALSE
