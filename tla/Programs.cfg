SPECIFICATION Spec
CONSTANTS
  HttpPosts = 3
  HttpWindow = 2
  HttpBreaks = 1
  HttpQueued = 1
  TxClients = {"c1", "c2"}
  TxRequests = 2
  TxCrashes = 2
  TxRefusals = 1
  TxWithheld = 1
  DsCallers = {"c1", "c2"}
  DsExamples = {"c3"}
  DsRequests = 2
  DsStarts = 2
  LsReceivers = {"r1", "r2"}
  LsTotal = 3
  LsCredit = 2
  LsPartings = 1
  RpcClients = {"c1", "c2"}
  RpcRequests = 2
  ConStock = 2
  ConCommands = 5
  JmsListeners = {1, 2}
  JmsProducers = 2
  JmsMessages = 4
  JmsBatch = 3
  JmsWarmups = {0, 2, 4}
  RateTotal = 3
  RateExpected = 3
  RateCredit = 2
  RateBreaks = 2
  QConsumers = {"c1", "c2", "c3"}
  QLength = 4
  QCredit = 2
  FoNodes = {"n1", "n2"}
  FoNone = "none"
  FoTotal = 3
  FoExpected = 3
  FoCredit = 2
  FoBreaks = 2
  RoleBrokers = 2
  RoleEdits = 3
\* The programs end.
CHECK_DEADLOCK FALSE
INVARIANTS
  AnswersMatch
  NothingForgotten
  AnsweredOnce
  ConfirmedWereAccepted
  NothingTwice
  CommandsTakeEffect
  LessThanTwoBatches
  CountsAreHonest
  ComputesDispatch
  EvenRounds
  OneNodeIgnoresDuplicates
  PlaysAreSafe
PROPERTIES
  ProgramsEnd
