SPECIFICATION Spec

CONSTANTS
  MaxNums = 4  Squares = {"first", "second"}  TakeFirst = 2
  MaxIds = 3  Limits = {0, 1, 2}
  FanWorkers = {1, 2, 3}
  Urls <- MCUrls  Pollers = {1, 2}  MaxErrors = 1  NoUrl = "none"
  JobWorkers = {1, 2, 3}  MaxSignals = 2
  Requests = {1, 2, 3}
  RetryLimits <- MCRetryLimits
  EchoMessages = 3
  Books = 3  Matching = 2
  NumJobs = 5  NumWorkers = 2

INVARIANTS
  PipelineResultsFit
  GroupResultsFit
  OneAnswerEach
  OneOwner
  CleanMeansDrained
  TablesFit
  GetJSONResultFits

PROPERTIES
  PolledForEver
  ProgramsEnd

\* A program that has returned does nothing more; ProgramsEnd says which may stop where.
CHECK_DEADLOCK FALSE
