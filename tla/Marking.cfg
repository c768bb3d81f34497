\* Three attempts of two students, two versions, two answer rows.
SPECIFICATION Spec
CONSTANTS
  NumStudents = 2
  Budget <- MCBudget
  Paces <- MCPaces
  Shared = {1}
  Watched <- MCWatched
  Workers = {w1}
  Inputs <- MCInputs
  Files <- MCFiles
  Responses <- MCResponses
  Texts <- MCTexts
  Normalized <- MCNormalized
  ParsedFloat <- MCParsedFloat
  Null = Null
  Inherit = Inherit
  NaN = NaN
  NotANumber = NotANumber
  NotReleased = NotReleased
  Error = Error
  NotFound = NotFound
  NotGraded = NotGraded
  w1 = w1
  DefaultPoints = 1
  DefaultPenalty = 1
  MaxPoints = 2
  MaxImportRows = 2
  TopN = 1
  MaxQuestions = 2
  MaxVersion = 2
  MaxOpen = 1
  MaxRows = 2
  MaxTaken = 2
INVARIANTS
  KeyEarnsPoints
  StandingsAgree
  StatsIncludeStudents
  ReadsAgree
CHECK_DEADLOCK FALSE
