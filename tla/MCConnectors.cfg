SPECIFICATION Spec
CONSTANTS
  Calls = {"c1"}
  Refs <- MCRefs
  Instants = {"t1"}
  Models <- MCModels
  Price <- MCPrice
  Null = Null
  MaxOutput = 2
  MaxRestarts = 1
  Sources = {"s1"}
  Batches <- MCBatches
  MaxCopies = 2
INVARIANTS
  HeadersAreHonest
  CostsAreWhatWasSaid
  SummariesAnswerForAll
PROPERTIES
  FirstReportStands
  GoodRecordsGetThrough
CHECK_DEADLOCK FALSE
