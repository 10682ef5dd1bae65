SPECIFICATION FairSpec
CONSTANTS
  Clients = {c1}
  Faaslets = {e1, e2}
  MaxCalls = 3
  MaxWaits = 1
  GlobalMessageTimeout = 60000
  ChainedCallTimeout = 500
  Styles <- CallStyles
INVARIANTS
  ResultAccounted
  
PROPERTIES
  AnswersTrue
  CallsEnd
CHECK_DEADLOCK FALSE
