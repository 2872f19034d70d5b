SPECIFICATION OSpec
CHECK_DEADLOCK FALSE
CONSTANTS
  NaN = NaN  MaxDepth = 2  MaxProbes = 1
  Workbooks <- MCWorkbooks  Limits <- MCLimits
INVARIANTS AnswerIsFresh LoweringEncloses ResponseIsWritten EveryOutputIsCertified
