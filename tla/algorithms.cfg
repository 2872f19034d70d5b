SPECIFICATION Spec
CHECK_DEADLOCK FALSE
CONSTANTS Bases = {1}  MaxExponent = 10  Compact = 2  Greatest = 10000  DoubleBytes = 2
    Points = {0, 1, 2, 3, 4, 5, 6}  Heights <- SmallHeights
INVARIANTS DiffAgreesWithHistory GluedIsTheLimit ObstructionIsReal DimsAreForced ProofsBind NothingAffectedIsForgotten ParserFollowsTheGrammar StreamIsWhole FormulaSurvives PavingCovers RpcSurvives
