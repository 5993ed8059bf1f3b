SPECIFICATION ChainFairSpec
CONSTANT NodeNum = 5
INVARIANTS AnswersRepresentative
PROPERTY CallsReturn
CHECK_DEADLOCK FALSE
