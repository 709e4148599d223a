SPECIFICATION FairSpec
CONSTANTS
    MaxReq = 3
    MaxLoss = 1
    MaxLate = 2
CONSTRAINT ThirdInTime
INVARIANTS
    TypeOK
    AnswerMatches
    RepeatsEarned
PROPERTIES
    CommandAnswered
CHECK_DEADLOCK FALSE
