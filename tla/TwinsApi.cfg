CONSTANTS
    MAX_TWINS = 2
    MAX_VARS_PER_TWINS = 2
    Ids = {0, 1, 2}
    MaxUpdates = 2
    MaxRequests = 2
SPECIFICATION Spec
INVARIANTS TypeOK OkComesWithItsData AnswersAreAboutTheTwin DeleteHolds
PROPERTIES EveryRequestAnswered StopsAtNextRequest
CHECK_DEADLOCK FALSE
