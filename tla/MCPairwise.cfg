SPECIFICATION PairSpec
CONSTANTS
    MAX_SKIPPED_PER_SESSION = 1
    MAX_SKIPPED_ACCOUNT = 1
    Beside = FALSE
    OneTime = {TRUE, FALSE}
    Requesters = {2}
    MaxSent <- Talkative
    MaxVolatile = 1
CHECK_DEADLOCK FALSE
INVARIANT OpenedOnce
INVARIANT KeyUsedOnce
INVARIANT RatchetInStep
 
