CONSTANTS
    Runs <- MCRuns
    Missing <- MCMissing
    Crash <- MCCrash
    Background = {TRUE, FALSE}
SPECIFICATION Spec
CHECK_DEADLOCK FALSE
INVARIANTS
    FallsBack
