CONSTANTS
    Kids <- MCKids
    MaxSignals <- MCMaxSignals
    Disciplined = TRUE
SPECIFICATION Spec
CHECK_DEADLOCK FALSE
PROPERTIES
    WaitSeesPlainChild
