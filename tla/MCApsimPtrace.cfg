CONSTANTS
    Kids <- MCKids
    MaxSignals <- MCMaxSignals
    Disciplined = TRUE
SPECIFICATION Spec
CHECK_DEADLOCK FALSE
INVARIANTS
    StoppedIsParked
    NoUnaskedStop
PROPERTIES
    ChannelInStep
    Released
    RequestAnswered
