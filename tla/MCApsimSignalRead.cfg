CONSTANTS
    Sigs <- HostSigs
    Handlers <- MCHandlers
    Masks <- HostMasks
    HMasks <- HostMasks
    Kerns <- MCKerns
    MaxRaise <- HostMaxRaise
SPECIFICATION Spec
CHECK_DEADLOCK FALSE
PROPERTIES
    ReadDelivers
