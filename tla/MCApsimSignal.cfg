CONSTANTS
    Sigs <- MCSigs
    Handlers <- MCHandlers
    Masks <- MCMasks
    HMasks <- MCHMasks
    Kerns <- MCKerns
    MaxRaise <- MCMaxRaise
SPECIFICATION Spec
CHECK_DEADLOCK FALSE
INVARIANTS
    TypeOK
    NoDoubleHandling
    HostMirror
PROPERTIES
    MaskDiscipline
    UnblockedIsHandled
