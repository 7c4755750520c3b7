CONSTANTS
    HostPids <- MCHostPids
    Reaper = 1
    Root = 2
    PidModulus = 4
    PidSlots = 4
    Guests <- MCGuests
    First = 2
    Fds <- MCFds
    Descs <- MCDescs
    NGDIR = 1
    WordValues = 2
    Block = 2
    Size = 1
    MaxPos = 2
    H = 2
    D = 12
    F = 4
    G = 14
    EB = 4
    Base = 3
SPECIFICATION MCSpec
INVARIANT DescriptorsSound NamedIsReached IntegersExact StackKept FloatExact StringsExact
PROPERTY SnapshotKept StaleOnlyByDup2
CHECK_DEADLOCK FALSE
