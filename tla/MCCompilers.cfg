CONSTANTS
    Inputs <- MCInputs
    Files <- MCFiles
    Main <- MCMain
    Dirs <- MCDirs
    Bufsiz = 3
    MaxInc = 10
    MaxSteps = 60
    Symsiz = 20
    MaxLines = 4
    Names <- MCNames
    Hash <- MCHash
    HSHSIZ = 4
    Kinds <- MCKinds
    MaxDepth = 2
    MaxEvents = 4
    Functions <- MCFunctions
    Source <- MCSource
    Answers <- MCAnswers
    EventsCompared = 6
    Texts <- MCTexts
    SSIZE = 20
    Declarators <- MCDeclarators
    Structures <- MCStructures
    Initialized <- MCInitialized
    Sources <- MCSources
    Contents <- MCContents
    Exprs <- MCExprs
    LSTSIZ = 5
    Bits = 6
    Conditions <- MCConditions
    Switches <- MCSwitches
    WordValues = {0, 1, 31, 32, 63}
    Programs <- MCPrograms
    Routine <- MCRoutine
    Calls <- MCMemory
    RegsTracked <- MCRegs
    Reach = 12
    LastSeg = ""
    Fuel = 12
SPECIFICATION MCSpec
INVARIANT OutputMeansSource DeclarationsHold JumpsArrive ExpressionsKept Improves
CHECK_DEADLOCK FALSE
