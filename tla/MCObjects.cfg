CONSTANTS
    Links <- MCLinks
    Round = 4
    Page = 8
    Origin1 = 6
    Sources <- MCSources
    Source <- MCSource
    Modes <- MCModes
    Digits <- MCDigits
    Files <- MCFiles
    MaxVersion = 2
    MaxMembers = 3
    MaxRuns = 4
SPECIFICATION MCSpec
INVARIANT ObjectMeansSource RoundTrip LinkSound
PROPERTY LabelsStay SearchComplete  ArchiveAsAsked
CHECK_DEADLOCK FALSE
