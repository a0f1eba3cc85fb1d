CONSTANTS
    MaxJobs = 1
    MaxManual = 1
    MaxEdits = 1
    MaxCrashes = 1
SPECIFICATION FairSpec
INVARIANTS
    TypeOK
    SlotIsTheRun
    EditsSurvive
    InputSparesTheUsersRuns
PROPERTIES
    StopMeansStop
    DueStarts
