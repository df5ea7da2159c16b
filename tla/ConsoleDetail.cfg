\* A task of the backend and one of the mocks, two visits, any trouble.
SPECIFICATION FairConsoleSpec
CONSTANTS
    Requests = {r1}
    MockTasks = {m1}
    Troubles = {"unreachable", "invalid"}
    MaxVisits = 2
    PrivateFields = {"engine_private_note"}
    Numerals <- MCNumerals
    Bodies <- MCBodies
    ScanDetails <- MCScanDetails
    Outputs <- MCOutputs
INVARIANTS
    PageShowsItsTask
    AnswersAreOfTheVisit
    PayloadsAreReadable
PROPERTIES
    PartsNeverGoBack
    LoadingEnds
CHECK_DEADLOCK FALSE
