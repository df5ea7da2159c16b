\* What api-contract.md says of contract-invalid responses.
SPECIFICATION ConsoleSpec
CONSTANTS
    Requests = {r1}
    MockTasks = {m1}
    Troubles = {"invalid"}
    MaxVisits = 1
    PrivateFields = {"engine_private_note"}
    Numerals <- MCNumerals
    Bodies <- MCBodies
    ScanDetails <- MCScanDetails
    Outputs <- MCOutputs
INVARIANTS
    InvalidStaysVisible
CHECK_DEADLOCK FALSE
