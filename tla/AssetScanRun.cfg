\* One asset scan beside another request; children may hang.
SPECIFICATION FairRunSpec
CONSTANTS
    Requests = {r1, r2}
    Details <- MCRunDetails
    Faults = {}
INVARIANTS
    RunInv
    RecordTellsExit
    EngineReasonSurvives
PROPERTIES
    ImplementsTaskCenter
    EndedScanIsAnswered
