\* What api-contract.md says of a failed task.
SPECIFICATION RunSpec
CONSTANTS
    Requests = {r1}
    Details <- MCRunDetails
    Faults = {}
INVARIANTS
    EngineFailureIsStored
