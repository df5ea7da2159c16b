\* What api-contract.md says of a pending task.
SPECIFICATION Spec
CONSTANTS
    Requests = {r1}
    Details <- MCDetails
    Faults = {}
INVARIANTS
    PendingMeansNotStarted
