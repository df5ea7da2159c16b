\* Two requests of any type; every injected collaborator may throw; engines may hang.
SPECIFICATION FairSpec
CONSTANTS
    Requests = {r1, r2}
    Details <- MCDetails
    Faults = {"hook", "sink", "mapper", "deriver"}
INVARIANTS
    IInv
    ReadsAgree
    AnswerAccountsForTask
    AssetScanStoredWhole
    LogExplainsRecord
    NoInternalErrors
PROPERTIES
    SettledIsFinal
    ImplementsLifecycle
    OtherRequestsAreAnswered
    EveryRequestIsAnswered
