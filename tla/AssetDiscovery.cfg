\* Up to three seeds of any kind.
SPECIFICATION Spec
CONSTANTS
    Addresses = {"10.0.0.1", "10.0.0.2", "127.0.0.1"}
    Hosts = {"a.example", "b.example", "localhost"}
    Target = "b.example"
    SeedLists <- MCSeedLists
    Known <- MCKnown
    MaxAnswer = 2
INVARIANTS
    AssetsSummariseAnswers
    TargetIsScanned
