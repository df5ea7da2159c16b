\* Three invocations, at any distance in time.
CONSTANTS
  Runs = {r1, r2, r3}
  CandidateFiles <- MCCandidateFiles
  Stock <- MCStock
SYMMETRY RunSymmetry
SPECIFICATION Spec
INVARIANTS
  LoneRunIsWhole
  SyncInv
  UnreadableHasCause
PROPERTY SettledSamplesStay
