\* What the document says of step2_live_targets.
SPECIFICATION Spec
CONSTANTS
  Listings <- MCListings
  MaxAttempts = 2
  MaxRestarts = 1
  TaskFiles <- MCTaskFiles
  Exports <- MCExports
  MaxTargets = {0, 1, 2, 4}
INVARIANT LiveTargetsAreCounted
