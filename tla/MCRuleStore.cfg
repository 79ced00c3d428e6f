\* Concurrent requests, cache fills, and engine starts over one rule table.
SPECIFICATION FairSpec
CONSTANTS
  Handler = {h1, h2}
  Loader = {l1}
  Ids = {1, 2}
  Nodes <- MCNodes
  Statuses = {0, 1, 2}
  Labels = {"a"}
  SeedRows <- MCSeed
  Patterns <- MCPatterns
  Unset = Unset
  NoWindow = NoWindow
  Idle = Idle
  Missed = Missed
  NoSet = NoSet
  MaxWrites = 3
  MaxFaults = 1
  MaxCrashes = 1
INVARIANT StaleOnlyByOverlap NothingSkipped WindowsCovered
PROPERTY StartsOnceSound
CHECK_DEADLOCK FALSE
