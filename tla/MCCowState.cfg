\* Two members in one key group; two events; two snapshots per process life.
SPECIFICATION FairSpec
CONSTANTS
  g1 = g1
  Member = {m1, m2}
  KeyGroup = {g1}
  KeyGroupOf <- MCKeyGroupOf
  KgRef = {k1, k2}
  MsRef = {r1, r2, r3, r4}
  Nil = Nil
  NoImage = NoImage
  Torn = Torn
  MaxSeq = 2
  MaxEpoch = 2
VIEW Collected
INVARIANT TypeOK FileIsACut
PROPERTY FrozenUntouched CloneOnlyShared ImplementsAtomicSnapshot SnapshotEnds ShutdownTerminates
CHECK_DEADLOCK FALSE
