SPECIFICATION Spec
CONSTANTS
  MaxGens = 3
  Revs = {r1, r2}
  NoRev = NoRev
  MaxStops = 1
  Slots = {s1, s2}
INVARIANT TypeOK
INVARIANT StopExcludesAttempts
INVARIANT StopRoutesNothingKnown
INVARIANT EffectiveOfLatest
INVARIANT UnreferencedSameRevision
PROPERTY RefinesChain
SYMMETRY Symmetry
CHECK_DEADLOCK FALSE
