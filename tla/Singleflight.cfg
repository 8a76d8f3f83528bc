SPECIFICATION Spec
CONSTANTS
  Callers = {c1, c2, c3, c4}
  Keys = {k1, k2}
  NoCall = NoCall
  NoKey = NoKey
INVARIANTS TypeOK Coalesced
PROPERTIES JoinsOnlyCurrentWaves DetachedOnlyByItsOwnEnd EveryWaveFinishes
