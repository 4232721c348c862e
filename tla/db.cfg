SPECIFICATION Spec
CONSTANTS
  MaxBufs = 3
INVARIANT LostOnlyByRace
