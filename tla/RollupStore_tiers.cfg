SPECIFICATION Spec
CONSTANTS
  Minute = 2
  Direct = 2
  RawWindow = 2
  Grace = 2
  Width <- MCWidth
  Labels = {"a"}
  Values = {1}
  Cutoffs <- MCNoCutoffs
  Stamps <- MCStamps
  MaxTime = 10
  MaxWrites = 3
  MaxBatch = 1
  MaxRestarts = 1
INVARIANT MinuteExact
INVARIANT WindowExact
INVARIANT CoarseComposed
PROPERTY SealedOnce
