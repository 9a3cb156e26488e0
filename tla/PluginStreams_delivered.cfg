SPECIFICATION Spec
CONSTANTS Chunks = 2 ChanCap = 1
INVARIANT StreamDelivered
CHECK_DEADLOCK FALSE
