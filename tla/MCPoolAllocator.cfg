\* one chain: 3 slots per pool across two 2-bit words, batches of 4 pools as in the code
CONSTANTS W = 2  NumBlk = 3  BATCH = 4  MaxPools = 9  MaxOps = 16  MapMayFail = TRUE  NoSlot = NoSlot
SPECIFICATION Spec
INVARIANTS TypeOK NumFreeMatchesBitmap IssuedMatchesBitmap LowestBitCorrect
PROPERTY AbsSpec
