SPECIFICATION TxnSpec
CONSTANTS
    Dev = {hda}
    Lba = {1, 2}
    Data <- MCData
    Zero <- MCZero
    Rec <- MCRec
    Val <- MCVal
    NoDev = NoDev
    NSlots = 1
    Dma = FALSE
    MaxEntries = 2
    MaxRmw = 2
    Faulty = FALSE
INVARIANT CrashAtomic
