SPECIFICATION TxnSpec
CONSTANTS
    Dev = {hda}
    Lba = {1, 2, 3}
    Data <- MCData1
    Zero <- MCZero1
    Rec <- MCRec1
    Val <- MCVal
    NoDev = NoDev
    NSlots = 2
    Dma = FALSE
    MaxEntries = 2
    MaxRmw = 2
    Faulty = FALSE
INVARIANTS CommitApplies CommitReachesDisk
