SPECIFICATION TxnSpec
CONSTANTS
    Dev = {hda}
    Lba = {1, 2}
    Data <- MCData
    Zero <- MCZero
    Rec <- MCRec
    Val <- MCVal
    NoDev = NoDev
    NSlots = 1
    Dma = FALSE
    MaxEntries = 1
    MaxRmw = 1
    Faulty = TRUE
INVARIANT JournalClosed
