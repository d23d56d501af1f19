SPECIFICATION Spec
CONSTANTS
    Dev = {d1, d2}
    Lba = {s1, s2}
    Data = {0, 1}
    Zero = 0
    NoDev = NoDev
    NSlots = 2
    Dma = TRUE
SYMMETRY Symmetric
INVARIANT NoAlias
