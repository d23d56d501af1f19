SPECIFICATION MCSpec
CONSTANTS
    Clusters = {3, 4}
    NSlots = 3
    Names <- MCNames
    Alias <- MCAlias
    LfnCount <- MCLfn
    Handles = {1}
    MaxSize = 2
    Dots = {}
    MaxStale = 0
    NFile = 2
    NProc = 2
    NFds = 2
    Hosts <- MCHosts
    Disks <- MCDisks
    SectorSize = 4
    EntrySize = 2
    DirentSize = 4
    Width = 8
    MaxAlloc = 200
INVARIANTS   TreeTrue AliasUnique RecordsIntact SizeCovered
    RefExact NoDangling GeometrySound
CHECK_DEADLOCK FALSE
