SPECIFICATION InputSpec
CONSTANTS
    Setups <- MCSetups
    RingSize = 2
    Readers = {1, 2}
    HighBytes = {3}
INVARIANTS  NothingLost
PROPERTY ReaderServed
