SPECIFICATION FairSpec
CONSTANTS
    Length = 4
    Reports = {1, 3}
    Copy = 2
    Relays = {1, 4}
    SendRoom = 2
    MaxBytes = 7
INVARIANTS QueuedOnce Delivered FitsUnlessShort
PROPERTIES Returns
