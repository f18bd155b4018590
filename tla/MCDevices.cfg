SPECIFICATION MCSpec
CONSTANTS
    Sectors = 3
    Batch = 2
    MaxReads = 3
    RingCount = 3
    MaxFrames = 4
    MaxSends = 3
    Irq = {0, 1, 7, 8, 15}
    Driven = {0, 1}
    Proc = {p}
    Fd = {3, 4}
    Archives <- MCArchives
    NodeLimit = 4
    Images <- MCImages
    Bad <- MCBad
    MountLimit = 3
    ReadLimit = 2
INVARIANTS
    DiskReadsExact
    CardSound
    PicSound
    ImportRight
    NamespaceExact
    ReadsInOrder
PROPERTY
    DmaUndisturbed
\* The drivers stop at a bound, or for good after a fault; a boot may panic.
CHECK_DEADLOCK FALSE
