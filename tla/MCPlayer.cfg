SPECIFICATION PlayerSpec
CONSTANTS
    NO_SEG = 3
    SD = 3
    Tiles = {t1}
    EL_VER_NUM = 1
    SlowLink = FALSE
INVARIANTS
    TypeOK
    BufferConservation
    BufferNeverNegative
    PlayheadBacked
    DeadlineBeforePlayback
    StallAtBoundary
PROPERTIES
    PlaybackKept
