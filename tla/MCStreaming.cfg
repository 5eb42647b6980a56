SPECIFICATION Spec
CONSTANTS
    NO_SEG = 2
    SD = 1
    Tiles = {1, 2}
    EL_VER_NUM = 2
    SlowLink = FALSE
    BASE_BUFF_THRES = 2
    Algs = {1, 2, 3, 4, 5, 6, 9}
    Views <- TurningHead
    Adjacent <- NextToIt
    MaxResets = 0
INVARIANTS
    StreamingTypeOK
    IterationAccounting
    IterationOfOneSegment
    BaseNeverCancelled
    NoChunkTwice
    LayersFromBelow
PROPERTIES
    
    PlayerRefined
VIEW LiveView
