SPECIFICATION FairSpec
CONSTANTS
    NO_SEG = 3
    SD = 1
    Tiles = {1, 2}
    EL_VER_NUM = 1
    SlowLink = TRUE
    BASE_BUFF_THRES = 3
    Algs = {2, 5}
    Views <- TurningHead
    Adjacent <- NextToIt
    MaxResets = 0
PROPERTIES
    IterationEnds
    AllBaseLayersArrive
    PlaybackCompletes
