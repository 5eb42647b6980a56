SPECIFICATION FairSpec
CONSTANTS
    NO_SEG = 3
    SD = 1
    Tiles = {1}
    EL_VER_NUM = 1
    SlowLink = FALSE
    BASE_BUFF_THRES = 2
    Algs = {5}
    Views <- OneTile
    Adjacent <- Alone
    MaxResets = 0
PROPERTIES
    BufferingFinishedPlays
