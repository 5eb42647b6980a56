SPECIFICATION Spec
CONSTANTS
    NO_SEG = 6
    SD = 2
    Tiles = {1}
    EL_VER_NUM = 2
    SlowLink = FALSE
    BASE_BUFF_THRES = 4
    Algs = {3, 5}
    Views <- OneTile
    Adjacent <- Alone
    MaxResets = 1
INVARIANTS
    IterationAccounting
    EnhancementOnTopOfBase
    StopsOnlyWhenComplete
VIEW ControlView
