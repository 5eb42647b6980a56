SPECIFICATION PlayerSpec
CONSTANTS
    NO_SEG = 3
    SD = 2
    Tiles = {t1}
    EL_VER_NUM = 1
    SlowLink = FALSE
INVARIANTS
    StartedHasVersions
