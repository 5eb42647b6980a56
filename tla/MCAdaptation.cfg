SPECIFICATION Spec
CONSTANTS
    BASE_LAYER_BR = 1164
    ENHA_LAYER_BR <- Layers4
    Algs = {1, 2, 3, 4, 5, 6, 7, 8, 9, 10, 11, 12, 13}
    Views <- TwoViews
    Adjacent <- Next4
    PixelsOf <- Pixels
    Samples = {900, 1500, 1700, 3000}
    TimeLeft <- LateToEarly
INVARIANTS
    AdaptationTypeOK
    RequestsOffered
    WithinBudget
    NothingLeftOut
    WindowComesDown
VIEW ReadView
