SPECIFICATION Spec
CONSTANTS
    BASE_LAYER_BR = 1164
    ENHA_LAYER_BR <- Layers4
    Algs = {4}
    Views <- TwoViews
    Adjacent <- Next4
    PixelsOf <- Pixels
    Samples = {900, 1500, 1700, 3000}
    TimeLeft <- LateToEarly
INVARIANTS
    OptimalForView
