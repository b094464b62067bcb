SPECIFICATION Spec
CONSTANTS
    W = 12
    Threshold = 2
    Sizes = {2, 12}
    Tags = {1}
    MaxPages = 3
    ClearLinks = FALSE
PROPERTY ChainsNotShared
