SPECIFICATION CrashSpec
CONSTANTS
    MaxPages <- MCMaxPages
    Slots = 2
    None = None
    MaxCrashes = 1
PROPERTY OnlyGivenNodesChange
