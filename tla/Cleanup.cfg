SPECIFICATION Spec
CONSTANTS
    Depth = 3
    Paths = {"field", "generator", "async"}
    Keepers = {"resolver", "wrapped", "wrapper"}
    LateAllowed = TRUE
    MaxResources = 3
    MaxCloses = 2
INVARIANTS CleanedOnce EveryCleanupTaken CleanupOrder 
