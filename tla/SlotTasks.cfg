SPECIFICATION FairSpec
CONSTANTS
    Task = {t1, t2}
    Thread = {"loop"}
    ThreadOf <- SharedLoop
    Scope <- MCScope
    Root = "app"
    NoScope = "none"
    LevelOf <- MCLevelOf
    ScopeRef <- MCScopeRef
    Slot <- LevelSlot
    Args <- LevelArgs
    SlotLevel <- LevelLevel
    Cached = {"config", "work", "captive", "session"}
    AsyncProvider = {"work"}
    LockModeOf <- LevelMode
    Nobody = Nobody
    MaxCalls = 2
    MaxFaults = 1
INVARIANTS OneInstanceOnOneLoop ScopeIsolation
PROPERTIES ImplementsPromise CallsReturn
