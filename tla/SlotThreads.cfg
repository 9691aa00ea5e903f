SPECIFICATION FairSpec
CONSTANTS
    Task = {t1, t2}
    Thread = {t1, t2}
    ThreadOf <- OwnThread
    Scope <- MCScope
    Root = "app"
    NoScope = "none"
    LevelOf <- MCLevelOf
    ScopeRef <- MCScopeRef
    Slot <- ChainSlot
    Args <- ChainArgs
    SlotLevel <- ChainLevel
    Cached = {"config", "repo", "work"}
    AsyncProvider = {}
    LockModeOf <- ChainMode
    Nobody = Nobody
    MaxCalls = 2
    MaxFaults = 1
INVARIANTS TypeOK OneInstancePerScope SharedWiring LockOrder NoLockLeft
PROPERTIES LocksKeepPromise CallsReturn
