SPECIFICATION Spec
CONSTANTS
    Task = {main, child}
    Main = main
    None = None
    MaxLevel = 2
    MaxOps = 5
    MaxChanges = 1
INVARIANTS ContextFollowsBlocks ScopesGivenBack CallsDeepEnough
