SPECIFICATION Spec
CONSTANTS
    Unit = {u1, u2, u3}
    Pooled = Pooled
    Slot = {s1, s2}
    MaxResolves = 3
INVARIANTS IsolationWithGil PoolGivenBack AliveWhileOpen CleanedByOwner
SYMMETRY UnitsAndSlots
