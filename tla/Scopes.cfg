SPECIFICATION Spec
CONSTANTS
    Levels = {1, 2, 3, 4}
    OtherLevel = 7
    Default = Default
    Slot <- MCSlot
    Args <- MCArgs
    SlotLevel <- MCSlotLevel
    Cached = {"config", "session", "work", "captive"}
    Specialised = {"page", "captive", "session"}
    MaxNodes = 6
    MaxBlocks = 3
INVARIANTS ReferencesEnclose MandatoryLevelsOpen AllClosed ResolvesWhereOpen WrappersOpenTheSame
