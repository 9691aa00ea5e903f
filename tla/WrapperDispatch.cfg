SPECIFICATION Spec
CONSTANTS
    Caller = {c1, c2}
    Child = {w1}
    Root = Root
    Dependency = {"repo", "mailer", "keyed"}
    Slotted = {"repo", "mailer"}
    None = None
    Unset = Unset
    MaxCalls = 2
INVARIANTS SyncAnswers AsyncAnswersOnOneLoop HotPairsWhole
