SPECIFICATION MemoSpec
CONSTANTS
    Caller = {c1, c2, c3}
    Dependency = {"repo", "mailer", "handler", "config"}
    Transient = {"repo", "mailer", "handler"}
    Fused = {"handler"}
    None = None
    MaxCalls = 2
INVARIANTS AnswersWithGil
