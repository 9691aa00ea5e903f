SPECIFICATION Spec
CONSTANTS
    repo = repo  db = db  box = box  audit = audit  retry = retry
    Name <- MCName
    Concrete = {repo, db}
    Generic = {box}
    DepsOf <- MCDepsOf
    Decorator <- MCDecorator
    Wants <- MCWants
    Decorates <- MCDecorates
    NoChain = NoChain
    None = None
    Thread = {t1, t2}
    Registrar = {t1}
    Opener = {t1}
    Contract = {repo, box}
    Unstable = {}
    Kind = {"instance", "generator"}
    MaxCalls = 2
    MaxRules = 2
INVARIANTS DecoratedInOrder RootIsCurrent ContractsKept CleanupFlagsExact
PROPERTIES MissingIsJustified
