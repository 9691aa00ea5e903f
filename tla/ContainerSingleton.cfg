SPECIFICATION Spec
CONSTANTS
    repo = repo  db = db  box = box  audit = audit  retry = retry
    Name <- MCName
    Concrete = {repo, db, box}
    Generic = {}
    DepsOf <- MCDepsOf
    Decorator <- MCDecorator
    Wants <- MCWants
    Decorates <- MCDecorates
    NoChain = NoChain
    None = None
    Thread = {t1, t2}
    Registrar = {}
    Opener = {t1}
    Contract = {}
    Unstable = {}
    Kind = {"instance", "generator"}
    MaxCalls = 2
    MaxRules = 2
INVARIANTS SingletonKept
