SPECIFICATION AppSpec
CONSTANTS
    TypeVar <- MCTypeVar
    Parameters <- MCParameters
    Default <- MCDefault
    Admitted <- MCAdmitted
    Bases <- MCBases
    Template = {"left", "right"}
    TemplateKey <- MCTemplateKey
    Asked <- CircularAsked
    MaxRegistered = 0
    AnyKey <- CircularAsked
    Closing <- CircularClosing
    MaybeOf <- CircularMaybe
    BestMatch <- CircularMatch
    Arguments <- CircularArguments
    Quiet <- CircularAsked
    Caller = {c1, c2}
    Wrapper <- MCWrapper
    Root = "app"
    Parent <- MCParent
    LevelOf <- MCLevelOf
    Transient = {}
    AsyncTemplate = {}
    TemplateLevel <- MCTemplateLevel
    TemplateLock <- MCTemplateLock
    Needs <- MCNeeds
    BaseLevel <- MCBase
    AsyncBase = {}
    Requests <- CircularAsked
    Served <- CircularServed
    Deployments = {"threads"}
    Nobody = Nobody
    MaxCalls = 1
    MaxFaults = 1
INVARIANTS NoSelfWait
