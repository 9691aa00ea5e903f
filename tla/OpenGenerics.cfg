SPECIFICATION FairSpec
CONSTANTS
    TypeVar <- MCTypeVar
    Parameters <- MCParameters
    Default <- MCDefault
    Admitted <- MCAdmitted
    Bases <- MCBases
    Template <- MCTemplate
    TemplateKey <- MCTemplateKey
    Asked <- MCAsked
    MaxRegistered = 3
    AnyKey <- MCKeys
    Closing <- MCClosing
    MaybeOf <- MCMaybe
    BestMatch <- MCMatch
    Arguments <- MCArguments
    Quiet <- MCQuiet
    Caller = {c1, c2}
    Wrapper <- MCWrapper
    Root = "app"
    Parent <- MCParent
    LevelOf <- MCLevelOf
    Transient = {"page"}
    AsyncTemplate = {"feed"}
    TemplateLevel <- MCTemplateLevel
    TemplateLock <- MCTemplateLock
    Needs <- MCNeeds
    BaseLevel <- MCBase
    AsyncBase <- MCAsyncBase
    Requests <- MCRequests
    Served <- MCServed
    Deployments = {"threads", "tasks"}
    Nobody = Nobody
    MaxCalls = 1
    MaxFaults = 1
INVARIANTS RegistryServes WiredWithinScope
PROPERTIES ImplementsPromise CallsReturn
