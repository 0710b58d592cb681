SPECIFICATION MCSpec
CONSTANTS
    NoTenant = NoTenant
    NoJS = NoJS
    Broken = {"bad"}
    Missing = {"miss"}
    True = {"hit", "miss"}
    Clients = {"c1"}
    Tenants = {"t1", "t2"}
    Contexts = {"t1", "t2"}
    ExplicitIds = {"d"}
    Names = {"amqp", "http"}
    Subscribable = {"amqp"}
    Exprs = {"hit", "miss", "bad", "empty"}
    NoExpr = "empty"
    Emits = {{"x"}, {"x", "y"}}
    Scripts = {NoJS}
    Configs = {1, 2}
    MaxRules = 2
    MaxOps = 4
    Strict = TRUE
    Tenant = "t1"
    Handled = {1, 2}
    Topics = {"x", "y"}
    DriverNames = {"amqp", "kafka", "http"}
    WorkerSubscribable = {"amqp", "kafka"}
    Urls = {"u1", "u2"}
    Prefixes = {""}
    NoPrefix = ""
    MaxChanges = 2
    Paths <- SomePaths
    Values <- SomeValues
    Needles <- SomeNeedles
INVARIANTS
    EngineCurrent
    OwnDriver
    HeardUnlessChanged
    HandlerAndDriverAgree
    MatchesAsWritten
PROPERTIES
    MatchingKept
CHECK_DEADLOCK FALSE
