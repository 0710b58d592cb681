SPECIFICATION ServicesSpec
CONSTANTS
    Parts = {"commands"}
    Admins = {a1}
    Hooks = {h1}
    Pubs = {p1}
    None = None
    MaxVersion = 1
    Callers = {"c1", "c2", "c3"}
    Keys = {"k1", "k2"}
    Payloads <- SomePayloads
    Scripts = {"", "js"}
    Installations = {"", "i"}
    Ids = {1, 2, 3}
    Times = {2, 4}
    Contents <- SomeContents
    Filters <- SomeFilters
    Intervals <- SomeIntervals
    Zones = {0, 2}
    PageSize = 1
    MaxWrites = 1
    Tenants = {"", "t1"}
    Hashes = {"h1"}
    InstanceKeys = {"h1", "k"}
    Wires <- SomeWires
    Fallback = "F"
    InstanceAdmins = {1}
    MaxRequests = 2
    Clients = {"cli", "worker"}
    Workers = {"worker"}
    ConfigOf <- TheConfigs
    LoginConfig <- TheLogin
    Lifetimes = {0, 1}
    DefaultLife = 2
    Skew = 1
    Logins = {"s1"}
    LoginLife = 1
    Fresh = 1
    Retry = 1
    MaxTime = 3
    MaxFetches = 2
    Handlers = {"h1", "h2"}
    Events <- SomeEvents
    BaseOf <- BaseOfInstance
    Size = 2
    ClientSkew = 1
    ClientLifetimes = {0, 2}
    ClientMaxTime = 1
    Configs <- AllConfigs
    Calls <- SomeCalls
    MaxCalls = 2
    NoTenant = ""
    NoId = ""
    NoJS = ""
    Broken = {"bad"}
    Missing = {}
    True = {"true"}
    Contexts = {"", "t"}
    StoreIds = {"", "k1", "k2"}
    Data = {"x"}
    MaxStoreWrites = 3
    Setups <- SomeSetups
    TenantFlags = {"", "acme"}
    Names = {"amqp", "first"}
    Whens = {"true"}
    Files <- SomeFiles
    Installs <- SomeInstalls
    Providers = {"", "gitlab", "github"}
    MaxCommands = 3
PROPERTIES
    UpdateUpdates
CHECK_DEADLOCK FALSE
