SPECIFICATION Spec
CONSTANTS
    NoTenant = NoTenant
    NoJS = NoJS
    Broken = {}
    Missing = {}
    True = {"hit"}
    Tenant = "t1"
    Handled = {1, 2}
    Topics = {"x", "y"}
    DriverNames = {"amqp", "kafka", "http"}
    Subscribable = {"amqp", "kafka"}
    Urls = {"u1", "u2"}
    Prefixes = {""}
    NoPrefix = ""
    MaxChanges = 0
INVARIANT EachRuleHeard
