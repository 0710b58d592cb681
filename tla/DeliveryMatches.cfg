\* One event with two matches that share the worker: both routes, a dead
\* letter driver, requeueing through a multiSubscriber, and one fault.
SPECIFICATION Spec
CONSTANTS
    Events = {e1}
    Topics = {"t1"}
    Drivers = {"amqp", "nats"}
    NoDriver = NoDriver
    DlqDriver = "amqp"
    MatchLists <- TwoMatches
    MaxMatches = 2
    PublishAttempts = 1
    Concurrency = 2
    RetryCount = 0
    NackOnError = TRUE
    MultiSubscriber = TRUE
    Requeueing = {"amqp"}
    Durable = {"amqp"}
    ApiStatuses = {"queued"}
    MaxFaults = 1
INVARIANTS
    SuccessOnlyIfHandled
    NoSilentLoss
    
PROPERTIES
    LifecycleSpec
CHECK_DEADLOCK FALSE
