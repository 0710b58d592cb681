\* One match at a time over every route, with two publish attempts on each
\* driver, two handler attempts, and one fault.
SPECIFICATION Spec
CONSTANTS
    Events = {e1}
    Topics = {"t1"}
    Drivers = {"amqp", "nats"}
    NoDriver = NoDriver
    DlqDriver = "amqp"
    MatchLists <- OneMatch
    MaxMatches = 1
    PublishAttempts = 2
    Concurrency = 1
    RetryCount = 1
    NackOnError = TRUE
    MultiSubscriber = TRUE
    Requeueing = {"amqp"}
    Durable = {"amqp"}
    ApiStatuses = {"queued"}
    MaxFaults = 1
INVARIANTS
    TypeOK
    NoAckBeforeOutcome
PROPERTIES
    SuccessKeptUnlessDuplicated
CHECK_DEADLOCK FALSE
