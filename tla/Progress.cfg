\* Run with and without a subscriber of its own, a multiSubscriber of three, and
\* fair deliveries without faults.
SPECIFICATION ProgressSpec
CONSTANTS
    Drivers = {"d1", "d2"}
    Topics = {"t1", "t2", "t3"}
    TopicDriver <- TwoOnOne
    Subs = {"amqp", "nats", "kafka"}
    Modes = {TRUE, FALSE}
INVARIANTS
    ResultIsTrue
    
    StartReturnsAllErrors
PROPERTIES
    ReturnsUnlessFull
    ErrorEndsStart
    EventuallySettled
CHECK_DEADLOCK FALSE
