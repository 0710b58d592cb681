\* Run with two topics on one driver and one on another.
SPECIFICATION MCSpec
CONSTANTS
    Drivers = {"d1", "d2"}
    Topics = {"t1", "t2", "t3"}
    TopicDriver <- TwoOnOne
    Subs = {"amqp", "nats", "kafka"}
    Modes = {FALSE}
PROPERTIES
    ReturnsAfterCancel
CHECK_DEADLOCK FALSE
