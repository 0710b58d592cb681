----------------------------- MODULE MCDelivery -----------------------------
(* Small instances of Delivery for TLC. *)
EXTENDS Delivery, TLC

MCMatch(d, cfg, en, tr) ==
    [topic |-> CHOOSE t \in Topics : TRUE, driver |-> d, config |-> cfg,
     enabled |-> en, transform |-> tr]

\* One event, two matches: a dynamic one and one for the fallback publisher.
TwoMatches == {<<MCMatch("amqp", TRUE, TRUE, TRUE), MCMatch("nats", TRUE, FALSE, FALSE)>>}

\* One match at a time, over every route.
OneMatch == {<<MCMatch("amqp", TRUE, TRUE, TRUE)>>,
             <<MCMatch("nats", FALSE, TRUE, FALSE)>>}
=============================================================================
