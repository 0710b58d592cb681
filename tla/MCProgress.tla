----------------------------- MODULE MCProgress -----------------------------
(***************************************************************************)
(* What must go on: beside Worker.Run and multiSubscriber.Start of          *)
(* MCWorkerRun, the delivery of one event with two matches that compete for *)
(* the worker's only slot, without faults, and where failed messages are    *)
(* redelivered for ever.  A behaviour moves one of the three.               *)
(***************************************************************************)
EXTENDS MCWorkerRun

VARIABLES
    pc, matches, cur, try, gone, rows, copies, tries, faults, handled, failures, lost, redelivered

deliveryVars == <<pc, matches, cur, try, gone, rows, copies, tries, faults, handled, failures, lost, redelivered>>
progressVars == <<allVars, deliveryVars>>

Match(driver, enabled, transform) ==
    [topic |-> "t1", driver |-> driver, config |-> TRUE, enabled |-> enabled, transform |-> transform]

Deliver == INSTANCE Delivery WITH
    Events <- {"e1"}, Topics <- {"t1"}, Drivers <- {"amqp", "nats"}, NoDriver <- "none", DlqDriver <- "amqp",
    MatchLists <- {<<Match("amqp", TRUE, TRUE), Match("nats", FALSE, FALSE)>>}, MaxMatches <- 2,
    PublishAttempts <- 1, Concurrency <- 1, RetryCount <- 1, NackOnError <- TRUE, MultiSubscriber <- TRUE,
    Requeueing <- {"amqp"}, Durable <- {"amqp"}, ApiStatuses <- {}, MaxFaults <- 0

ProgressInit ==
    /\ Deliver!Init
    /\ \/ MCInit
       \/ focus = "delivery" /\ Init /\ hasSubscriber /\ Multi!Init

ProgressNext ==
    \/ MCNext /\ UNCHANGED deliveryVars
    \/ focus = "delivery" /\ Deliver!Next /\ UNCHANGED allVars

Delivering(A) == focus = "delivery" /\ A /\ UNCHANGED allVars
Running(A) == Run(A) /\ UNCHANGED deliveryVars
Starting(A) == Start(A) /\ UNCHANGED deliveryVars

\* The fairness of Delivery, of WorkerRun and of MultiSubscriber, each for its
\* own part.
ProgressSpec ==
    /\ ProgressInit /\ [][ProgressNext]_progressVars
    /\ WF_progressVars(Delivering(pc["e1"] \in Deliver!Serving /\ Deliver!ServerStep("e1")))
    /\ \A c \in Deliver!Copies :
          /\ WF_progressVars(Delivering(Deliver!Handling(c)))
          /\ SF_progressVars(Delivering(Deliver!Deliver(c)))
    /\ WF_progressVars(Running(Main))
    /\ \A t \in Topics :
          /\ WF_progressVars(Running(SendError(t))) /\ WF_progressVars(Running(CancelOthers(t)))
          /\ WF_progressVars(Running(cancelled /\ StartReturns(t)))
    /\ \A s \in Subs :
          /\ WF_progressVars(Starting(subCancelled /\ \E r \in {"nil", "error"} : Multi!SubReturns(s, r)))
          /\ WF_progressVars(Starting(Multi!Send(s))) /\ WF_progressVars(Starting(Multi!WgDone(s)))
    /\ WF_progressVars(Starting(Multi!CloseErrCh))
    /\ WF_progressVars(Starting(Multi!Receive)) /\ WF_progressVars(Starting(Multi!Return))

-----------------------------------------------------------------------------

\* A queued log ends as a success or a failure: the server goes on past each
\* match, and the worker frees its slot after each message, even when messages
\* fail again and again.
EventuallySettled == Deliver!EventuallySettled
=============================================================================
