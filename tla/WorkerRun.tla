------------------------------ MODULE WorkerRun ------------------------------
(***************************************************************************)
(* Worker.Run and Worker.runWithSubscriber of sdk/go/worker/worker.go: one  *)
(* goroutine per subscribed topic, a buffered channel for their errors, a   *)
(* context that the first error cancels, and a wait group that the caller   *)
(* joins before it returns.                                                 *)
(***************************************************************************)
EXTENDS Naturals, Sequences, FiniteSets

CONSTANTS
    Drivers,    \* driver ids with at least one topic
    Topics,     \* subscribed topics
    TopicDriver, \* topicDrivers: the driver of each topic
    Modes       \* whether the worker may be given a subscriber of its own

ASSUME WorkerRunAssumption ==
    /\ IsFiniteSet(Drivers) /\ IsFiniteSet(Topics) /\ Topics # {}
    /\ TopicDriver \in [Topics -> Drivers]
    /\ \A d \in Drivers : \E t \in Topics : TopicDriver[t] = d
    /\ Modes \subseteq BOOLEAN /\ Modes # {}

VARIABLES
    hasSubscriber,  \* the worker was given a subscriber of its own
    main,       \* where the goroutine that called Run is
    go,         \* where the goroutine of each topic is
    errCh,      \* contents of errCh
    cancelled,  \* the derived context is cancelled
    result,     \* what Run returned
    listener,   \* the last of the OnStart and OnExit notifications
    failed      \* history: topics whose Start failed before a cancellation

vars == <<hasSubscriber, main, go, errCh, cancelled, result, listener, failed>>

MainPcs == {"prepare", "build", "spawn", "wait", "join", "returned"}
GoPcs == {"unborn", "running", "sending", "cancelling", "done"}

TypeOK ==
    /\ hasSubscriber \in Modes
    /\ main \in MainPcs
    /\ go \in [Topics -> GoPcs]
    /\ errCh \in Seq(Topics)
    /\ cancelled \in BOOLEAN
    /\ result \in {"none", "nil", "error"}
    /\ listener \in {"none", "started", "exited"}
    /\ failed \subseteq Topics
    /\ main = "returned" <=> result # "none"

Init ==
    /\ hasSubscriber \in Modes
    /\ main = "prepare"
    /\ go = [t \in Topics |-> "unborn"]
    /\ errCh = << >>
    /\ cancelled = FALSE
    /\ result = "none"
    /\ listener = "none"
    /\ failed = {}

\* Mutant: a channel with one slot less than there are senders.
CapOneShort == IF hasSubscriber THEN Cardinality(Topics) - 1
               ELSE Cardinality(Drivers)

\* make(chan error, len(topics)) in runWithSubscriber, but
\* make(chan error, len(driverTopics)), one slot per driver, in Run.
ErrChCap == IF hasSubscriber THEN Cardinality(Topics) ELSE Cardinality(Drivers)

\* prepareRuleSubscriptions fetches every rule; any error ends Run before it
\* has started anything.  A worker with its own subscriber starts at once.
Prepare(ok) ==
    /\ main = "prepare"
    /\ IF ok
       THEN /\ main' = IF hasSubscriber THEN "spawn" ELSE "build"
            /\ listener' = IF hasSubscriber THEN "started" ELSE listener
            /\ UNCHANGED result
       ELSE /\ main' = "returned"
            /\ result' = "error"
            /\ UNCHANGED listener
    /\ UNCHANGED <<hasSubscriber, go, errCh, cancelled, failed>>

\* topicsByDriver and buildDriverSubscribers: a driver that is unknown,
\* disabled or misconfigured is an error too.
BuildSubscribers(ok) ==
    /\ main = "build"
    /\ main' = IF ok THEN "spawn" ELSE "returned"
    /\ listener' = IF ok THEN "started" ELSE listener
    /\ result' = IF ok THEN result ELSE "error"
    /\ UNCHANGED <<hasSubscriber, go, errCh, cancelled, failed>>

\* The loop starts the goroutines one by one; those already started run.
Spawn(t) ==
    /\ main = "spawn"
    /\ go[t] = "unborn"
    /\ go' = [go EXCEPT ![t] = "running"]
    /\ main' = IF \A u \in Topics \ {t} : go[u] # "unborn" THEN "wait" ELSE main
    /\ UNCHANGED <<hasSubscriber, errCh, cancelled, result, listener, failed>>

\* The caller's context is cancelled.
Cancel ==
    /\ ~cancelled
    /\ cancelled' = TRUE
    /\ UNCHANGED <<hasSubscriber, main, go, errCh, result, listener, failed>>

\* Subscriber.Start returns nil, or an error the goroutine drops because the
\* context is cancelled already.  Without a cancellation a nil return means
\* that the subscriber has received all the messages it was configured for.
StartReturns(t) ==
    /\ go[t] = "running"
    /\ go' = [go EXCEPT ![t] = "done"]
    /\ UNCHANGED <<hasSubscriber, main, errCh, cancelled, result, listener, failed>>

\* Subscriber.Start fails while the context is still live.
StartFails(t) ==
    /\ go[t] = "running"
    /\ ~cancelled
    /\ go' = [go EXCEPT ![t] = "sending"]
    /\ failed' = failed \cup {t}
    /\ UNCHANGED <<hasSubscriber, main, errCh, cancelled, result, listener>>

\* errCh <- err blocks while the channel is full: nobody receives from it
\* before every goroutine is done.
SendError(t) ==
    /\ go[t] = "sending"
    /\ Len(errCh) < ErrChCap
    /\ errCh' = Append(errCh, t)
    /\ go' = [go EXCEPT ![t] = "cancelling"]
    /\ UNCHANGED <<hasSubscriber, main, cancelled, result, listener, failed>>

CancelOthers(t) ==
    /\ go[t] = "cancelling"
    /\ cancelled' = TRUE
    /\ go' = [go EXCEPT ![t] = "done"]
    /\ UNCHANGED <<hasSubscriber, main, errCh, result, listener, failed>>

WaitDone ==
    /\ main = "wait"
    /\ cancelled
    /\ main' = "join"
    /\ UNCHANGED <<hasSubscriber, go, errCh, cancelled, result, listener, failed>>

\* Mutant: Run returns without joining the goroutines.
ReturnAtOnce ==
    /\ main = "join"
    /\ main' = "returned"
    /\ result' = IF errCh = << >> THEN "nil" ELSE "error"
    /\ listener' = "exited"
    /\ UNCHANGED <<hasSubscriber, go, errCh, cancelled, failed>>

\* wg.Wait, then a non-blocking receive decides the result; the deferred
\* notifyExit runs on the way out.
Return ==
    /\ main = "join"
    /\ \A t \in Topics : go[t] = "done"
    /\ main' = "returned"
    /\ result' = IF errCh = << >> THEN "nil" ELSE "error"
    /\ listener' = "exited"
    /\ UNCHANGED <<hasSubscriber, go, errCh, cancelled, failed>>

Goroutine(t) ==
    \/ StartReturns(t)
    \/ StartFails(t)
    \/ SendError(t)
    \/ CancelOthers(t)

Main ==
    \/ \E ok \in BOOLEAN : Prepare(ok) \/ BuildSubscribers(ok)
    \/ \E t \in Topics : Spawn(t)
    \/ WaitDone
    \/ Return

Next == Main \/ Cancel \/ \E t \in Topics : Goroutine(t)

Spec == Init /\ [][Next]_vars

\* Goroutines are scheduled; Start returns once its context is cancelled, as
\* the Subscriber interface requires.  Nothing forces the caller to cancel.
FairSpec ==
    /\ Spec
    /\ WF_vars(Main)
    /\ \A t \in Topics :
          /\ WF_vars(SendError(t)) /\ WF_vars(CancelOthers(t))
          /\ WF_vars(cancelled /\ StartReturns(t))

-----------------------------------------------------------------------------

\* Run reports a failure if and only if some subscription really failed (or
\* preparing it did): the error of the goroutine that cancelled the others is
\* never lost to the race between its send, the cancellation and wg.Wait.
ResultIsTrue ==
    main = "returned" /\ listener = "exited" =>
        (result = "error" <=> failed # {})

\* When Run has returned no goroutine of it is left behind, so Close cannot
\* race a subscription that is still running.
NoGoroutineLeft ==
    main = "returned" => \A t \in Topics : go[t] \in {"unborn", "done"}

\* Once the context is cancelled, by the caller or by a failed subscription,
\* Run returns; except that Run without a subscriber of its own hangs when
\* more topics fail than it has drivers, because errCh has no room for them.
ReturnsUnlessFull ==
    cancelled ~> \/ main = "returned"
                 \/ ~hasSubscriber /\ Cardinality(failed) > Cardinality(Drivers)

\* "It blocks until the context is canceled" (worker.go:100): once the
\* context is cancelled, by the caller or by a failed subscription, Run
\* returns.
ReturnsAfterCancel == cancelled ~> main = "returned"
=============================================================================
