------------------------------ MODULE Delivery ------------------------------
(***************************************************************************)
(* The life of a webhook event, from the handler that received it to the    *)
(* worker that acknowledges its message:                                    *)
(*                                                                          *)
(*   server   emit -> log the matches -> publish them one after the other   *)
(*            (pkg/webhook, pkg/core/publisher.go)                          *)
(*   broker   keeps every copy of a message until it is acknowledged        *)
(*            (external: relaybus over amqp, nats or kafka)                 *)
(*   worker   semaphore -> decode -> handler with retries -> status update  *)
(*            -> ack or nack (sdk/go/worker)                                *)
(*                                                                          *)
(* Each webhook request runs in a goroutine of its own, and so does each    *)
(* message of the worker: the three parts interleave at every step below.   *)
(***************************************************************************)
EXTENDS Naturals, Sequences, FiniteSets, EventLogStore

CONSTANTS
    Events,           \* webhook requests
    Topics,           \* topics rules emit to
    Drivers,          \* driver names
    NoDriver,         \* no driver name at all
    DlqDriver,        \* publisherMux.dlqDriver, NoDriver when none is set
    MatchLists,       \* the match lists rule evaluation can return
    MaxMatches,       \* bound on their length
    PublishAttempts,  \* PublishRetryConfig.Attempts, at least 1
    Concurrency,      \* Worker.concurrency
    RetryCount,       \* Worker.retryCount
    NackOnError,      \* what RetryPolicy.OnError decides
    MultiSubscriber,  \* the worker subscribes through a multiSubscriber
    Requeueing,       \* the drivers shouldRequeue accepts ("amqp")
    Durable,          \* drivers whose broker keeps an unacknowledged message
    ApiStatuses,      \* statuses an API client writes besides the workers
    MaxFaults         \* bound on injected faults

\* core.RuleMatch without the rule's text: transform says whether the rule
\* has a transform_js, config whether a driver config is stored with it.
\* loadRulesForTenant skips a rule whose driver has no name.
Match == [topic : Topics, driver : Drivers, config : BOOLEAN,
          enabled : BOOLEAN, transform : BOOLEAN]

LogIds == Events \X (1..MaxMatches)

\* A copy of a message: the log it belongs to and the publish attempt that
\* created it.  The attempts on the dead letter driver are numbered after
\* those on the rule's driver.
Attempts == 1..(2 * PublishAttempts)
Copies == LogIds \X Attempts

ASSUME DeliveryAssumption ==
    /\ IsFiniteSet(Events)
    /\ NoDriver \notin Drivers
    /\ DlqDriver \in Drivers \cup {NoDriver}
    /\ MaxMatches \in Nat \ {0}
    /\ MatchLists \subseteq Seq(Match)
    /\ \A ms \in MatchLists : Len(ms) <= MaxMatches
    /\ PublishAttempts \in Nat \ {0}
    /\ Concurrency \in Nat \ {0}
    /\ RetryCount \in Nat
    /\ NackOnError \in BOOLEAN /\ MultiSubscriber \in BOOLEAN
    /\ Requeueing \subseteq Drivers /\ Durable \subseteq Drivers
    /\ ApiStatuses \subseteq {"queued"}
    /\ MaxFaults \in Nat

VARIABLES
    pc,          \* where the request's goroutine is
    matches,     \* the matches of the event
    cur,         \* index of the match being published
    try,         \* publish attempts already made for it
    gone,        \* the request's context is cancelled
    rows,        \* the event log table
    copies,      \* where each copy of a message is
    tries,       \* handler attempts already made on a copy
    faults,      \* faults injected so far
    handled,     \* history: logs with a handler run that returned no error
    failures,    \* history: logs whose publish or handling reported an error
    lost,        \* history: logs with a status write or a copy that was lost
    redelivered  \* history: logs with a copy that was delivered twice

server == <<pc, matches, cur, try, gone>>
worker == <<copies, tries>>
history == <<handled, failures, lost, redelivered>>
vars == <<server, rows, worker, faults, history>>

ServerPcs == {"idle", "next", "dynamic", "fallback", "dlq", "marking",
              "done", "crashed"}

\* "none": never published; "queued": with the broker; "gone": acknowledged
\* or lost.  The others are the stages of a callback of the worker.
Stages == {"decode", "running", "failing", "succeeding", "ack", "nack"}
CopyStates == Stages \cup {"none", "queued", "gone"}

TypeOK ==
    /\ pc \in [Events -> ServerPcs]
    /\ matches \in [Events -> Seq(Match)]
    /\ cur \in [Events -> Nat]
    /\ try \in [Events -> 0..(PublishAttempts - 1)]
    /\ gone \in [Events -> BOOLEAN]
    /\ rows \in [LogIds -> Statuses]
    /\ copies \in [Copies -> CopyStates]
    /\ tries \in [Copies -> 0..RetryCount]
    /\ faults \in 0..MaxFaults
    /\ handled \subseteq LogIds
    /\ failures \subseteq LogIds
    /\ lost \subseteq LogIds
    /\ redelivered \subseteq LogIds

Init ==
    /\ pc = [e \in Events |-> "idle"]
    /\ matches = [e \in Events |-> << >>]
    /\ cur = [e \in Events |-> 1]
    /\ try = [e \in Events |-> 0]
    /\ gone = [e \in Events |-> FALSE]
    /\ rows = [l \in LogIds |-> "absent"]
    /\ copies = [c \in Copies |-> "none"]
    /\ tries = [c \in Copies |-> 0]
    /\ faults = 0
    /\ handled = {} /\ failures = {} /\ lost = {} /\ redelivered = {}

-----------------------------------------------------------------------------
(***************************************************************************)
(* Status writes.  Both sides only log the error of a failed write.         *)
(***************************************************************************)

Stored(l, status) ==
    /\ rows' = UpdateEventLogStatus(rows, l, status)
    /\ UNCHANGED <<faults, lost>>

Dropped(l) ==
    /\ faults < MaxFaults
    /\ faults' = faults + 1
    /\ lost' = lost \cup {l}
    /\ UNCHANGED rows

\* emit's statusUpdater writes under the request's context: once the client
\* has gone the store refuses the write.
ServerUpdate(e, l, status) ==
    IF gone[e]
    THEN /\ lost' = lost \cup {l}
         /\ UNCHANGED <<rows, faults>>
    ELSE Stored(l, status) \/ Dropped(l)

-----------------------------------------------------------------------------
(***************************************************************************)
(* Server.                                                                  *)
(***************************************************************************)

\* emit: the matched rules are logged before anything is published.  A
\* failed insert is only logged: publishing goes on with identifiers that
\* have no row.  No match at all leaves one "ignored" record.
Emit(e, ms) ==
    LET ids == {e} \X (1..(IF ms = << >> THEN 1 ELSE Len(ms)))
        status == IF ms = << >> THEN "ignored" ELSE "queued"
    IN  /\ pc[e] = "idle"
        /\ matches' = [matches EXCEPT ![e] = ms]
        /\ pc' = [pc EXCEPT ![e] = IF ms = << >> THEN "done" ELSE "next"]
        /\ \/ /\ rows' = CreateEventLogs(rows, ids, status)
              /\ UNCHANGED <<faults, lost>>
           \/ /\ faults < MaxFaults
              /\ faults' = faults + 1
              /\ lost' = lost \cup ids
              /\ UNCHANGED rows
        /\ UNCHANGED <<cur, try, gone, worker, handled, failures, redelivered>>

CurMatch(e) == matches[e][cur[e]]
CurLog(e) == <<e, cur[e]>>

\* The loop of publishMatchesWithFallback moves to the next match.
Advance(e) ==
    /\ pc' = [pc EXCEPT ![e] = IF cur[e] = Len(matches[e])
                                THEN "done" ELSE "next"]
    /\ cur' = [cur EXCEPT ![e] = @ + 1]
    /\ try' = [try EXCEPT ![e] = 0]
    /\ UNCHANGED <<matches, gone>>

\* applyRuleTransform returns an error: the log is marked failed.
TransformFails(e) ==
    /\ pc[e] = "next"
    /\ CurMatch(e).transform
    /\ ServerUpdate(e, CurLog(e), "failed")
    /\ failures' = failures \cup {CurLog(e)}
    /\ Advance(e)
    /\ UNCHANGED <<worker, handled, redelivered>>

\* publishDynamicMatch takes the match unless its driver's config is missing
\* or the driver is disabled.
Dynamic(m) == m.config /\ m.enabled

\* The transform (if any) worked: the match is routed to the dynamic publisher
\* or to the fallback.
Route(e) ==
    /\ pc[e] = "next"
    /\ pc' = [pc EXCEPT ![e] = IF Dynamic(CurMatch(e))
                               THEN "dynamic" ELSE "fallback"]
    /\ UNCHANGED <<matches, cur, try, gone, rows, worker, faults, history>>

\* DynamicPublisherCache.Publisher, TenantPublisher.publisherFor or the
\* mux's lookup of the driver fails: nothing is sent.
NoPublisher(e) ==
    /\ pc[e] \in {"dynamic", "fallback"}
    /\ try[e] = 0
    /\ pc' = [pc EXCEPT ![e] = "marking"]
    /\ UNCHANGED <<matches, cur, try, gone, rows, worker, faults, history>>

CurCopy(e) ==
    <<CurLog(e), try[e] + 1 + (IF pc[e] = "dlq" THEN PublishAttempts ELSE 0)>>

\* publisherMux: a failed publish is copied to the dead letter driver, when
\* there is another one.  The dynamic publisher has a single driver.
AfterError(e) ==
    IF pc[e] = "fallback" /\ DlqDriver \notin {NoDriver, CurMatch(e).driver}
    THEN "dlq" ELSE "marking"

\* One attempt succeeds.  On the dead letter driver that does not clear the
\* error of the first publish.
PublishOk(e) ==
    /\ pc[e] \in {"dynamic", "fallback", "dlq"}
    /\ copies' = [copies EXCEPT ![CurCopy(e)] = "queued"]
    /\ IF pc[e] = "dlq"
       THEN /\ pc' = [pc EXCEPT ![e] = "marking"]
            /\ UNCHANGED <<matches, cur, try, gone>>
       ELSE Advance(e)
    /\ UNCHANGED <<rows, tries, faults, history>>

\* One attempt returns an error, and the broker may have taken the message
\* nevertheless.  The retry loop goes on while attempts remain; a cancelled
\* context may end it during the delay.
PublishErr(e, delivered) ==
    /\ pc[e] \in {"dynamic", "fallback", "dlq"}
    /\ copies' = IF delivered THEN [copies EXCEPT ![CurCopy(e)] = "queued"]
                 ELSE copies
    /\ \/ /\ try[e] + 1 < PublishAttempts
          /\ try' = [try EXCEPT ![e] = @ + 1]
          /\ UNCHANGED pc
       \/ /\ try[e] + 1 = PublishAttempts \/ gone[e]
          /\ try' = [try EXCEPT ![e] = 0]
          /\ pc' = [pc EXCEPT ![e] = AfterError(e)]
    /\ UNCHANGED <<matches, cur, gone, rows, tries, faults, history>>

\* Mutant: the error of a publish is only logged.
MarkNothing(e) ==
    /\ pc[e] = "marking"
    /\ Advance(e)
    /\ UNCHANGED <<rows, worker, faults, history>>

\* The publish error reaches publishMatchesWithFallback, which marks the log.
MarkFailed(e) ==
    /\ pc[e] = "marking"
    /\ ServerUpdate(e, CurLog(e), "failed")
    /\ failures' = failures \cup {CurLog(e)}
    /\ Advance(e)
    /\ UNCHANGED <<worker, handled, redelivered>>

Serving == {"next", "dynamic", "fallback", "dlq", "marking"}

\* The provider gives up on the request: net/http cancels its context.
ClientGone(e) ==
    /\ pc[e] \in Serving
    /\ ~gone[e]
    /\ gone' = [gone EXCEPT ![e] = TRUE]
    /\ UNCHANGED <<pc, matches, cur, try, rows, worker, faults, history>>

\* The server process stops: nothing resumes the matches it had not published.
ServerCrash ==
    /\ faults < MaxFaults
    /\ \E e \in Events : pc[e] \in Serving
    /\ faults' = faults + 1
    /\ pc' = [e \in Events |-> IF pc[e] \in Serving THEN "crashed" ELSE pc[e]]
    /\ UNCHANGED <<matches, cur, try, gone, rows, worker, history>>

\* EventLogsService.UpdateEventLogStatus called by another API client.
ApiUpdate(l, status) ==
    /\ status \in ApiStatuses
    /\ rows' = UpdateEventLogStatus(rows, l, status)
    /\ UNCHANGED <<server, worker, faults, history>>

-----------------------------------------------------------------------------
(***************************************************************************)
(* Worker.                                                                  *)
(***************************************************************************)

LogOf(c) == c[1]
DriverOf(c) == IF c[2] > PublishAttempts THEN DlqDriver
               ELSE matches[c[1][1]][c[1][2]].driver

InFlight == {c \in Copies : copies[c] \in Stages}

\* Mutant: the callback does not take the semaphore.
DeliverUnbounded(c) ==
    /\ copies[c] = "queued"
    /\ copies' = [copies EXCEPT ![c] = "decode"]
    /\ tries' = [tries EXCEPT ![c] = 0]
    /\ UNCHANGED <<server, rows, faults, history>>

\* The subscriber calls back with a message and the callback takes a slot of
\* the semaphore.
Deliver(c) ==
    /\ copies[c] = "queued"
    /\ Cardinality(InFlight) < Concurrency
    /\ copies' = [copies EXCEPT ![c] = "decode"]
    /\ tries' = [tries EXCEPT ![c] = 0]
    /\ UNCHANGED <<server, rows, faults, history>>

\* Mutant: a message that cannot be decoded is acknowledged unreported.
PrepareAcks(c, ok) ==
    /\ copies[c] = "decode"
    /\ copies' = [copies EXCEPT ![c] = IF ok THEN "running" ELSE "ack"]
    /\ UNCHANGED <<server, rows, tries, faults, history>>

\* handleMessage decodes the message and asks for an SCM client: either may
\* fail, and then the handler never runs.
Prepare(c, ok) ==
    /\ copies[c] = "decode"
    /\ copies' = [copies EXCEPT ![c] = IF ok THEN "running" ELSE "failing"]
    /\ UNCHANGED <<server, rows, tries, faults, history>>

HandlerOk(c) ==
    /\ copies[c] = "running"
    /\ copies' = [copies EXCEPT ![c] = "succeeding"]
    /\ handled' = handled \cup {LogOf(c)}
    /\ UNCHANGED <<server, rows, tries, faults, failures, lost, redelivered>>

\* Mutant: one attempt too many.
HandlerErrOneMore(c) ==
    /\ copies[c] = "running"
    /\ IF tries[c] <= RetryCount
       THEN /\ tries' = [tries EXCEPT ![c] = @ + 1]
            /\ UNCHANGED copies
       ELSE /\ copies' = [copies EXCEPT ![c] = "failing"]
            /\ UNCHANGED tries
    /\ UNCHANGED <<server, rows, faults, history>>

\* The handler is called up to RetryCount + 1 times.
HandlerErr(c) ==
    /\ copies[c] = "running"
    /\ IF tries[c] < RetryCount
       THEN /\ tries' = [tries EXCEPT ![c] = @ + 1]
            /\ UNCHANGED copies
       ELSE /\ copies' = [copies EXCEPT ![c] = "failing"]
            /\ UNCHANGED tries
    /\ UNCHANGED <<server, rows, faults, history>>

\* relaybusPublisher.Publish puts no driver into the metadata; only a
\* multiSubscriber adds the one the message came from.
MetadataDriver(c) == IF MultiSubscriber THEN DriverOf(c) ELSE NoDriver

ShouldRequeue(c) == MetadataDriver(c) \in Requeueing

\* Mutant: the status update after an error says success.
ReportFailedAsSuccess(c) ==
    /\ copies[c] = "failing"
    /\ Stored(LogOf(c), "success") \/ Dropped(LogOf(c))
    /\ failures' = failures \cup {LogOf(c)}
    /\ copies' = [copies EXCEPT ![c] = "ack"]
    /\ UNCHANGED <<server, tries, handled, redelivered>>

\* The error path of the callback: OnError decides, but a nack is sent only
\* when the message's driver supports requeueing.
ReportFailed(c) ==
    /\ copies[c] = "failing"
    /\ Stored(LogOf(c), "failed") \/ Dropped(LogOf(c))
    /\ failures' = failures \cup {LogOf(c)}
    /\ copies' = [copies EXCEPT ![c] = IF NackOnError /\ ShouldRequeue(c)
                                       THEN "nack" ELSE "ack"]
    /\ UNCHANGED <<server, tries, handled, redelivered>>

\* Mutant: no return after the success, so the error path runs as well.
ReportSuccessFallsThrough(c) ==
    /\ copies[c] = "succeeding"
    /\ Stored(LogOf(c), "success") \/ Dropped(LogOf(c))
    /\ copies' = [copies EXCEPT ![c] = "failing"]
    /\ UNCHANGED <<server, tries, handled, failures, redelivered>>

ReportSuccess(c) ==
    /\ copies[c] = "succeeding"
    /\ Stored(LogOf(c), "success") \/ Dropped(LogOf(c))
    /\ copies' = [copies EXCEPT ![c] = "ack"]
    /\ UNCHANGED <<server, tries, handled, failures, redelivered>>

\* Mutant: the callback returns without releasing its slot.
AckKeepsSlot(c) ==
    /\ copies[c] = "ack"
    /\ UNCHANGED vars

\* The callback returns and releases its slot: the broker forgets the
\* message, or takes it back.
Ack(c) ==
    /\ copies[c] = "ack"
    /\ copies' = [copies EXCEPT ![c] = "gone"]
    /\ UNCHANGED <<server, rows, tries, faults, history>>

Nack(c) ==
    /\ copies[c] = "nack"
    /\ copies' = [copies EXCEPT ![c] = "queued"]
    /\ redelivered' = redelivered \cup {LogOf(c)}
    /\ UNCHANGED <<server, rows, tries, faults, handled, failures, lost>>

\* The worker process stops and is started again.  A durable broker delivers
\* the unacknowledged messages once more, another one has lost them.
WorkerCrash ==
    /\ faults < MaxFaults
    /\ InFlight # {}
    /\ faults' = faults + 1
    /\ copies' = [c \in Copies |->
                    IF c \notin InFlight THEN copies[c]
                    ELSE IF DriverOf(c) \in Durable THEN "queued" ELSE "gone"]
    /\ redelivered' = redelivered \cup {LogOf(c) : c \in InFlight}
    /\ lost' = lost \cup {LogOf(c) : c \in {d \in InFlight :
                                             DriverOf(d) \notin Durable}}
    /\ UNCHANGED <<server, rows, tries, handled, failures>>

-----------------------------------------------------------------------------
ServerStep(e) ==
    \/ \E ms \in MatchLists \cup {<< >>} : Emit(e, ms)
    \/ TransformFails(e)
    \/ Route(e)
    \/ NoPublisher(e)
    \/ PublishOk(e)
    \/ \E delivered \in BOOLEAN : PublishErr(e, delivered)
    \/ MarkFailed(e)

Handling(c) ==
    \/ \E ok \in BOOLEAN : Prepare(c, ok)
    \/ HandlerOk(c)
    \/ HandlerErr(c)
    \/ ReportFailed(c)
    \/ ReportSuccess(c)
    \/ Ack(c)
    \/ Nack(c)

Next ==
    \/ \E e \in Events : ServerStep(e) \/ ClientGone(e)
    \/ \E l \in LogIds, status \in ApiStatuses : ApiUpdate(l, status)
    \/ \E c \in Copies : Deliver(c) \/ Handling(c)
    \/ ServerCrash
    \/ WorkerCrash

Spec == Init /\ [][Next]_vars

\* The Go scheduler runs every goroutine that can take a step, publishers and
\* handlers return, and a callback waiting for the semaphore is served: a Go
\* channel wakes its blocked senders in order, hence strong fairness.
Fairness ==
    /\ \A e \in Events : WF_vars(pc[e] \in Serving /\ ServerStep(e))
    /\ \A c \in Copies : WF_vars(Handling(c)) /\ SF_vars(Deliver(c))

FairSpec == Spec /\ Fairness
-----------------------------------------------------------------------------
(***************************************************************************)
(* Properties.                                                              *)
(***************************************************************************)

Published(l) == \E n \in Attempts : copies[<<l, n>>] # "none"

\* The log says "success" only when some delivery of the event ran a handler
\* to completion: publishing alone, a lost write, a retry or a crash between
\* the handler and the status update never produces one.
SuccessOnlyIfHandled ==
    \A l \in LogIds : rows[l] = "success" => l \in handled

\* No match disappears without a trace: when publishMatchesWithFallback has
\* passed a match, a message for it reached a broker, or its log says failed,
\* or the write that should have said so was lost.
NoSilentLoss ==
    \A e \in Events : \A i \in 1..Len(matches[e]) :
        i < cur[e] =>
            \/ Published(<<e, i>>)
            \/ rows[<<e, i>>] = "failed"
            \/ <<e, i>> \in lost

\* The worker gives a message back to the broker, or lets it go, only after
\* its outcome is in the log (or the write was lost): no path through
\* handleMessage acknowledges a message that still looks pending.
NoAckBeforeOutcome ==
    \A c \in Copies : copies[c] \in {"ack", "nack", "gone"} =>
        rows[LogOf(c)] \in Terminal \/ LogOf(c) \in lost

\* WithConcurrency(n) limits in-flight message handling to n, over all the
\* topics and drivers of the worker, across retries, nacks and restarts.
InFlightBounded == Cardinality(InFlight) <= Concurrency

\* An event that was delivered exactly once keeps its success: only a second
\* copy, a redelivery, or the server marking a publish error that came after
\* the message was taken can turn a recorded success into a failure.
SuccessKeptUnlessDuplicated ==
    [][\A l \in LogIds : rows[l] = "success" /\ rows'[l] = "failed" =>
          \/ \E m, n \in Attempts : /\ m # n
                                    /\ copies[<<l, m>>] # "none"
                                    /\ copies[<<l, n>>] # "none"
          \/ l \in redelivered
          \/ pc[l[1]] = "marking" /\ cur[l[1]] = l[2]]_vars

\* The event log as a reader sees it: Delivery implements EventLifecycle.
Lifecycle == INSTANCE EventLifecycle
                WITH Logs <- LogIds, status <- rows,
                     completed <- handled, failed <- failures
LifecycleSpec == Lifecycle!Spec

\* Every recorded match gets an outcome: its log becomes success or failed,
\* unless the write was lost.  It needs the retry loops to end, every slot of
\* the semaphore to be released and every path of handleMessage to report.
EventuallySettled ==
    \A l \in LogIds : rows[l] = "queued" ~> rows[l] \in Terminal \/ l \in lost
=============================================================================
