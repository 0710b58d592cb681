------------------------------- MODULE Replay -------------------------------
(***************************************************************************)
(* EventLogsService.ReplayEventLog of pkg/api/eventlogs_service.go: a       *)
(* client asks for a stored event to be published again.  The request reads *)
(* the log, inserts one new "queued" log per match, takes a slot of the     *)
(* limiter and leaves the publishing to a goroutine.  The messages carry    *)
(* the identifier of the log that was replayed, so the worker that handles  *)
(* them reports on that log, not on the new ones.                           *)
(***************************************************************************)
EXTENDS Naturals, FiniteSets, EventLogStore

CONSTANTS
    Requests,     \* ReplayEventLog calls
    Originals,    \* logs the webhook side has recorded
    Recorded,     \* statuses they may have before any replay
    MaxMatches,   \* bound on the matches of one event
    Limit,        \* ReplayConcurrency
    MaxFaults     \* bound on lost writes and crashes

\* A request's new logs are numbered like its matches.
ReplayLogs == Requests \X (1..MaxMatches)
Logs == Originals \cup ReplayLogs

None == <<"none">>

ASSUME ReplayAssumption ==
    /\ IsFiniteSet(Requests)
    /\ Originals \cap ReplayLogs = {}
    /\ None \notin Logs
    /\ Recorded \subseteq Statuses \ {"absent"}
    /\ MaxMatches \in Nat \ {0}
    /\ Limit \in Nat \ {0}
    /\ MaxFaults \in Nat

VARIABLES
    pc,       \* where each request, or the goroutine it left, is
    source,   \* the log it replays
    count,    \* the number of its matches
    cur,      \* the match its goroutine is at
    slots,    \* tokens in the limiter channel
    rows,     \* the event log table
    msgs,     \* published copies the workers have not finished
    faults,   \* faults injected so far
    sent,     \* history: replay logs whose message reached a broker
    handled,  \* history: logs a worker has reported an outcome for
    lost,     \* history: logs with a lost status write
    initial   \* history: the status of the original logs at the start

request == <<pc, source, count, cur, slots>>
history == <<sent, handled, lost, initial>>
vars == <<request, rows, msgs, faults, history>>

\* The steps of the goroutine; it holds a slot in all of them.
Active == {"resolve", "publish", "succeed", "fail", "finish"}
Ended == {"refused", "done", "crashed"}
Pcs == {"idle", "create", "admit"} \cup Active \cup Ended

TypeOK ==
    /\ pc \in [Requests -> Pcs]
    /\ source \in [Requests -> Logs \cup {None}]
    /\ count \in [Requests -> 0..MaxMatches]
    /\ cur \in [Requests -> 1..(MaxMatches + 1)]
    /\ slots \in 0..Limit
    /\ rows \in [Logs -> Statuses]
    /\ msgs \subseteq ReplayLogs
    /\ faults \in 0..MaxFaults
    /\ sent \subseteq ReplayLogs /\ handled \subseteq Logs /\ lost \subseteq Logs
    /\ initial \in [Originals -> Statuses]

Init ==
    /\ pc = [r \in Requests |-> "idle"]
    /\ source = [r \in Requests |-> None]
    /\ count = [r \in Requests |-> 0]
    /\ cur = [r \in Requests |-> 1]
    /\ slots = 0
    /\ initial \in [Originals -> Recorded]
    /\ rows = [l \in Logs |-> IF l \in Originals THEN initial[l] ELSE "absent"]
    /\ msgs = {}
    /\ faults = 0
    /\ sent = {} /\ handled = {} /\ lost = {}

Goto(r, p) == pc' = [pc EXCEPT ![r] = p]

\* GetEventLog, BuildReplayEvent and MatchRulesForEvent.  Any log can be
\* replayed, the log of an earlier replay too.  A missing log, a payload that
\* is no JSON object, or no matching rule ends the request.
Load(r, l, n) ==
    /\ pc[r] = "idle"
    /\ IF rows[l] = "absent" \/ n = 0
       THEN /\ Goto(r, "refused")
            /\ UNCHANGED <<source, count>>
       ELSE /\ Goto(r, "create")
            /\ source' = [source EXCEPT ![r] = l]
            /\ count' = [count EXCEPT ![r] = n]
    /\ UNCHANGED <<cur, slots, rows, msgs, faults, history>>

NewLogs(r) == {r} \X (1..count[r])
CurLog(r) == <<r, cur[r]>>

\* The new logs are inserted before the limiter is asked; a failed insert is
\* an error to the client.
Create(r, ok) ==
    /\ pc[r] = "create"
    /\ IF ok
       THEN /\ rows' = CreateEventLogs(rows, NewLogs(r), "queued")
            /\ Goto(r, "admit")
       ELSE /\ Goto(r, "refused")
            /\ UNCHANGED rows
    /\ UNCHANGED <<source, count, cur, slots, msgs, faults, history>>

\* The select on the limiter: with no free slot the request is refused, and
\* the logs it has just inserted stay queued.
Admit(r) ==
    /\ pc[r] = "admit"
    /\ IF slots < Limit
       THEN slots' = slots + 1 /\ Goto(r, "resolve")
       ELSE Goto(r, "refused") /\ UNCHANGED slots
    /\ UNCHANGED <<source, count, cur, rows, msgs, faults, history>>

\* replayResolveDriverRecord, ApplyRuleTransform and the publisher of the
\* driver: the driver may have been disabled or deleted since the match.
Resolve(r, ok) ==
    /\ pc[r] = "resolve"
    /\ Goto(r, IF ok THEN "publish" ELSE "fail")
    /\ UNCHANGED <<source, count, cur, slots, rows, msgs, faults, history>>

\* PublishForDrivers under a 30 second timeout.  An error does not exclude
\* that the broker has taken the message.
Publish(r, ok, delivered) ==
    /\ pc[r] = "publish"
    /\ ok => delivered
    /\ Goto(r, IF ok THEN "succeed" ELSE "fail")
    /\ IF delivered
       THEN sent' = sent \cup {CurLog(r)} /\ msgs' = msgs \cup {CurLog(r)}
       ELSE UNCHANGED <<sent, msgs>>
    /\ UNCHANGED <<source, count, cur, slots, rows, faults, handled, lost, initial>>

NextMatch(r) ==
    /\ cur' = [cur EXCEPT ![r] = @ + 1]
    /\ Goto(r, IF cur[r] = count[r] THEN "finish" ELSE "resolve")

\* runReplayAsync ignores the error of a status write.
Write(l, status) ==
    \/ /\ rows' = UpdateEventLogStatus(rows, l, status)
       /\ UNCHANGED <<faults, lost>>
    \/ /\ faults < MaxFaults
       /\ faults' = faults + 1
       /\ lost' = lost \cup {l}
       /\ UNCHANGED rows

\* Mutant: the goroutine reports under the identifier in the event.
MarkEventLog(r) ==
    /\ pc[r] \in {"succeed", "fail"}
    /\ Write(source[r], IF pc[r] = "succeed" THEN "success" ELSE "failed")
    /\ NextMatch(r)
    /\ UNCHANGED <<source, count, slots, msgs, sent, handled, initial>>

\* Mutant: an error moves on to the next match without a report.
MarkSuccessOnly(r) ==
    /\ pc[r] \in {"succeed", "fail"}
    /\ IF pc[r] = "succeed" THEN Write(CurLog(r), "success")
       ELSE UNCHANGED <<rows, faults, lost>>
    /\ NextMatch(r)
    /\ UNCHANGED <<source, count, slots, msgs, sent, handled, initial>>

\* Mutant: a failed match is tried again for ever.
MarkThenRetry(r) ==
    /\ pc[r] \in {"succeed", "fail"}
    /\ Write(CurLog(r), IF pc[r] = "succeed" THEN "success" ELSE "failed")
    /\ IF pc[r] = "succeed" THEN NextMatch(r)
       ELSE Goto(r, "resolve") /\ UNCHANGED cur
    /\ UNCHANGED <<source, count, slots, msgs, sent, handled, initial>>

\* Mutant: the log says success whatever PublishForDrivers returned.
MarkAllSuccess(r) ==
    /\ pc[r] \in {"succeed", "fail"}
    /\ Write(CurLog(r), "success")
    /\ NextMatch(r)
    /\ UNCHANGED <<source, count, slots, msgs, sent, handled, initial>>

Mark(r) ==
    /\ pc[r] \in {"succeed", "fail"}
    /\ Write(CurLog(r), IF pc[r] = "succeed" THEN "success" ELSE "failed")
    /\ NextMatch(r)
    /\ UNCHANGED <<source, count, slots, msgs, sent, handled, initial>>

\* Mutant: the goroutine ends without taking its token out of the channel.
FinishKeepsSlot(r) ==
    /\ pc[r] = "finish"
    /\ Goto(r, "done")
    /\ UNCHANGED <<source, count, cur, slots, rows, msgs, faults, history>>

\* The goroutine's deferred receive from the limiter.
Finish(r) ==
    /\ pc[r] = "finish"
    /\ Goto(r, "done")
    /\ slots' = slots - 1
    /\ UNCHANGED <<source, count, cur, rows, msgs, faults, history>>

\* A worker handles a replayed message and reports on the log the event names.
Handle(m, status) ==
    /\ m \in msgs
    /\ msgs' = msgs \ {m}
    /\ Write(source[m[1]], status)
    /\ handled' = handled \cup {source[m[1]]}
    /\ UNCHANGED <<request, sent, initial>>

\* The server stops: goroutines and requests in progress are not resumed.
Crash ==
    /\ faults < MaxFaults
    /\ \E r \in Requests : pc[r] \in Active \cup {"create", "admit"}
    /\ faults' = faults + 1
    /\ pc' = [r \in Requests |->
                IF pc[r] \in Active \cup {"create", "admit"} THEN "crashed" ELSE pc[r]]
    /\ slots' = 0
    /\ UNCHANGED <<source, count, cur, rows, msgs, history>>

Goroutine(r) ==
    \/ \E ok \in BOOLEAN : Create(r, ok)
    \/ Admit(r)
    \/ \E ok \in BOOLEAN : Resolve(r, ok)
    \/ \E ok, delivered \in BOOLEAN : Publish(r, ok, delivered)
    \/ Mark(r)
    \/ Finish(r)

Next ==
    \/ \E r \in Requests : \/ \E l \in Logs, n \in 0..MaxMatches : Load(r, l, n)
                           \/ Goroutine(r)
    \/ \E m \in ReplayLogs, status \in Terminal : Handle(m, status)
    \/ Crash

Spec == Init /\ [][Next]_vars

\* Goroutines are scheduled, and every publish ends: it runs under a timeout.
FairSpec == Spec /\ \A r \in Requests : WF_vars(Goroutine(r))

-----------------------------------------------------------------------------

\* The limiter counts the goroutines that publish: no path out of
\* runReplayAsync keeps or frees a slot too many, and at most Limit replays
\* run at once.
SlotsAreReplays ==
    /\ slots = Cardinality({r \in Requests : pc[r] \in Active})
    /\ slots <= Limit

\* A log is left queued only by a replay that never ran to its end: when the
\* goroutine of an accepted request is done, each of its logs has an outcome,
\* or the write was lost.  A request the full limiter refused leaves its logs
\* queued for good, since they were inserted before.
DoneMeansSettled ==
    \A r \in Requests : pc[r] = "done" =>
        \A l \in NewLogs(r) : rows[l] \in Terminal \/ l \in lost

\* "success" on the log of a replay means that a message reached a broker, or
\* that the log was itself replayed and a worker reported on it.
ReplaySuccessIsSent ==
    \A l \in ReplayLogs : rows[l] = "success" => l \in sent \cup handled

\* Replaying alone never rewrites the history it replays: the status of the
\* original log changes only when a worker has handled one of the messages.
OriginalKept ==
    \A l \in Originals : rows[l] = initial[l] \/ l \in handled

\* Every accepted replay comes to an end and frees its slot, however many
\* drivers fail, so that a full limiter does not stay full.
AcceptedEnds ==
    \A r \in Requests : pc[r] \in Active ~> pc[r] \in {"done", "crashed"}
=============================================================================
