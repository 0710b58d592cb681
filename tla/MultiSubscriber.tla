--------------------------- MODULE MultiSubscriber ---------------------------
(***************************************************************************)
(* multiSubscriber.Start of sdk/go/worker/subscriber.go: one goroutine per  *)
(* driver forwards what its subscriber returns to errCh, a closer waits for *)
(* all of them and closes the channel, and the caller drains the channel,   *)
(* joins the errors and cancels the other drivers at the first one.         *)
(***************************************************************************)
EXTENDS Naturals, Sequences, FiniteSets

CONSTANT Subs   \* the named subscribers, finitely many

VARIABLES
    sub,        \* where the goroutine of each subscriber is
    outcome,    \* what its Start returned
    errCh,      \* contents of errCh
    closed,     \* errCh is closed
    cancelled,  \* the derived context is cancelled
    joined,     \* the subscribers whose error has been joined
    returned    \* Start has returned

vars == <<sub, outcome, errCh, closed, cancelled, joined, returned>>

TypeOK ==
    /\ sub \in [Subs -> {"running", "sending", "sent", "done"}]
    /\ outcome \in [Subs -> {"none", "nil", "error"}]
    /\ errCh \in Seq(Subs) /\ Len(errCh) <= Cardinality(Subs)
    /\ closed \in BOOLEAN /\ cancelled \in BOOLEAN /\ returned \in BOOLEAN
    /\ joined \subseteq {s \in Subs : outcome[s] = "error"}
    /\ \A s \in Subs : sub[s] = "running" <=> outcome[s] = "none"

Init ==
    /\ sub = [s \in Subs |-> "running"]
    /\ outcome = [s \in Subs |-> "none"]
    /\ errCh = << >>
    /\ closed = FALSE
    /\ cancelled = FALSE
    /\ joined = {}
    /\ returned = FALSE

\* The caller's context is cancelled.
Cancel ==
    /\ ~cancelled
    /\ cancelled' = TRUE
    /\ UNCHANGED <<sub, outcome, errCh, closed, joined, returned>>

SubReturns(s, res) ==
    /\ sub[s] = "running"
    /\ sub' = [sub EXCEPT ![s] = "sending"]
    /\ outcome' = [outcome EXCEPT ![s] = res]
    /\ UNCHANGED <<errCh, closed, cancelled, joined, returned>>

\* errCh <- entry.sub.Start(...): the channel has a slot for each subscriber.
Send(s) ==
    /\ sub[s] = "sending"
    /\ Len(errCh) < Cardinality(Subs)
    /\ errCh' = Append(errCh, s)
    /\ sub' = [sub EXCEPT ![s] = "sent"]
    /\ UNCHANGED <<outcome, closed, cancelled, joined, returned>>

\* The deferred wg.Done.
WgDone(s) ==
    /\ sub[s] = "sent"
    /\ sub' = [sub EXCEPT ![s] = "done"]
    /\ UNCHANGED <<outcome, errCh, closed, cancelled, joined, returned>>

\* Mutant: the closer does not wait for goroutines that have not sent yet.
CloseEarly ==
    /\ ~closed
    /\ cancelled
    /\ closed' = TRUE
    /\ UNCHANGED <<sub, outcome, errCh, cancelled, joined, returned>>

CloseErrCh ==
    /\ ~closed
    /\ \A s \in Subs : sub[s] = "done"
    /\ closed' = TRUE
    /\ UNCHANGED <<sub, outcome, errCh, cancelled, joined, returned>>

\* Mutant: the first error does not cancel the other drivers.
ReceiveNoCancel ==
    /\ errCh # << >>
    /\ errCh' = Tail(errCh)
    /\ joined' = IF outcome[Head(errCh)] = "error"
                 THEN joined \cup {Head(errCh)} ELSE joined
    /\ UNCHANGED <<sub, outcome, closed, cancelled, returned>>

\* for subErr := range errCh
Receive ==
    /\ errCh # << >>
    /\ errCh' = Tail(errCh)
    /\ IF outcome[Head(errCh)] = "error"
       THEN joined' = joined \cup {Head(errCh)} /\ cancelled' = TRUE
       ELSE UNCHANGED <<joined, cancelled>>
    /\ UNCHANGED <<sub, outcome, closed, returned>>

\* The range ends when the channel is closed and empty.  Returning runs the
\* deferred cancel.
Return ==
    /\ ~returned
    /\ errCh = << >> /\ closed
    /\ returned' = TRUE
    /\ cancelled' = TRUE
    /\ UNCHANGED <<sub, outcome, errCh, closed, joined>>

Next ==
    \/ \E s \in Subs : \/ \E res \in {"nil", "error"} : SubReturns(s, res)
                       \/ Send(s)
                       \/ WgDone(s)
    \/ Cancel
    \/ CloseErrCh
    \/ Receive
    \/ Return

Spec == Init /\ [][Next]_vars

\* Goroutines are scheduled, and a subscriber returns once its context is
\* cancelled.
FairSpec ==
    /\ Spec
    /\ \A s \in Subs :
          /\ WF_vars(cancelled /\ \E res \in {"nil", "error"} : SubReturns(s, res))
          /\ WF_vars(Send(s)) /\ WF_vars(WgDone(s))
    /\ WF_vars(CloseErrCh) /\ WF_vars(Receive) /\ WF_vars(Return)

-----------------------------------------------------------------------------

\* errCh is closed only when no goroutine has a result left to send: a send
\* on a closed channel would panic and take the worker down.
NoSendAfterClose == closed => \A s \in Subs : sub[s] \in {"sent", "done"}

\* Start returns exactly the errors its drivers returned, and only when every
\* driver has stopped: no driver keeps delivering messages to a worker that
\* believes its subscription is over.
ReturnsAllErrors ==
    returned => /\ \A s \in Subs : sub[s] = "done"
                /\ joined = {s \in Subs : outcome[s] = "error"}

\* One failing driver ends the subscription: the others are cancelled and
\* Start returns, so Worker.Run learns of the error.
ErrorEndsStart ==
    \A s \in Subs : outcome[s] = "error" ~> returned
=============================================================================
