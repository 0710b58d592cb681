---------------------------- MODULE MCWorkerRun ----------------------------
(***************************************************************************)
(* Worker.Run over three topics, two of them on the same driver, and beside *)
(* it Start of the multiSubscriber that a worker may be given instead.  The *)
(* two do not share state, so a behaviour moves one of them.                *)
(***************************************************************************)
EXTENDS WorkerRun

CONSTANT Subs

VARIABLES focus, sub, outcome, subErrCh, closed, subCancelled, joined, returned

subVars == <<sub, outcome, subErrCh, closed, subCancelled, joined, returned>>
allVars == <<focus, vars, subVars>>

Multi == INSTANCE MultiSubscriber WITH errCh <- subErrCh, cancelled <- subCancelled

TwoOnOne == [t \in Topics |-> IF t = "t3" THEN "d2" ELSE "d1"]

MCInit == focus \in {"run", "multi"} /\ Init /\ Multi!Init
MCNext ==
    \/ focus = "run" /\ Next /\ UNCHANGED <<focus, subVars>>
    \/ focus = "multi" /\ Multi!Next /\ UNCHANGED <<focus, vars>>

Run(A) == focus = "run" /\ A /\ UNCHANGED <<focus, subVars>>
Start(A) == focus = "multi" /\ A /\ UNCHANGED <<focus, vars>>

\* The fairness of WorkerRun and of MultiSubscriber, each for its own part.
MCSpec ==
    /\ MCInit /\ [][MCNext]_allVars
    /\ WF_allVars(Run(Main))
    /\ \A t \in Topics :
          /\ WF_allVars(Run(SendError(t))) /\ WF_allVars(Run(CancelOthers(t)))
          /\ WF_allVars(Run(cancelled /\ StartReturns(t)))
    /\ \A s \in Subs :
          /\ WF_allVars(Start(subCancelled /\ \E r \in {"nil", "error"} : Multi!SubReturns(s, r)))
          /\ WF_allVars(Start(Multi!Send(s))) /\ WF_allVars(Start(Multi!WgDone(s)))
    /\ WF_allVars(Start(Multi!CloseErrCh))
    /\ WF_allVars(Start(Multi!Receive)) /\ WF_allVars(Start(Multi!Return))

-----------------------------------------------------------------------------

\* multiSubscriber.Start closes errCh only when no goroutine has a result left
\* to send, and returns exactly the errors its drivers returned, when every
\* driver has stopped.
StartReturnsAllErrors == Multi!NoSendAfterClose /\ Multi!ReturnsAllErrors

\* One failing driver ends multiSubscriber.Start: the others are cancelled and
\* Worker.Run learns of the error.
ErrorEndsStart == \A s \in Subs : outcome[s] = "error" ~> returned
=============================================================================
