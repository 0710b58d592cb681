--------------------------- MODULE EventLifecycle ---------------------------
(***************************************************************************)
(* What the event log promises a reader, whatever the server, the broker   *)
(* and the workers do: a log is recorded once; it says "success" only       *)
(* after a handler completed the event and "failed" only after an error;    *)
(* once it has an outcome it never looks pending again.                     *)
(***************************************************************************)
CONSTANT Logs

VARIABLES status,   \* what the log says
          completed,  \* the logs whose event a handler has completed
          failed      \* the logs with a reported error

vars == <<status, completed, failed>>

Init ==
    /\ status = [l \in Logs |-> "absent"]
    /\ completed = {}
    /\ failed = {}

\* All the logs of an event appear together, pending, or one says that
\* nothing matched.
Record(S, s) ==
    /\ \A l \in S : status[l] = "absent"
    /\ s \in {"queued", "ignored"}
    /\ status' = [l \in Logs |-> IF l \in S THEN s ELSE status[l]]
    /\ UNCHANGED <<completed, failed>>

Complete(l) ==
    /\ completed' = completed \cup {l}
    /\ UNCHANGED <<status, failed>>

Succeed(l) ==
    /\ l \in completed
    /\ status[l] # "absent"
    /\ status' = [status EXCEPT ![l] = "success"]
    /\ UNCHANGED <<completed, failed>>

\* An error may find no row to write to, or the write may be lost.
Fail(l) ==
    /\ failed' = failed \cup {l}
    /\ \/ /\ status[l] # "absent"
          /\ status' = [status EXCEPT ![l] = "failed"]
       \/ UNCHANGED status
    /\ UNCHANGED completed

\* A client of the API may mark an unfinished log as pending.
Requeue(l) ==
    /\ status[l] \in {"queued", "ignored"}
    /\ status' = [status EXCEPT ![l] = "queued"]
    /\ UNCHANGED <<completed, failed>>

Next ==
    \/ \E S \in SUBSET Logs, s \in {"queued", "ignored"} : Record(S, s)
    \/ \E l \in Logs : Complete(l) \/ Succeed(l) \/ Fail(l) \/ Requeue(l)

Spec == Init /\ [][Next]_vars
=============================================================================
