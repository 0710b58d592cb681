---------------------------- MODULE EventLogStore ----------------------------
(***************************************************************************)
(* The event log table of pkg/storage/eventlogs, as operators on a         *)
(* function "rows" from log identifiers to the status column.  A log that   *)
(* has no row has the status "absent".  The body, headers and latency       *)
(* columns are left out: no property tells them apart.                      *)
(***************************************************************************)

Statuses == {"absent", "queued", "ignored", "success", "failed"}

Terminal == {"success", "failed"}

\* CreateEventLogs inserts all the records in one statement: all the rows
\* appear with their status, or (on an error) none of them does.
CreateEventLogs(rows, ids, status) ==
    [l \in DOMAIN rows |-> IF l \in ids THEN status ELSE rows[l]]

\* Mutant: the update without the guard that protects a finished row from a
\* late "queued" write.
UpdateUnguarded(rows, l, status) ==
    IF rows[l] # "absent" THEN [rows EXCEPT ![l] = status] ELSE rows

\* UpdateEventLogStatus: last writer wins between success and failed; a
\* "queued" write never replaces either; an identifier without a row is an
\* error and changes nothing.
UpdateEventLogStatus(rows, l, status) ==
    IF /\ rows[l] # "absent"
       /\ status = "queued" => rows[l] \notin Terminal
    THEN [rows EXCEPT ![l] = status]
    ELSE rows
=============================================================================
