---------------------------- MODULE ReplayProofs ----------------------------
(***************************************************************************)
(* Proofs about Replay, for every set of requests and logs, every limit and *)
(* every number of matches and faults.                                      *)
(***************************************************************************)
EXTENDS Replay, FiniteSetTheorems, TLAPS

\* What the steps of a request have established when it gets to a later one.
CursorFits ==
    \A r \in Requests :
        /\ pc[r] \in {"idle", "create", "admit"} => cur[r] = 1
        /\ pc[r] \in {"create", "admit"} => count[r] \in 1..MaxMatches
        /\ pc[r] \in {"resolve", "publish", "succeed", "fail"} => cur[r] \in 1..count[r]
        /\ pc[r] \in {"finish", "done"} => cur[r] = count[r] + 1

\* A request that was accepted for replay, and every message of one, names a log.
SourceKnown ==
    /\ \A r \in Requests : pc[r] \notin {"idle", "refused"} => source[r] \in Logs
    /\ \A m \in msgs : pc[m[1]] # "idle" /\ source[m[1]] \in Logs

\* The logs of a request are in the table before it asks the limiter.
NewLogsInserted ==
    \A r \in Requests : pc[r] \in Active \cup {"admit", "done"} =>
        \A i \in 1..count[r] : rows[<<r, i>>] # "absent"

\* The matches the goroutine has passed are settled.
PassedAreSettled ==
    \A r \in Requests : pc[r] \in Active \cup {"done"} =>
        \A i \in 1..count[r] : i < cur[r] =>
            rows[<<r, i>>] \in Terminal \/ <<r, i>> \in lost

\* The goroutine reports success only for a message that it has sent.
SucceedingIsSent == \A r \in Requests : pc[r] = "succeed" => <<r, cur[r]>> \in sent

\* What the requests, the table and the messages have to do with each other.
TableInv ==
    /\ TypeOK
    /\ CursorFits
    /\ SourceKnown
    /\ NewLogsInserted
    /\ PassedAreSettled
    /\ SucceedingIsSent
    /\ ReplaySuccessIsSent
    /\ OriginalKept

\* The inductive invariant.
RInv == TableInv /\ SlotsAreReplays

-----------------------------------------------------------------------------
(***************************************************************************)
(* The table.                                                               *)
(***************************************************************************)

LEMMA NewLogInTable ==
    ASSUME NEW r \in Requests, NEW i \in 1..MaxMatches
    PROVE  <<r, i>> \in ReplayLogs /\ <<r, i>> \in Logs /\ <<r, i>> \notin Originals
  BY ReplayAssumption DEF ReplayLogs, Logs

\* The current log of a goroutine is one of the request's.
LEMMA CurLogFits ==
    ASSUME TypeOK, CursorFits, NEW r \in Requests,
           pc[r] \in {"resolve", "publish", "succeed", "fail"}
    PROVE  /\ cur[r] \in 1..count[r] /\ cur[r] \in 1..MaxMatches
           /\ CurLog(r) = <<r, cur[r]>> /\ CurLog(r) \in ReplayLogs
           /\ CurLog(r) \in Logs /\ CurLog(r) \notin Originals
  <1>1. cur[r] \in 1..count[r] /\ count[r] \in 0..MaxMatches
    BY DEF CursorFits, TypeOK
  <1>2. cur[r] \in 1..MaxMatches
    BY <1>1, ReplayAssumption
  <1> QED BY <1>1, <1>2, NewLogInTable DEF CurLog

\* A step that writes at most an outcome to the log l.
WritesAtMost(l, s) ==
    /\ rows' \in [Logs -> Statuses]
    /\ lost \subseteq lost' /\ lost' \subseteq Logs
    /\ faults' \in 0..MaxFaults
    /\ \A k \in Logs : /\ k # l => rows'[k] = rows[k]
                       /\ rows'[k] \in {rows[k], s}
                       /\ rows[k] # "absent" => rows'[k] # "absent"
                       /\ rows[k] \in Terminal => rows'[k] \in Terminal
    /\ rows[l] # "absent" => rows'[l] \in Terminal \/ l \in lost'

\* Write: runReplayAsync's and the worker's status updates.
LEMMA WriteTouchesOne ==
    ASSUME TypeOK, NEW l \in Logs, NEW s \in Terminal, Write(l, s)
    PROVE  WritesAtMost(l, s)
  <1> USE DEF Terminal, Statuses
  <1>1. rows \in [Logs -> Statuses] /\ lost \subseteq Logs /\ faults \in 0..MaxFaults
    BY DEF TypeOK
  <1>2. CASE rows' = UpdateEventLogStatus(rows, l, s) /\ UNCHANGED <<faults, lost>>
    <2>1. \/ rows' = rows /\ rows[l] = "absent"
          \/ rows' = [rows EXCEPT ![l] = s] /\ rows[l] # "absent"
      BY <1>2 DEF UpdateEventLogStatus
    <2> QED BY <1>1, <1>2, <2>1 DEF WritesAtMost
  <1>3. CASE faults < MaxFaults /\ faults' = faults + 1 /\ lost' = lost \cup {l} /\ UNCHANGED rows
    BY <1>1, <1>3, ReplayAssumption DEF WritesAtMost
  <1> QED BY <1>2, <1>3 DEF Write

-----------------------------------------------------------------------------
(***************************************************************************)
(* The invariant holds initially.                                           *)
(***************************************************************************)

LEMMA RInvInit == Init => RInv
  <1> SUFFICES ASSUME Init PROVE RInv
    OBVIOUS
  <1> USE DEF Init
  <1>1. TypeOK
    <2>1. 0 \in 0..MaxMatches /\ 1 \in 1..(MaxMatches + 1) /\ slots \in 0..Limit /\ faults \in 0..MaxFaults
      BY ReplayAssumption
    <2>2. initial \in [Originals -> Statuses] /\ rows \in [Logs -> Statuses]
      BY ReplayAssumption DEF Statuses
    <2> QED BY <2>1, <2>2 DEF TypeOK, Pcs
  <1>2. SlotsAreReplays
    <2>1. {r \in Requests : pc[r] \in Active} = {}
      BY DEF Active
    <2> QED BY <2>1, FS_EmptySet, ReplayAssumption DEF SlotsAreReplays
  <1>3. CursorFits /\ SourceKnown /\ NewLogsInserted /\ PassedAreSettled /\ SucceedingIsSent
    BY DEF CursorFits, SourceKnown, NewLogsInserted, PassedAreSettled, SucceedingIsSent, Active
  <1>4. ReplaySuccessIsSent /\ OriginalKept
    <2>1. \A l \in ReplayLogs : rows[l] = "absent"
      BY ReplayAssumption DEF Logs
    <2> QED BY <2>1 DEF ReplaySuccessIsSent, OriginalKept, Logs
  <1> QED BY <1>1, <1>2, <1>3, <1>4 DEF RInv, TableInv

-----------------------------------------------------------------------------
(***************************************************************************)
(* The limiter: Admit takes a slot, Finish gives it back, and no other step *)
(* changes the set of goroutines that publish.                              *)
(***************************************************************************)

Publishing == {r \in Requests : pc[r] \in Active}

\* The requests that publish are a finite set.
LEMMA PublishingFinite ==
    /\ IsFiniteSet(Publishing) /\ IsFiniteSet(Publishing')
    /\ Cardinality(Publishing) \in Nat /\ Cardinality(Publishing') \in Nat
  BY ReplayAssumption, FS_Subset, FS_CardinalityType DEF Publishing

\* Every step takes or gives back the slot of the request it moves.
LEMMA SlotsNext == RInv /\ [Next]_vars => SlotsAreReplays'
  <1> SUFFICES ASSUME RInv, [Next]_vars PROVE SlotsAreReplays'
    OBVIOUS
  <1> USE DEF RInv, TableInv
  <1>1. slots = Cardinality(Publishing) /\ slots <= Limit /\ slots \in Nat /\ Limit \in Nat
        /\ pc \in [Requests -> Pcs]
    BY ReplayAssumption DEF SlotsAreReplays, Publishing, TypeOK
  <1>2. SlotsAreReplays' <=> slots' = Cardinality(Publishing') /\ slots' <= Limit
    BY DEF SlotsAreReplays, Publishing
  <1>3. ASSUME \A q \in Requests : pc'[q] \in Active <=> pc[q] \in Active, slots' = slots
        PROVE  SlotsAreReplays'
    <2>1. Publishing' = Publishing
      BY <1>3 DEF Publishing
    <2> QED BY <1>1, <1>2, <1>3, <2>1
  <1>4. ASSUME NEW r \in Requests, Admit(r) PROVE SlotsAreReplays'
    <2>1. CASE slots < Limit
      <3>1. Publishing' = Publishing \cup {r} /\ r \notin Publishing /\ slots' = slots + 1
        BY <1>1, <1>4, <2>1 DEF Admit, Goto, Publishing, Active
      <3>2. Cardinality(Publishing') = Cardinality(Publishing) + 1
        BY <3>1, PublishingFinite, FS_AddElement
      <3> QED BY <1>1, <1>2, <2>1, <3>1, <3>2
    <2>2. CASE ~(slots < Limit)
      <3>1. slots' = slots /\ \A q \in Requests : pc'[q] \in Active <=> pc[q] \in Active
        BY <1>1, <1>4, <2>2 DEF Admit, Goto, Active
      <3> QED BY <1>3, <3>1
    <2> QED BY <2>1, <2>2
  <1>5. ASSUME NEW r \in Requests, Finish(r) PROVE SlotsAreReplays'
    <2>1. Publishing' = Publishing \ {r} /\ r \in Publishing /\ slots' = slots - 1
      BY <1>1, <1>5 DEF Finish, Goto, Publishing, Active
    <2>2. Cardinality(Publishing') = Cardinality(Publishing) - 1
      BY <2>1, PublishingFinite, FS_RemoveElement
    <2> QED BY <1>1, <1>2, <2>1, <2>2, PublishingFinite
  <1>6. CASE Crash
    <2>1. Publishing' = {} /\ slots' = 0
      BY <1>6 DEF Crash, Publishing, Active
    <2> QED BY <1>1, <1>2, <2>1, FS_EmptySet
  <1>7. ASSUME NEW r \in Requests,
               \/ \E l \in Logs, n \in 0..MaxMatches : Load(r, l, n)
               \/ \E ok \in BOOLEAN : Create(r, ok)
               \/ \E ok \in BOOLEAN : Resolve(r, ok)
               \/ \E ok, delivered \in BOOLEAN : Publish(r, ok, delivered)
               \/ Mark(r)
        PROVE  SlotsAreReplays'
    <2>1. slots' = slots
      BY <1>7 DEF Load, Create, Resolve, Publish, Mark
    <2>2. \A q \in Requests : pc'[q] \in Active <=> pc[q] \in Active
      BY <1>1, <1>7 DEF Load, Create, Resolve, Publish, Mark, NextMatch, Goto, Active
    <2> QED BY <1>3, <2>1, <2>2
  <1>8. CASE \/ UNCHANGED vars
             \/ \E m \in ReplayLogs, status \in Terminal : Handle(m, status)
    <2>1. slots' = slots /\ pc' = pc
      BY <1>8 DEF vars, request, Handle
    <2> QED BY <1>3, <2>1
  <1> QED BY <1>4, <1>5, <1>6, <1>7, <1>8 DEF Next, Goroutine

-----------------------------------------------------------------------------
(***************************************************************************)
(* The table.                                                               *)
(***************************************************************************)

\* Load: a request that goes on has a source and at least one match.
LEMMA LoadKeeps ==
    ASSUME TableInv, NEW r \in Requests, NEW l \in Logs, NEW n \in 0..MaxMatches, Load(r, l, n)
    PROVE  TableInv'
  <1> USE DEF TableInv
  <1>1. /\ UNCHANGED <<cur, slots, rows, msgs, faults, sent, handled, lost, initial>>
        /\ pc[r] = "idle"
        /\ \A q \in Requests : q # r => /\ pc'[q] = pc[q] /\ source'[q] = source[q]
                                        /\ count'[q] = count[q]
        /\ \/ pc'[r] = "refused" /\ source' = source /\ count' = count
           \/ pc'[r] = "create" /\ source'[r] = l /\ count'[r] = n /\ n \in 1..MaxMatches
    BY ReplayAssumption DEF Load, Goto, history, TypeOK
  <1>2. /\ pc' \in [Requests -> Pcs] /\ source' \in [Requests -> Logs \cup {None}]
        /\ count' \in [Requests -> 0..MaxMatches]
    BY DEF Load, Goto, TypeOK, Pcs, Ended
  <1>3. TypeOK'
    BY <1>1, <1>2 DEF TypeOK
  <1>4. CursorFits' /\ NewLogsInserted' /\ PassedAreSettled' /\ SucceedingIsSent'
    BY <1>1 DEF CursorFits, NewLogsInserted, PassedAreSettled, SucceedingIsSent, Active
  <1>5. SourceKnown'
    <2>1. \A m \in msgs : m[1] \in Requests /\ m[1] # r
      BY <1>1 DEF SourceKnown, TypeOK, ReplayLogs
    <2> QED BY <1>1, <2>1 DEF SourceKnown
  <1>6. ReplaySuccessIsSent' /\ OriginalKept'
    BY <1>1 DEF ReplaySuccessIsSent, OriginalKept
  <1> QED BY <1>3, <1>4, <1>5, <1>6

\* Admit, Resolve and Finish move the request only.
LEMMA MoveKeeps ==
    ASSUME TableInv, SlotsAreReplays', NEW r \in Requests,
           Admit(r) \/ (\E ok \in BOOLEAN : Resolve(r, ok)) \/ Finish(r)
    PROVE  TableInv'
  <1> USE DEF TableInv
  <1>1. /\ UNCHANGED <<source, count, cur, rows, msgs, faults, sent, handled, lost, initial>>
        /\ \A q \in Requests : q # r => pc'[q] = pc[q]
        /\ \/ pc[r] = "admit" /\ pc'[r] \in {"resolve", "refused"}
           \/ pc[r] = "resolve" /\ pc'[r] \in {"publish", "fail"}
           \/ pc[r] = "finish" /\ pc'[r] = "done"
    BY DEF Admit, Resolve, Finish, Goto, history, TypeOK
  <1>2. TypeOK'
    <2>1. pc' \in [Requests -> Pcs]
      BY DEF Admit, Resolve, Finish, Goto, TypeOK, Pcs, Active, Ended
    <2>2. slots' \in 0..Limit
      <3>1. slots' = Cardinality(Publishing') /\ slots' <= Limit
        BY DEF SlotsAreReplays, Publishing
      <3> QED BY <3>1, PublishingFinite, ReplayAssumption
    <2> QED BY <1>1, <2>1, <2>2 DEF TypeOK
  <1>3. CursorFits'
    BY <1>1 DEF CursorFits, TypeOK
  <1>4. SourceKnown'
    <2>1. \A m \in msgs : m[1] \in Requests
      BY DEF TypeOK, ReplayLogs
    <2> QED BY <1>1, <2>1 DEF SourceKnown
  <1>5. NewLogsInserted'
    BY <1>1 DEF NewLogsInserted, Active
  <1>6. PassedAreSettled'
    <2> SUFFICES ASSUME NEW q \in Requests, pc'[q] \in Active \cup {"done"}, NEW i \in 1..count[q], i < cur[q]
                 PROVE  rows[<<q, i>>] \in Terminal \/ <<q, i>> \in lost
      BY <1>1 DEF PassedAreSettled
    <2>1. CASE pc[q] \in Active \cup {"done"}
      BY <2>1 DEF PassedAreSettled
    <2>2. CASE pc[q] \notin Active \cup {"done"}
      <3>1. q = r /\ pc[r] = "admit"
        BY <1>1, <2>2 DEF Active
      <3> QED BY <3>1 DEF CursorFits
    <2> QED BY <2>1, <2>2
  <1>7. SucceedingIsSent' /\ ReplaySuccessIsSent' /\ OriginalKept'
    BY <1>1 DEF SucceedingIsSent, ReplaySuccessIsSent, OriginalKept
  <1> QED BY <1>2, <1>3, <1>4, <1>5, <1>6, <1>7

\* Publish: the message is sent before the goroutine can report success.
LEMMA PublishKeeps ==
    ASSUME TableInv, NEW r \in Requests, NEW ok \in BOOLEAN, NEW delivered \in BOOLEAN,
           Publish(r, ok, delivered)
    PROVE  TableInv'
  <1> USE DEF TableInv
  <1>1. /\ UNCHANGED <<source, count, cur, slots, rows, faults, handled, lost, initial>>
        /\ \A q \in Requests : q # r => pc'[q] = pc[q]
        /\ pc[r] = "publish" /\ pc'[r] \in {"succeed", "fail"}
        /\ pc'[r] = "succeed" => CurLog(r) \in sent'
        /\ sent \subseteq sent' /\ sent' \subseteq sent \cup {CurLog(r)}
        /\ msgs' \subseteq msgs \cup {CurLog(r)}
    BY DEF Publish, Goto, TypeOK
  <1>2. CurLog(r) = <<r, cur[r]>> /\ CurLog(r) \in ReplayLogs
    BY <1>1, CurLogFits
  <1>3. TypeOK'
    <2>1. pc' \in [Requests -> Pcs]
      BY DEF Publish, Goto, TypeOK, Pcs, Active
    <2> QED BY <1>1, <1>2, <2>1 DEF TypeOK
  <1>4. CursorFits' /\ NewLogsInserted' /\ PassedAreSettled'
    BY <1>1 DEF CursorFits, NewLogsInserted, PassedAreSettled, Active
  <1>5. SourceKnown'
    <2>1. \A m \in msgs : m[1] \in Requests
      BY DEF TypeOK, ReplayLogs
    <2>2. source[r] \in Logs
      BY <1>1 DEF SourceKnown
    <2> QED BY <1>1, <1>2, <2>1, <2>2 DEF SourceKnown
  <1>6. SucceedingIsSent' /\ ReplaySuccessIsSent' /\ OriginalKept'
    BY <1>1, <1>2 DEF SucceedingIsSent, ReplaySuccessIsSent, OriginalKept
  <1> QED BY <1>3, <1>4, <1>5, <1>6

\* Create: all the logs of the request appear at once, as queued.
LEMMA CreateKeeps ==
    ASSUME TableInv, NEW r \in Requests, NEW ok \in BOOLEAN, Create(r, ok)
    PROVE  TableInv'
  <1> USE DEF TableInv
  <1>1. /\ UNCHANGED <<source, count, cur, slots, msgs, faults, sent, handled, lost, initial>>
        /\ \A q \in Requests : q # r => pc'[q] = pc[q]
        /\ pc[r] = "create"
        /\ \/ pc'[r] = "refused" /\ rows' = rows
           \/ pc'[r] = "admit" /\ rows' = CreateEventLogs(rows, NewLogs(r), "queued")
    BY DEF Create, Goto, TypeOK, history
  <1>2. /\ \A k \in Logs : k \notin NewLogs(r) => rows'[k] = rows[k]
        /\ \A k \in Logs : rows'[k] \in {rows[k], "queued"}
        /\ pc'[r] = "admit" => \A k \in Logs : k \in NewLogs(r) => rows'[k] = "queued"
        /\ rows' \in [Logs -> Statuses]
    BY <1>1 DEF CreateEventLogs, TypeOK, Statuses
  <1>3. \A k \in NewLogs(r) : k \in ReplayLogs /\ k \in Logs /\ k \notin Originals /\ k[1] = r
    <2>1. count[r] \in 0..MaxMatches
      BY DEF TypeOK
    <2>2. \A i \in 1..count[r] : i \in 1..MaxMatches
      BY <2>1, ReplayAssumption
    <2> QED BY <2>2, NewLogInTable DEF NewLogs
  <1>4. TypeOK'
    <2>1. pc' \in [Requests -> Pcs]
      BY DEF Create, Goto, TypeOK, Pcs, Ended
    <2> QED BY <1>1, <1>2, <2>1 DEF TypeOK
  <1>5. CursorFits' /\ SucceedingIsSent'
    BY <1>1 DEF CursorFits, SucceedingIsSent
  <1>6. SourceKnown'
    <2>1. \A m \in msgs : m[1] \in Requests
      BY DEF TypeOK, ReplayLogs
    <2> QED BY <1>1, <2>1 DEF SourceKnown
  <1>7. ASSUME NEW q \in Requests, NEW i \in 1..count[q], q # r
        PROVE  rows'[<<q, i>>] = rows[<<q, i>>]
    <2>1. count[q] \in 0..MaxMatches
      BY DEF TypeOK
    <2>2. i \in 1..MaxMatches
      BY <2>1, ReplayAssumption
    <2>3. <<q, i>> \in Logs /\ <<q, i>> \notin NewLogs(r)
      BY <1>7, <2>2, NewLogInTable DEF NewLogs
    <2> QED BY <1>2, <2>3
  <1>8. NewLogsInserted'
    <2>1. ASSUME NEW i \in 1..count[r], pc'[r] = "admit" PROVE rows'[<<r, i>>] # "absent"
      <3>1. <<r, i>> \in NewLogs(r)
        BY DEF NewLogs
      <3> QED BY <1>2, <1>3, <2>1, <3>1
    <2> QED BY <1>1, <1>7, <2>1 DEF NewLogsInserted, Active
  <1>9. PassedAreSettled'
    BY <1>1, <1>7 DEF PassedAreSettled, Active
  <1>10. ReplaySuccessIsSent'
    BY <1>1, <1>2 DEF ReplaySuccessIsSent, Logs
  <1>11. OriginalKept'
    BY <1>1, <1>2, <1>3 DEF OriginalKept, Logs
  <1> QED BY <1>4, <1>5, <1>6, <1>8, <1>9, <1>10, <1>11

\* A status write takes no log and no outcome away.
LEMMA WriteKeepsSettled ==
    ASSUME TypeOK, NEW l, NEW s, WritesAtMost(l, s), NEW q \in Requests, NEW i \in 1..count[q]
    PROVE  /\ rows[<<q, i>>] # "absent" => rows'[<<q, i>>] # "absent"
           /\ rows[<<q, i>>] \in Terminal \/ <<q, i>> \in lost =>
                 rows'[<<q, i>>] \in Terminal \/ <<q, i>> \in lost'
  <1>1. count[q] \in 0..MaxMatches
    BY DEF TypeOK
  <1>2. i \in 1..MaxMatches
    BY <1>1, ReplayAssumption
  <1> QED BY <1>2, NewLogInTable DEF WritesAtMost

\* Mark: the log of the current match is settled before the next one.
LEMMA MarkKeeps ==
    ASSUME TableInv, NEW r \in Requests, Mark(r)
    PROVE  TableInv'
  <1> USE DEF TableInv
  <1> DEFINE s == IF pc[r] = "succeed" THEN "success" ELSE "failed"
  <1>1. /\ UNCHANGED <<source, count, slots, msgs, sent, handled, initial>>
        /\ \A q \in Requests : q # r => pc'[q] = pc[q] /\ cur'[q] = cur[q]
        /\ pc[r] \in {"succeed", "fail"} /\ cur'[r] = cur[r] + 1
        /\ pc'[r] = IF cur[r] = count[r] THEN "finish" ELSE "resolve"
    BY DEF Mark, NextMatch, Goto, TypeOK
  <1>2. /\ cur[r] \in 1..count[r] /\ cur[r] \in 1..MaxMatches /\ count[r] \in 0..MaxMatches
        /\ CurLog(r) = <<r, cur[r]>> /\ CurLog(r) \in ReplayLogs
        /\ CurLog(r) \in Logs /\ CurLog(r) \notin Originals
    BY <1>1, CurLogFits DEF TypeOK
  <1>3. s \in Terminal /\ WritesAtMost(CurLog(r), s)
    <2>1. s \in Terminal
      BY DEF Terminal
    <2> QED BY <1>2, <2>1, WriteTouchesOne DEF Mark
  <1>4. TypeOK'
    <2>1. pc' \in [Requests -> Pcs] /\ cur' \in [Requests -> 1..(MaxMatches + 1)]
      <3>1. cur[r] + 1 \in 1..(MaxMatches + 1)
        BY <1>2, ReplayAssumption
      <3> QED BY <3>1 DEF Mark, NextMatch, Goto, TypeOK, Pcs, Active
    <2> QED BY <1>1, <1>3, <2>1 DEF TypeOK, WritesAtMost
  <1>5. CursorFits'
    <2>1. /\ pc'[r] = "resolve" => cur'[r] \in 1..count[r]
          /\ pc'[r] = "finish" => cur'[r] = count[r] + 1
      BY <1>1, <1>2
    <2> QED BY <1>1, <2>1 DEF CursorFits
  <1>6. SourceKnown'
    <2>1. \A m \in msgs : m[1] \in Requests
      BY DEF TypeOK, ReplayLogs
    <2> QED BY <1>1, <2>1 DEF SourceKnown
  <1>7. NewLogsInserted'
    BY <1>1, <1>3, WriteKeepsSettled DEF NewLogsInserted, Active
  <1>8. PassedAreSettled'
    <2> SUFFICES ASSUME NEW q \in Requests, pc'[q] \in Active \cup {"done"}, NEW i \in 1..count[q], i < cur'[q]
                 PROVE  rows'[<<q, i>>] \in Terminal \/ <<q, i>> \in lost'
      BY <1>1 DEF PassedAreSettled
    <2>1. pc[q] \in Active \cup {"done"}
      BY <1>1 DEF Active
    <2>2. CASE i < cur[q]
      BY <2>1, <2>2, <1>3, WriteKeepsSettled DEF PassedAreSettled
    <2>3. CASE ~(i < cur[q])
      <3>1. q = r /\ i = cur[r]
        BY <1>1, <1>2, <2>3 DEF TypeOK
      <3>2. rows[CurLog(r)] # "absent"
        BY <1>1, <1>2 DEF NewLogsInserted, Active
      <3> QED BY <1>2, <1>3, <3>1, <3>2 DEF WritesAtMost
    <2> QED BY <2>2, <2>3
  <1>9. SucceedingIsSent'
    BY <1>1 DEF SucceedingIsSent
  <1>10. ReplaySuccessIsSent'
    <2> SUFFICES ASSUME NEW l \in ReplayLogs, rows'[l] = "success" PROVE l \in sent \cup handled
      BY <1>1 DEF ReplaySuccessIsSent
    <2>1. CASE rows[l] = "success"
      BY <2>1 DEF ReplaySuccessIsSent
    <2>2. CASE rows[l] # "success"
      <3>1. l = CurLog(r) /\ s = "success"
        BY <1>3, <2>2 DEF WritesAtMost, Logs
      <3> QED BY <3>1, <1>2 DEF SucceedingIsSent
    <2> QED BY <2>1, <2>2
  <1>11. OriginalKept'
    BY <1>1, <1>2, <1>3 DEF OriginalKept, WritesAtMost, Logs
  <1> QED BY <1>4, <1>5, <1>6, <1>7, <1>8, <1>9, <1>10, <1>11

\* Handle: a worker reports on the log that the message names.
LEMMA HandleKeeps ==
    ASSUME TableInv, NEW m \in ReplayLogs, NEW s \in Terminal, Handle(m, s)
    PROVE  TableInv'
  <1> USE DEF TableInv
  <1> DEFINE l == source[m[1]]
  <1>1. UNCHANGED <<pc, source, count, cur, slots, sent, initial>>
        /\ m \in msgs /\ msgs' \subseteq msgs /\ handled' = handled \cup {l} /\ Write(l, s)
    BY DEF Handle, request
  <1>2. l \in Logs
    BY <1>1 DEF SourceKnown
  <1>3. WritesAtMost(l, s)
    BY <1>1, <1>2, WriteTouchesOne
  <1> HIDE DEF l
  <1>4. TypeOK'
    BY <1>1, <1>2, <1>3 DEF TypeOK, WritesAtMost
  <1>5. CursorFits' /\ SourceKnown' /\ SucceedingIsSent'
    BY <1>1 DEF CursorFits, SourceKnown, SucceedingIsSent
  <1>6. NewLogsInserted' /\ PassedAreSettled'
    BY <1>1, <1>3, WriteKeepsSettled DEF NewLogsInserted, PassedAreSettled
  <1>7. ReplaySuccessIsSent' /\ OriginalKept'
    BY <1>1, <1>3 DEF ReplaySuccessIsSent, OriginalKept, WritesAtMost, Logs
  <1> QED BY <1>4, <1>5, <1>6, <1>7

\* Crash: the table stays as the goroutines left it.
LEMMA CrashKeeps ==
    ASSUME TableInv, Crash
    PROVE  TableInv'
  <1> USE DEF TableInv
  <1>1. /\ UNCHANGED <<source, count, cur, rows, msgs, sent, handled, lost, initial>>
        /\ slots' = 0 /\ faults < MaxFaults /\ faults' = faults + 1
        /\ \A r \in Requests : pc'[r] = IF pc[r] \in Active \cup {"create", "admit"}
                                        THEN "crashed" ELSE pc[r]
    BY DEF Crash, history
  <1>2. TypeOK'
    <2>1. pc' \in [Requests -> Pcs]
      BY DEF Crash, TypeOK, Pcs, Ended
    <2>2. slots' \in 0..Limit /\ faults' \in 0..MaxFaults
      BY <1>1, ReplayAssumption DEF TypeOK
    <2> QED BY <1>1, <2>1, <2>2 DEF TypeOK
  <1>3. CursorFits' /\ NewLogsInserted' /\ PassedAreSettled' /\ SucceedingIsSent'
    BY <1>1 DEF CursorFits, NewLogsInserted, PassedAreSettled, SucceedingIsSent, Active
  <1>4. SourceKnown'
    <2>1. \A m \in msgs : m[1] \in Requests
      BY DEF TypeOK, ReplayLogs
    <2> QED BY <1>1, <2>1 DEF SourceKnown, Active
  <1>5. ReplaySuccessIsSent' /\ OriginalKept'
    BY <1>1 DEF ReplaySuccessIsSent, OriginalKept
  <1> QED BY <1>2, <1>3, <1>4, <1>5

\* RInv is inductive.
LEMMA RInvNext == RInv /\ [Next]_vars => RInv'
  <1> SUFFICES ASSUME RInv, [Next]_vars PROVE RInv'
    OBVIOUS
  <1>1. SlotsAreReplays'
    BY SlotsNext
  <1> SUFFICES TableInv'
    BY <1>1 DEF RInv
  <1>2. ASSUME NEW r \in Requests, Goroutine(r) PROVE TableInv'
    BY <1>1, <1>2, CreateKeeps, MoveKeeps, PublishKeeps, MarkKeeps DEF Goroutine, RInv
  <1>3. ASSUME NEW r \in Requests, NEW l \in Logs, NEW n \in 0..MaxMatches, Load(r, l, n) PROVE TableInv'
    BY <1>3, LoadKeeps DEF RInv
  <1>4. ASSUME NEW m \in ReplayLogs, NEW s \in Terminal, Handle(m, s) PROVE TableInv'
    BY <1>4, HandleKeeps DEF RInv
  <1>5. CASE Crash
    BY <1>5, CrashKeeps DEF RInv
  <1>6. CASE UNCHANGED vars
    BY <1>6 DEF RInv, TableInv, vars, request, history, TypeOK, CursorFits, SourceKnown,
                NewLogsInserted, PassedAreSettled, SucceedingIsSent, ReplaySuccessIsSent, OriginalKept
  <1> QED BY <1>2, <1>3, <1>4, <1>5, <1>6 DEF Next

\* RInv holds in every state.
LEMMA RInvAlways == Spec => []RInv
  BY RInvInit, RInvNext, PTL DEF Spec

-----------------------------------------------------------------------------

\* Every variable of Replay keeps its type: in particular a replay never goes
\* past the last of its matches, and a message never names a missing log.
THEOREM ReplayTypeOK == Spec => []TypeOK
  BY RInvAlways, PTL DEF RInv, TableInv

\* The limiter counts the goroutines of runReplayAsync exactly, and never more
\* than its limit of them, for any limit and any number of requests.
THEOREM ReplaySlots == Spec => []SlotsAreReplays
  BY RInvAlways, PTL DEF RInv

\* When the goroutine of an accepted replay has ended, each of its logs has an
\* outcome, or the write of it was lost.
THEOREM ReplaySettles == Spec => []DoneMeansSettled
  <1>1. RInv => DoneMeansSettled
    <2> SUFFICES ASSUME RInv, NEW r \in Requests, pc[r] = "done", NEW l \in NewLogs(r)
                 PROVE  rows[l] \in Terminal \/ l \in lost
      BY DEF DoneMeansSettled
    <2>1. PICK i \in 1..count[r] : l = <<r, i>>
      BY DEF NewLogs
    <2>2. cur[r] = count[r] + 1 /\ count[r] \in Nat
      BY ReplayAssumption DEF RInv, TableInv, CursorFits, TypeOK
    <2> QED BY <2>1, <2>2 DEF RInv, TableInv, PassedAreSettled
  <1> QED BY <1>1, RInvAlways, PTL

\* "success" on a replay's log means that its message reached a broker, or
\* that a worker reported on it.
THEOREM ReplaySuccess == Spec => []ReplaySuccessIsSent
  BY RInvAlways, PTL DEF RInv, TableInv

\* ReplayEventLog never rewrites the log it replays: only a worker does.
THEOREM ReplayOriginal == Spec => []OriginalKept
  BY RInvAlways, PTL DEF RInv, TableInv
=============================================================================
