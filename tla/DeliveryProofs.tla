--------------------------- MODULE DeliveryProofs ---------------------------
(***************************************************************************)
(* Proofs about Delivery, for every set of events, every list of matches    *)
(* and every value of the retry, concurrency and fault bounds.              *)
(***************************************************************************)
EXTENDS Delivery, FiniteSetTheorems, TLAPS

\* The matches of an event fit the identifiers of its logs, and a request
\* that still serves has a match in hand.
CursorInRange ==
    \A e \in Events :
        /\ Len(matches[e]) <= MaxMatches
        /\ pc[e] \in Serving => cur[e] \in 1..Len(matches[e])

\* A request that has not logged its matches yet is at its first match and
\* owns no row.
IdleIsFresh ==
    \A e \in Events : pc[e] = "idle" =>
        /\ cur[e] = 1
        /\ \A i \in 1..MaxMatches : rows[<<e, i>>] = "absent"

\* A callback that is about to report success has run its handler.
SuccessEarned ==
    \A c \in Copies : copies[c] = "succeeding" => LogOf(c) \in handled

\* The inductive invariant.
DInv ==
    /\ TypeOK
    /\ CursorInRange
    /\ IdleIsFresh
    /\ SuccessEarned
    /\ SuccessOnlyIfHandled

-----------------------------------------------------------------------------

\* A status write keeps the table a table: UpdateEventLogStatus.
LEMMA UpdateTyped ==
    ASSUME rows \in [LogIds -> Statuses], NEW l, NEW s \in Statuses
    PROVE  UpdateEventLogStatus(rows, l, s) \in [LogIds -> Statuses]
  BY DEF UpdateEventLogStatus

\* A status write touches at most the row it names, and leaves there either
\* what it found or the status it was given.
LEMMA UpdateTouchesOne ==
    ASSUME rows \in [LogIds -> Statuses], NEW l, NEW s, NEW k \in LogIds
    PROVE  /\ k # l => UpdateEventLogStatus(rows, l, s)[k] = rows[k]
           /\ UpdateEventLogStatus(rows, l, s)[k] \in {rows[k], s}
           /\ rows[k] = "absent" => UpdateEventLogStatus(rows, l, s)[k] = "absent"
  BY DEF UpdateEventLogStatus

\* A request that serves is at a log of its event.
LEMMA CurLogInRange ==
    ASSUME TypeOK, CursorInRange, NEW e \in Events, pc[e] \in Serving
    PROVE  CurLog(e) \in LogIds
  BY DeliveryAssumption DEF TypeOK, CursorInRange, CurLog, LogIds

\* Every message carries the id of a log.
LEMMA LogOfCopy ==
    ASSUME NEW c \in Copies
    PROVE  LogOf(c) \in LogIds
  BY DEF LogOf, Copies

\* What a server status write can do.
LEMMA ServerUpdateTyped ==
    ASSUME TypeOK, NEW e \in Events, NEW l \in LogIds, ServerUpdate(e, l, "failed")
    PROVE  /\ rows' \in [LogIds -> Statuses]
           /\ lost' \subseteq LogIds
           /\ faults' \in 0..MaxFaults
           /\ \A k \in LogIds : /\ rows'[k] = "success" => rows[k] = "success"
                                /\ rows[k] = "absent" => rows'[k] = "absent"
  <1>1. CASE rows' = UpdateEventLogStatus(rows, l, "failed") /\ UNCHANGED <<faults, lost>>
    BY <1>1, UpdateTyped, UpdateTouchesOne DEF TypeOK, Statuses
  <1>2. CASE Dropped(l)
    BY <1>2, DeliveryAssumption DEF TypeOK, Dropped
  <1>3. CASE lost' = lost \cup {l} /\ UNCHANGED <<rows, faults>>
    BY <1>3 DEF TypeOK
  <1> QED BY <1>1, <1>2, <1>3 DEF ServerUpdate, Stored

\* Advance keeps the server's part of the invariant.
LEMMA AdvanceTyped ==
    ASSUME TypeOK, CursorInRange, NEW e \in Events, pc[e] \in Serving, Advance(e)
    PROVE  /\ pc' \in [Events -> ServerPcs]
           /\ matches' \in [Events -> Seq(Match)]
           /\ cur' \in [Events -> Nat]
           /\ try' \in [Events -> 0..(PublishAttempts - 1)]
           /\ gone' \in [Events -> BOOLEAN]
           /\ CursorInRange'
           /\ \A f \in Events : pc'[f] = "idle" => pc[f] = "idle"
  <1> USE DEF TypeOK, Advance
  <1>1. /\ pc' \in [Events -> ServerPcs] /\ matches' = matches
        /\ cur' \in [Events -> Nat] /\ gone' = gone
    BY DEF ServerPcs
  <1>2. try' \in [Events -> 0..(PublishAttempts - 1)]
    BY DeliveryAssumption
  <1>3. ASSUME NEW f \in Events
        PROVE  /\ Len(matches'[f]) <= MaxMatches
               /\ pc'[f] \in Serving => cur'[f] \in 1..Len(matches'[f])
    <2>1. CASE f # e
      BY <2>1, <1>1 DEF CursorInRange
    <2>2. CASE f = e
      <3>1. cur[e] \in 1..Len(matches[e]) /\ Len(matches[e]) \in Nat
        BY DEF CursorInRange
      <3>2. cur'[e] = cur[e] + 1
        OBVIOUS
      <3>3. pc'[e] = IF cur[e] = Len(matches[e]) THEN "done" ELSE "next"
        OBVIOUS
      <3> QED BY <2>2, <3>1, <3>2, <3>3 DEF CursorInRange, Serving
    <2> QED BY <2>1, <2>2
  <1>4. \A f \in Events : pc'[f] = "idle" => pc[f] = "idle"
    OBVIOUS
  <1> QED BY <1>1, <1>2, <1>3, <1>4 DEF CursorInRange

-----------------------------------------------------------------------------
(***************************************************************************)
(* The invariant holds initially and every action preserves it.             *)
(***************************************************************************)

LEMMA DInvInit == Init => DInv
  <1> SUFFICES ASSUME Init PROVE DInv
    OBVIOUS
  <1> USE DEF Init
  <1>1. TypeOK
    <2>1. try \in [Events -> 0..(PublishAttempts - 1)] /\ tries \in [Copies -> 0..RetryCount]
          /\ faults \in 0..MaxFaults
      BY DeliveryAssumption
    <2> QED BY <2>1 DEF TypeOK, ServerPcs, Statuses, CopyStates
  <1>2. CursorInRange /\ IdleIsFresh /\ SuccessEarned /\ SuccessOnlyIfHandled
    BY DeliveryAssumption
    DEF CursorInRange, Serving, IdleIsFresh, LogIds, SuccessEarned, SuccessOnlyIfHandled
  <1> QED BY <1>1, <1>2 DEF DInv

\* Emit: logEventMatches writes rows of its own event only, none "success".
LEMMA EmitKeeps ==
    ASSUME DInv, NEW e \in Events, NEW ms \in MatchLists \cup {<< >>}, Emit(e, ms)
    PROVE  DInv'
  <1> DEFINE ids == {e} \X (1..(IF ms = << >> THEN 1 ELSE Len(ms)))
             status == IF ms = << >> THEN "ignored" ELSE "queued"
  <1> USE DEF DInv
  <1>1. ms \in Seq(Match) /\ Len(ms) \in Nat /\ Len(ms) <= MaxMatches /\ MaxMatches \in Nat
        /\ MaxMatches >= 1
    <2>1. CASE ms \in MatchLists
      BY <2>1, DeliveryAssumption
    <2>2. CASE ms = << >>
      <3>1. ms \in Seq(Match) /\ Len(ms) = 0
        BY <2>2
      <3> QED BY <3>1, DeliveryAssumption
    <2> QED BY <2>1, <2>2
  <1>2. ids \subseteq LogIds
    BY <1>1 DEF LogIds
  <1>3. /\ rows' \in [LogIds -> Statuses]
        /\ lost' \subseteq LogIds
        /\ faults' \in 0..MaxFaults
        /\ \A k \in LogIds : /\ rows'[k] = "success" => rows[k] = "success"
                             /\ k[1] # e => rows'[k] = rows[k]
    <2>1. CASE rows' = CreateEventLogs(rows, ids, status) /\ UNCHANGED <<faults, lost>>
      <3>1. \A k \in LogIds : rows'[k] = IF k \in ids THEN status ELSE rows[k]
        BY <2>1 DEF CreateEventLogs, TypeOK
      <3>2. rows' \in [LogIds -> Statuses]
        BY <2>1 DEF CreateEventLogs, TypeOK, Statuses
      <3>3. \A k \in ids : k[1] = e
        OBVIOUS
      <3> QED BY <2>1, <3>1, <3>2, <3>3 DEF TypeOK
    <2>2. CASE faults < MaxFaults /\ faults' = faults + 1 /\ lost' = lost \cup ids /\ rows' = rows
      BY <2>2, <1>2, DeliveryAssumption DEF TypeOK
    <2> QED BY <2>1, <2>2 DEF Emit
  <1>4. /\ matches' = [matches EXCEPT ![e] = ms]
        /\ pc' = [pc EXCEPT ![e] = IF ms = << >> THEN "done" ELSE "next"]
        /\ UNCHANGED <<cur, try, gone, worker, handled, failures, redelivered>>
        /\ pc[e] = "idle"
    BY DEF Emit
  <1>5. TypeOK'
    BY <1>1, <1>3, <1>4 DEF TypeOK, ServerPcs, worker
  <1>6. cur[e] = 1 /\ (ms # << >> => 1 \in 1..Len(ms))
    <2>1. ms # << >> => Len(ms) # 0
      BY <1>1
    <2> QED BY <1>1, <1>4, <2>1 DEF IdleIsFresh
  <1>7. CursorInRange'
    <2> SUFFICES ASSUME NEW f \in Events
                 PROVE  /\ Len(matches'[f]) <= MaxMatches
                        /\ pc'[f] \in Serving => cur'[f] \in 1..Len(matches'[f])
      BY DEF CursorInRange
    <2>1. CASE f = e
      BY <2>1, <1>1, <1>4, <1>6 DEF TypeOK, Serving
    <2>2. CASE f # e
      BY <2>2, <1>4 DEF TypeOK, CursorInRange
    <2> QED BY <2>1, <2>2
  <1>8. IdleIsFresh'
    <2> SUFFICES ASSUME NEW f \in Events, pc'[f] = "idle"
                 PROVE  cur'[f] = 1 /\ \A i \in 1..MaxMatches : rows'[<<f, i>>] = "absent"
      BY DEF IdleIsFresh
    <2>1. f # e /\ pc[f] = "idle"
      BY <1>4 DEF TypeOK
    <2>2. ASSUME NEW i \in 1..MaxMatches PROVE rows'[<<f, i>>] = rows[<<f, i>>]
      <3>1. <<f, i>> \in LogIds /\ <<f, i>>[1] = f
        BY DEF LogIds
      <3> QED BY <3>1, <2>1, <1>3
    <2> QED BY <2>1, <2>2, <1>4 DEF IdleIsFresh
  <1>9. SuccessEarned' /\ SuccessOnlyIfHandled'
    BY <1>3, <1>4 DEF SuccessEarned, SuccessOnlyIfHandled, worker
  <1> QED BY <1>5, <1>7, <1>8, <1>9

\* No step but Emit moves an idle request or gives it a row.
LEMMA IdleKept ==
    ASSUME TypeOK, IdleIsFresh, NEW e \in Events, Advance(e), pc[e] # "idle",
           \A k \in LogIds : rows[k] = "absent" => rows'[k] = "absent"
    PROVE  IdleIsFresh'
  <1> SUFFICES ASSUME NEW f \in Events, pc'[f] = "idle"
               PROVE  cur'[f] = 1 /\ \A i \in 1..MaxMatches : rows'[<<f, i>>] = "absent"
    BY DEF IdleIsFresh
  <1>1. f # e /\ pc[f] = "idle" /\ cur'[f] = cur[f]
    BY DEF Advance, TypeOK
  <1>2. \A i \in 1..MaxMatches : <<f, i>> \in LogIds
    BY DEF LogIds
  <1> QED BY <1>1, <1>2 DEF IdleIsFresh

\* The two actions that mark a log failed and go to the next match.
LEMMA MarkKeeps ==
    ASSUME DInv, NEW e \in Events, TransformFails(e) \/ MarkFailed(e)
    PROVE  DInv'
  <1> USE DEF DInv
  <1>1. /\ pc[e] \in Serving
        /\ ServerUpdate(e, CurLog(e), "failed")
        /\ failures' = failures \cup {CurLog(e)}
        /\ Advance(e)
        /\ UNCHANGED <<worker, handled, redelivered>>
    BY DEF TransformFails, MarkFailed, Serving
  <1>2. CurLog(e) \in LogIds
    BY <1>1, CurLogInRange
  <1>3. /\ rows' \in [LogIds -> Statuses]
        /\ lost' \subseteq LogIds
        /\ faults' \in 0..MaxFaults
        /\ \A k \in LogIds : /\ rows'[k] = "success" => rows[k] = "success"
                             /\ rows[k] = "absent" => rows'[k] = "absent"
    BY <1>1, <1>2, ServerUpdateTyped
  <1>4. /\ pc' \in [Events -> ServerPcs]
        /\ matches' \in [Events -> Seq(Match)]
        /\ cur' \in [Events -> Nat]
        /\ try' \in [Events -> 0..(PublishAttempts - 1)]
        /\ gone' \in [Events -> BOOLEAN]
        /\ CursorInRange'
        /\ \A f \in Events : pc'[f] = "idle" => pc[f] = "idle"
    BY <1>1, AdvanceTyped
  <1>5. TypeOK'
    BY <1>1, <1>2, <1>3, <1>4 DEF TypeOK, worker
  <1>6. IdleIsFresh'
    BY <1>1, <1>3, IdleKept DEF Serving
  <1>7. SuccessEarned' /\ SuccessOnlyIfHandled'
    BY <1>1, <1>3 DEF SuccessEarned, SuccessOnlyIfHandled, worker
  <1> QED BY <1>4, <1>5, <1>6, <1>7

\* The steps of a request that leave the table alone: Route, NoPublisher,
\* PublishErr and ClientGone stay at the match, PublishOk may advance.
LEMMA PublishKeeps ==
    ASSUME DInv, NEW e \in Events,
           \/ Route(e) \/ NoPublisher(e) \/ PublishOk(e) \/ ClientGone(e)
           \/ \E delivered \in BOOLEAN : PublishErr(e, delivered)
    PROVE  DInv'
  <1> USE DEF DInv
  <1>1. /\ UNCHANGED <<rows, tries, faults, history>>
        /\ pc[e] \in Serving
    BY DEF Route, NoPublisher, PublishOk, ClientGone, PublishErr, Serving, worker
  <1>2. copies' = copies \/ copies' = [copies EXCEPT ![CurCopy(e)] = "queued"]
    BY DEF Route, NoPublisher, PublishOk, ClientGone, PublishErr, worker
  <1>3. /\ copies' \in [Copies -> CopyStates]
        /\ \A c \in Copies : copies'[c] = "succeeding" => copies[c] = "succeeding"
    BY <1>2 DEF TypeOK, CopyStates
  <1>4. /\ pc' \in [Events -> ServerPcs]
        /\ matches' \in [Events -> Seq(Match)]
        /\ cur' \in [Events -> Nat]
        /\ try' \in [Events -> 0..(PublishAttempts - 1)]
        /\ gone' \in [Events -> BOOLEAN]
        /\ CursorInRange'
        /\ \A f \in Events : pc'[f] = "idle" => pc[f] = "idle"
    <2>1. CASE Advance(e)
      BY <2>1, <1>1, AdvanceTyped
    <2>2. CASE /\ UNCHANGED <<matches, cur>>
               /\ gone' \in [Events -> BOOLEAN]
               /\ try' \in [Events -> 0..(PublishAttempts - 1)]
               /\ pc' = pc \/ \E s \in Serving : pc' = [pc EXCEPT ![e] = s]
      BY <2>2, <1>1 DEF TypeOK, CursorInRange, Serving, ServerPcs
    <2>3. CASE Route(e) \/ NoPublisher(e) \/ ClientGone(e)
      BY <2>3, <2>2 DEF Route, NoPublisher, ClientGone, Serving, TypeOK
    <2>4. CASE PublishOk(e)
      BY <2>4, <2>1, <2>2 DEF PublishOk, Serving, TypeOK
    <2>5. ASSUME NEW delivered \in BOOLEAN, PublishErr(e, delivered)
          PROVE  /\ UNCHANGED <<matches, cur, gone>>
                 /\ try' \in [Events -> 0..(PublishAttempts - 1)]
                 /\ pc' = pc \/ \E s \in Serving : pc' = [pc EXCEPT ![e] = s]
      <3>1. AfterError(e) \in Serving
        BY DEF AfterError, Serving
      <3>2. CASE try[e] + 1 < PublishAttempts /\ try' = [try EXCEPT ![e] = @ + 1] /\ pc' = pc
        BY <3>2, <2>5, DeliveryAssumption DEF TypeOK, PublishErr
      <3>3. CASE try' = [try EXCEPT ![e] = 0] /\ pc' = [pc EXCEPT ![e] = AfterError(e)]
        <4>1. 0 \in 0..(PublishAttempts - 1)
          BY DeliveryAssumption
        <4>2. try' \in [Events -> 0..(PublishAttempts - 1)]
          BY <3>3, <4>1 DEF TypeOK
        <4> QED BY <4>2, <3>1, <3>3, <2>5 DEF PublishErr
      <3> QED BY <2>5, <3>2, <3>3 DEF PublishErr
    <2> QED BY <2>2, <2>3, <2>4, <2>5 DEF TypeOK
  <1>5. TypeOK'
    BY <1>1, <1>3, <1>4 DEF TypeOK, history
  <1>6. IdleIsFresh'
    <2>1. \A f \in Events : f # e => cur'[f] = cur[f]
      BY DEF Route, NoPublisher, PublishOk, ClientGone, PublishErr, Advance, TypeOK
    <2> QED BY <1>1, <1>4, <2>1 DEF IdleIsFresh, Serving
  <1>7. SuccessEarned' /\ SuccessOnlyIfHandled'
    BY <1>1, <1>3 DEF SuccessEarned, SuccessOnlyIfHandled, history
  <1> QED BY <1>4, <1>5, <1>6, <1>7

\* The worker's steps that leave the table alone.
LEMMA CallbackKeeps ==
    ASSUME DInv, NEW c \in Copies,
           \/ Deliver(c) \/ HandlerOk(c) \/ HandlerErr(c) \/ Ack(c) \/ Nack(c)
           \/ \E ok \in BOOLEAN : Prepare(c, ok)
    PROVE  DInv'
  <1> USE DEF DInv
  <1>1. UNCHANGED <<server, rows, faults, failures, lost>>
    BY DEF Deliver, HandlerOk, HandlerErr, Ack, Nack, Prepare, history
  <1>2. LogOf(c) \in LogIds
    BY LogOfCopy
  <1>3. copies' \in [Copies -> CopyStates]
    BY DEF Deliver, HandlerOk, HandlerErr, Ack, Nack, Prepare, TypeOK, CopyStates, Stages
  <1>4. tries' \in [Copies -> 0..RetryCount]
    <2>1. CASE Deliver(c)
      <3>1. 0 \in 0..RetryCount
        BY DeliveryAssumption
      <3> QED BY <2>1, <3>1 DEF Deliver, TypeOK
    <2>2. CASE HandlerErr(c)
      <3>1. CASE tries[c] < RetryCount /\ tries' = [tries EXCEPT ![c] = @ + 1]
        BY <3>1, DeliveryAssumption DEF TypeOK
      <3> QED BY <2>2, <3>1 DEF HandlerErr, TypeOK
    <2> QED BY <2>1, <2>2 DEF HandlerOk, Ack, Nack, Prepare, TypeOK
  <1>5. handled \subseteq handled' /\ handled' \subseteq LogIds
    <2>1. CASE HandlerOk(c)
      BY <2>1, <1>2 DEF HandlerOk, TypeOK
    <2>2. CASE Deliver(c) \/ HandlerErr(c) \/ Ack(c) \/ Nack(c)
               \/ \E ok \in BOOLEAN : Prepare(c, ok)
      BY <2>2 DEF Deliver, HandlerErr, Ack, Nack, Prepare, history, TypeOK
    <2> QED BY <2>1, <2>2
  <1>6. redelivered' \subseteq LogIds
    BY <1>2 DEF Deliver, HandlerOk, HandlerErr, Ack, Nack, Prepare, history, TypeOK
  <1>7. TypeOK'
    BY <1>1, <1>2, <1>3, <1>4, <1>5, <1>6 DEF TypeOK, server
  <1>8. CursorInRange' /\ IdleIsFresh'
    BY <1>1 DEF CursorInRange, IdleIsFresh, server
  <1>9. SuccessEarned'
    <2>1. \A d \in Copies : copies'[d] = "succeeding" =>
              copies[d] = "succeeding" \/ (d = c /\ HandlerOk(c))
      BY DEF Deliver, HandlerOk, HandlerErr, Ack, Nack, Prepare, TypeOK
    <2>2. HandlerOk(c) => LogOf(c) \in handled'
      BY DEF HandlerOk
    <2> QED BY <1>5, <2>1, <2>2 DEF SuccessEarned
  <1>10. SuccessOnlyIfHandled'
    BY <1>1, <1>5 DEF SuccessOnlyIfHandled
  <1> QED BY <1>7, <1>8, <1>9, <1>10

\* The worker's two reports: only a callback that earned it writes "success".
LEMMA ReportKeeps ==
    ASSUME DInv, NEW c \in Copies, ReportFailed(c) \/ ReportSuccess(c)
    PROVE  DInv'
  <1> USE DEF DInv
  <1> DEFINE s == IF copies[c] = "failing" THEN "failed" ELSE "success"
  <1>1. LogOf(c) \in LogIds
    BY LogOfCopy
  <1>2. /\ Stored(LogOf(c), s) \/ Dropped(LogOf(c))
        /\ copies' \in [Copies -> CopyStates]
        /\ \A d \in Copies : copies'[d] = "succeeding" => copies[d] = "succeeding"
        /\ failures' \subseteq LogIds
        /\ UNCHANGED <<server, tries, handled, redelivered>>
        /\ s = "success" => copies[c] = "succeeding"
    BY <1>1 DEF ReportFailed, ReportSuccess, TypeOK, CopyStates, Stages
  <1>3. /\ rows' \in [LogIds -> Statuses]
        /\ lost' \subseteq LogIds
        /\ faults' \in 0..MaxFaults
        /\ \A k \in LogIds :
              /\ rows'[k] = "success" => rows[k] = "success" \/ (k = LogOf(c) /\ s = "success")
              /\ rows[k] = "absent" => rows'[k] = "absent"
    <2>1. CASE Stored(LogOf(c), s)
      BY <2>1, UpdateTyped, UpdateTouchesOne DEF Stored, TypeOK, Statuses
    <2>2. CASE Dropped(LogOf(c))
      BY <2>2, <1>1, DeliveryAssumption DEF TypeOK, Dropped
    <2> QED BY <1>2, <2>1, <2>2
  <1>4. TypeOK'
    BY <1>2, <1>3 DEF TypeOK, server
  <1>5. CursorInRange'
    BY <1>2 DEF CursorInRange, server
  <1>6. IdleIsFresh'
    <2>1. \A e \in Events : \A i \in 1..MaxMatches : <<e, i>> \in LogIds
      BY DEF LogIds
    <2> QED BY <1>2, <1>3, <2>1 DEF IdleIsFresh, server
  <1>7. SuccessEarned'
    BY <1>2 DEF SuccessEarned
  <1>8. SuccessOnlyIfHandled'
    BY <1>2, <1>3 DEF SuccessOnlyIfHandled, SuccessEarned
  <1> QED BY <1>4, <1>5, <1>6, <1>7, <1>8

\* A crash of either process, and a write of an API client.
LEMMA CrashKeeps ==
    ASSUME DInv, ServerCrash \/ WorkerCrash
    PROVE  DInv'
  <1> USE DEF DInv
  <1>1. /\ UNCHANGED <<matches, cur, try, gone, rows, tries, handled, failures>>
        /\ faults' \in 0..MaxFaults
    BY DeliveryAssumption DEF ServerCrash, WorkerCrash, server, worker, history, TypeOK
  <1>2. /\ pc' \in [Events -> ServerPcs]
        /\ \A e \in Events : pc'[e] = pc[e] \/ pc'[e] = "crashed"
    <2>1. CASE ServerCrash
      BY <2>1 DEF ServerCrash, TypeOK, ServerPcs
    <2>2. CASE WorkerCrash
      BY <2>2 DEF WorkerCrash, server, TypeOK
    <2> QED BY <2>1, <2>2
  <1>3. /\ copies' \in [Copies -> CopyStates]
        /\ \A c \in Copies : copies'[c] = "succeeding" => copies[c] = "succeeding"
        /\ redelivered' \subseteq LogIds
        /\ lost' \subseteq LogIds
    <2>1. CASE ServerCrash
      BY <2>1 DEF ServerCrash, worker, history, TypeOK
    <2>2. CASE WorkerCrash
      <3>1. \A c \in InFlight : LogOf(c) \in LogIds
        BY LogOfCopy DEF InFlight
      <3>2. /\ redelivered' \subseteq LogIds
            /\ lost' \subseteq LogIds
        BY <2>2, <3>1 DEF WorkerCrash, TypeOK
      <3>3. /\ copies' \in [Copies -> CopyStates]
            /\ \A c \in Copies : copies'[c] = "succeeding" => copies[c] = "succeeding"
        BY <2>2 DEF WorkerCrash, TypeOK, CopyStates
      <3> QED BY <3>2, <3>3
    <2> QED BY <2>1, <2>2
  <1>4. TypeOK'
    BY <1>1, <1>2, <1>3 DEF TypeOK
  <1>5. CursorInRange' /\ IdleIsFresh'
    BY <1>1, <1>2 DEF CursorInRange, IdleIsFresh, Serving
  <1>6. SuccessEarned' /\ SuccessOnlyIfHandled'
    BY <1>1, <1>3 DEF SuccessEarned, SuccessOnlyIfHandled
  <1> QED BY <1>4, <1>5, <1>6

\* The UpdateEventLogStatus call of the worker keeps the invariant.
LEMMA ApiUpdateKeeps ==
    ASSUME DInv, NEW l \in LogIds, NEW st \in ApiStatuses, ApiUpdate(l, st)
    PROVE  DInv'
  <1> USE DEF DInv
  <1>1. st = "queued"
    BY DeliveryAssumption
  <1>2. /\ rows' \in [LogIds -> Statuses]
        /\ \A k \in LogIds : /\ rows'[k] = "success" => rows[k] = "success"
                             /\ rows[k] = "absent" => rows'[k] = "absent"
    BY <1>1, UpdateTyped, UpdateTouchesOne DEF ApiUpdate, TypeOK, Statuses
  <1>3. UNCHANGED <<server, worker, faults, history>>
    BY DEF ApiUpdate
  <1>4. TypeOK' /\ CursorInRange' /\ SuccessEarned' /\ SuccessOnlyIfHandled'
    BY <1>2, <1>3 DEF TypeOK, CursorInRange, SuccessEarned, SuccessOnlyIfHandled,
                      server, worker, history
  <1>5. IdleIsFresh'
    <2>1. \A e \in Events : \A i \in 1..MaxMatches : <<e, i>> \in LogIds
      BY DEF LogIds
    <2> QED BY <1>2, <1>3, <2>1 DEF IdleIsFresh, server
  <1> QED BY <1>4, <1>5

\* DInv is inductive.
LEMMA DInvNext == DInv /\ [Next]_vars => DInv'
  <1> SUFFICES ASSUME DInv, [Next]_vars PROVE DInv'
    OBVIOUS
  <1>1. ASSUME NEW e \in Events, ServerStep(e) \/ ClientGone(e) PROVE DInv'
    BY <1>1, EmitKeeps, MarkKeeps, PublishKeeps DEF ServerStep
  <1>2. ASSUME NEW c \in Copies, Deliver(c) \/ Handling(c) PROVE DInv'
    BY <1>2, CallbackKeeps, ReportKeeps DEF Handling
  <1>3. ASSUME NEW l \in LogIds, NEW st \in ApiStatuses, ApiUpdate(l, st) PROVE DInv'
    BY <1>3, ApiUpdateKeeps
  <1>4. CASE ServerCrash \/ WorkerCrash
    BY <1>4, CrashKeeps
  <1>5. CASE UNCHANGED vars
    BY <1>5 DEF vars, server, worker, history, DInv, TypeOK, CursorInRange, IdleIsFresh,
                SuccessEarned, SuccessOnlyIfHandled
  <1> QED BY <1>1, <1>2, <1>3, <1>4, <1>5 DEF Next

\* DInv holds in every state.
LEMMA DInvAlways == Spec => []DInv
  BY DInvInit, DInvNext, PTL DEF Spec

\* Every variable of Delivery keeps its type: in particular the cursor of a
\* request never leaves the list of its matches, and neither retry loop makes
\* more attempts than it was configured for.
THEOREM DeliveryTypeOK == Spec => []TypeOK
  BY DInvAlways, PTL DEF DInv

\* The log says "success" only after a handler completed the event, for any
\* number of events, matches, retries, crashes and lost writes.
THEOREM DeliverySuccess == Spec => []SuccessOnlyIfHandled
  BY DInvAlways, PTL DEF DInv

-----------------------------------------------------------------------------
(***************************************************************************)
(* Delivery implements EventLifecycle.                                      *)
(***************************************************************************)

\* A "failed" write is a Fail of the abstract log, whether it is stored, finds
\* no row, or is lost.
LEMMA FailRefines ==
    ASSUME TypeOK, NEW l \in LogIds,
           \/ rows' = UpdateEventLogStatus(rows, l, "failed")
           \/ rows' = rows,
           failures' = failures \cup {l}, handled' = handled
    PROVE  Lifecycle!Next
  <1>1. \/ rows[l] # "absent" /\ rows' = [rows EXCEPT ![l] = "failed"]
        \/ rows' = rows
    BY DEF UpdateEventLogStatus
  <1>2. Lifecycle!Fail(l)
    BY <1>1 DEF Lifecycle!Fail
  <1> QED BY <1>2 DEF Lifecycle!Next

\* Emit is the abstract Record: the rows of an idle request are still absent.
LEMMA EmitRefines ==
    ASSUME DInv, NEW e \in Events, NEW ms \in MatchLists \cup {<< >>}, Emit(e, ms)
    PROVE  Lifecycle!Next \/ UNCHANGED Lifecycle!vars
  <1> DEFINE ids == {e} \X (1..(IF ms = << >> THEN 1 ELSE Len(ms)))
             st == IF ms = << >> THEN "ignored" ELSE "queued"
  <1>1. UNCHANGED <<handled, failures>>
    BY DEF Emit
  <1>2. CASE rows' = rows
    BY <1>1, <1>2 DEF Lifecycle!vars
  <1>3. CASE rows' = CreateEventLogs(rows, ids, st)
    <2>1. Len(ms) \in Nat /\ Len(ms) <= MaxMatches /\ MaxMatches \in Nat /\ MaxMatches >= 1
      <3>1. CASE ms \in MatchLists
        BY <3>1, DeliveryAssumption
      <3>2. CASE ms = << >>
        <4>1. Len(ms) = 0
          BY <3>2
        <4> QED BY <4>1, DeliveryAssumption
      <3> QED BY <3>1, <3>2
    <2>2. ids \in SUBSET LogIds
      BY <2>1 DEF LogIds
    <2>3. \A l \in ids : rows[l] = "absent"
      <3>1. \A l \in ids : \E i \in 1..MaxMatches : l = <<e, i>>
        BY <2>1
      <3> QED BY <3>1 DEF DInv, IdleIsFresh, Emit
    <2>4. rows' = [l \in LogIds |-> IF l \in ids THEN st ELSE rows[l]]
      BY <1>3 DEF CreateEventLogs, DInv, TypeOK
    <2>5. Lifecycle!Record(ids, st)
      BY <1>1, <2>3, <2>4 DEF Lifecycle!Record
    <2> QED BY <2>2, <2>5 DEF Lifecycle!Next
  <1> QED BY <1>2, <1>3 DEF Emit

\* Every step is a step of EventLifecycle or leaves the abstract log unchanged.
LEMMA StepRefines ==
    ASSUME DInv, [Next]_vars
    PROVE  [Lifecycle!Next]_(Lifecycle!vars)
  <1> USE DEF DInv
  <1>1. ASSUME NEW e \in Events, TransformFails(e) \/ MarkFailed(e)
        PROVE  Lifecycle!Next
    <2>1. pc[e] \in Serving
      BY <1>1 DEF TransformFails, MarkFailed, Serving
    <2>2. CurLog(e) \in LogIds
      BY <2>1, CurLogInRange
    <2>3. rows' = UpdateEventLogStatus(rows, CurLog(e), "failed") \/ rows' = rows
      BY <1>1 DEF TransformFails, MarkFailed, ServerUpdate, Stored, Dropped
    <2>4. failures' = failures \cup {CurLog(e)} /\ handled' = handled
      BY <1>1 DEF TransformFails, MarkFailed
    <2> QED BY <2>2, <2>3, <2>4, FailRefines
  <1>2. ASSUME NEW e \in Events,
               \/ Route(e) \/ NoPublisher(e) \/ PublishOk(e) \/ ClientGone(e)
               \/ \E delivered \in BOOLEAN : PublishErr(e, delivered)
        PROVE  UNCHANGED Lifecycle!vars
    BY <1>2 DEF Route, NoPublisher, PublishOk, ClientGone, PublishErr, history, Lifecycle!vars
  <1>3. ASSUME NEW c \in Copies,
               \/ Deliver(c) \/ HandlerErr(c) \/ Ack(c) \/ Nack(c)
               \/ \E ok \in BOOLEAN : Prepare(c, ok)
        PROVE  UNCHANGED Lifecycle!vars
    BY <1>3 DEF Deliver, HandlerErr, Ack, Nack, Prepare, history, Lifecycle!vars
  <1>4. ASSUME NEW c \in Copies, HandlerOk(c)
        PROVE  Lifecycle!Next
    <2>1. Lifecycle!Complete(LogOf(c))
      BY <1>4 DEF HandlerOk, Lifecycle!Complete
    <2> QED BY <2>1, LogOfCopy DEF Lifecycle!Next
  <1>5. ASSUME NEW c \in Copies, ReportFailed(c)
        PROVE  Lifecycle!Next
    <2>1. rows' = UpdateEventLogStatus(rows, LogOf(c), "failed") \/ rows' = rows
      BY <1>5 DEF ReportFailed, Stored, Dropped
    <2> QED BY <1>5, <2>1, LogOfCopy, FailRefines DEF ReportFailed
  <1>6. ASSUME NEW c \in Copies, ReportSuccess(c)
        PROVE  Lifecycle!Next \/ UNCHANGED Lifecycle!vars
    <2>1. LogOf(c) \in LogIds /\ LogOf(c) \in handled /\ UNCHANGED <<handled, failures>>
      BY <1>6, LogOfCopy DEF ReportSuccess, SuccessEarned
    <2>2. CASE rows' = rows
      BY <2>1, <2>2 DEF Lifecycle!vars
    <2>3. CASE rows[LogOf(c)] # "absent" /\ rows' = [rows EXCEPT ![LogOf(c)] = "success"]
      <3>1. Lifecycle!Succeed(LogOf(c))
        BY <2>1, <2>3 DEF Lifecycle!Succeed
      <3> QED BY <2>1, <3>1 DEF Lifecycle!Next
    <2> QED BY <1>6, <2>2, <2>3 DEF ReportSuccess, Stored, Dropped, UpdateEventLogStatus
  <1>7. ASSUME NEW l \in LogIds, NEW st \in ApiStatuses, ApiUpdate(l, st)
        PROVE  Lifecycle!Next \/ UNCHANGED Lifecycle!vars
    <2>1. st = "queued" /\ UNCHANGED <<handled, failures>>
      BY <1>7, DeliveryAssumption DEF ApiUpdate, history
    <2>2. CASE rows' = rows
      BY <2>1, <2>2 DEF Lifecycle!vars
    <2>3. CASE rows[l] \notin Terminal \cup {"absent"} /\ rows' = [rows EXCEPT ![l] = "queued"]
      <3>1. rows[l] \in {"queued", "ignored"}
        BY <2>3 DEF TypeOK, Statuses, Terminal
      <3>2. Lifecycle!Requeue(l)
        BY <2>1, <2>3, <3>1 DEF Lifecycle!Requeue
      <3> QED BY <3>2 DEF Lifecycle!Next
    <2> QED BY <1>7, <2>1, <2>2, <2>3 DEF ApiUpdate, UpdateEventLogStatus
  <1>8. CASE ServerCrash \/ WorkerCrash \/ UNCHANGED vars
    BY <1>8 DEF ServerCrash, WorkerCrash, vars, history, Lifecycle!vars
  <1>9. ASSUME NEW e \in Events, ServerStep(e) \/ ClientGone(e)
        PROVE  Lifecycle!Next \/ UNCHANGED Lifecycle!vars
    BY <1>9, <1>1, <1>2, EmitRefines DEF ServerStep
  <1>10. ASSUME NEW c \in Copies, Deliver(c) \/ Handling(c)
         PROVE  Lifecycle!Next \/ UNCHANGED Lifecycle!vars
    BY <1>10, <1>3, <1>4, <1>5, <1>6 DEF Handling
  <1> QED BY <1>7, <1>8, <1>9, <1>10 DEF Next

\* The server, the broker and the worker together keep the promise of the
\* event log: Delivery implements EventLifecycle under the mapping that reads
\* the table as the log's status.
THEOREM DeliveryRefines == Spec => LifecycleSpec
  <1>1. Init => Lifecycle!Init
    BY DEF Init, Lifecycle!Init
  <1>2. DInv /\ [Next]_vars => [Lifecycle!Next]_(Lifecycle!vars)
    BY StepRefines
  <1> QED BY <1>1, <1>2, DInvAlways, PTL DEF Spec, LifecycleSpec, Lifecycle!Spec

-----------------------------------------------------------------------------
(***************************************************************************)
(* Nothing is lost silently, no message is given up while its log looks     *)
(* pending, and a success is overwritten only by a duplicate.               *)
(***************************************************************************)

\* A logged match has a row, or its insert was lost.
MatchLogged ==
    \A e \in Events : pc[e] # "idle" =>
        \A i \in 1..Len(matches[e]) : rows[<<e, i>>] # "absent" \/ <<e, i>> \in lost

\* So has every message that was ever published.
CopyLogged ==
    \A c \in Copies : copies[c] # "none" => rows[LogOf(c)] # "absent" \/ LogOf(c) \in lost

\* The publish attempts a request may still make: all those of the matches it
\* has not come to, and the attempts after the current one on the current
\* match, the ones on the dead letter driver last.
Ahead(e, i, n) ==
    \/ i > cur[e]
    \/ i = cur[e] /\ pc[e] \in {"idle", "next"}
    \/ i = cur[e] /\ pc[e] \in {"dynamic", "fallback"} /\ n > try[e]
    \/ i = cur[e] /\ pc[e] = "dlq" /\ n > try[e] + PublishAttempts

\* An attempt that is still ahead has produced no copy: no number is used twice.
AttemptsFresh ==
    \A c \in Copies : Ahead(c[1][1], c[1][2], c[2]) => copies[c] = "none"

\* A handled log was redelivered, or still has the copy whose handler returned.
HandledLeavesCopy ==
    \A l \in handled :
        \/ l \in redelivered
        \/ \E c \in Copies : LogOf(c) = l /\ copies[c] \in {"succeeding", "ack", "gone"}

\* The inductive invariant of the second part.
LInv ==
    /\ DInv
    /\ MatchLogged
    /\ CopyLogged
    /\ AttemptsFresh
    /\ HandledLeavesCopy
    /\ NoSilentLoss
    /\ NoAckBeforeOutcome

\* A copy names an event, a match and an attempt.
LEMMA CopyParts ==
    ASSUME NEW c \in Copies
    PROVE  /\ LogOf(c) = <<c[1][1], c[1][2]>> /\ c = <<LogOf(c), c[2]>>
           /\ c[1][1] \in Events /\ c[1][2] \in 1..MaxMatches /\ c[2] \in Attempts
           /\ LogOf(c) \in LogIds
  BY DEF Copies, LogIds, LogOf

\* A match of an event has a log.
LEMMA MatchHasLog ==
    ASSUME TypeOK, CursorInRange, NEW f \in Events, NEW i \in 1..Len(matches[f])
    PROVE  <<f, i>> \in LogIds /\ <<f, i>>[1] = f /\ <<f, i>>[2] = i
  <1>1. Len(matches[f]) \in Nat /\ Len(matches[f]) <= MaxMatches
    BY DEF TypeOK, CursorInRange
  <1>2. i \in 1..MaxMatches
    BY <1>1, DeliveryAssumption
  <1> QED BY <1>2 DEF LogIds

\* The copy a publishing request is about to make is one of its attempts ahead.
LEMMA CurCopyAhead ==
    ASSUME TypeOK, CursorInRange, NEW e \in Events,
           pc[e] \in {"dynamic", "fallback", "dlq"}
    PROVE  /\ CurCopy(e) \in Copies
           /\ CurCopy(e)[1] = <<e, cur[e]>> /\ LogOf(CurCopy(e)) = <<e, cur[e]>>
           /\ CurCopy(e)[2] = try[e] + 1 + (IF pc[e] = "dlq" THEN PublishAttempts ELSE 0)
           /\ Ahead(e, cur[e], CurCopy(e)[2])
  <1>1. CurLog(e) \in LogIds
    BY CurLogInRange DEF Serving
  <1>2. try[e] \in 0..(PublishAttempts - 1) /\ PublishAttempts \in Nat \ {0}
    BY DeliveryAssumption DEF TypeOK
  <1>3. try[e] + 1 + (IF pc[e] = "dlq" THEN PublishAttempts ELSE 0) \in Attempts
    BY <1>2 DEF Attempts
  <1>4. CurCopy(e) \in Copies
    BY <1>1, <1>3 DEF CurCopy, Copies
  <1>5. CurCopy(e)[2] = try[e] + 1 + (IF pc[e] = "dlq" THEN PublishAttempts ELSE 0)
    BY DEF CurCopy
  <1>6. CurCopy(e)[1] = <<e, cur[e]>>
    BY DEF CurCopy, CurLog
  <1>7. Ahead(e, cur[e], CurCopy(e)[2])
    BY <1>2, <1>5 DEF Ahead
  <1> QED BY <1>4, <1>5, <1>6, <1>7 DEF LogOf

\* A status write removes no row and no outcome, and stores the status it is
\* given unless there is no row or the status is "queued".
LEMMA UpdateKeepsOutcome ==
    ASSUME rows \in [LogIds -> Statuses], NEW l \in LogIds, NEW s \in {"queued", "success", "failed"}
    PROVE  /\ \A k \in LogIds :
                 /\ rows[k] # "absent" => UpdateEventLogStatus(rows, l, s)[k] # "absent"
                 /\ rows[k] \in Terminal => UpdateEventLogStatus(rows, l, s)[k] \in Terminal
                 /\ rows[k] = "failed" /\ (s # "success" \/ k # l) =>
                       UpdateEventLogStatus(rows, l, s)[k] = "failed"
           /\ rows[l] # "absent" /\ s \in Terminal => UpdateEventLogStatus(rows, l, s)[l] = s
  BY DEF UpdateEventLogStatus, Terminal

\* The invariant holds before the first request.
LEMMA LInvInit == Init => LInv
  <1> SUFFICES ASSUME Init PROVE LInv
    OBVIOUS
  <1>1. DInv
    BY DInvInit
  <1>2. MatchLogged /\ CopyLogged /\ AttemptsFresh /\ HandledLeavesCopy /\ NoAckBeforeOutcome
    BY DEF Init, MatchLogged, CopyLogged, AttemptsFresh, HandledLeavesCopy, NoAckBeforeOutcome
  <1>3. NoSilentLoss
    BY DEF Init, NoSilentLoss
  <1> QED BY <1>1, <1>2, <1>3 DEF LInv

\* Emit writes rows of an event that has no copy and no match behind it.
LEMMA EmitLogs ==
    ASSUME LInv, DInv', NEW e \in Events, NEW ms \in MatchLists \cup {<< >>}, Emit(e, ms)
    PROVE  LInv'
  <1> DEFINE ids == {e} \X (1..(IF ms = << >> THEN 1 ELSE Len(ms)))
             st == IF ms = << >> THEN "ignored" ELSE "queued"
  <1> USE DEF LInv
  <1>1. TypeOK /\ TypeOK' /\ cur[e] = 1 /\ pc[e] = "idle"
    BY DEF DInv, IdleIsFresh, Emit
  <1>2. /\ matches' = [matches EXCEPT ![e] = ms]
        /\ pc' = [pc EXCEPT ![e] = IF ms = << >> THEN "done" ELSE "next"]
        /\ UNCHANGED <<cur, try, copies, handled, redelivered>>
    BY DEF Emit, worker
  <1>3. /\ lost \subseteq lost'
        /\ \A k \in LogIds : k[1] # e => rows'[k] = rows[k]
        /\ \A k \in LogIds : k \in ids => rows'[k] # "absent" \/ k \in lost'
    <2>1. CASE rows' = CreateEventLogs(rows, ids, st) /\ UNCHANGED <<faults, lost>>
      <3>1. \A k \in LogIds : rows'[k] = IF k \in ids THEN st ELSE rows[k]
        BY <2>1, <1>1 DEF CreateEventLogs, TypeOK
      <3>2. \A k \in ids : k[1] = e
        OBVIOUS
      <3> QED BY <2>1, <3>1, <3>2
    <2>2. CASE rows' = rows /\ lost' = lost \cup ids
      BY <2>2
    <2> QED BY <2>1, <2>2 DEF Emit
  <1>4. ASSUME NEW c \in Copies, c[1][1] = e PROVE copies[c] = "none"
    <2>1. c[1][2] = cur[e] \/ c[1][2] > cur[e]
      BY <1>1, CopyParts DEF TypeOK
    <2> QED BY <1>1, <1>4, <2>1 DEF AttemptsFresh, Ahead
  <1>5. ASSUME NEW c \in Copies PROVE copies[c] = "none" \/ rows'[LogOf(c)] = rows[LogOf(c)]
    BY <1>3, <1>4, CopyParts
  <1>6. MatchLogged'
    <2> SUFFICES ASSUME NEW f \in Events, pc'[f] # "idle", NEW i \in 1..Len(matches'[f])
                 PROVE  rows'[<<f, i>>] # "absent" \/ <<f, i>> \in lost'
      BY DEF MatchLogged
    <2>1. Len(matches'[f]) <= MaxMatches /\ Len(matches'[f]) \in Nat
      BY <1>1 DEF DInv, CursorInRange, TypeOK
    <2>2. <<f, i>> \in LogIds /\ <<f, i>>[1] = f
      BY <2>1, DeliveryAssumption DEF LogIds
    <2>3. CASE f = e
      <3>1. matches'[e] = ms
        BY <1>1, <1>2 DEF TypeOK
      <3>2. ms # << >>
        BY <2>3, <3>1
      <3>3. <<f, i>> \in ids
        BY <2>3, <3>1, <3>2
      <3> QED BY <2>2, <3>3, <1>3
    <2>4. CASE f # e
      BY <2>2, <2>4, <1>1, <1>2, <1>3 DEF MatchLogged, TypeOK
    <2> QED BY <2>3, <2>4
  <1>7. CopyLogged' /\ NoAckBeforeOutcome'
    BY <1>2, <1>3, <1>5 DEF CopyLogged, NoAckBeforeOutcome
  <1>8. AttemptsFresh'
    BY <1>1, <1>2, <1>4, CopyParts DEF AttemptsFresh, Ahead, TypeOK
  <1>9. HandledLeavesCopy'
    BY <1>2 DEF HandledLeavesCopy
  <1>10. NoSilentLoss'
    <2> SUFFICES ASSUME NEW f \in Events, NEW i \in 1..Len(matches'[f]), i < cur'[f]
                 PROVE  Published(<<f, i>>)' \/ rows'[<<f, i>>] = "failed" \/ <<f, i>> \in lost'
      BY DEF NoSilentLoss
    <2>1. f # e /\ matches'[f] = matches[f] /\ cur'[f] = cur[f]
      BY <1>1, <1>2 DEF TypeOK
    <2>2. <<f, i>> \in LogIds /\ <<f, i>>[1] = f
      BY <2>1, <1>1, MatchHasLog DEF DInv
    <2>3. Published(<<f, i>>) \/ rows[<<f, i>>] = "failed" \/ <<f, i>> \in lost
      BY <2>1 DEF NoSilentLoss
    <2>4. Published(<<f, i>>)' <=> Published(<<f, i>>)
      BY <1>2 DEF Published
    <2>5. rows'[<<f, i>>] = rows[<<f, i>>]
      BY <2>1, <2>2, <1>3
    <2> QED BY <2>3, <2>4, <2>5, <1>3
  <1> QED BY <1>6, <1>7, <1>8, <1>9, <1>10

\* What every step after Emit does to the table: no row and no outcome is
\* removed, and a failure only by a worker that has a copy of the message.
RowsKept ==
    /\ lost \subseteq lost'
    /\ \A k \in LogIds :
          /\ rows[k] # "absent" => rows'[k] # "absent"
          /\ rows[k] \in Terminal => rows'[k] \in Terminal
          /\ rows[k] = "failed" => rows'[k] = "failed" \/ Published(k)

\* A copy is never unpublished.
CopiesKept == \A c \in Copies : copies[c] # "none" => copies'[c] # "none"

\* A step that keeps the copies keeps what was published.
LEMMA PublishedKept ==
    ASSUME CopiesKept, NEW k \in LogIds, Published(k)
    PROVE  Published(k)'
  <1>1. PICK n \in Attempts : copies[<<k, n>>] # "none"
    BY DEF Published
  <1>2. <<k, n>> \in Copies
    BY DEF Copies
  <1> QED BY <1>1, <1>2 DEF CopiesKept, Published

\* The rows stay behind the matches and the copies.
LEMMA LoggedKept ==
    ASSUME TypeOK, CursorInRange, MatchLogged, CopyLogged, RowsKept, matches' = matches,
           \A f \in Events : pc'[f] # "idle" => pc[f] # "idle",
           \A c \in Copies : copies'[c] # "none" =>
               \/ copies[c] # "none"
               \/ pc[c[1][1]] # "idle" /\ c[1][2] \in 1..Len(matches[c[1][1]])
    PROVE  MatchLogged' /\ CopyLogged'
  <1>1. MatchLogged'
    <2> SUFFICES ASSUME NEW f \in Events, pc'[f] # "idle", NEW i \in 1..Len(matches[f])
                 PROVE  rows'[<<f, i>>] # "absent" \/ <<f, i>> \in lost'
      BY DEF MatchLogged
    <2> QED BY MatchHasLog DEF MatchLogged, RowsKept
  <1>2. CopyLogged'
    <2> SUFFICES ASSUME NEW c \in Copies, copies'[c] # "none"
                 PROVE  rows'[LogOf(c)] # "absent" \/ LogOf(c) \in lost'
      BY DEF CopyLogged, LogOf
    <2>1. rows[LogOf(c)] # "absent" \/ LogOf(c) \in lost
      BY CopyParts DEF CopyLogged, MatchLogged
    <2> QED BY <2>1, CopyParts DEF RowsKept
  <1> QED BY <1>1, <1>2

\* No trace is removed: only the matches a step passes need a new one.
LEMMA TraceKept ==
    ASSUME TypeOK, CursorInRange, NoSilentLoss, RowsKept, CopiesKept, matches' = matches,
           \A f \in Events : \A i \in 1..Len(matches[f]) :
               i < cur'[f] => \/ i < cur[f]
                              \/ Published(<<f, i>>)'
                              \/ rows'[<<f, i>>] = "failed"
                              \/ <<f, i>> \in lost'
    PROVE  NoSilentLoss'
  <1> SUFFICES ASSUME NEW f \in Events, NEW i \in 1..Len(matches[f]), i < cur'[f], i < cur[f]
               PROVE  Published(<<f, i>>)' \/ rows'[<<f, i>>] = "failed" \/ <<f, i>> \in lost'
    BY DEF NoSilentLoss
  <1>1. Published(<<f, i>>) \/ rows[<<f, i>>] = "failed" \/ <<f, i>> \in lost
    BY DEF NoSilentLoss
  <1>2. <<f, i>> \in LogIds
    BY MatchHasLog
  <1>3. Published(<<f, i>>) => Published(<<f, i>>)'
    BY <1>2, PublishedKept
  <1> QED BY <1>1, <1>2, <1>3 DEF RowsKept

\* A match that is passed leaves no attempt behind that could still be made.
LEMMA AdvanceKeepsFresh ==
    ASSUME TypeOK, CursorInRange, AttemptsFresh, NEW e \in Events, pc[e] \in Serving, Advance(e),
           \A c \in Copies : copies'[c] # copies[c] => c[1] = <<e, cur[e]>>
    PROVE  AttemptsFresh'
  <1> SUFFICES ASSUME NEW c \in Copies, Ahead(c[1][1], c[1][2], c[2])'
               PROVE  copies'[c] = "none"
    BY DEF AttemptsFresh
  <1>1. c[1][1] \in Events /\ c[1][2] \in Nat /\ c[2] \in Nat /\ c[1] = <<c[1][1], c[1][2]>>
    BY CopyParts, DeliveryAssumption DEF Attempts, LogOf
  <1>2. cur[e] \in Nat /\ cur'[e] = cur[e] + 1 /\ pc'[e] \in {"done", "next"}
    BY DEF TypeOK, Advance
  <1>3. \A f \in Events : f # e => cur'[f] = cur[f] /\ pc'[f] = pc[f] /\ try'[f] = try[f]
    BY DEF TypeOK, Advance
  <1>4. CASE c[1][1] = e
    BY <1>1, <1>2, <1>4 DEF Ahead, AttemptsFresh
  <1>5. CASE c[1][1] # e
    <2>1. Ahead(c[1][1], c[1][2], c[2])
      BY <1>1, <1>3, <1>5 DEF Ahead
    <2>2. copies[c] = "none"
      BY <2>1 DEF AttemptsFresh
    <2>3. c[1] # <<e, cur[e]>>
      BY <1>1, <1>5
    <2> QED BY <2>2, <2>3
  <1> QED BY <1>4, <1>5

\* TransformFails, MarkFailed: the log is marked, or the write was lost.
LEMMA MarkLogs ==
    ASSUME LInv, NEW e \in Events, TransformFails(e) \/ MarkFailed(e)
    PROVE  /\ MatchLogged' /\ CopyLogged' /\ AttemptsFresh' /\ HandledLeavesCopy'
           /\ NoSilentLoss' /\ NoAckBeforeOutcome'
  <1> USE DEF LInv, DInv
  <1>1. /\ pc[e] \in Serving /\ Advance(e) /\ ServerUpdate(e, CurLog(e), "failed")
        /\ copies' = copies /\ handled' = handled /\ redelivered' = redelivered
        /\ matches' = matches
    BY DEF TransformFails, MarkFailed, Serving, worker, Advance
  <1>2. CurLog(e) \in LogIds /\ CurLog(e) = <<e, cur[e]>> /\ cur[e] \in 1..Len(matches[e])
        /\ pc[e] # "idle"
    BY <1>1, CurLogInRange DEF CurLog, CursorInRange, Serving
  <1>3. RowsKept /\ (rows'[CurLog(e)] = "failed" \/ CurLog(e) \in lost')
    <2>1. rows \in [LogIds -> Statuses] /\ (rows[CurLog(e)] # "absent" \/ CurLog(e) \in lost)
      BY <1>2 DEF TypeOK, MatchLogged
    <2>2. CASE rows' = UpdateEventLogStatus(rows, CurLog(e), "failed") /\ UNCHANGED <<faults, lost>>
      BY <2>1, <2>2, <1>2, UpdateKeepsOutcome DEF RowsKept, Terminal
    <2>3. CASE lost' = lost \cup {CurLog(e)} /\ rows' = rows
      BY <2>3 DEF RowsKept
    <2> QED BY <2>2, <2>3, <1>1 DEF ServerUpdate, Stored, Dropped
  <1>4. CopiesKept
    BY <1>1 DEF CopiesKept
  <1>5. MatchLogged' /\ CopyLogged'
    <2>1. \A f \in Events : pc'[f] # "idle" => pc[f] # "idle"
      BY <1>1, <1>2 DEF Advance, TypeOK
    <2> QED BY <1>1, <1>3, <2>1, LoggedKept
  <1>6. NoSilentLoss'
    <2>1. ASSUME NEW f \in Events, NEW i \in 1..Len(matches[f]), i < cur'[f]
          PROVE  i < cur[f] \/ rows'[<<f, i>>] = "failed" \/ <<f, i>> \in lost'
      <3>1. CASE f = e
        <4>1. cur'[e] = cur[e] + 1 /\ cur[e] \in Nat /\ i \in Nat
          BY <1>1 DEF Advance, TypeOK
        <4> QED BY <4>1, <3>1, <2>1, <1>2, <1>3
      <3>2. CASE f # e
        BY <3>2, <2>1, <1>1 DEF Advance, TypeOK
      <3> QED BY <3>1, <3>2
    <2> QED BY <2>1, <1>1, <1>3, <1>4, TraceKept
  <1>7. AttemptsFresh'
    BY <1>1, AdvanceKeepsFresh
  <1>8. HandledLeavesCopy'
    BY <1>1 DEF HandledLeavesCopy
  <1>9. NoAckBeforeOutcome'
    BY <1>1, <1>3, CopyParts DEF NoAckBeforeOutcome, RowsKept
  <1> QED BY <1>5, <1>6, <1>7, <1>8, <1>9

\* A step of the server that writes no row and passes no match, and publishes
\* at most the copy in hand, which is not ahead of it afterwards.
LEMMA AttemptLogs ==
    ASSUME LInv, NEW e \in Events, pc[e] \in Serving,
           UNCHANGED <<rows, lost, handled, redelivered, matches, cur>>,
           \A f \in Events : f # e => pc'[f] = pc[f] /\ try'[f] = try[f],
           pc'[e] # "idle",
           \A c \in Copies : copies'[c] # copies[c] =>
               /\ c[1] = <<e, cur[e]>> /\ copies[c] = "none" /\ copies'[c] = "queued"
               /\ ~ Ahead(e, cur[e], c[2])',
           \A n \in Attempts : Ahead(e, cur[e], n)' => Ahead(e, cur[e], n)
    PROVE  /\ MatchLogged' /\ CopyLogged' /\ AttemptsFresh' /\ HandledLeavesCopy'
           /\ NoSilentLoss' /\ NoAckBeforeOutcome'
  <1> USE DEF LInv, DInv
  <1>1. cur[e] \in 1..Len(matches[e]) /\ pc[e] # "idle"
    BY DEF CursorInRange, Serving
  <1>2. RowsKept /\ CopiesKept
    BY DEF RowsKept, CopiesKept
  <1>3. MatchLogged' /\ CopyLogged'
    <2>1. \A f \in Events : pc'[f] # "idle" => pc[f] # "idle"
      BY <1>1
    <2>2. ASSUME NEW c \in Copies, copies'[c] # "none"
          PROVE  copies[c] # "none" \/ (pc[c[1][1]] # "idle" /\ c[1][2] \in 1..Len(matches[c[1][1]]))
      BY <2>2, <1>1
    <2> QED BY <1>2, <2>1, <2>2, LoggedKept
  <1>4. NoSilentLoss'
    BY <1>2, TraceKept
  <1>5. AttemptsFresh'
    <2> SUFFICES ASSUME NEW c \in Copies, Ahead(c[1][1], c[1][2], c[2])'
                 PROVE  copies'[c] = "none"
      BY DEF AttemptsFresh
    <2>1. c[1] = <<c[1][1], c[1][2]>> /\ c[1][1] \in Events /\ c[2] \in Attempts
      BY CopyParts DEF LogOf
    <2>2. Ahead(c[1][1], c[1][2], c[2])
      <3>1. CASE c[1][1] = e /\ c[1][2] = cur[e]
        BY <2>1, <3>1
      <3>2. CASE c[1][1] = e /\ c[1][2] # cur[e]
        BY <3>2 DEF Ahead
      <3>3. CASE c[1][1] # e
        BY <3>3, <2>1 DEF Ahead
      <3> QED BY <3>1, <3>2, <3>3
    <2>3. copies[c] = "none"
      BY <2>2 DEF AttemptsFresh
    <2>4. CASE c[1] = <<e, cur[e]>>
      <3>1. c[1][1] = e /\ c[1][2] = cur[e]
        BY <2>4
      <3> QED BY <3>1, <2>3, <2>4
    <2>5. CASE c[1] # <<e, cur[e]>>
      BY <2>3, <2>5
    <2> QED BY <2>4, <2>5
  <1>6. HandledLeavesCopy'
    <2> SUFFICES ASSUME NEW l \in handled, l \notin redelivered
                 PROVE  \E c \in Copies : LogOf(c) = l /\ copies'[c] \in {"succeeding", "ack", "gone"}
      BY DEF HandledLeavesCopy
    <2>1. PICK c \in Copies : LogOf(c) = l /\ copies[c] \in {"succeeding", "ack", "gone"}
      BY DEF HandledLeavesCopy
    <2>2. copies'[c] = copies[c]
      BY <2>1
    <2> QED BY <2>1, <2>2
  <1>7. NoAckBeforeOutcome'
    BY DEF NoAckBeforeOutcome
  <1> QED BY <1>3, <1>4, <1>5, <1>6, <1>7

\* Route, NoPublisher and ClientGone publish nothing.
LEMMA RouteLogs ==
    ASSUME LInv, NEW e \in Events, Route(e) \/ NoPublisher(e) \/ ClientGone(e)
    PROVE  /\ MatchLogged' /\ CopyLogged' /\ AttemptsFresh' /\ HandledLeavesCopy'
           /\ NoSilentLoss' /\ NoAckBeforeOutcome'
  <1> USE DEF LInv, DInv
  <1>1. /\ UNCHANGED <<rows, lost, handled, redelivered, matches, cur, try, copies>>
        /\ pc[e] \in Serving
    BY DEF Route, NoPublisher, ClientGone, history, worker, Serving
  <1>2. /\ \A f \in Events : f # e => pc'[f] = pc[f]
        /\ \/ pc'[e] = pc[e]
           \/ pc[e] = "next" /\ pc'[e] \in {"dynamic", "fallback"}
           \/ pc'[e] = "marking"
    BY DEF Route, NoPublisher, ClientGone, TypeOK
  <1>3. \A n \in Attempts : Ahead(e, cur[e], n)' => Ahead(e, cur[e], n)
    BY <1>1, <1>2 DEF Ahead, TypeOK
  <1>4. pc'[e] # "idle"
    BY <1>1, <1>2 DEF Serving
  <1> QED BY <1>1, <1>2, <1>3, <1>4, AttemptLogs

\* PublishErr uses up an attempt, whether or not the broker took the message.
LEMMA PublishErrLogs ==
    ASSUME LInv, NEW e \in Events, NEW delivered \in BOOLEAN, PublishErr(e, delivered)
    PROVE  /\ MatchLogged' /\ CopyLogged' /\ AttemptsFresh' /\ HandledLeavesCopy'
           /\ NoSilentLoss' /\ NoAckBeforeOutcome'
  <1> USE DEF LInv, DInv
  <1> DEFINE dlq == IF pc[e] = "dlq" THEN PublishAttempts ELSE 0
  <1>1. /\ UNCHANGED <<rows, lost, handled, redelivered, matches, cur>>
        /\ pc[e] \in Serving /\ pc[e] \in {"dynamic", "fallback", "dlq"}
        /\ copies' = copies \/ copies' = [copies EXCEPT ![CurCopy(e)] = "queued"]
    BY DEF PublishErr, history, Serving
  <1>2. /\ CurCopy(e) \in Copies /\ CurCopy(e)[1] = <<e, cur[e]>>
        /\ CurCopy(e)[2] = try[e] + 1 + dlq /\ Ahead(e, cur[e], CurCopy(e)[2])
    BY <1>1, CurCopyAhead
  <1>3. copies[CurCopy(e)] = "none"
    BY <1>2 DEF AttemptsFresh
  <1>4. /\ \A f \in Events : f # e => pc'[f] = pc[f] /\ try'[f] = try[f]
        /\ \/ try'[e] = try[e] + 1 /\ pc'[e] = pc[e]
           \/ try'[e] = 0 /\ pc'[e] = "marking"
           \/ try'[e] = 0 /\ pc[e] = "fallback" /\ pc'[e] = "dlq"
    BY DEF PublishErr, AfterError, TypeOK
  <1>5. try[e] \in 0..(PublishAttempts - 1) /\ PublishAttempts \in Nat \ {0}
    BY DeliveryAssumption DEF TypeOK
  <1>6. \A n \in Attempts : Ahead(e, cur[e], n)' => Ahead(e, cur[e], n) /\ n > try[e] + 1 + dlq
    <2> SUFFICES ASSUME NEW n \in Attempts, Ahead(e, cur[e], n)'
                 PROVE  Ahead(e, cur[e], n) /\ n > try[e] + 1 + dlq
      OBVIOUS
    <2>1. n \in Nat /\ cur[e] \in Nat /\ cur'[e] = cur[e]
      BY <1>1 DEF Attempts, TypeOK
    <2>2. CASE try'[e] = try[e] + 1 /\ pc'[e] = pc[e]
      BY <1>1, <1>5, <2>1, <2>2 DEF Ahead
    <2>3. CASE pc'[e] = "marking"
      BY <2>1, <2>3 DEF Ahead
    <2>4. CASE try'[e] = 0 /\ pc[e] = "fallback" /\ pc'[e] = "dlq"
      BY <1>5, <2>1, <2>4 DEF Ahead
    <2> QED BY <2>2, <2>3, <2>4, <1>4
  <1>7. \A c \in Copies : copies'[c] # copies[c] => c = CurCopy(e) /\ copies'[c] = "queued"
    BY <1>1 DEF TypeOK
  <1>8. CurCopy(e)[2] \in Attempts /\ ~ (CurCopy(e)[2] > try[e] + 1 + dlq)
    BY <1>2, <1>5, CopyParts
  <1>9. \A c \in Copies : c = CurCopy(e) => ~ Ahead(e, cur[e], c[2])'
    BY <1>6, <1>8
  <1>10. pc'[e] # "idle"
    BY <1>1, <1>4
  <1>11. \A n \in Attempts : Ahead(e, cur[e], n)' => Ahead(e, cur[e], n)
    BY <1>6
  <1> HIDE DEF dlq
  <1> QED BY <1>1, <1>2, <1>3, <1>4, <1>7, <1>9, <1>10, <1>11, AttemptLogs

\* PublishOk: the message is with the broker before the match is passed.
LEMMA PublishOkLogs ==
    ASSUME LInv, NEW e \in Events, PublishOk(e)
    PROVE  /\ MatchLogged' /\ CopyLogged' /\ AttemptsFresh' /\ HandledLeavesCopy'
           /\ NoSilentLoss' /\ NoAckBeforeOutcome'
  <1> USE DEF LInv, DInv
  <1>1. /\ UNCHANGED <<rows, lost, handled, redelivered, matches>>
        /\ pc[e] \in Serving /\ pc[e] \in {"dynamic", "fallback", "dlq"}
        /\ copies' = [copies EXCEPT ![CurCopy(e)] = "queued"]
    BY DEF PublishOk, history, Serving, Advance
  <1>2. /\ CurCopy(e) \in Copies /\ CurCopy(e)[1] = <<e, cur[e]>>
        /\ Ahead(e, cur[e], CurCopy(e)[2])
    BY <1>1, CurCopyAhead
  <1>3. copies[CurCopy(e)] = "none"
    BY <1>2 DEF AttemptsFresh
  <1>4. \A c \in Copies : copies'[c] # copies[c] => c = CurCopy(e) /\ copies'[c] = "queued"
    BY <1>1 DEF TypeOK
  <1>5. CASE pc[e] = "dlq"
    <2>1. /\ pc' = [pc EXCEPT ![e] = "marking"] /\ UNCHANGED <<cur, try>>
      BY <1>5 DEF PublishOk
    <2>2. pc'[e] = "marking" /\ \A f \in Events : f # e => pc'[f] = pc[f]
      BY <2>1 DEF TypeOK
    <2>3. \A n : ~ Ahead(e, cur[e], n)'
      BY <2>1, <2>2 DEF Ahead, TypeOK
    <2> QED BY <1>1, <1>2, <1>3, <1>4, <2>1, <2>2, <2>3, AttemptLogs
  <1>6. CASE Advance(e)
    <2>1. RowsKept /\ CopiesKept
      BY <1>1, <1>3, <1>4 DEF RowsKept, CopiesKept
    <2>2. cur[e] \in 1..Len(matches[e]) /\ pc[e] # "idle"
      BY <1>1 DEF CursorInRange
    <2>3. MatchLogged' /\ CopyLogged'
      <3>1. \A f \in Events : pc'[f] # "idle" => pc[f] # "idle"
        BY <1>6, <2>2 DEF Advance, TypeOK
      <3>2. ASSUME NEW c \in Copies, copies'[c] # "none"
            PROVE  copies[c] # "none" \/ (pc[c[1][1]] # "idle" /\ c[1][2] \in 1..Len(matches[c[1][1]]))
        BY <3>2, <1>2, <1>4, <2>2
      <3> QED BY <1>1, <2>1, <3>1, <3>2, LoggedKept
    <2>4. NoSilentLoss'
      <3>1. ASSUME NEW i, i = cur[e]
            PROVE  Published(<<e, i>>)'
        <4>1. PICK n \in Attempts : CurCopy(e) = <<<<e, i>>, n>>
          BY <3>1, <1>2, CopyParts DEF LogOf
        <4>2. copies'[CurCopy(e)] = "queued"
          BY <1>1, <1>2 DEF TypeOK
        <4> QED BY <4>1, <4>2 DEF Published
      <3>2. ASSUME NEW f \in Events, NEW i \in 1..Len(matches[f]), i < cur'[f]
            PROVE  i < cur[f] \/ Published(<<f, i>>)'
        <4>1. CASE f = e
          <5>1. cur'[e] = cur[e] + 1 /\ cur[e] \in Nat /\ i \in Nat
            BY <1>6 DEF Advance, TypeOK
          <5>2. i < cur[e] \/ i = cur[e]
            BY <5>1, <4>1, <3>2
          <5> QED BY <5>2, <4>1, <3>1
        <4>2. CASE f # e
          BY <4>2, <3>2, <1>6 DEF Advance, TypeOK
        <4> QED BY <4>1, <4>2
      <3> QED BY <1>1, <2>1, <3>2, TraceKept
    <2>5. AttemptsFresh'
      BY <1>1, <1>2, <1>4, <1>6, AdvanceKeepsFresh
    <2>6. HandledLeavesCopy'
      <3> SUFFICES ASSUME NEW l \in handled, l \notin redelivered
                   PROVE  \E c \in Copies : LogOf(c) = l /\ copies'[c] \in {"succeeding", "ack", "gone"}
        BY <1>1 DEF HandledLeavesCopy
      <3>1. PICK c \in Copies : LogOf(c) = l /\ copies[c] \in {"succeeding", "ack", "gone"}
        BY DEF HandledLeavesCopy
      <3>2. copies'[c] = copies[c]
        BY <3>1, <1>3, <1>4
      <3> QED BY <3>1, <3>2
    <2>7. NoAckBeforeOutcome'
      BY <1>1, <1>4 DEF NoAckBeforeOutcome
    <2> QED BY <2>3, <2>4, <2>5, <2>6, <2>7
  <1> QED BY <1>5, <1>6 DEF PublishOk

\* A message in the broker was published by its request.
LEMMA CopyPublished ==
    ASSUME NEW c \in Copies, copies[c] # "none"
    PROVE  Published(LogOf(c))
  BY CopyParts DEF Published

\* A step of the worker that moves one copy.
LEMMA WorkerLogs ==
    ASSUME LInv, UNCHANGED server, RowsKept, NEW c \in Copies, copies[c] # "none",
           copies'[c] # "none", \A d \in Copies : d # c => copies'[d] = copies[d],
           redelivered \subseteq redelivered',
           handled' \subseteq handled \cup {LogOf(c)},
           LogOf(c) \in handled' => \/ LogOf(c) \in handled
                                    \/ copies'[c] \in {"succeeding", "ack", "gone"},
           copies[c] \in {"succeeding", "ack", "gone"} =>
               copies'[c] \in {"succeeding", "ack", "gone"},
           copies'[c] \in {"ack", "nack", "gone"} =>
               rows'[LogOf(c)] \in Terminal \/ LogOf(c) \in lost'
    PROVE  /\ MatchLogged' /\ CopyLogged' /\ AttemptsFresh' /\ HandledLeavesCopy'
           /\ NoSilentLoss' /\ NoAckBeforeOutcome'
  <1> USE DEF LInv, DInv
  <1>1. UNCHANGED <<pc, matches, cur, try>>
    BY DEF server
  <1>2. CopiesKept
    BY DEF CopiesKept
  <1>3. MatchLogged' /\ CopyLogged'
    BY <1>1, LoggedKept
  <1>4. NoSilentLoss'
    BY <1>1, <1>2, TraceKept
  <1>5. AttemptsFresh'
    BY <1>1 DEF AttemptsFresh, Ahead
  <1>6. HandledLeavesCopy'
    <2> SUFFICES ASSUME NEW l \in handled', l \notin redelivered'
                 PROVE  \E d \in Copies : LogOf(d) = l /\ copies'[d] \in {"succeeding", "ack", "gone"}
      BY DEF HandledLeavesCopy, LogOf
    <2>1. CASE l \in handled
      BY <2>1 DEF HandledLeavesCopy
    <2>2. CASE l \notin handled
      BY <2>2
    <2> QED BY <2>1, <2>2
  <1>7. NoAckBeforeOutcome'
    <2> SUFFICES ASSUME NEW d \in Copies, copies'[d] \in {"ack", "nack", "gone"}
                 PROVE  rows'[LogOf(d)] \in Terminal \/ LogOf(d) \in lost'
      BY DEF NoAckBeforeOutcome, LogOf
    <2>1. CASE d = c
      BY <2>1
    <2>2. CASE d # c
      <3>1. rows[LogOf(d)] \in Terminal \/ LogOf(d) \in lost
        BY <2>2 DEF NoAckBeforeOutcome
      <3> QED BY <3>1, CopyParts DEF RowsKept
    <2> QED BY <2>1, <2>2
  <1> QED BY <1>3, <1>4, <1>5, <1>6, <1>7

\* The steps of a callback that do not write the log.
LEMMA CallbackLogs ==
    ASSUME LInv, NEW c \in Copies,
           \/ Deliver(c) \/ (\E ok \in BOOLEAN : Prepare(c, ok))
           \/ HandlerOk(c) \/ HandlerErr(c) \/ Ack(c) \/ Nack(c)
    PROVE  /\ MatchLogged' /\ CopyLogged' /\ AttemptsFresh' /\ HandledLeavesCopy'
           /\ NoSilentLoss' /\ NoAckBeforeOutcome'
  <1> USE DEF LInv, DInv
  <1>1. UNCHANGED <<server, rows, lost>>
    BY DEF Deliver, Prepare, HandlerOk, HandlerErr, Ack, Nack, history
  <1>2. RowsKept
    BY <1>1 DEF RowsKept
  <1>3. copies \in [Copies -> CopyStates]
    BY DEF TypeOK
  <1>4. copies[c] # "none" /\ copies'[c] # "none" /\ \A d \in Copies : d # c => copies'[d] = copies[d]
    BY <1>3 DEF Deliver, Prepare, HandlerOk, HandlerErr, Ack, Nack
  <1>5. CASE Deliver(c) \/ (\E ok \in BOOLEAN : Prepare(c, ok)) \/ HandlerErr(c)
    <2>1. /\ UNCHANGED <<handled, redelivered>>
          /\ copies[c] \in {"queued", "decode", "running"}
          /\ copies'[c] \in {"decode", "running", "failing"}
      BY <1>3, <1>5 DEF Deliver, Prepare, HandlerErr, history
    <2> QED BY <1>1, <1>2, <1>4, <2>1, WorkerLogs
  <1>6. CASE HandlerOk(c)
    <2>1. /\ redelivered' = redelivered /\ handled' = handled \cup {LogOf(c)}
          /\ copies[c] = "running" /\ copies'[c] = "succeeding"
      BY <1>3, <1>6 DEF HandlerOk
    <2> QED BY <1>1, <1>2, <1>4, <2>1, WorkerLogs
  <1>7. CASE Ack(c)
    <2>1. /\ UNCHANGED <<handled, redelivered>> /\ copies[c] = "ack" /\ copies'[c] = "gone"
      BY <1>3, <1>7 DEF Ack, history
    <2>2. rows'[LogOf(c)] \in Terminal \/ LogOf(c) \in lost'
      BY <1>1, <2>1 DEF NoAckBeforeOutcome
    <2> QED BY <1>1, <1>2, <1>4, <2>1, <2>2, WorkerLogs
  <1>8. CASE Nack(c)
    <2>1. /\ handled' = handled /\ redelivered \subseteq redelivered'
          /\ copies[c] = "nack" /\ copies'[c] = "queued"
      BY <1>3, <1>8 DEF Nack
    <2> QED BY <1>1, <1>2, <1>4, <2>1, WorkerLogs
  <1> QED BY <1>5, <1>6, <1>7, <1>8

\* ReportFailed, ReportSuccess: the outcome is written before the message is
\* given up.
LEMMA ReportLogs ==
    ASSUME LInv, NEW c \in Copies, ReportFailed(c) \/ ReportSuccess(c)
    PROVE  /\ MatchLogged' /\ CopyLogged' /\ AttemptsFresh' /\ HandledLeavesCopy'
           /\ NoSilentLoss' /\ NoAckBeforeOutcome'
  <1> USE DEF LInv, DInv
  <1>1. /\ UNCHANGED <<server, handled, redelivered>>
        /\ \/ copies[c] = "failing" /\ copies'[c] \in {"ack", "nack"}
           \/ copies[c] = "succeeding" /\ copies'[c] = "ack"
        /\ \A d \in Copies : d # c => copies'[d] = copies[d]
    BY DEF ReportFailed, ReportSuccess, TypeOK
  <1>2. LogOf(c) \in LogIds /\ Published(LogOf(c))
        /\ (rows[LogOf(c)] # "absent" \/ LogOf(c) \in lost)
    BY <1>1, CopyParts, CopyPublished DEF CopyLogged
  <1>3. RowsKept /\ (rows'[LogOf(c)] \in Terminal \/ LogOf(c) \in lost')
    <2>1. rows \in [LogIds -> Statuses]
      BY DEF TypeOK
    <2>2. ASSUME NEW s \in {"success", "failed"}, rows' = UpdateEventLogStatus(rows, LogOf(c), s),
                 UNCHANGED lost
          PROVE  RowsKept /\ (rows'[LogOf(c)] \in Terminal \/ LogOf(c) \in lost')
      BY <2>1, <2>2, <1>2, UpdateKeepsOutcome DEF RowsKept, Terminal
    <2>3. CASE Dropped(LogOf(c))
      BY <2>3 DEF RowsKept, Dropped
    <2> QED BY <2>2, <2>3 DEF ReportFailed, ReportSuccess, Stored
  <1> QED BY <1>1, <1>3, WorkerLogs

\* WorkerCrash: what was in flight is delivered again, or counts as lost.
LEMMA WorkerCrashLogs ==
    ASSUME LInv, WorkerCrash
    PROVE  /\ MatchLogged' /\ CopyLogged' /\ AttemptsFresh' /\ HandledLeavesCopy'
           /\ NoSilentLoss' /\ NoAckBeforeOutcome'
  <1> USE DEF LInv, DInv
  <1>1. UNCHANGED <<server, rows, handled>> /\ UNCHANGED <<pc, matches, cur, try>>
        /\ lost \subseteq lost' /\ redelivered \subseteq redelivered'
    BY DEF WorkerCrash, server
  <1>2. ASSUME NEW c \in Copies
        PROVE  \/ c \notin InFlight /\ copies'[c] = copies[c]
               \/ /\ c \in InFlight /\ LogOf(c) \in redelivered'
                  /\ \/ copies'[c] = "queued"
                     \/ copies'[c] = "gone" /\ LogOf(c) \in lost'
    BY DEF WorkerCrash
  <1>3. \A c \in Copies : c \in InFlight => copies[c] # "none"
    BY DEF InFlight, Stages
  <1>4. RowsKept /\ CopiesKept
    BY <1>1, <1>2, <1>3 DEF RowsKept, CopiesKept
  <1>5. MatchLogged' /\ CopyLogged'
    BY <1>1, <1>2, <1>3, <1>4, LoggedKept
  <1>6. NoSilentLoss'
    BY <1>1, <1>4, TraceKept
  <1>7. AttemptsFresh'
    BY <1>1, <1>2, <1>3 DEF AttemptsFresh, Ahead
  <1>8. HandledLeavesCopy'
    <2> SUFFICES ASSUME NEW l \in handled, l \notin redelivered'
                 PROVE  \E d \in Copies : LogOf(d) = l /\ copies'[d] \in {"succeeding", "ack", "gone"}
      BY <1>1 DEF HandledLeavesCopy, LogOf
    <2>1. PICK d \in Copies : LogOf(d) = l /\ copies[d] \in {"succeeding", "ack", "gone"}
      BY <1>1 DEF HandledLeavesCopy
    <2> QED BY <2>1, <1>2
  <1>9. NoAckBeforeOutcome'
    <2> SUFFICES ASSUME NEW d \in Copies, copies'[d] \in {"ack", "nack", "gone"}
                 PROVE  rows[LogOf(d)] \in Terminal \/ LogOf(d) \in lost'
      BY <1>1 DEF NoAckBeforeOutcome, LogOf
    <2> QED BY <1>1, <1>2 DEF NoAckBeforeOutcome
  <1> QED BY <1>5, <1>6, <1>7, <1>8, <1>9

\* ApiUpdate writes "queued", which replaces no outcome.
LEMMA ApiUpdateLogs ==
    ASSUME LInv, NEW l \in LogIds, NEW status \in ApiStatuses, ApiUpdate(l, status)
    PROVE  /\ MatchLogged' /\ CopyLogged' /\ AttemptsFresh' /\ HandledLeavesCopy'
           /\ NoSilentLoss' /\ NoAckBeforeOutcome'
  <1> USE DEF LInv, DInv
  <1>1. UNCHANGED <<pc, matches, cur, try, copies, lost, handled, redelivered>>
        /\ rows' = UpdateEventLogStatus(rows, l, "queued")
    BY DeliveryAssumption DEF ApiUpdate, server, worker, history
  <1>2. RowsKept /\ CopiesKept
    BY <1>1, UpdateKeepsOutcome DEF TypeOK, RowsKept, CopiesKept
  <1>3. MatchLogged' /\ CopyLogged'
    BY <1>1, <1>2, LoggedKept
  <1>4. NoSilentLoss'
    BY <1>1, <1>2, TraceKept
  <1>5. AttemptsFresh' /\ HandledLeavesCopy'
    BY <1>1 DEF AttemptsFresh, Ahead, HandledLeavesCopy
  <1>6. NoAckBeforeOutcome'
    BY <1>1, <1>2, CopyParts DEF NoAckBeforeOutcome, RowsKept
  <1> QED BY <1>3, <1>4, <1>5, <1>6

\* ServerCrash: a crashed request attempts nothing any more.
LEMMA ServerCrashLogs ==
    ASSUME LInv, ServerCrash
    PROVE  /\ MatchLogged' /\ CopyLogged' /\ AttemptsFresh' /\ HandledLeavesCopy'
           /\ NoSilentLoss' /\ NoAckBeforeOutcome'
  <1> USE DEF LInv, DInv
  <1>1. UNCHANGED <<matches, cur, try, copies, rows, lost, handled, redelivered>>
        /\ \A e \in Events : pc'[e] = IF pc[e] \in Serving THEN "crashed" ELSE pc[e]
    BY DEF ServerCrash, worker, history
  <1>2. \A e \in Events : pc'[e] # "idle" => pc[e] # "idle"
    BY <1>1 DEF Serving
  <1>3. RowsKept /\ CopiesKept
    BY <1>1 DEF RowsKept, CopiesKept
  <1>4. MatchLogged' /\ CopyLogged'
    BY <1>1, <1>2, <1>3, LoggedKept
  <1>5. NoSilentLoss'
    BY <1>1, <1>3, TraceKept
  <1>6. AttemptsFresh'
    BY <1>1, CopyParts DEF AttemptsFresh, Ahead
  <1>7. HandledLeavesCopy' /\ NoAckBeforeOutcome'
    BY <1>1 DEF HandledLeavesCopy, NoAckBeforeOutcome
  <1> QED BY <1>4, <1>5, <1>6, <1>7

\* LInv is inductive.
LEMMA LInvNext == LInv /\ [Next]_vars => LInv'
  <1> SUFFICES ASSUME LInv, [Next]_vars PROVE LInv'
    OBVIOUS
  <1>1. DInv'
    BY DInvNext DEF LInv
  <1>2. ASSUME NEW e \in Events, ServerStep(e) \/ ClientGone(e) PROVE LInv'
    <2>1. ASSUME NEW ms \in MatchLists \cup {<< >>}, Emit(e, ms) PROVE LInv'
      BY <2>1, <1>1, EmitLogs
    <2>2. ASSUME NEW delivered \in BOOLEAN, PublishErr(e, delivered) PROVE LInv'
      BY <2>2, <1>1, PublishErrLogs DEF LInv
    <2>3. CASE TransformFails(e) \/ MarkFailed(e)
      BY <2>3, <1>1, MarkLogs DEF LInv
    <2>4. CASE Route(e) \/ NoPublisher(e) \/ ClientGone(e)
      BY <2>4, <1>1, RouteLogs DEF LInv
    <2>5. CASE PublishOk(e)
      BY <2>5, <1>1, PublishOkLogs DEF LInv
    <2> QED BY <1>2, <2>1, <2>2, <2>3, <2>4, <2>5 DEF ServerStep
  <1>3. ASSUME NEW c \in Copies, Deliver(c) \/ Handling(c) PROVE LInv'
    <2>1. CASE ReportFailed(c) \/ ReportSuccess(c)
      BY <2>1, <1>1, ReportLogs DEF LInv
    <2>2. CASE \/ Deliver(c) \/ (\E ok \in BOOLEAN : Prepare(c, ok))
               \/ HandlerOk(c) \/ HandlerErr(c) \/ Ack(c) \/ Nack(c)
      BY <2>2, <1>1, CallbackLogs DEF LInv
    <2> QED BY <1>3, <2>1, <2>2 DEF Handling
  <1>4. ASSUME NEW l \in LogIds, NEW st \in ApiStatuses, ApiUpdate(l, st) PROVE LInv'
    BY <1>4, <1>1, ApiUpdateLogs DEF LInv
  <1>5. CASE ServerCrash
    BY <1>5, <1>1, ServerCrashLogs DEF LInv
  <1>6. CASE WorkerCrash
    BY <1>6, <1>1, WorkerCrashLogs DEF LInv
  <1>7. CASE UNCHANGED vars
    <2>1. MatchLogged' /\ CopyLogged' /\ AttemptsFresh' /\ HandledLeavesCopy' /\ NoAckBeforeOutcome'
      BY <1>7 DEF LInv, vars, server, worker, history, MatchLogged, CopyLogged, AttemptsFresh,
                  Ahead, HandledLeavesCopy, NoAckBeforeOutcome
    <2>2. NoSilentLoss'
      BY <1>7 DEF LInv, vars, server, worker, history, NoSilentLoss, Published
    <2> QED BY <1>1, <2>1, <2>2 DEF LInv
  <1> QED BY <1>2, <1>3, <1>4, <1>5, <1>6, <1>7 DEF Next

\* LInv holds in every state.
LEMMA LInvAlways == Spec => []LInv
  BY LInvInit, LInvNext, PTL DEF Spec

\* No match disappears without a trace: what publishMatchesWithFallback has
\* passed was taken by a broker, is marked failed, or its write was lost.
THEOREM DeliveryNoSilentLoss == Spec => []NoSilentLoss
  BY LInvAlways, PTL DEF LInv

\* No path of handleMessage, crash or redelivery acknowledges a message whose
\* log still looks pending, unless a write was lost.
THEOREM DeliveryNoAckBeforeOutcome == Spec => []NoAckBeforeOutcome
  BY LInvAlways, PTL DEF LInv

-----------------------------------------------------------------------------
(***************************************************************************)
(* A recorded success is turned into a failure only by a duplicate or by    *)
(* the server's own mark.                                                   *)
(***************************************************************************)

\* The action of SuccessKeptUnlessDuplicated.
SuccessStep ==
    \A l \in LogIds : rows[l] = "success" /\ rows'[l] = "failed" =>
          \/ \E m, n \in Attempts : /\ m # n
                                    /\ copies[<<l, m>>] # "none"
                                    /\ copies[<<l, n>>] # "none"
          \/ l \in redelivered
          \/ pc[l[1]] = "marking" /\ cur[l[1]] = l[2]

\* A step takes success from a log only where a message was published twice, or
\* where the server marks a publish that reported an error.
LEMMA SuccessStepHolds == LInv /\ Next => SuccessStep
  <1> SUFFICES ASSUME LInv, Next, NEW l \in LogIds, rows[l] = "success", rows'[l] = "failed",
                      l \notin redelivered
               PROVE  \/ \E m, n \in Attempts : /\ m # n
                                                /\ copies[<<l, m>>] # "none"
                                                /\ copies[<<l, n>>] # "none"
                      \/ pc[l[1]] = "marking" /\ cur[l[1]] = l[2]
    BY DEF SuccessStep
  <1> USE DEF LInv, DInv
  <1>1. rows \in [LogIds -> Statuses]
    BY DEF TypeOK
  <1>2. PICK c \in Copies : LogOf(c) = l /\ copies[c] \in {"succeeding", "ack", "gone"}
    BY DEF SuccessOnlyIfHandled, HandledLeavesCopy
  <1>3. ASSUME NEW k, NEW s, rows' = UpdateEventLogStatus(rows, k, s)
        PROVE  k = l /\ s = "failed"
    BY <1>1, <1>3, UpdateTouchesOne
  <1>4. ASSUME NEW e \in Events, TransformFails(e) \/ MarkFailed(e)
        PROVE  pc[l[1]] = "marking" /\ cur[l[1]] = l[2]
    <2>1. CurLog(e) = l
      BY <1>3, <1>4 DEF TransformFails, MarkFailed, ServerUpdate, Stored, Dropped
    <2>2. l[1] = e /\ l[2] = cur[e]
      BY <2>1 DEF CurLog
    <2>3. ~ TransformFails(e)
      <3> SUFFICES ASSUME pc[e] = "next" PROVE FALSE
        BY DEF TransformFails
      <3>1. Ahead(c[1][1], c[1][2], c[2])
        BY <1>2, <2>2 DEF LogOf, Ahead
      <3> QED BY <3>1, <1>2 DEF AttemptsFresh
    <2> QED BY <1>4, <2>2, <2>3 DEF MarkFailed
  <1>5. ASSUME NEW d \in Copies, ReportFailed(d)
        PROVE  \E m, n \in Attempts : m # n /\ copies[<<l, m>>] # "none" /\ copies[<<l, n>>] # "none"
    <2>1. LogOf(d) = l /\ copies[d] = "failing"
      BY <1>3, <1>5 DEF ReportFailed, Stored, Dropped
    <2>2. d = <<l, d[2]>> /\ c = <<l, c[2]>> /\ d[2] \in Attempts /\ c[2] \in Attempts
      BY <1>2, <2>1, CopyParts
    <2>3. d # c
      BY <1>2, <2>1
    <2>4. copies[<<l, d[2]>>] # "none" /\ copies[<<l, c[2]>>] # "none" /\ d[2] # c[2]
      BY <2>1, <2>2, <2>3, <1>2
    <2> QED BY <2>2, <2>4
  <1>6. ASSUME NEW e \in Events, NEW ms \in MatchLists \cup {<< >>}, Emit(e, ms) PROVE FALSE
    BY <1>1, <1>6 DEF Emit, CreateEventLogs
  <1>7. ASSUME NEW d \in Copies, ReportSuccess(d) PROVE FALSE
    BY <1>3, <1>7 DEF ReportSuccess, Stored, Dropped
  <1>8. ASSUME NEW k \in LogIds, NEW st \in ApiStatuses, ApiUpdate(k, st) PROVE FALSE
    BY <1>3, <1>8, DeliveryAssumption DEF ApiUpdate
  <1>9. ASSUME NEW e \in Events,
               \/ Route(e) \/ NoPublisher(e) \/ PublishOk(e) \/ ClientGone(e)
               \/ (\E delivered \in BOOLEAN : PublishErr(e, delivered))
        PROVE FALSE
    BY <1>9 DEF Route, NoPublisher, PublishOk, PublishErr, ClientGone
  <1>10. ASSUME NEW d \in Copies,
                \/ Deliver(d) \/ (\E ok \in BOOLEAN : Prepare(d, ok))
                \/ HandlerOk(d) \/ HandlerErr(d) \/ Ack(d) \/ Nack(d)
         PROVE FALSE
    BY <1>10 DEF Deliver, Prepare, HandlerOk, HandlerErr, Ack, Nack
  <1>11. ~ ServerCrash /\ ~ WorkerCrash
    BY DEF ServerCrash, WorkerCrash
  <1> QED BY <1>4, <1>5, <1>6, <1>7, <1>8, <1>9, <1>10, <1>11 DEF Next, ServerStep, Handling

\* An event that was delivered exactly once keeps its success.  Its copy is
\* finished, so a later failure comes from another copy, from a redelivery,
\* or from the server, which reported a publish error for a message that the
\* broker had taken.
THEOREM DeliverySuccessKept == Spec => SuccessKeptUnlessDuplicated
  <1>1. LInv /\ [Next]_vars => [SuccessStep]_vars
    BY SuccessStepHolds
  <1> QED BY <1>1, LInvAlways, PTL DEF Spec, SuccessKeptUnlessDuplicated, SuccessStep

-----------------------------------------------------------------------------
(***************************************************************************)
(* The semaphore.                                                           *)
(***************************************************************************)

LEMMA CopiesFinite == IsFiniteSet(Copies)
  <1>1. 1 \in Int /\ MaxMatches \in Int /\ 2 * PublishAttempts \in Int
    BY DeliveryAssumption
  <1>2. IsFiniteSet(1..MaxMatches) /\ IsFiniteSet(1..(2 * PublishAttempts))
    BY <1>1, FS_Interval
  <1>3. IsFiniteSet(LogIds)
    BY <1>2, FS_Product, DeliveryAssumption DEF LogIds
  <1> QED BY <1>2, <1>3, FS_Product DEF Copies, Attempts

\* A set of callbacks that does not grow stays within the bound.
LEMMA InFlightShrinks ==
    ASSUME InFlightBounded, InFlight' \subseteq InFlight
    PROVE  InFlightBounded'
  <1>1. IsFiniteSet(InFlight)
    BY CopiesFinite, FS_Subset DEF InFlight
  <1>2. Cardinality(InFlight') <= Cardinality(InFlight)
    BY <1>1, FS_Subset
  <1>3. IsFiniteSet(InFlight')
    BY <1>1, FS_Subset
  <1>4. Cardinality(InFlight') \in Nat /\ Cardinality(InFlight) \in Nat /\ Concurrency \in Nat
    BY <1>1, <1>3, FS_CardinalityType, DeliveryAssumption
  <1> QED BY <1>2, <1>4 DEF InFlightBounded

\* Deliver is the only step that starts a callback, and it takes a slot.
LEMMA InFlightNext == LInv /\ InFlightBounded /\ [Next]_vars => InFlightBounded'
  <1> SUFFICES ASSUME LInv, InFlightBounded, [Next]_vars PROVE InFlightBounded'
    OBVIOUS
  <1> USE DEF LInv, DInv
  <1>1. copies \in [Copies -> CopyStates] /\ Stages \subseteq CopyStates
        /\ "none" \notin Stages /\ "queued" \notin Stages /\ "gone" \notin Stages
    BY DEF TypeOK, CopyStates, Stages
  <1>2. ASSUME NEW c \in Copies, Deliver(c) PROVE InFlightBounded'
    <2>1. InFlight' = InFlight \cup {c} /\ c \notin InFlight /\ Cardinality(InFlight) < Concurrency
      BY <1>1, <1>2 DEF Deliver, InFlight, Stages
    <2>2. IsFiniteSet(InFlight) /\ Cardinality(InFlight) \in Nat /\ Concurrency \in Nat
      BY CopiesFinite, FS_Subset, FS_CardinalityType, DeliveryAssumption DEF InFlight
    <2>3. Cardinality(InFlight') = Cardinality(InFlight) + 1
      BY <2>1, <2>2, FS_AddElement
    <2> QED BY <2>1, <2>2, <2>3 DEF InFlightBounded
  <1>3. ASSUME \A c \in Copies : copies'[c] \in Stages => copies[c] \in Stages
        PROVE  InFlightBounded'
    <2>1. InFlight' \subseteq InFlight
      BY <1>3 DEF InFlight
    <2> QED BY <2>1, InFlightShrinks
  <1>4. ASSUME NEW c \in Copies, Handling(c) PROVE InFlightBounded'
    <2>1. copies[c] \in Stages
      BY <1>4 DEF Handling, Prepare, HandlerOk, HandlerErr, ReportFailed, ReportSuccess, Ack, Nack,
                  Stages
    <2>2. \A d \in Copies : d # c => copies'[d] = copies[d]
      BY <1>1, <1>4 DEF Handling, Prepare, HandlerOk, HandlerErr, ReportFailed, ReportSuccess, Ack, Nack
    <2> QED BY <1>3, <2>1, <2>2
  <1>5. ASSUME NEW e \in Events, ServerStep(e) \/ ClientGone(e) PROVE InFlightBounded'
    <2>1. copies' = copies \/ copies' = [copies EXCEPT ![CurCopy(e)] = "queued"]
      BY <1>5 DEF ServerStep, ClientGone, Emit, TransformFails, Route, NoPublisher, PublishOk,
                  PublishErr, MarkFailed, worker
    <2>2. \A c \in Copies : copies'[c] \in Stages => copies[c] \in Stages
      BY <1>1, <2>1
    <2> QED BY <1>3, <2>2
  <1>6. CASE WorkerCrash
    <2>1. \A c \in Copies : copies'[c] \in Stages => copies[c] \in Stages
      BY <1>1, <1>6 DEF WorkerCrash, InFlight
    <2> QED BY <1>3, <2>1
  <1>7. CASE \/ ServerCrash \/ UNCHANGED vars
             \/ \E l \in LogIds, status \in ApiStatuses : ApiUpdate(l, status)
    <2>1. copies' = copies
      BY <1>7 DEF ServerCrash, vars, worker, ApiUpdate
    <2> QED BY <1>3, <2>1
  <1> QED BY <1>2, <1>4, <1>5, <1>6, <1>7 DEF Next

\* WithConcurrency(n) bounds the messages in flight by n, for any n and over
\* any number of events, copies, redeliveries and restarts.
THEOREM DeliveryInFlightBounded == Spec => []InFlightBounded
  <1>1. Init => InFlightBounded
    <2> SUFFICES ASSUME Init PROVE InFlightBounded
      OBVIOUS
    <2>1. InFlight = {}
      BY DEF Init, InFlight, Stages
    <2> QED BY <2>1, FS_EmptySet, DeliveryAssumption DEF InFlightBounded
  <1> QED BY <1>1, InFlightNext, LInvAlways, PTL DEF Spec
=============================================================================
