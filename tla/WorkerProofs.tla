---------------------------- MODULE WorkerProofs ----------------------------
(***************************************************************************)
(* Proofs about WorkerRun and MultiSubscriber, for every set of topics,     *)
(* drivers and subscribers.                                                 *)
(***************************************************************************)
EXTENDS MCWorkerRun, SequenceTheorems, TLAPS

-----------------------------------------------------------------------------
(***************************************************************************)
(* Worker.Run.                                                              *)
(***************************************************************************)

\* No goroutine runs before the subscribers are built.
NotStarted == main \in {"prepare", "build"} => \A t \in Topics : go[t] = "unborn"

\* An error is about to be sent or is in the channel, which nobody drains, and
\* nothing else is.
ErrorsKept ==
    /\ \A t \in Topics : /\ t \in failed => go[t] = "sending" \/ errCh # << >>
                         /\ go[t] = "sending" => t \in failed
    /\ errCh # << >> => failed # {}

\* notifyExit is the last thing Run does.
ExitIsLast == listener = "exited" => main = "returned"

\* The inductive invariant of Run.
WInv ==
    /\ TypeOK
    /\ NotStarted
    /\ ErrorsKept
    /\ ExitIsLast
    /\ ResultIsTrue
    /\ NoGoroutineLeft

\* The invariant holds before Run.
LEMMA WInvInit == Init => WInv
  <1> SUFFICES ASSUME Init PROVE WInv
    OBVIOUS
  <1>1. TypeOK
    <2>1. cancelled \in BOOLEAN /\ hasSubscriber \in Modes
      BY DEF Init
    <2>2. errCh \in Seq(Topics)
      BY DEF Init
    <2>3. go \in [Topics -> GoPcs]
      BY DEF Init, GoPcs
    <2> QED BY <2>1, <2>2, <2>3 DEF Init, TypeOK, MainPcs
  <1>2. NotStarted /\ ErrorsKept /\ ExitIsLast /\ ResultIsTrue /\ NoGoroutineLeft
    BY DEF Init, NotStarted, ErrorsKept, ExitIsLast, ResultIsTrue, NoGoroutineLeft
  <1> QED BY <1>1, <1>2 DEF WInv

\* Prepare and BuildSubscribers end Run before anything was started.
LEMMA PrepareKeeps ==
    ASSUME WInv, NEW ok \in BOOLEAN, Prepare(ok) \/ BuildSubscribers(ok)
    PROVE  WInv'
  <1> USE DEF WInv
  <1>1. /\ UNCHANGED <<hasSubscriber, go, errCh, cancelled, failed>>
        /\ main \in {"prepare", "build"}
        /\ \/ main' \in {"spawn", "build"} /\ listener' \in {"started", listener} /\ result' = result
           \/ main' = "returned" /\ result' = "error" /\ listener' = listener
    BY DEF Prepare, BuildSubscribers
  <1>2. TypeOK' /\ NotStarted' /\ ErrorsKept' /\ ExitIsLast'
    BY <1>1 DEF TypeOK, MainPcs, NotStarted, ErrorsKept, ExitIsLast
  <1>3. ResultIsTrue' /\ NoGoroutineLeft'
    BY <1>1 DEF ResultIsTrue, NoGoroutineLeft, NotStarted, ExitIsLast
  <1> QED BY <1>2, <1>3

\* Spawn: Run is not yet over.
LEMMA SpawnKeeps ==
    ASSUME WInv, NEW t \in Topics, Spawn(t)
    PROVE  WInv'
  <1> USE DEF WInv
  <1>1. /\ UNCHANGED <<hasSubscriber, errCh, cancelled, result, listener, failed>>
        /\ main = "spawn" /\ main' \in {"spawn", "wait"} /\ go[t] = "unborn"
        /\ go' = [go EXCEPT ![t] = "running"]
    BY DEF Spawn
  <1> QED BY <1>1 DEF TypeOK, MainPcs, GoPcs, NotStarted, ErrorsKept, ExitIsLast, ResultIsTrue,
                      NoGoroutineLeft

\* A goroutine that is alive keeps Run from having returned.
LEMMA GoroutineKeeps ==
    ASSUME WInv, NEW t \in Topics, Goroutine(t)
    PROVE  WInv'
  <1> USE DEF WInv
  <1>1. main \notin {"prepare", "build", "returned"}
    BY DEF Goroutine, StartReturns, StartFails, SendError, CancelOthers, NotStarted, NoGoroutineLeft
  <1>2. UNCHANGED <<hasSubscriber, main, result, listener>>
    BY DEF Goroutine, StartReturns, StartFails, SendError, CancelOthers
  <1>3. TypeOK'
    <2>1. go' \in [Topics -> GoPcs] /\ errCh' \in Seq(Topics) /\ failed' \subseteq Topics
      BY DEF TypeOK, GoPcs, Goroutine, StartReturns, StartFails, SendError, CancelOthers
    <2>2. cancelled' \in BOOLEAN
      <3>1. cancelled' = cancelled \/ cancelled' = TRUE
        BY DEF Goroutine, StartReturns, StartFails, SendError, CancelOthers
      <3> QED BY <3>1 DEF TypeOK
    <2> QED BY <1>2, <2>1, <2>2 DEF TypeOK
  <1>4. ErrorsKept'
    <2>1. go \in [Topics -> GoPcs] /\ errCh \in Seq(Topics)
      BY DEF TypeOK
    <2>2. CASE StartReturns(t)
      BY <2>1, <2>2 DEF StartReturns, ErrorsKept
    <2>3. CASE StartFails(t)
      BY <2>1, <2>3 DEF StartFails, ErrorsKept
    <2>4. CASE SendError(t)
      <3>1. errCh' # << >>
        BY <2>1, <2>4 DEF SendError
      <3> QED BY <2>1, <2>4, <3>1 DEF SendError, ErrorsKept
    <2>5. CASE CancelOthers(t)
      BY <2>1, <2>5 DEF CancelOthers, ErrorsKept
    <2> QED BY <2>2, <2>3, <2>4, <2>5 DEF Goroutine
  <1>5. NotStarted' /\ ExitIsLast' /\ ResultIsTrue' /\ NoGoroutineLeft'
    BY <1>1, <1>2 DEF NotStarted, ExitIsLast, ResultIsTrue, NoGoroutineLeft
  <1> QED BY <1>3, <1>4, <1>5

\* Return joins the goroutines first, so the channel holds every error.
LEMMA ReturnKeeps ==
    ASSUME WInv, Cancel \/ WaitDone \/ Return
    PROVE  WInv'
  <1> USE DEF WInv
  <1>1. CASE Cancel \/ WaitDone
    BY <1>1 DEF Cancel, WaitDone, TypeOK, MainPcs, NotStarted, ErrorsKept, ExitIsLast, ResultIsTrue,
                NoGoroutineLeft
  <1>2. CASE Return
    <2>1. TypeOK' /\ NotStarted' /\ ErrorsKept' /\ ExitIsLast' /\ NoGoroutineLeft'
      BY <1>2 DEF Return, TypeOK, MainPcs, NotStarted, ErrorsKept, ExitIsLast, NoGoroutineLeft
    <2>2. errCh # << >> <=> failed # {}
      BY <1>2 DEF Return, ErrorsKept, TypeOK
    <2>3. ResultIsTrue'
      BY <1>2, <2>2 DEF Return, ResultIsTrue
    <2> QED BY <2>1, <2>3
  <1> QED BY <1>1, <1>2

\* WInv is inductive.
LEMMA WInvNext == WInv /\ [Next]_vars => WInv'
  <1> SUFFICES ASSUME WInv, [Next]_vars PROVE WInv'
    OBVIOUS
  <1>1. CASE Next
    BY <1>1, PrepareKeeps, SpawnKeeps, GoroutineKeeps, ReturnKeeps DEF Next, Main
  <1>2. CASE UNCHANGED vars
    BY <1>2 DEF vars, WInv, TypeOK, NotStarted, ErrorsKept, ExitIsLast, ResultIsTrue, NoGoroutineLeft
  <1> QED BY <1>1, <1>2

\* WInv holds in every state.
LEMMA WInvAlways == Spec => []WInv
  BY WInvInit, WInvNext, PTL DEF Spec

\* Run reports an error if and only if a subscription failed, whatever order
\* the failing goroutines, the cancellation and wg.Wait run in.
THEOREM WorkerResultIsTrue == Spec => []ResultIsTrue
  BY WInvAlways, PTL DEF WInv

\* Run leaves no goroutine behind, however it ends.
THEOREM WorkerNoGoroutineLeft == Spec => []NoGoroutineLeft
  BY WInvAlways, PTL DEF WInv

-----------------------------------------------------------------------------
(***************************************************************************)
(* multiSubscriber.Start.                                                   *)
(***************************************************************************)

SubTypes ==
    /\ sub \in [Subs -> {"running", "sending", "sent", "done"}]
    /\ outcome \in [Subs -> {"none", "nil", "error"}]
    /\ subErrCh \in Seq(Subs)
    /\ joined \subseteq {s \in Subs : outcome[s] = "error"}

\* The closer has waited for every goroutine.
ClosedIsLast == closed => \A s \in Subs : sub[s] = "done"

\* An error that was sent has been joined or is still in the channel.
SentIsKept ==
    \A s \in Subs : sub[s] \in {"sent", "done"} /\ outcome[s] = "error" =>
        s \in joined \/ \E i \in 1..Len(subErrCh) : subErrCh[i] = s

\* The range over errCh has ended.
ReturnedIsDrained == returned => closed /\ subErrCh = << >>

\* A running goroutine has no outcome yet.
RunningHasNone == \A s \in Subs : sub[s] = "running" => outcome[s] = "none"

\* The inductive invariant of Start.
MInv == SubTypes /\ ClosedIsLast /\ SentIsKept /\ ReturnedIsDrained /\ RunningHasNone

\* The invariant holds before Start.
LEMMA MInvInit == Multi!Init => MInv
  BY DEF Multi!Init, MInv, SubTypes, ClosedIsLast, SentIsKept, ReturnedIsDrained, RunningHasNone

\* The goroutines of the drivers.
LEMMA DriverKeeps ==
    ASSUME MInv, NEW s \in Subs,
           \/ \E res \in {"nil", "error"} : Multi!SubReturns(s, res)
           \/ Multi!Send(s)
           \/ Multi!WgDone(s)
    PROVE  MInv'
  <1> USE DEF MInv
  <1>1. ~closed /\ ~returned /\ UNCHANGED <<closed, subCancelled, joined, returned>>
    BY DEF Multi!SubReturns, Multi!Send, Multi!WgDone, ClosedIsLast, ReturnedIsDrained, SubTypes
  <1>2. CASE \E res \in {"nil", "error"} : Multi!SubReturns(s, res)
    <2>1. PICK res \in {"nil", "error"} : Multi!SubReturns(s, res)
      BY <1>2
    <2>2. /\ sub[s] = "running" /\ outcome[s] = "none" /\ subErrCh' = subErrCh
          /\ sub' = [sub EXCEPT ![s] = "sending"] /\ outcome' = [outcome EXCEPT ![s] = res]
      BY <2>1 DEF Multi!SubReturns, RunningHasNone
    <2>3. SubTypes' /\ RunningHasNone'
      BY <1>1, <2>2 DEF SubTypes, RunningHasNone
    <2>4. SentIsKept'
      BY <1>1, <2>2 DEF SentIsKept, SubTypes
    <2> QED BY <1>1, <2>3, <2>4 DEF ClosedIsLast, ReturnedIsDrained
  <1>3. CASE Multi!Send(s)
    <2>1. /\ sub' = [sub EXCEPT ![s] = "sent"] /\ subErrCh' = Append(subErrCh, s)
          /\ outcome' = outcome
      BY <1>3 DEF Multi!Send
    <2>2. SubTypes' /\ RunningHasNone'
      BY <1>1, <2>1 DEF SubTypes, RunningHasNone
    <2>3. /\ subErrCh \in Seq(Subs) /\ Len(subErrCh) \in Nat /\ Len(subErrCh') = Len(subErrCh) + 1
          /\ subErrCh'[Len(subErrCh) + 1] = s
          /\ \A i \in 1..Len(subErrCh) : subErrCh'[i] = subErrCh[i]
      BY <2>1 DEF SubTypes
    <2>4. SentIsKept'
      <3> SUFFICES ASSUME NEW u \in Subs, sub'[u] \in {"sent", "done"}, outcome[u] = "error", u \notin joined
                   PROVE  \E i \in 1..Len(subErrCh') : subErrCh'[i] = u
        BY <1>1, <2>1 DEF SentIsKept
      <3>1. CASE u = s
        <4>1. Len(subErrCh) + 1 \in 1..Len(subErrCh')
          BY <2>3
        <4> QED BY <2>3, <3>1, <4>1
      <3>2. CASE u # s
        <4>1. PICK i \in 1..Len(subErrCh) : subErrCh[i] = u
          BY <2>1, <3>2 DEF SentIsKept, SubTypes
        <4>2. i \in 1..Len(subErrCh')
          BY <2>3
        <4> QED BY <2>3, <4>1, <4>2
      <3> QED BY <3>1, <3>2
    <2> QED BY <1>1, <2>2, <2>4 DEF ClosedIsLast, ReturnedIsDrained
  <1>4. CASE Multi!WgDone(s)
    <2>1. /\ sub[s] = "sent" /\ sub' = [sub EXCEPT ![s] = "done"] /\ UNCHANGED <<outcome, subErrCh>>
      BY <1>4 DEF Multi!WgDone
    <2>2. SubTypes' /\ RunningHasNone'
      BY <1>1, <2>1 DEF SubTypes, RunningHasNone
    <2>3. SentIsKept'
      BY <1>1, <2>1 DEF SentIsKept, SubTypes
    <2> QED BY <1>1, <2>2, <2>3 DEF ClosedIsLast, ReturnedIsDrained
  <1> QED BY <1>2, <1>3, <1>4

\* Receive joins the error that it takes out of the channel.
LEMMA ReceiveKeeps ==
    ASSUME MInv, Multi!Receive
    PROVE  MInv'
  <1> USE DEF MInv
  <1>1. /\ subErrCh # << >> /\ subErrCh' = Tail(subErrCh)
        /\ UNCHANGED <<sub, outcome, closed, returned>>
        /\ joined' = IF outcome[Head(subErrCh)] = "error"
                     THEN joined \cup {Head(subErrCh)} ELSE joined
    BY DEF Multi!Receive
  <1>2. /\ subErrCh \in Seq(Subs) /\ Len(subErrCh) \in Nat \ {0} /\ Head(subErrCh) = subErrCh[1]
        /\ Head(subErrCh) \in Subs
        /\ Len(subErrCh') = Len(subErrCh) - 1 /\ subErrCh' \in Seq(Subs)
        /\ \A i \in 1..(Len(subErrCh) - 1) : subErrCh'[i] = subErrCh[i + 1]
    <2>1. subErrCh \in Seq(Subs) /\ subErrCh # << >>
      BY <1>1 DEF SubTypes
    <2> QED BY <2>1, <1>1
  <1>3. SubTypes'
    BY <1>1, <1>2 DEF SubTypes
  <1>4. SentIsKept'
    <2> SUFFICES ASSUME NEW u \in Subs, sub[u] \in {"sent", "done"}, outcome[u] = "error", u \notin joined'
                 PROVE  \E i \in 1..Len(subErrCh') : subErrCh'[i] = u
      BY <1>1 DEF SentIsKept
    <2>1. u \notin joined /\ u # Head(subErrCh)
      BY <1>1
    <2>2. PICK i \in 1..Len(subErrCh) : subErrCh[i] = u
      BY <2>1 DEF SentIsKept
    <2>3. i # 1
      BY <1>2, <2>1, <2>2
    <2>4. i - 1 \in 1..(Len(subErrCh) - 1) /\ i - 1 + 1 = i
      BY <1>2, <2>3
    <2>5. subErrCh'[i - 1] = u
      BY <1>2, <2>2, <2>4
    <2> QED BY <1>2, <2>4, <2>5
  <1>5. ClosedIsLast' /\ ReturnedIsDrained' /\ RunningHasNone'
    BY <1>1 DEF ClosedIsLast, ReturnedIsDrained, RunningHasNone
  <1> QED BY <1>3, <1>4, <1>5

\* MInv is inductive.
LEMMA MInvNext == MInv /\ [Multi!Next]_(Multi!vars) => MInv'
  <1> SUFFICES ASSUME MInv, [Multi!Next]_(Multi!vars) PROVE MInv'
    OBVIOUS
  <1>1. CASE Multi!Cancel \/ Multi!CloseErrCh \/ Multi!Return \/ UNCHANGED Multi!vars
    BY <1>1 DEF Multi!Cancel, Multi!CloseErrCh, Multi!Return, Multi!vars, MInv, SubTypes, ClosedIsLast,
                SentIsKept, ReturnedIsDrained, RunningHasNone
  <1> QED BY <1>1, DriverKeeps, ReceiveKeeps DEF Multi!Next

\* Start closes errCh only when nobody can send to it any more, and returns
\* exactly the errors of its drivers, for any number of them.
THEOREM MultiStartReturnsAllErrors == Multi!Spec => []StartReturnsAllErrors
  <1>1. MInv => StartReturnsAllErrors
    <2> SUFFICES ASSUME MInv PROVE StartReturnsAllErrors
      OBVIOUS
    <2>1. Multi!NoSendAfterClose
      BY DEF MInv, ClosedIsLast, Multi!NoSendAfterClose
    <2>2. Multi!ReturnsAllErrors
      BY DEF MInv, SubTypes, ClosedIsLast, ReturnedIsDrained, SentIsKept, Multi!ReturnsAllErrors
    <2> QED BY <2>1, <2>2 DEF StartReturnsAllErrors
  <1> QED BY <1>1, MInvInit, MInvNext, PTL DEF Multi!Spec
=============================================================================
