--------------------------- MODULE ServicesProofs ---------------------------
(***************************************************************************)
(* Proofs about the services around the delivery of events, for every value *)
(* of their constants.                                                      *)
(***************************************************************************)
EXTENDS Services, FiniteSetTheorems, SequenceTheorems, TLAPS

\* A behaviour starts as its part starts.
LEMMA PartStarts ==
    ServicesInit => /\ focus = "intake" => Intake!Init
                    /\ focus = "reads" => Reads!Init
                    /\ focus = "instances" => Instances!Init
                    /\ focus = "auth" => Auth!Init
                    /\ focus = "scm" => SCM!Init
                    /\ focus = "server" => Serving!Init
                    /\ focus = "mocks" => Mocks!Init
                    /\ focus = "commands" => Cli!Init
  BY DEF ServicesInit

\* A step is one of the part in focus, or leaves that part as it is.
LEMMA PartMoves ==
    [ServicesNext]_ServicesVars => /\ UNCHANGED focus
                                   /\ focus = "intake" => [Intake!Next]_(Intake!vars)
                                   /\ focus = "reads" => [Reads!Next]_(Reads!vars)
                                   /\ focus = "instances" => [Instances!Next]_(Instances!vars)
                                   /\ focus = "auth" => [Auth!Next]_(Auth!vars)
                                   /\ focus = "scm" => [SCM!Next]_(SCM!vars)
                                   /\ focus = "server" => [Serving!Next]_(Serving!vars)
                                   /\ focus = "mocks" => [Mocks!Next]_(Mocks!vars)
                                   /\ focus = "commands" => [Cli!Next]_(Cli!vars)
  <1> SUFFICES ASSUME [ServicesNext]_ServicesVars
               PROVE  /\ UNCHANGED focus
                      /\ focus = "intake" => [Intake!Next]_(Intake!vars)
                      /\ focus = "reads" => [Reads!Next]_(Reads!vars)
                      /\ focus = "instances" => [Instances!Next]_(Instances!vars)
                      /\ focus = "auth" => [Auth!Next]_(Auth!vars)
                      /\ focus = "scm" => [SCM!Next]_(SCM!vars)
                      /\ focus = "server" => [Serving!Next]_(Serving!vars)
                      /\ focus = "mocks" => [Mocks!Next]_(Mocks!vars)
                      /\ focus = "commands" => [Cli!Next]_(Cli!vars)
    OBVIOUS
  <1>1. CASE ServicesNext
    BY <1>1 DEF ServicesNext, OthersStill
  <1>2. CASE UNCHANGED ServicesVars
    BY <1>2 DEF ServicesVars, intakeVars, readsVars, instancesVars, authVars, scmVars, serverVars, mocksVars,
                commandVars, Intake!vars, Reads!vars, Instances!vars, Auth!vars, SCM!vars, Serving!vars,
                Mocks!vars, Cli!vars, Cli!tables
  <1> QED BY <1>1, <1>2

-----------------------------------------------------------------------------
(* Server: for every configuration, set of requests and number of them.     *)

StoreNames == {"installations", "namespaces", "rules", "eventlogs", "drivers", "instances"}

\* The steps that register a closer.
Closing == StoreNames \cup {"dynamicCache", "driverCache", "instanceCache", "publisher"}

StepNames == Closing \cup {"engine", "verifier", "handlers"}

\* The stores are the ones named.
LEMMA StoresAre == Serving!ToSet(Serving!Stores) = StoreNames
  BY DEF Serving!Stores, StoreNames, Serving!ToSet

\* The order of BuildHandler.
LEMMA StepsAre ==
    /\ Len(Serving!BuildSteps) = 13
    /\ Serving!BuildSteps[1] = "engine"
    /\ \A i \in 2..7 : Serving!BuildSteps[i] = Serving!Stores[i - 1]
    /\ Serving!BuildSteps[8] = "dynamicCache" /\ Serving!BuildSteps[9] = "driverCache"
    /\ Serving!BuildSteps[10] = "instanceCache"
    /\ Serving!BuildSteps[11] = "publisher" /\ Serving!BuildSteps[12] = "verifier"
    /\ Serving!BuildSteps[13] = "handlers"
  <1> DEFINE a == <<"engine">>
             c == <<"dynamicCache", "driverCache", "instanceCache", "publisher", "verifier", "handlers">>
             ab == a \o Serving!Stores
  <1>1. a \in Seq(StepNames) /\ Len(a) = 1 /\ a[1] = "engine"
    BY DEF StepNames
  <1>2. Serving!Stores \in Seq(StepNames) /\ Len(Serving!Stores) = 6
    BY DEF Serving!Stores, StepNames, Closing, StoreNames
  <1>3. c \in Seq(StepNames) /\ Len(c) = 6 /\ c[1] = "dynamicCache" /\ c[2] = "driverCache"
        /\ c[3] = "instanceCache" /\ c[4] = "publisher" /\ c[5] = "verifier" /\ c[6] = "handlers"
    BY DEF StepNames, Closing
  <1>4. Serving!BuildSteps = ab \o c
    BY DEF Serving!BuildSteps
  <1> HIDE DEF a, c
  <1>5. /\ ab \in Seq(StepNames) /\ Len(ab) = Len(a) + Len(Serving!Stores)
        /\ \A i \in 1..Len(a) + Len(Serving!Stores) : ab[i] = IF i <= Len(a) THEN a[i] ELSE Serving!Stores[i - Len(a)]
    <2> HIDE DEF a
    <2> QED BY <1>1, <1>2, ConcatProperties
  <1> HIDE DEF ab
  <1>6. /\ Len(ab \o c) = Len(ab) + Len(c)
        /\ \A i \in 1..Len(ab) + Len(c) : (ab \o c)[i] = IF i <= Len(ab) THEN ab[i] ELSE c[i - Len(ab)]
    <2>1. ab \in Seq(StepNames) /\ c \in Seq(StepNames)
      BY <1>3, <1>5
    <2> QED BY <2>1, ConcatProperties
  <1>7. Len(Serving!BuildSteps) = 13 /\ Len(ab) = 7
    BY <1>1, <1>2, <1>3, <1>4, <1>5, <1>6
  <1>8. ab[1] = "engine" /\ \A i \in 2..7 : ab[i] = Serving!Stores[i - 1]
    BY <1>1, <1>2, <1>5
  <1>9. \A i \in 1..13 : Serving!BuildSteps[i] = IF i <= 7 THEN ab[i] ELSE c[i - 7]
    BY <1>3, <1>4, <1>6, <1>7
  <1> QED BY <1>3, <1>7, <1>8, <1>9

\* A closer of the step s is registered and has not run yet.
Registered(s) == \E i \in 1..Len(closers) : closers[i] = s

\* Where the server is in its life, and that requests run only while it serves
\* or after it gave up on them.
Phases ==
    /\ run \in {"build", "serve", "drain", "clean", "failed", "returned"}
    /\ closers \in Seq(Closing) /\ step \in Nat \ {0}
    /\ run = "build" => step <= 13
    /\ run \in {"build", "failed"} => calls = {}
    /\ gaveUp => run \in {"clean", "returned"}
    /\ run = "returned" => closers = << >>
    /\ calls # {} => run \in {"serve", "drain"} \/ gaveUp

\* Only a step that failed has left a connection behind.
LostByFailure ==
    /\ run \notin {"failed", "returned"} => abandoned = {}
    /\ abandoned \subseteq (IF step <= Len(Serving!BuildSteps) THEN {Serving!BuildSteps[step]} ELSE {})

\* What the steps so far have opened is open, and their closers are registered.
BuiltSoFar ==
    /\ run \in {"serve", "drain"} => step = 14
    /\ run \in {"build", "serve", "drain"} =>
          \A i \in 1..13 : i < step /\ ~Serving!Skipped(Serving!BuildSteps[i]) =>
             /\ Serving!Opens(Serving!BuildSteps[i]) \subseteq open
             /\ Serving!BuildSteps[i] \in Closing => Registered(Serving!BuildSteps[i])

\* A closer that has not run yet closes what is open.
OpenIsCovered ==
    \A o \in open : (gaveUp /\ o = "tenantPublisher") \/ \E s \in Closing : Registered(s) /\ o \in Serving!Closes(s)

\* The inductive invariant.
SInv == Phases /\ LostByFailure /\ BuiltSoFar /\ OpenIsCovered /\ (~gaveUp => hurt = {})

\* The configuration decides what a step opens and closes.
LEMMA ConfigDecides ==
    ASSUME config' = config
    PROVE  \A s : /\ Serving!Skipped(s)' = Serving!Skipped(s) /\ Serving!Opens(s)' = Serving!Opens(s)
                  /\ Serving!Closes(s)' = Serving!Closes(s)
  BY DEF Serving!Skipped, Serving!Opens, Serving!Closes

\* A step registers a closer of all that it opens.
LEMMA OpenedIsClosed ==
    ASSUME NEW s
    PROVE  /\ Serving!Opens(s) \subseteq Serving!Closes(s)
           /\ s \notin Closing => Serving!Opens(s) = {}
  BY StoresAre DEF Serving!Opens, Serving!Closes, Closing, StoreNames

\* A server that serves has its stores and its publishers.
LEMMA ServingIsOpen ==
    ASSUME SInv, run \in {"serve", "drain"}
    PROVE  /\ config.storage => StoreNames \subseteq open
           /\ config.storage /\ config.drivers => "tenantPublisher" \in open
           /\ config.base => "basePublisher" \in open
  <1>1. \A i \in 1..13 :
           ~Serving!Skipped(Serving!BuildSteps[i]) => Serving!Opens(Serving!BuildSteps[i]) \subseteq open
    BY DEF SInv, BuiltSoFar
  <1>2. ASSUME config.storage, NEW s \in StoreNames
        PROVE  s \in open
    <2>1. PICK i \in 1..6 : Serving!Stores[i] = s
      BY DEF StoreNames, Serving!Stores
    <2>2. i + 1 \in 2..7 /\ i + 1 \in 1..13 /\ (i + 1) - 1 = i
      BY <2>1
    <2>3. Serving!BuildSteps[i + 1] = s
      BY <2>1, <2>2, StepsAre
    <2>4. ~Serving!Skipped(s)
      BY <1>2, StoresAre DEF Serving!Skipped, StoreNames
    <2>5. Serving!Opens(s) = {s}
      BY <1>2, StoresAre DEF Serving!Opens, StoreNames
    <2> QED BY <1>1, <2>2, <2>3, <2>4, <2>5
  <1>3. ASSUME config.storage, config.drivers
        PROVE  "tenantPublisher" \in open
    <2>1. Serving!BuildSteps[9] = "driverCache"
      BY StepsAre
    <2>2. ~Serving!Skipped("driverCache") /\ Serving!Opens("driverCache") = {"tenantPublisher"}
      BY <1>3, StoresAre DEF Serving!Skipped, Serving!Opens, StoreNames
    <2> QED BY <1>1, <2>1, <2>2
  <1>4. ASSUME config.base
        PROVE  "basePublisher" \in open
    <2>1. Serving!BuildSteps[11] = "publisher"
      BY StepsAre
    <2>2. ~Serving!Skipped("publisher") /\ Serving!Opens("publisher") = {"basePublisher"}
      BY <1>4, StoresAre DEF Serving!Skipped, Serving!Opens, StoreNames
    <2> QED BY <1>1, <2>1, <2>2
  <1> QED BY <1>2, <1>3, <1>4

\* Nothing is open before the start.
LEMMA SInvInit ==
    ASSUME Serving!Init
    PROVE  SInv
  <1>1. /\ run = "build" /\ step = 1 /\ closers = << >> /\ open = {} /\ abandoned = {}
        /\ calls = {} /\ gaveUp = FALSE /\ hurt = {}
    BY DEF Serving!Init
  <1> QED BY <1>1 DEF SInv, Phases, LostByFailure, BuiltSoFar, OpenIsCovered

\* A step of the build opens what it registers a closer for.
LEMMA BuildKeeps ==
    ASSUME SInv, Serving!Build
    PROVE  SInv'
  <1>0. PICK s : s = Serving!BuildSteps[step]
    OBVIOUS
  <1>1. /\ run = "build" /\ step' = step + 1 /\ step \in 1..13
        /\ run' = IF step = 13 THEN "serve" ELSE "build"
        /\ UNCHANGED <<config, abandoned, cancelled, calls, gaveUp, hurt>>
        /\ closers \in Seq(Closing) /\ calls = {} /\ ~gaveUp /\ abandoned = {}
    BY StepsAre DEF Serving!Build, SInv, Phases, LostByFailure
  <1>2. \A x : /\ Serving!Skipped(x)' = Serving!Skipped(x) /\ Serving!Opens(x)' = Serving!Opens(x)
               /\ Serving!Closes(x)' = Serving!Closes(x)
    BY <1>1, ConfigDecides
  <1>3. \/ Serving!Skipped(s) /\ UNCHANGED <<open, closers>>
        \/ /\ ~Serving!Skipped(s) /\ open' = open \cup Serving!Opens(s)
           /\ closers' = IF s \in Closing THEN Append(closers, s) ELSE closers
    BY <1>0, StoresAre DEF Serving!Build, Serving!AddCloser, Closing
  <1>4. /\ closers' \in Seq(Closing)
        /\ \A x : Registered(x) => Registered(x)'
        /\ ~Serving!Skipped(s) /\ s \in Closing => Registered(s)'
    <2>1. CASE closers' = closers /\ (Serving!Skipped(s) \/ s \notin Closing)
      BY <1>1, <2>1 DEF Registered
    <2>2. CASE s \in Closing /\ closers' = Append(closers, s)
      <3>1. closers' \in Seq(Closing) /\ Len(closers') = Len(closers) + 1 /\ Len(closers) \in Nat
        BY <1>1, <2>2
      <3>2. /\ closers'[Len(closers) + 1] = s
            /\ \A i \in 1..Len(closers) : closers'[i] = closers[i]
        BY <1>1, <2>2
      <3> QED BY <3>1, <3>2 DEF Registered
    <2> QED BY <1>3, <2>1, <2>2
  <1>5. Phases'
    BY <1>1, <1>4 DEF Phases
  <1>6. LostByFailure'
    BY <1>1 DEF LostByFailure
  <1>7. BuiltSoFar'
    <2>1. open \subseteq open' /\ (~Serving!Skipped(s) => Serving!Opens(s) \subseteq open')
      BY <1>3
    <2> SUFFICES ASSUME NEW i \in 1..13, i < step + 1, ~Serving!Skipped(Serving!BuildSteps[i])
                 PROVE  /\ Serving!Opens(Serving!BuildSteps[i]) \subseteq open'
                        /\ Serving!BuildSteps[i] \in Closing => Registered(Serving!BuildSteps[i])'
      BY <1>1, <1>2 DEF BuiltSoFar, Serving!BuildSteps, Serving!Stores
    <2>2. CASE i = step
      BY <1>0, <1>4, <2>1, <2>2
    <2>3. CASE i < step
      BY <1>1, <1>4, <2>1, <2>3 DEF SInv, BuiltSoFar
    <2> QED BY <1>1, <2>2, <2>3
  <1>8. OpenIsCovered'
    <2> SUFFICES ASSUME NEW o \in open'
                 PROVE  \E x \in Closing : Registered(x)' /\ o \in Serving!Closes(x)
      BY <1>1, <1>2 DEF OpenIsCovered, Closing, StoreNames
    <2>1. CASE o \in open
      BY <1>1, <1>4, <2>1 DEF SInv, OpenIsCovered
    <2>2. CASE o \notin open
      <3>1. ~Serving!Skipped(s) /\ o \in Serving!Opens(s)
        BY <1>3, <2>2
      <3>2. s \in Closing /\ o \in Serving!Closes(s)
        BY <3>1, OpenedIsClosed
      <3> QED BY <1>4, <3>1, <3>2
    <2> QED BY <2>1, <2>2
  <1> QED BY <1>1, <1>5, <1>6, <1>7, <1>8 DEF SInv

\* A step that touches neither what is open nor the closers, and that leaves a
\* failure, the service or a request as it is allowed to.
LEMMA QuietKeeps ==
    ASSUME SInv, UNCHANGED <<config, step, closers, open>>, Phases', LostByFailure',
           gaveUp => gaveUp', ~gaveUp' => hurt' = {},
           run' = run \/ (run = "serve" /\ run' = "drain") \/ run' \in {"clean", "failed", "returned"}
    PROVE  SInv'
  <1>1. \A x : /\ Serving!Skipped(x)' = Serving!Skipped(x) /\ Serving!Opens(x)' = Serving!Opens(x)
               /\ Serving!Closes(x)' = Serving!Closes(x)
    BY ConfigDecides
  <1>2. \A x : Registered(x)' = Registered(x)
    BY DEF Registered
  <1>3. BuiltSoFar'
    <2> SUFFICES ASSUME run' \in {"build", "serve", "drain"}
                 PROVE  BuiltSoFar'
      BY DEF BuiltSoFar
    <2> QED BY <1>1, <1>2 DEF SInv, BuiltSoFar, Serving!BuildSteps, Serving!Stores, Closing, StoreNames
  <1>4. OpenIsCovered'
    BY <1>1, <1>2 DEF SInv, OpenIsCovered, Closing, StoreNames
  <1> QED BY <1>3, <1>4 DEF SInv

\* A build that fails, a signal, and every way to end the service.
LEMMA PhasesMove ==
    ASSUME SInv,
           \/ Serving!BuildFails \/ Serving!Cancel \/ Serving!StartShutdown \/ Serving!ListenFails
           \/ Serving!ShutdownReturns \/ Serving!ShutdownGivesUp \/ Serving!Return
    PROVE  SInv'
  <1>1. UNCHANGED <<config, step, closers, open, calls, hurt>>
    BY DEF Serving!BuildFails, Serving!Cancel, Serving!StartShutdown, Serving!ListenFails,
           Serving!ShutdownReturns, Serving!ShutdownGivesUp, Serving!Return
  <1>2. CASE Serving!BuildFails
    <2>1. /\ run = "build" /\ run' = "failed" /\ gaveUp' = gaveUp
          /\ abandoned' \subseteq {Serving!BuildSteps[step]} /\ step <= Len(Serving!BuildSteps)
      BY <1>2, StepsAre DEF Serving!BuildFails, SInv, Phases
    <2>2. Phases' /\ LostByFailure'
      BY <1>1, <2>1 DEF SInv, Phases, LostByFailure, Serving!BuildSteps, Serving!Stores
    <2> QED BY <1>1, <2>1, <2>2, QuietKeeps DEF SInv
  <1>3. CASE Serving!Cancel \/ Serving!StartShutdown
    <2>1. /\ gaveUp' = gaveUp /\ abandoned' = abandoned
          /\ run' = run \/ (run = "serve" /\ run' = "drain")
      BY <1>3 DEF Serving!Cancel, Serving!StartShutdown
    <2>2. Phases' /\ LostByFailure'
      BY <1>1, <2>1 DEF SInv, Phases, LostByFailure, Serving!BuildSteps, Serving!Stores
    <2> QED BY <1>1, <2>1, <2>2, QuietKeeps DEF SInv
  <1>4. CASE Serving!ListenFails \/ Serving!ShutdownReturns \/ Serving!ShutdownGivesUp
    <2>1. /\ run \in {"serve", "drain"} /\ run' = "clean" /\ abandoned' = abandoned
          /\ calls # {} => gaveUp'
      BY <1>4 DEF Serving!ListenFails, Serving!ShutdownReturns, Serving!ShutdownGivesUp, Serving!Drained, SInv, Phases
    <2>2. ~gaveUp /\ hurt = {}
      BY <2>1 DEF SInv, Phases
    <2>3. Phases' /\ LostByFailure'
      BY <1>1, <2>1 DEF SInv, Phases, LostByFailure, Serving!BuildSteps, Serving!Stores
    <2> QED BY <1>1, <2>1, <2>2, <2>3, QuietKeeps
  <1>5. CASE Serving!Return
    <2>1. /\ run \in {"failed", "clean"} /\ run' = "returned" /\ closers = << >>
          /\ gaveUp' = gaveUp /\ abandoned' = abandoned
      BY <1>5 DEF Serving!Return
    <2>2. Phases' /\ LostByFailure'
      BY <1>1, <2>1 DEF SInv, Phases, LostByFailure, Serving!BuildSteps, Serving!Stores
    <2> QED BY <1>1, <2>1, <2>2, QuietKeeps DEF SInv
  <1> QED BY <1>2, <1>3, <1>4, <1>5

\* A request meets nothing closed while the server waits for it.
LEMMA RequestsKeep ==
    ASSUME SInv,
           \/ \E c \in Calls : Serving!Arrive(c)
           \/ \E r \in calls : Serving!UseStore(r) \/ Serving!GetPublisher(r) \/ Serving!Publish(r)
                             \/ Serving!Respond(r)
    PROVE  SInv'
  <1>1. /\ UNCHANGED <<config, run, step, closers, abandoned, cancelled, gaveUp>>
        /\ run = "serve" \/ calls # {}
    BY Zenon DEF Serving!Arrive, Serving!UseStore, Serving!GetPublisher, Serving!Publish, Serving!Respond
  <1>2. run \in {"serve", "drain"} \/ gaveUp
    BY <1>1 DEF SInv, Phases
  <1>3. Phases' /\ LostByFailure'
    BY <1>1, <1>2 DEF SInv, Phases, LostByFailure, Serving!BuildSteps, Serving!Stores
  <1>4. ~gaveUp => /\ run \in {"serve", "drain"} /\ hurt = {}
                   /\ config.storage => "rules" \in open /\ "drivers" \in open
                   /\ config.storage /\ config.drivers => "tenantPublisher" \in open
                   /\ config.base => "basePublisher" \in open
    BY <1>2, ServingIsOpen DEF SInv, StoreNames
  <1>5. ~gaveUp => hurt' = {} /\ open' = open
    BY <1>4, Zenon DEF Serving!Arrive, Serving!UseStore, Serving!GetPublisher, Serving!Publish, Serving!Respond
  <1>6. CASE open' = open
    BY <1>1, <1>3, <1>5, <1>6, QuietKeeps
  <1>7. CASE open' # open
    <2>1. gaveUp /\ open' = open \cup {"tenantPublisher"}
      BY <1>5, <1>7, Zenon DEF Serving!Arrive, Serving!UseStore, Serving!GetPublisher, Serving!Publish,
                               Serving!Respond
    <2>2. run' \notin {"build", "serve", "drain"}
      BY <1>1, <2>1 DEF SInv, Phases
    <2>3. BuiltSoFar'
      BY <2>2 DEF BuiltSoFar
    <2>4. \A x : Serving!Closes(x)' = Serving!Closes(x) /\ Registered(x)' = Registered(x)
      BY <1>1, ConfigDecides DEF Registered
    <2>5. OpenIsCovered'
      BY <1>1, <2>1, <2>4 DEF SInv, OpenIsCovered, Closing, StoreNames
    <2> QED BY <1>1, <1>3, <2>1, <2>3, <2>5 DEF SInv
  <1> QED BY <1>6, <1>7

\* The cleanup closes what the last closer covers.
LEMMA CleanKeeps ==
    ASSUME SInv, Serving!Clean
    PROVE  SInv'
  <1>1. /\ run \in {"failed", "clean"} /\ closers # << >> /\ closers \in Seq(Closing)
        /\ open' = open \ Serving!Closes(closers[Len(closers)])
        /\ closers' = SubSeq(closers, 1, Len(closers) - 1)
        /\ UNCHANGED <<config, run, step, abandoned, cancelled, calls, gaveUp, hurt>>
    BY DEF Serving!Clean, Serving!Last, Serving!Front, SInv, Phases
  <1>2. Len(closers) \in Nat \ {0}
    BY <1>1
  <1>3. closers' \in Seq(Closing) /\ Len(closers') = Len(closers) - 1
        /\ \A i \in 1..Len(closers) - 1 : closers'[i] = closers[i]
    <2> DEFINE n == Len(closers) - 1
    <2>1. n \in Nat /\ \A i \in 1..n : i \in 1..Len(closers)
      BY <1>2
    <2>2. \A i \in 1..n : closers[i] \in Closing
      BY <1>1, <2>1
    <2>3. closers' = [i \in 1..n |-> closers[i]]
      BY <1>1, <2>1
    <2> QED BY <2>1, <2>2, <2>3
  <1>4. Phases' /\ LostByFailure' /\ BuiltSoFar'
    BY <1>1, <1>3 DEF SInv, Phases, LostByFailure, BuiltSoFar, Serving!BuildSteps, Serving!Stores
  <1>5. \A x : Serving!Closes(x)' = Serving!Closes(x)
    BY <1>1, ConfigDecides
  <1>6. OpenIsCovered'
    <2> SUFFICES ASSUME NEW o \in open', ~(gaveUp /\ o = "tenantPublisher")
                 PROVE  \E x \in Closing : Registered(x)' /\ o \in Serving!Closes(x)
      BY <1>1, <1>5 DEF OpenIsCovered, Closing, StoreNames
    <2>1. PICK x \in Closing : Registered(x) /\ o \in Serving!Closes(x)
      BY <1>1 DEF SInv, OpenIsCovered
    <2>2. PICK i \in 1..Len(closers) : closers[i] = x
      BY <2>1 DEF Registered
    <2>3. i # Len(closers)
      BY <1>1, <2>1, <2>2
    <2>4. i \in 1..Len(closers')
      BY <1>2, <1>3, <2>2, <2>3
    <2> QED BY <1>2, <1>3, <2>1, <2>2, <2>3, <2>4 DEF Registered
  <1> QED BY <1>1, <1>4, <1>6 DEF SInv

\* SInv is inductive.
LEMMA SInvNext == SInv /\ [Serving!Next]_(Serving!vars) => SInv'
  <1> SUFFICES ASSUME SInv, [Serving!Next]_(Serving!vars) PROVE SInv'
    OBVIOUS
  <1>1. CASE UNCHANGED Serving!vars
    <2>1. Phases' /\ LostByFailure'
      BY <1>1 DEF Serving!vars, SInv, Phases, LostByFailure, Serving!BuildSteps, Serving!Stores
    <2> QED BY <1>1, <2>1, QuietKeeps DEF Serving!vars, SInv
  <1>2. CASE Serving!Build \/ Serving!Clean
    BY <1>2, BuildKeeps, CleanKeeps
  <1>3. CASE \/ Serving!BuildFails \/ Serving!Cancel \/ Serving!StartShutdown \/ Serving!ListenFails
             \/ Serving!ShutdownReturns \/ Serving!ShutdownGivesUp \/ Serving!Return
    BY <1>3, PhasesMove
  <1>4. CASE \/ \E c \in Calls : Serving!Arrive(c)
             \/ \E r \in calls : Serving!UseStore(r) \/ Serving!GetPublisher(r) \/ Serving!Publish(r)
                               \/ Serving!Respond(r)
    BY <1>4, RequestsKeep
  <1> QED BY <1>1, <1>2, <1>3, <1>4 DEF Serving!Next

\* A server that ends, whether its start fails at any step, its port is taken
\* or it is shut down, has closed what it opened, and no request that it
\* waited for has met anything closed.
THEOREM ServerClean == ServicesSpec => []ServerEndsClean
  <1> DEFINE Inv == focus = "server" => SInv
  <1>1. ServicesInit => Inv
    BY PartStarts, SInvInit
  <1>2. Inv /\ [ServicesNext]_ServicesVars => Inv'
    BY PartMoves, SInvNext
  <1>3. SInv => Serving!ServerEndsClean
    <2> SUFFICES ASSUME SInv PROVE Serving!ServerEndsClean
      OBVIOUS
    <2>1. Serving!NothingLeftOpen
      <3>1. run = "returned" => Len(closers) = 0
        BY DEF SInv, Phases
      <3>2. run = "returned" => open \subseteq (IF gaveUp THEN {"tenantPublisher"} ELSE {})
        BY <3>1 DEF SInv, OpenIsCovered, Registered
      <3> QED BY <3>2 DEF SInv, LostByFailure, Serving!NothingLeftOpen
    <2>2. Serving!RequestsUnharmed
      BY ServingIsOpen, StoresAre DEF Serving!RequestsUnharmed, SInv, Phases
    <2> QED BY <2>1, <2>2 DEF Serving!ServerEndsClean
  <1>4. Inv => ServerEndsClean
    BY <1>3 DEF ServerEndsClean
  <1> QED BY <1>1, <1>2, <1>4, PTL DEF ServicesSpec

-----------------------------------------------------------------------------
(* WebhookIntake: for every payload, script and installation.               *)

\* A request is answered once; before that there is no event, and what an
\* event is made of is what its log and its replay are made of.
Answered ==
    /\ req \in Intake!Requests /\ secret \in BOOLEAN
    /\ resp = 0 => event = {}
    /\ event = {} => log = {}
    /\ log = {} => replayed = {}

\* The event and what was derived from it.
Derived ==
    /\ \A ev \in event :
          /\ event = {ev}
          /\ ev = [provider |-> ev.provider, name |-> ev.name, annotated |-> ev.annotated, body |-> ev.body,
                   installation |-> ev.installation, namespace |-> ev.namespace,
                   instance |-> ev.instance, logID |-> 0]
          /\ ev.annotated = Intake!AnnotatePayload(ev.name, ev.body)
    /\ \A ev \in event, l \in log :
          l = [provider |-> ev.provider, name |-> ev.name, installation |-> ev.installation,
               namespace |-> ev.namespace, body |-> ev.body]
    /\ \A l \in log, r \in replayed : r = Intake!BuildReplayEvent(l)

\* The inductive invariant.
IInv == Answered /\ Derived /\ Intake!EmittedIsAuthentic /\ Intake!AuthenticIsEmitted

\* A handler answers, and emits an event that has the form of one or none.
LEMMA HandlersAnswer ==
    ASSUME IInv, Intake!Serve
    PROVE  /\ resp = 0 /\ event = {} /\ UNCHANGED <<secret, req, log, sent, replayed>>
           /\ resp' \in {200, 400, 401}
           /\ event' = {} \/ \E name, namespace : event' = {Intake!NewEvent(req, name, namespace)}
  <1>1. resp = 0 /\ event = {} /\ UNCHANGED <<secret, req, log, sent, replayed>>
    BY DEF IInv, Answered, Intake!Serve
  <1>2. ASSUME NEW name, NEW namespace, Intake!EmitIfInstalled(Intake!NewEvent(req, name, namespace))
        PROVE  resp' = 200 /\ (event' = {} \/ event' = {Intake!NewEvent(req, name, namespace)})
    BY <1>1, <1>2, Zenon DEF Intake!EmitIfInstalled, Intake!Emit, Intake!Respond
  <1>3. CASE ~Intake!PrepareWebhookRequest(req)
    BY <1>1, <1>3 DEF Intake!Serve, Intake!Respond
  <1>4. CASE Intake!ServeGitHub(req)
    <2>1. \/ \E code \in {200, 400, 401} : Intake!Respond(code)
          \/ Intake!EmitIfInstalled(Intake!NewEvent(req, req.name, Intake!GitHubNamespaceInfo(req.payload)))
      BY <1>4 DEF Intake!ServeGitHub
    <2> QED BY <1>1, <1>2, <2>1 DEF Intake!Respond
  <1>5. CASE Intake!ServeGitLab(req)
    BY <1>1, <1>2, <1>5 DEF Intake!ServeGitLab, Intake!Respond
  <1>6. CASE Intake!ServeBitbucket(req)
    <2>1. \/ \E code \in {200, 400, 401} : Intake!Respond(code)
          \/ Intake!EmitIfInstalled(Intake!NewEvent(req, req.name, Intake!BitbucketNamespaceInfo(req.payload)))
      BY <1>6 DEF Intake!ServeBitbucket
    <2> QED BY <1>1, <1>2, <2>1 DEF Intake!Respond
  <1>7. CASE Intake!ServeSlack(req)
    <2>1. \/ \E code \in {200, 400, 401} : Intake!Respond(code)
          \/ Intake!Emit(Intake!NewEvent(req, Intake!SlackEventName(req), Intake!SlackNamespaceInfo(req.payload)))
      BY <1>7, Zenon DEF Intake!ServeSlack
    <2> QED BY <1>1, <2>1 DEF Intake!Respond, Intake!Emit
  <1>8. CASE Intake!ServeJira(req)
    BY <1>1, <1>8 DEF Intake!ServeJira, Intake!Respond, Intake!Emit
  <1> QED BY <1>1, <1>3, <1>4, <1>5, <1>6, <1>7, <1>8 DEF Intake!Serve

\* What GitHub signed is emitted and nothing else is.
LEMMA GitHubIsRight ==
    ASSUME IInv, Intake!Serve, req.provider = "github"
    PROVE  Intake!EmittedIsAuthentic' /\ Intake!AuthenticIsEmitted'
  <1>1. /\ event = {} /\ UNCHANGED <<secret, req>>
        /\ secret \in BOOLEAN /\ req.body \in {"toobig", "invalid", "object"}
        /\ req.name \in {"", "known", "unknown", "ping"} /\ req.main \in {"none", "bad", "good"}
        /\ req.alt \in {"none", "bad", "good"}
    BY HandlersAnswer, Zenon DEF IInv, Answered, Intake!Requests, Intake!Header
  <1>2. CASE ~Intake!PrepareWebhookRequest(req)
    BY <1>1, <1>2, Zenon DEF Intake!Serve, Intake!PrepareWebhookRequest, Intake!Respond, Intake!EmittedIsAuthentic,
                      Intake!AuthenticIsEmitted
  <1>3. CASE Intake!ServeGitHub(req)
    <2>1. event' # {} => (secret => "good" \in {req.main, req.alt})
      BY <1>1, <1>3, Zenon DEF Intake!ServeGitHub, Intake!GitHubParse, Intake!FallbackVerified, Intake!Verified,
                        Intake!VerifyUnknown, Intake!Respond
    <2>2. req.body = "object" /\ req.install # "" /\ req.name \notin {"", "ping"}
          /\ (secret => "good" \in {req.main, req.alt} /\ "bad" \notin {req.main, req.alt}) => event' # {}
      <3> SUFFICES ASSUME req.body = "object", req.install # "", req.name \notin {"", "ping"},
                          secret => "good" \in {req.main, req.alt} /\ "bad" \notin {req.main, req.alt}
                   PROVE  event' # {}
        BY Zenon
      <3>1. Intake!NewEvent(req, req.name, Intake!GitHubNamespaceInfo(req.payload)).installation # ""
        BY Zenon DEF Intake!NewEvent
      <3>2. CASE req.name = "unknown"
        <4>1. Intake!GitHubParse(req, secret) = "notfound"
          BY <3>2, Zenon DEF Intake!GitHubParse
        <4>2. Intake!VerifyUnknown(req)
          BY Zenon DEF Intake!VerifyUnknown, Intake!Verified
        <4> QED BY <1>3, <3>1, <4>1, <4>2, Zenon DEF Intake!ServeGitHub, Intake!EmitIfInstalled, Intake!Emit
      <3>3. CASE req.name = "known"
        <4>1. Intake!GitHubParse(req, FALSE) = "ok"
          BY <3>3, Zenon DEF Intake!GitHubParse
        <4>2. \/ Intake!GitHubParse(req, secret) = "ok"
              \/ Intake!GitHubParse(req, secret) = "nosignature" /\ Intake!FallbackVerified(req)
          <5>1. CASE secret = FALSE
            BY <4>1, <5>1, Zenon
          <5>2. CASE secret = TRUE
            <6>1. req.main = "good" \/ (req.main = "none" /\ req.alt = "good")
              BY <1>1, <5>2, Zenon
            <6> QED BY <3>3, <5>2, <6>1, Zenon DEF Intake!GitHubParse, Intake!FallbackVerified, Intake!Verified
          <5> QED BY <1>1, <5>1, <5>2, Zenon
        <4> QED BY <1>3, <3>1, <3>3, <4>1, <4>2, Zenon DEF Intake!ServeGitHub, Intake!EmitIfInstalled, Intake!Emit
      <3> QED BY <1>1, <3>2, <3>3, Zenon
    <2> QED BY <1>1, <2>1, <2>2, Zenon DEF Intake!EmittedIsAuthentic, Intake!AuthenticIsEmitted, Intake!Authentic
  <1> QED BY <1>1, <1>2, <1>3, Zenon DEF Intake!Serve

\* GitLab, whose token is looked at before the event.
LEMMA GitLabIsRight ==
    ASSUME IInv, Intake!Serve, req.provider = "gitlab"
    PROVE  Intake!EmittedIsAuthentic' /\ Intake!AuthenticIsEmitted'
  <1>1. /\ event = {} /\ UNCHANGED <<secret, req>>
        /\ secret \in BOOLEAN /\ req.body \in {"toobig", "invalid", "object"}
        /\ req.name \in {"", "known", "unknown", "ping"} /\ req.main \in {"none", "bad", "good"}
        /\ req.alt \in {"none", "bad", "good"}
    BY HandlersAnswer, Zenon DEF IInv, Answered, Intake!Requests, Intake!Header
  <1>2. CASE ~Intake!PrepareWebhookRequest(req)
    BY <1>1, <1>2, Zenon DEF Intake!Serve, Intake!PrepareWebhookRequest, Intake!Respond, Intake!EmittedIsAuthentic,
                      Intake!AuthenticIsEmitted
  <1>3. CASE Intake!ServeGitLab(req)
    <2>1. event' # {} => (secret => req.main = "good")
      <3> SUFFICES ASSUME secret, req.main # "good" PROVE event' = {}
        OBVIOUS
      <3>1. Intake!GitLabParse(req) = "error"
        BY Zenon DEF Intake!GitLabParse, Intake!Verified
      <3> QED BY <1>1, <1>3, <3>1, Zenon DEF Intake!ServeGitLab, Intake!Respond
    <2>2. req.body = "object" /\ req.install # "" /\ req.name # "" /\ (secret => req.main = "good") => event' # {}
      BY <1>1, <1>3, Zenon DEF Intake!ServeGitLab, Intake!GitLabParse, Intake!Verified, Intake!EmitIfInstalled,
                        Intake!Emit, Intake!NewEvent
    <2> QED BY <1>1, <2>1, <2>2, Zenon DEF Intake!EmittedIsAuthentic, Intake!AuthenticIsEmitted, Intake!Authentic
  <1> QED BY <1>1, <1>2, <1>3, Zenon DEF Intake!Serve

\* Bitbucket, with and without X-Hook-UUID.
LEMMA BitbucketIsRight ==
    ASSUME IInv, Intake!Serve, req.provider = "bitbucket"
    PROVE  Intake!EmittedIsAuthentic' /\ Intake!AuthenticIsEmitted'
  <1>1. /\ event = {} /\ UNCHANGED <<secret, req>>
        /\ secret \in BOOLEAN /\ req.body \in {"toobig", "invalid", "object"}
        /\ req.name \in {"", "known", "unknown", "ping"} /\ req.main \in {"none", "bad", "good"}
        /\ req.alt \in {"none", "bad", "good"}
    BY HandlersAnswer, Zenon DEF IInv, Answered, Intake!Requests, Intake!Header
  <1>2. CASE ~Intake!PrepareWebhookRequest(req)
    BY <1>1, <1>2, Zenon DEF Intake!Serve, Intake!PrepareWebhookRequest, Intake!Respond, Intake!EmittedIsAuthentic,
                      Intake!AuthenticIsEmitted
  <1>3. CASE Intake!ServeBitbucket(req)
    <2>1. event' # {} => (secret => req.main # "bad")
      <3> SUFFICES ASSUME secret, req.main = "bad" PROVE event' = {}
        OBVIOUS
      <3>1. Intake!BitbucketParse(req, secret) = "error"
        BY DEF Intake!BitbucketParse
      <3> QED BY <1>1, <1>3, <3>1, Zenon DEF Intake!ServeBitbucket, Intake!Respond
    <2>2. req.body = "object" /\ req.install # "" /\ req.name # "" /\ ~(req.main = "none" /\ req.name = "unknown")
          /\ (secret => req.main # "bad") => event' # {}
      <3> SUFFICES ASSUME req.body = "object", req.install # "", req.name # "",
                          ~(req.main = "none" /\ req.name = "unknown"), secret => req.main # "bad"
                   PROVE  event' # {}
        BY Zenon
      <3>1. Intake!NewEvent(req, req.name, Intake!BitbucketNamespaceInfo(req.payload)).installation # ""
        BY Zenon DEF Intake!NewEvent
      <3>2. Intake!BitbucketParse(req, FALSE) \in {"ok", "notfound"}
            /\ (req.name # "unknown" => Intake!BitbucketParse(req, FALSE) = "ok")
        BY <1>1, Zenon DEF Intake!BitbucketParse
      <3>3. \/ Intake!BitbucketParse(req, secret) \in {"ok", "notfound"}
            \/ Intake!BitbucketParse(req, secret) = "nouuid" /\ Intake!BitbucketParse(req, FALSE) = "ok"
        <4>1. CASE secret = FALSE
          BY <3>2, <4>1, Zenon
        <4>2. CASE secret = TRUE
          BY <1>1, <3>2, <4>2, Zenon DEF Intake!BitbucketParse
        <4> QED BY <1>1, <4>1, <4>2, Zenon
      <3> QED BY <1>3, <3>1, <3>3, Zenon DEF Intake!ServeBitbucket, Intake!EmitIfInstalled, Intake!Emit
    <2> QED BY <1>1, <2>1, <2>2, Zenon DEF Intake!EmittedIsAuthentic, Intake!AuthenticIsEmitted, Intake!Authentic
  <1> QED BY <1>1, <1>2, <1>3, Zenon DEF Intake!Serve

\* Slack and Atlassian, which check before they parse.
LEMMA SlackAndJiraAreRight ==
    ASSUME IInv, Intake!Serve, req.provider \in {"slack", "atlassian"}
    PROVE  Intake!EmittedIsAuthentic' /\ Intake!AuthenticIsEmitted'
  <1>1. /\ event = {} /\ UNCHANGED <<secret, req>>
        /\ secret \in BOOLEAN /\ req.body \in {"toobig", "invalid", "object"}
        /\ req.main \in {"none", "bad", "good"} /\ req.alt \in {"none", "bad", "good"}
    BY HandlersAnswer, Zenon DEF IInv, Answered, Intake!Requests, Intake!Header
  <1>2. CASE ~Intake!PrepareWebhookRequest(req)
    BY <1>1, <1>2, Zenon DEF Intake!Serve, Intake!PrepareWebhookRequest, Intake!Respond, Intake!EmittedIsAuthentic,
                      Intake!AuthenticIsEmitted
  <1>3. CASE req.provider = "slack" /\ Intake!ServeSlack(req)
    <2>1. event' # {} => (secret => req.main = "good" /\ req.alt = "good")
      BY <1>1, <1>3, Zenon DEF Intake!ServeSlack, Intake!VerifySlackSignature, Intake!Verified, Intake!Respond
    <2>2. req.body = "object" /\ req.payload.type # "url_verification"
          /\ (secret => req.main = "good" /\ req.alt = "good") => event' # {}
      BY <1>1, <1>3 DEF Intake!ServeSlack, Intake!VerifySlackSignature, Intake!Verified, Intake!Emit
    <2> QED BY <1>1, <1>3, <2>1, <2>2, Zenon DEF Intake!EmittedIsAuthentic, Intake!AuthenticIsEmitted,
                                              Intake!Authentic
  <1>4. CASE req.provider = "atlassian" /\ Intake!ServeJira(req)
    <2>1. event' # {} => (secret => "good" \in {req.main, req.alt})
      BY <1>1, <1>4 DEF Intake!ServeJira, Intake!VerifyJiraSignature, Intake!Verified, Intake!Respond
    <2>2. req.body = "object" /\ (secret => "good" \in {req.main, req.alt} /\ "bad" \notin {req.main, req.alt})
          => event' # {}
      BY <1>1, <1>4 DEF Intake!ServeJira, Intake!VerifyJiraSignature, Intake!Verified, Intake!Emit
    <2> QED BY <1>1, <1>4, <2>1, <2>2, Zenon DEF Intake!EmittedIsAuthentic, Intake!AuthenticIsEmitted,
                                              Intake!Authentic
  <1> QED BY <1>1, <1>2, <1>3, <1>4 DEF Intake!Serve

\* IInv holds of a request that has not been served.
LEMMA IInvInit == Intake!Init => IInv
  BY DEF Intake!Init, IInv, Answered, Derived, Intake!EmittedIsAuthentic, Intake!AuthenticIsEmitted

\* IInv is inductive.
LEMMA IInvNext == IInv /\ [Intake!Next]_(Intake!vars) => IInv'
  <1> SUFFICES ASSUME IInv, [Intake!Next]_(Intake!vars) PROVE IInv'
    OBVIOUS
  <1>1. CASE UNCHANGED Intake!vars
    BY <1>1, Zenon DEF IInv, Intake!vars, Answered, Derived, Intake!EmittedIsAuthentic, Intake!AuthenticIsEmitted
  <1>2. CASE Intake!Serve
    <2>1. log' = {} /\ replayed' = {} /\ Answered'
      BY <1>2, HandlersAnswer DEF IInv, Answered
    <2>2. \A name, namespace :
             LET ev == Intake!NewEvent(req, name, namespace)
             IN  /\ ev = [provider |-> ev.provider, name |-> ev.name, annotated |-> ev.annotated,
                          body |-> ev.body, installation |-> ev.installation, namespace |-> ev.namespace,
                          instance |-> ev.instance, logID |-> 0]
                 /\ ev.annotated = Intake!AnnotatePayload(ev.name, ev.body)
      BY DEF Intake!NewEvent
    <2>3. Derived'
      BY <1>2, <2>1, <2>2, HandlersAnswer DEF Derived
    <2>4. req.provider \in {"github", "gitlab", "bitbucket", "slack", "atlassian"}
      BY Zenon DEF IInv, Answered, Intake!Requests
    <2> QED BY <1>2, <2>1, <2>3, <2>4, GitHubIsRight, GitLabIsRight, BitbucketIsRight, SlackAndJiraAreRight
            DEF IInv
  <1>3. ASSUME NEW js \in Scripts, Intake!Publish(js)
        PROVE  IInv'
    <2>1. PICK ev \in event : log' = {Intake!BuildEventLogRecord(ev, js)}
      BY <1>3 DEF Intake!Publish
    <2>2. log = {} /\ UNCHANGED <<secret, req, resp, event, replayed>>
      BY <1>3 DEF Intake!Publish
    <2>3. replayed = {} /\ event = {ev}
      BY <2>2 DEF IInv, Answered, Derived
    <2>4. Answered' /\ Derived'
      BY <2>1, <2>2, <2>3 DEF IInv, Answered, Derived, Intake!BuildEventLogRecord
    <2> QED BY <2>2, <2>4, Zenon DEF IInv, Intake!EmittedIsAuthentic, Intake!AuthenticIsEmitted
  <1>4. CASE Intake!Replay
    <2>1. /\ UNCHANGED <<secret, req, resp, event, log>>
          /\ \E l \in log : replayed' = {Intake!BuildReplayEvent(l)}
      BY <1>4 DEF Intake!Replay
    <2>2. \A l, m \in log : l = m
      BY DEF IInv, Answered, Derived
    <2>3. Answered' /\ Derived'
      BY <2>1, <2>2, Zenon DEF IInv, Answered, Derived, Intake!BuildReplayEvent
    <2> QED BY <2>1, <2>3, Zenon DEF IInv, Intake!EmittedIsAuthentic, Intake!AuthenticIsEmitted
  <1> QED BY <1>1, <1>2, <1>3, <1>4 DEF Intake!Next

\* IInv holds of every request in focus.
LEMMA IInvAlways == ServicesSpec => [](focus = "intake" => IInv)
  <1> DEFINE Inv == focus = "intake" => IInv
  <1>1. ServicesInit => Inv
    BY PartStarts, IInvInit
  <1>2. Inv /\ [ServicesNext]_ServicesVars => Inv'
    BY PartMoves, IInvNext
  <1> QED BY <1>1, <1>2, PTL DEF ServicesSpec

\* The handlers of the five providers emit an event exactly when the request
\* was signed with the secret, but for the exceptions that the two parts of
\* the property name, for every payload and every combination of headers.
THEOREM IntakeAuthentic == ServicesSpec => []EmittedIffAuthentic
  <1>1. (focus = "intake" => IInv) => EmittedIffAuthentic
    BY DEF IInv, EmittedIffAuthentic
  <1> QED BY <1>1, IInvAlways, PTL

\* What a replay changes in an event.
LEMMA ReplayedFields ==
    ASSUME NEW s, NEW r,
           s = [provider |-> s.provider, name |-> s.name, annotated |-> s.annotated, body |-> s.body,
                installation |-> s.installation, namespace |-> s.namespace, instance |-> s.instance, logID |-> 0],
           r = [provider |-> s.provider, name |-> s.name, annotated |-> s.annotated, body |-> s.body,
                installation |-> s.installation, namespace |-> s.namespace, instance |-> "", logID |-> 1]
    PROVE  r = [s EXCEPT !.instance = "", !.logID = 1]
  <1> DEFINE F == {"provider", "name", "annotated", "body", "installation", "namespace", "instance", "logID"}
             t == [s EXCEPT !.instance = "", !.logID = 1]
  <1>1. DOMAIN s = F /\ DOMAIN r = F
    BY Zenon
  <1>2. r = [x \in F |-> r[x]] /\ s = [x \in F |-> s[x]]
    BY <1>1, Zenon
  <1>3. /\ r.provider = s.provider /\ r.name = s.name /\ r.annotated = s.annotated /\ r.body = s.body
        /\ r.installation = s.installation /\ r.namespace = s.namespace /\ r.instance = "" /\ r.logID = 1
    BY Zenon
  <1>4. DOMAIN t = F /\ t = [x \in F |-> t[x]]
    BY <1>1, Zenon
  <1>5. t.instance = "" /\ t.logID = 1 /\ \A x \in F \ {"instance", "logID"} : t[x] = s[x]
    BY <1>1, Zenon
  <1>6. r = t
    <2> HIDE DEF t
    <2>1. \A x \in F : r[x] = t[x]
      BY <1>3, <1>5, Zenon
    <2> QED BY <1>2, <1>4, <2>1, Zenon
  <1> QED BY <1>6, Zenon

\* BuildReplayEvent restores the event from its log record, whatever the
\* payload and the script of the rule.
THEOREM IntakeReplays == ServicesSpec => []ReplayIsTheEvent
  <1>1. IInv => Intake!ReplayIsTheEvent
    <2> SUFFICES ASSUME IInv, NEW ev \in event, NEW r \in replayed
                 PROVE  r = [ev EXCEPT !.instance = "", !.logID = 1]
      BY DEF Intake!ReplayIsTheEvent
    <2>1. PICK l \in log : r = Intake!BuildReplayEvent(l)
      BY DEF IInv, Answered, Derived
    <2>2. ev = [provider |-> ev.provider, name |-> ev.name, annotated |-> ev.annotated, body |-> ev.body,
                installation |-> ev.installation, namespace |-> ev.namespace, instance |-> ev.instance, logID |-> 0]
          /\ ev.annotated = Intake!AnnotatePayload(ev.name, ev.body)
      BY DEF IInv, Derived
    <2>3. l = [provider |-> ev.provider, name |-> ev.name, installation |-> ev.installation,
               namespace |-> ev.namespace, body |-> ev.body]
      BY DEF IInv, Derived
    <2>4. /\ l.provider = ev.provider /\ l.name = ev.name /\ l.installation = ev.installation
          /\ l.namespace = ev.namespace /\ l.body = ev.body
      BY <2>3
    <2>5. r = [provider |-> ev.provider, name |-> ev.name, annotated |-> ev.annotated, body |-> ev.body,
               installation |-> ev.installation, namespace |-> ev.namespace, instance |-> "", logID |-> 1]
      BY <2>1, <2>2, <2>4, Zenon DEF Intake!BuildReplayEvent
    <2> QED BY <2>2, <2>5, ReplayedFields, Zenon
  <1>2. (focus = "intake" => IInv) => ReplayIsTheEvent
    BY <1>1 DEF ReplayIsTheEvent
  <1> QED BY <1>2, IInvAlways, PTL

-----------------------------------------------------------------------------
(* SCMClients: for every size, skew, lifetime, event and set of goroutines. *)

ClientKeys == {SCM!CacheKey(e) : e \in Events}
ClientBases == {""} \cup {BaseOf(k) : k \in ClientKeys}
TokenRecords == [of : ClientKeys, dies : Nat]
ClientRecords == [token : TokenRecords, base : ClientBases]
CacheEntries == [key : ClientKeys, client : ClientRecords, exp : Nat]

\* A client of a key calls the API of the key, but for Bitbucket.
RightBase(k, base) == base = BaseOf(k) \/ k[1] = "bitbucket"

\* An entry has the token of its key, and knows when it dies.
RightEntry(x) ==
    /\ x \in CacheEntries
    /\ x.client.token.of = x.key /\ x.client.token.dies = x.exp
    /\ RightBase(x.key, x.client.base)

\* What a goroutine holds on its way from the miss to the insertion.
RightHandler(t, p) ==
    \/ p = SCM!Idle
    \/ \E e \in Events : p = [pc |-> "fetch", event |-> e]
    \/ \E e \in Events, x \in Nat, at \in {"make", "library"} :
          /\ t < x
          /\ p = [pc |-> at, event |-> e, exp |-> x, token |-> [of |-> SCM!CacheKey(e), dies |-> x]]
    \/ \E e \in Events, x \in Nat, c \in ClientRecords :
          /\ t < x
          /\ c.token.of = SCM!CacheKey(e) /\ c.token.dies = x /\ RightBase(SCM!CacheKey(e), c.base)
          /\ p = [pc |-> "add", event |-> e, exp |-> x, client |-> c]

\* The inductive invariant.
CInv ==
    /\ scmNow \in Nat /\ scmNow <= ClientMaxTime
    /\ env \in ClientBases
    /\ scmCache \in Seq(CacheEntries)
    /\ \A i \in 1..Len(scmCache) : RightEntry(scmCache[i])
    /\ \A i, j \in 1..Len(scmCache) : scmCache[i].key = scmCache[j].key => i = j
    /\ Len(scmCache) <= Size
    /\ DOMAIN handler = Handlers
    /\ \A h \in Handlers : RightHandler(scmNow, handler[h])
    /\ SCM!ClientServesEvent
    /\ \A g \in given : Len(scmCache) > 0 /\ scmCache[1].client = g.client

\* What is left of a sequence of which one element is taken.
LEMMA RemovedAt ==
    ASSUME NEW S, NEW s \in Seq(S), NEW i \in 1..Len(s)
    PROVE  /\ SCM!RemoveAt(s, i) \in Seq(S)
           /\ Len(SCM!RemoveAt(s, i)) = Len(s) - 1
           /\ \A j \in 1..Len(s) - 1 : SCM!RemoveAt(s, i)[j] = s[IF j < i THEN j ELSE j + 1]
  <1> DEFINE front == SubSeq(s, 1, i - 1)
             back == SubSeq(s, i + 1, Len(s))
  <1>1. front \in Seq(S) /\ Len(front) = i - 1 /\ \A j \in 1..i - 1 : front[j] = s[j]
    OBVIOUS
  <1>2. back \in Seq(S) /\ Len(back) = Len(s) - i /\ \A j \in 1..Len(s) - i : back[j] = s[i + j]
    OBVIOUS
  <1>3. SCM!RemoveAt(s, i) = front \o back
    BY DEF SCM!RemoveAt
  <1> HIDE DEF front, back
  <1>4. /\ front \o back \in Seq(S) /\ Len(front \o back) = Len(s) - 1
        /\ \A j \in 1..Len(s) - 1 : (front \o back)[j] = IF j <= i - 1 THEN front[j] ELSE back[j - (i - 1)]
    <2>1. front \o back \in Seq(S) /\ Len(front \o back) = Len(front) + Len(back)
      BY <1>1, <1>2, ConcatProperties
    <2>2. \A j \in 1..Len(front) + Len(back) :
             (front \o back)[j] = IF j <= Len(front) THEN front[j] ELSE back[j - Len(front)]
      BY <1>1, <1>2, ConcatProperties
    <2>3. Len(front) + Len(back) = Len(s) - 1
      BY <1>1, <1>2
    <2> QED BY <1>1, <2>1, <2>2, <2>3
  <1> QED
    <2> SUFFICES ASSUME NEW j \in 1..Len(s) - 1 PROVE (front \o back)[j] = s[IF j < i THEN j ELSE j + 1]
      BY <1>3, <1>4
    <2>1. CASE j < i
      BY <1>1, <1>4, <2>1
    <2>2. CASE ~(j < i)
      <3>1. j - (i - 1) \in 1..Len(s) - i /\ i + (j - (i - 1)) = j + 1
        BY <2>2
      <3> QED BY <1>2, <1>4, <2>2, <3>1
    <2> QED BY <2>1, <2>2

\* The cache without a key.
LEMMA CacheWithout ==
    ASSUME CInv, NEW k
    PROVE  LET c == SCM!Without(k)
           IN  /\ c \in Seq(CacheEntries) /\ Len(c) <= Len(scmCache)
               /\ \A i \in 1..Len(c) : RightEntry(c[i]) /\ c[i].key # k
               /\ \A i, j \in 1..Len(c) : c[i].key = c[j].key => i = j
               /\ SCM!Found(k) # {} => Len(c) = Len(scmCache) - 1
  <1> DEFINE at == {i \in DOMAIN scmCache : scmCache[i].key = k}
             c == SCM!Without(k)
  <1>1. DOMAIN scmCache = 1..Len(scmCache) /\ Len(scmCache) \in Nat
    BY DEF CInv
  <1>2. SCM!Found(k) # {} => at # {}
    BY DEF SCM!Found, SCM!ToSet
  <1>3. CASE at = {}
    <2>1. c = scmCache
      BY <1>3 DEF SCM!Without
    <2>2. \A i \in 1..Len(scmCache) : scmCache[i].key # k
      BY <1>1, <1>3
    <2>3. SCM!Found(k) = {}
      BY <1>2, <1>3
    <2> HIDE DEF at, c
    <2>4. /\ c \in Seq(CacheEntries) /\ Len(c) <= Len(scmCache)
          /\ \A i \in 1..Len(c) : RightEntry(c[i]) /\ c[i].key # k
      BY <1>1, <2>1, <2>2 DEF CInv
    <2>5. \A i, j \in 1..Len(c) : c[i].key = c[j].key => i = j
      BY <2>1 DEF CInv
    <2> QED BY <2>3, <2>4, <2>5 DEF c
  <1>4. CASE at # {}
    <2> DEFINE i == CHOOSE i \in at : TRUE
    <2>1. i \in at /\ c = SCM!RemoveAt(scmCache, i)
      BY <1>4 DEF SCM!Without
    <2> HIDE DEF i, c
    <2>2. i \in 1..Len(scmCache) /\ scmCache[i].key = k
      BY <1>1, <2>1
    <2>3. /\ c \in Seq(CacheEntries) /\ Len(c) = Len(scmCache) - 1
          /\ \A j \in 1..Len(c) : c[j] = scmCache[IF j < i THEN j ELSE j + 1]
      <3>1. scmCache \in Seq(CacheEntries)
        BY DEF CInv
      <3>2. /\ c \in Seq(CacheEntries) /\ Len(c) = Len(scmCache) - 1
            /\ \A j \in 1..Len(scmCache) - 1 : c[j] = scmCache[IF j < i THEN j ELSE j + 1]
        BY <2>1, <2>2, <3>1, RemovedAt
      <3> QED BY <3>2
    <2>4. \A j \in 1..Len(c) : RightEntry(c[j]) /\ c[j].key # k
      <3> TAKE j \in 1..Len(c)
      <3>1. (IF j < i THEN j ELSE j + 1) \in 1..Len(scmCache) /\ (IF j < i THEN j ELSE j + 1) # i
        BY <1>1, <2>2, <2>3
      <3> QED BY <2>2, <2>3, <3>1 DEF CInv
    <2>5. \A j, m \in 1..Len(c) : c[j].key = c[m].key => j = m
      <3> TAKE j, m \in 1..Len(c)
      <3>1. /\ (IF j < i THEN j ELSE j + 1) \in 1..Len(scmCache)
            /\ (IF m < i THEN m ELSE m + 1) \in 1..Len(scmCache)
        BY <1>1, <2>2, <2>3
      <3>2. c[j].key = c[m].key => (IF j < i THEN j ELSE j + 1) = (IF m < i THEN m ELSE m + 1)
        BY <2>3, <3>1 DEF CInv
      <3> QED BY <2>2, <3>2
    <2> QED BY <1>1, <2>3, <2>4, <2>5 DEF c
  <1> QED BY <1>3, <1>4

\* The cache with an entry at its front, in the place of the key's old one.
LEMMA CacheFront ==
    ASSUME CInv, NEW x, RightEntry(x)
    PROVE  LET c == <<x>> \o SCM!Without(x.key)
           IN  /\ c \in Seq(CacheEntries) /\ Len(c) = Len(SCM!Without(x.key)) + 1 /\ c[1] = x
               /\ \A i \in 1..Len(c) : RightEntry(c[i])
               /\ \A i, j \in 1..Len(c) : c[i].key = c[j].key => i = j
  <1> DEFINE w == SCM!Without(x.key)
             c == <<x>> \o w
  <1>1. /\ w \in Seq(CacheEntries)
        /\ \A i \in 1..Len(w) : RightEntry(w[i]) /\ w[i].key # x.key
        /\ \A i, j \in 1..Len(w) : w[i].key = w[j].key => i = j
    BY CacheWithout
  <1>2. x \in CacheEntries
    BY DEF RightEntry
  <1> HIDE DEF w
  <1>3. /\ c \in Seq(CacheEntries) /\ Len(c) = Len(w) + 1 /\ c[1] = x
        /\ \A i \in 2..Len(c) : c[i] = w[i - 1]
    BY <1>1, <1>2
  <1> HIDE DEF c
  <1>4. \A i \in 2..Len(c) : i - 1 \in 1..Len(w)
    BY <1>1, <1>3
  <1>5. \A i \in 1..Len(c) : i = 1 \/ i \in 2..Len(c)
    BY <1>1, <1>3
  <1>6. \A i \in 1..Len(c) : RightEntry(c[i])
    BY <1>1, <1>3, <1>4, <1>5
  <1>7. ASSUME NEW i \in 1..Len(c), NEW j \in 1..Len(c), c[i].key = c[j].key PROVE i = j
    <2>1. \A m \in 2..Len(c) : c[m].key # x.key
      BY <1>1, <1>3, <1>4
    <2>2. CASE i = 1 \/ j = 1
      BY <1>3, <1>5, <1>7, <2>1, <2>2
    <2>3. CASE i \in 2..Len(c) /\ j \in 2..Len(c)
      <3>1. w[i - 1].key = w[j - 1].key /\ i - 1 \in 1..Len(w) /\ j - 1 \in 1..Len(w)
        BY <1>3, <1>4, <1>7, <2>3
      <3>2. i - 1 = j - 1
        BY <1>1, <3>1
      <3> QED BY <2>3, <3>2
    <2> QED BY <1>5, <2>2, <2>3
  <1> QED BY <1>3, <1>6, <1>7 DEF w, c

\* CInv holds of a new provider.
LEMMA CInvInit == SCM!Init => CInv
  <1> SUFFICES ASSUME SCM!Init PROVE CInv
    OBVIOUS
  <1>1. scmCache = << >> /\ given = {}
    BY Zenon DEF SCM!Init
  <1>4. scmCache \in Seq(CacheEntries) /\ Len(scmCache) = 0
    BY <1>1
  <1>2. \A h \in Handlers : RightHandler(scmNow, handler[h])
    BY Zenon DEF SCM!Init, RightHandler
  <1>3. scmNow = 0 /\ env \in ClientBases /\ DOMAIN handler = Handlers
    BY Zenon DEF SCM!Init, ClientBases
  <1> QED BY <1>1, <1>2, <1>3, <1>4, ClientAssumption DEF CInv, SCM!ClientServesEvent

\* Get.
LEMMA CInvAsk ==
    ASSUME CInv, NEW h \in Handlers, NEW e \in Events, SCM!Ask(h, e)
    PROVE  CInv'
  <1> DEFINE k == SCM!CacheKey(e)
  <1>1. UNCHANGED <<scmNow, env>> /\ handler[h] = SCM!Idle
    BY Zenon DEF SCM!Ask
  <1>2. CASE "" \in {e.provider, e.installation}
    <2>1. UNCHANGED <<scmCache, handler>> /\ given' = {}
      BY <1>2, Zenon DEF SCM!Ask
    <2> QED BY <1>1, <2>1 DEF CInv, SCM!ClientServesEvent
  <1>3. CASE "" \notin {e.provider, e.installation} /\ SCM!Hits(k) = {}
    <2>1. /\ scmCache' = SCM!Without(k) /\ given' = {}
          /\ handler' = [handler EXCEPT ![h] = [pc |-> "fetch", event |-> e]]
      BY <1>3, Zenon DEF SCM!Ask, SCM!AfterGet, SCM!Becomes
    <2>2. RightHandler(scmNow, [pc |-> "fetch", event |-> e])
      BY DEF RightHandler
    <2>3. DOMAIN handler' = Handlers /\ \A g \in Handlers : RightHandler(scmNow', handler'[g])
      BY <1>1, <2>1, <2>2 DEF CInv
    <2> QED BY <1>1, <2>1, <2>3, CacheWithout, ClientAssumption DEF CInv, SCM!ClientServesEvent
  <1>4. CASE "" \notin {e.provider, e.installation} /\ SCM!Hits(k) # {}
    <2> DEFINE x == CHOOSE x \in SCM!Hits(k) : TRUE
    <2>1. x \in SCM!Hits(k)
      BY <1>4, Zenon
    <2> HIDE DEF x
    <2>2. PICK i \in 1..Len(scmCache) : x = scmCache[i] /\ x.key = k /\ ~SCM!Expired(x.exp)
      BY <2>1 DEF SCM!Hits, SCM!Found, SCM!ToSet, CInv
    <2>3. \A y \in SCM!Hits(k) : y = x
      BY <2>2 DEF SCM!Hits, SCM!Found, SCM!ToSet, CInv
    <2>4. RightEntry(x)
      BY <2>2 DEF CInv
    <2>5. /\ UNCHANGED handler /\ given' = {[event |-> e, client |-> x.client]}
          /\ scmCache' = <<x>> \o SCM!Without(k)
      BY <1>4, <2>3, Zenon DEF SCM!Ask, SCM!AfterGet, x
    <2>6. Len(SCM!Without(k)) = Len(scmCache) - 1
      BY <2>1, CacheWithout DEF SCM!Hits
    <2>7. /\ scmCache' \in Seq(CacheEntries) /\ Len(scmCache') = Len(scmCache) /\ scmCache'[1] = x
          /\ \A j \in 1..Len(scmCache') : RightEntry(scmCache'[j])
          /\ \A j, m \in 1..Len(scmCache') : scmCache'[j].key = scmCache'[m].key => j = m
      <3>1. Len(scmCache) \in Nat
        BY DEF CInv
      <3>2. scmCache' = <<x>> \o SCM!Without(x.key)
        BY <2>2, <2>5
      <3> HIDE DEF k
      <3>3. /\ scmCache' \in Seq(CacheEntries) /\ Len(scmCache') = Len(SCM!Without(x.key)) + 1 /\ scmCache'[1] = x
            /\ \A j \in 1..Len(scmCache') : RightEntry(scmCache'[j])
            /\ \A j, m \in 1..Len(scmCache') : scmCache'[j].key = scmCache'[m].key => j = m
        BY <2>4, <3>2, CacheFront
      <3> QED BY <2>2, <2>6, <3>1, <3>3
    <2>8. SCM!ClientServesEvent'
      <3>1. x.exp \in Nat /\ x.client.token.of = k /\ x.client.token.dies = x.exp /\ RightBase(k, x.client.base)
        BY <2>2, <2>4 DEF RightEntry, CacheEntries
      <3>2. scmNow < x.exp
        BY <2>2, <3>1, ClientAssumption DEF SCM!Expired, CInv
      <3>3. k = <<e.provider, e.installation, e.instance>> /\ k[1] = e.provider
        BY DEF SCM!CacheKey
      <3>4. /\ x.client.token.of = <<e.provider, e.installation, e.instance>>
            /\ scmNow < x.client.token.dies
            /\ x.client.base = BaseOf(<<e.provider, e.installation, e.instance>>) \/ e.provider = "bitbucket"
        BY <3>1, <3>2, <3>3 DEF RightBase
      <3> HIDE DEF k
      <3> QED BY <1>1, <2>5, <3>4 DEF SCM!ClientServesEvent
    <2>9. \A g \in given' : Len(scmCache') > 0 /\ scmCache'[1].client = g.client
      <3>1. Len(scmCache) > 0
        BY <2>2 DEF CInv
      <3> QED BY <2>5, <2>7, <3>1
    <2>10. \A g \in Handlers : RightHandler(scmNow', handler'[g])
      BY <1>1, <2>5 DEF CInv
    <2> QED BY <1>1, <2>5, <2>7, <2>8, <2>9, <2>10, ClientAssumption DEF CInv
  <1> QED BY <1>2, <1>3, <1>4, Zenon

\* A goroutine that moves on, and the others.
LEMMA HandlerMoves ==
    ASSUME CInv, NEW h \in Handlers, NEW p, RightHandler(scmNow, p),
           handler' = [handler EXCEPT ![h] = p], scmNow' = scmNow
    PROVE  DOMAIN handler' = Handlers /\ \A g \in Handlers : RightHandler(scmNow', handler'[g])
  BY DEF CInv

\* A step that leaves the cache alone and gives nothing to a handler.
LEMMA CInvElsewhere ==
    ASSUME CInv, scmNow' \in Nat, scmNow' <= ClientMaxTime, env' \in ClientBases, scmCache' = scmCache, given' = {},
           DOMAIN handler' = Handlers, \A g \in Handlers : RightHandler(scmNow', handler'[g])
    PROVE  CInv'
  BY DEF CInv, SCM!ClientServesEvent

\* Expiry that comes after now.
LEMMA ExpiryIsLater ==
    ASSUME CInv, NEW life \in ClientLifetimes, NEW x, x = IF life = 0 THEN SCM!Never ELSE scmNow + life
    PROVE  x \in Nat /\ scmNow < x
  BY ClientAssumption DEF CInv, SCM!Never

\* The call to the server, its answer and its failure.
LEMMA CInvFetch ==
    ASSUME CInv, NEW h \in Handlers,
           \/ \E life \in ClientLifetimes : SCM!GetSCMClient(h, life)
           \/ SCM!FetchFails(h)
    PROVE  CInv'
  <1>0. handler[h].pc = "fetch" /\ UNCHANGED <<scmNow, scmCache, env>> /\ given' = {}
    BY DEF SCM!GetSCMClient, SCM!FetchFails
  <1>1. CASE SCM!FetchFails(h)
    <2>1. RightHandler(scmNow, SCM!Idle)
      BY DEF RightHandler
    <2> QED BY <1>0, <1>1, <2>1, HandlerMoves, CInvElsewhere DEF SCM!FetchFails, SCM!Becomes, CInv
  <1>2. ASSUME NEW life \in ClientLifetimes, SCM!GetSCMClient(h, life)
        PROVE  CInv'
    <2>1. PICK e \in Events : handler[h] = [pc |-> "fetch", event |-> e]
      BY <1>0 DEF CInv, RightHandler, SCM!Idle
    <2> DEFINE x == IF life = 0 THEN SCM!Never ELSE scmNow + life
               p == [pc |-> "make", event |-> e, exp |-> x, token |-> [of |-> SCM!CacheKey(e), dies |-> x]]
    <2>2. handler' = [handler EXCEPT ![h] = p]
      BY <1>2, <2>1 DEF SCM!GetSCMClient, SCM!Becomes, SCM!CacheKey
    <2>3. x \in Nat /\ scmNow < x
      BY ExpiryIsLater
    <2> HIDE DEF x
    <2>4. RightHandler(scmNow, p)
      BY <2>3 DEF RightHandler
    <2> HIDE DEF p
    <2> QED BY <1>0, <2>2, <2>4, HandlerMoves, CInvElsewhere DEF CInv
  <1> QED BY <1>1, <1>2

\* What a goroutine has that makes a client.
LEMMA MakerHolds ==
    ASSUME CInv, NEW h \in Handlers, handler[h].pc \in {"make", "library"}
    PROVE  \E e \in Events, x \in Nat :
              /\ scmNow < x
              /\ handler[h].event = e /\ handler[h].exp = x
              /\ handler[h].token = [of |-> SCM!CacheKey(e), dies |-> x]
              /\ handler[h] = [pc |-> handler[h].pc, event |-> e, exp |-> x,
                               token |-> [of |-> SCM!CacheKey(e), dies |-> x]]
  BY DEF CInv, RightHandler, SCM!Idle

\* Only the place changes.
LEMMA ToTheLibrary ==
    ASSUME NEW e, NEW x, NEW t, NEW at,
           NEW s, s = [pc |-> at, event |-> e, exp |-> x, token |-> t]
    PROVE  [s EXCEPT !.pc = "library"] = [pc |-> "library", event |-> e, exp |-> x, token |-> t]
  <1> DEFINE F == {"pc", "event", "exp", "token"}
             r == [pc |-> "library", event |-> e, exp |-> x, token |-> t]
             u == [s EXCEPT !.pc = "library"]
  <1>1. r = [f \in F |-> r[f]] /\ DOMAIN s = F
    OBVIOUS
  <1>2. DOMAIN u = F /\ u = [f \in F |-> u[f]]
    BY <1>1
  <1>3. r.pc = "library" /\ r.event = e /\ r.exp = x /\ r.token = t
    OBVIOUS
  <1>4. u.pc = "library" /\ u.event = e /\ u.exp = x /\ u.token = t
    OBVIOUS
  <1>5. r = u
    <2> HIDE DEF r, u
    <2>1. \A f \in F : r[f] = u[f]
      BY <1>3, <1>4
    <2> QED BY <1>1, <1>2, <2>1
  <1> QED BY <1>5

\* The environment of the process is set.
LEMMA CInvSetEnvironment ==
    ASSUME CInv, NEW h \in Handlers, SCM!SetEnvironment(h)
    PROVE  CInv'
  <1>1. handler[h].pc = "make" /\ UNCHANGED <<scmNow, scmCache>> /\ given' = {} /\ env' = SCM!Base(h)
        /\ handler' = [handler EXCEPT ![h] = [handler[h] EXCEPT !.pc = "library"]]
    BY DEF SCM!SetEnvironment, SCM!Becomes
  <1>2. PICK e \in Events, x \in Nat :
           /\ scmNow < x
           /\ handler[h].token = [of |-> SCM!CacheKey(e), dies |-> x]
           /\ handler[h] = [pc |-> handler[h].pc, event |-> e, exp |-> x,
                            token |-> [of |-> SCM!CacheKey(e), dies |-> x]]
    BY <1>1, MakerHolds
  <1>3. env' \in ClientBases
    <2>1. env' = BaseOf(SCM!CacheKey(e))
      BY <1>1, <1>2 DEF SCM!Base
    <2> QED BY <2>1, Zenon DEF ClientBases, ClientKeys
  <1> DEFINE p == [pc |-> "library", event |-> e, exp |-> x, token |-> [of |-> SCM!CacheKey(e), dies |-> x]]
  <1>4. [handler[h] EXCEPT !.pc = "library"] = p
    BY <1>2, ToTheLibrary
  <1>5. RightHandler(scmNow, p)
    BY <1>2 DEF RightHandler
  <1> HIDE DEF p
  <1> QED BY <1>1, <1>3, <1>4, <1>5, HandlerMoves, CInvElsewhere DEF CInv

\* The client with its token and its base URL.
LEMMA CInvNewProviderClient ==
    ASSUME CInv, NEW h \in Handlers, SCM!NewProviderClient(h)
    PROVE  CInv'
  <1>1. handler[h].pc \in {"make", "library"} /\ UNCHANGED <<scmNow, scmCache, env>> /\ given' = {}
    BY DEF SCM!NewProviderClient
  <1>2. PICK e \in Events, x \in Nat :
           /\ scmNow < x
           /\ handler[h].event = e /\ handler[h].exp = x
           /\ handler[h].token = [of |-> SCM!CacheKey(e), dies |-> x]
    BY <1>1, MakerHolds
  <1> DEFINE base == IF e.provider = "bitbucket" THEN env ELSE BaseOf(SCM!CacheKey(e))
             c == [token |-> [of |-> SCM!CacheKey(e), dies |-> x], base |-> base]
             p == [pc |-> "add", event |-> e, exp |-> x, client |-> c]
  <1>3. handler' = [handler EXCEPT ![h] = p]
    <2>1. SCM!Base(h) = BaseOf(SCM!CacheKey(e))
      BY <1>2 DEF SCM!Base
    <2> QED BY <1>2, <2>1 DEF SCM!NewProviderClient, SCM!Becomes
  <1>4. SCM!CacheKey(e) \in ClientKeys /\ SCM!CacheKey(e)[1] = e.provider
    BY DEF ClientKeys, SCM!CacheKey
  <1>5. base \in ClientBases /\ RightBase(SCM!CacheKey(e), base)
    BY <1>4, Zenon DEF ClientBases, RightBase, CInv
  <1> HIDE DEF base
  <1>6. /\ c \in ClientRecords /\ c.token.of = SCM!CacheKey(e) /\ c.token.dies = x
        /\ RightBase(SCM!CacheKey(e), c.base)
    BY <1>2, <1>4, <1>5 DEF ClientRecords, TokenRecords
  <1> HIDE DEF c
  <1>7. RightHandler(scmNow, p)
    BY <1>2, <1>6 DEF RightHandler
  <1> HIDE DEF p
  <1> QED BY <1>1, <1>3, <1>7, HandlerMoves, CInvElsewhere DEF CInv

\* Add.
LEMMA CInvAdd ==
    ASSUME CInv, NEW h \in Handlers, SCM!Add(h)
    PROVE  CInv'
  <1>1. handler[h].pc = "add" /\ UNCHANGED <<scmNow, env>> /\ handler' = [handler EXCEPT ![h] = SCM!Idle]
    BY DEF SCM!Add, SCM!Becomes
  <1>2. PICK e \in Events, x \in Nat, c \in ClientRecords :
           /\ scmNow < x
           /\ c.token.of = SCM!CacheKey(e) /\ c.token.dies = x /\ RightBase(SCM!CacheKey(e), c.base)
           /\ handler[h] = [pc |-> "add", event |-> e, exp |-> x, client |-> c]
    BY <1>1 DEF CInv, RightHandler, SCM!Idle
  <1> DEFINE k == SCM!CacheKey(e)
             entry == [key |-> k, client |-> c, exp |-> x]
             all == <<entry>> \o SCM!Without(k)
             n == IF Len(all) > Size THEN Size ELSE Len(all)
  <1>3. handler[h].event = e /\ handler[h].exp = x /\ handler[h].client = c
    BY <1>2
  <1>4. scmCache' = SubSeq(all, 1, n) /\ given' = {[event |-> e, client |-> c]}
    BY <1>3 DEF SCM!Add, SCM!AfterAdd
  <1>5. k \in ClientKeys /\ k = <<e.provider, e.installation, e.instance>> /\ k[1] = e.provider
    BY DEF SCM!CacheKey, ClientKeys
  <1> HIDE DEF k
  <1>6. RightEntry(entry) /\ entry.key = k /\ entry.client = c
    BY <1>2, <1>5 DEF RightEntry, CacheEntries, k
  <1> HIDE DEF entry
  <1>7. /\ all \in Seq(CacheEntries) /\ Len(all) = Len(SCM!Without(k)) + 1 /\ all[1] = entry
        /\ \A i \in 1..Len(all) : RightEntry(all[i])
        /\ \A i, j \in 1..Len(all) : all[i].key = all[j].key => i = j
    BY <1>6, CacheFront
  <1>8. SCM!Without(k) \in Seq(CacheEntries)
    BY CacheWithout
  <1>9. n \in 1..Size /\ n <= Len(all)
    BY <1>7, <1>8, ClientAssumption
  <1> HIDE DEF all, n
  <1>10. /\ scmCache' \in Seq(CacheEntries) /\ Len(scmCache') = n
         /\ \A i \in 1..n : scmCache'[i] = all[i]
    BY <1>4, <1>7, <1>9, ClientAssumption
  <1>11. \A i \in 1..n : i \in 1..Len(all)
    BY <1>7, <1>9
  <1>12. /\ \A i \in 1..Len(scmCache') : RightEntry(scmCache'[i])
         /\ \A i, j \in 1..Len(scmCache') : scmCache'[i].key = scmCache'[j].key => i = j
         /\ Len(scmCache') <= Size /\ Len(scmCache') > 0 /\ scmCache'[1] = entry
    BY <1>7, <1>9, <1>10, <1>11
  <1>13. SCM!ClientServesEvent'
    BY <1>1, <1>2, <1>4, <1>5 DEF SCM!ClientServesEvent, RightBase, k
  <1>14. DOMAIN handler' = Handlers /\ \A g \in Handlers : RightHandler(scmNow', handler'[g])
    <2>1. RightHandler(scmNow, SCM!Idle)
      BY DEF RightHandler
    <2> QED BY <1>1, <2>1, HandlerMoves
  <1>15. \A g \in given' : Len(scmCache') > 0 /\ scmCache'[1].client = g.client
    <2>1. \A g \in given' : g.client = c
      BY <1>4
    <2>2. scmCache'[1].client = c
      BY <1>6, <1>12
    <2> QED BY <1>12, <2>1, <2>2
  <1> QED BY <1>1, <1>10, <1>12, <1>13, <1>14, <1>15 DEF CInv

\* CInv is inductive.
LEMMA CInvNext == CInv /\ [SCM!Next]_(SCM!vars) => CInv'
  <1> SUFFICES ASSUME CInv, [SCM!Next]_(SCM!vars) PROVE CInv'
    OBVIOUS
  <1>1. CASE UNCHANGED SCM!vars
    BY <1>1 DEF SCM!vars, CInv, SCM!ClientServesEvent
  <1>2. CASE SCM!Tick
    <2>1. scmNow' = scmNow + 1 /\ scmNow < ClientMaxTime /\ UNCHANGED <<scmCache, env, handler>> /\ given' = {}
          /\ \A h \in Handlers : handler[h] = SCM!Idle
      BY <1>2 DEF SCM!Tick
    <2>2. \A h \in Handlers : RightHandler(scmNow', handler'[h])
      BY <2>1 DEF RightHandler
    <2>3. scmNow' \in Nat /\ scmNow' <= ClientMaxTime
      BY <2>1, ClientAssumption DEF CInv
    <2> QED BY <2>1, <2>2, <2>3, CInvElsewhere DEF CInv
  <1> QED BY <1>1, <1>2, CInvAsk, CInvFetch, CInvSetEnvironment, CInvNewProviderClient, CInvAdd DEF SCM!Next

\* The provider of clients, for every size of its cache, every lifetime of
\* tokens and any number of goroutines: what a handler gets has a live token
\* of its event's installation and instance, and the cache is one of the
\* least recently used kind.
THEOREM ClientsRight == ServicesSpec => []ClientsAreRight
  <1> DEFINE Inv == focus = "scm" => CInv
  <1>1. ServicesInit => Inv
    BY PartStarts, CInvInit
  <1>2. Inv /\ [ServicesNext]_ServicesVars => Inv'
    BY PartMoves, CInvNext
  <1>3. Inv => ClientsAreRight
    BY DEF ClientsAreRight, CInv, SCM!CacheIsLRU
  <1> QED BY <1>1, <1>2, <1>3, PTL DEF ServicesSpec

-----------------------------------------------------------------------------
(* Authentication: for every set of clients, workers and configurations,    *)
(* every lifetime of tokens and of logins.                                  *)

AuthConfigs == {ConfigOf[p] : p \in Clients} \cup {LoginConfig}
AuthTokens == [config : AuthConfigs, dies : Nat]

\* A token works for as long as its holder takes it to live; a token of which
\* the issuer does not say how long works until the end.
WorksUntil(t, x) == x \in Nat /\ (t.dies = x \/ t.dies = MaxTime + 1)

\* The entries of the file, or of what will be the file: one per configuration,
\* which is that of its token.
RightEntries(E) ==
    /\ \A e \in E : /\ e.token \in AuthTokens /\ e.key = Auth!CacheKey(e.token.config)
                    /\ WorksUntil(e.token, e.exp)
    /\ \A e, f \in E : e.key = f.key => e = f

\* The token with which a process is on its way to the file: none, or one of
\* its own that works at time n.
OnItsWay(n, p, t) ==
    t = Auth!NoToken \/ (t \in AuthTokens /\ n < t.dies /\ (p \in Clients => t.config = ConfigOf[p]))

RightProc(n, p, q) ==
    \/ q.pc \in {"idle", "load", "fetch"}
    \/ /\ q.pc = "storing"
       /\ OnItsWay(n, p, q.token)
       /\ q.token # Auth!NoToken => q.key = Auth!CacheKey(q.token.config) /\ WorksUntil(q.token, q.exp)
    \/ /\ q.pc \in {"emptying", "writing"}
       /\ q = [pc |-> q.pc, entries |-> q.entries, token |-> q.token]
       /\ OnItsWay(n, p, q.token)
       /\ RightEntries(q.entries)

\* The part of the inductive invariant that is about tokens.
TokenInv ==
    /\ now \in Nat /\ now > 0 /\ now <= MaxTime
    /\ RightEntries(file.entries)
    /\ DOMAIN memory = Workers
    /\ \A w \in Workers : \A m \in memory[w] : m.token.config = ConfigOf[w] /\ WorksUntil(m.token, m.exp)
    /\ DOMAIN proc = Auth!Procs
    /\ \A p \in Auth!Procs : RightProc(now, p, proc[p])
    /\ Auth!TokenIsAccepted

\* The part that is about logins: a login that was exchanged is not stored any
\* more, and one that is stored is good from its start on.
LoginInv ==
    /\ now \in Nat
    /\ exchanged \in Seq([state : Logins, at : Nat])
    /\ \A l \in issued : l.at \in Nat
    /\ \A l \in logins : /\ \E i \in issued : i.state = l.state
                         /\ \A i \in issued : i.state = l.state => l.exp = i.at + LoginLife
    /\ \A n \in DOMAIN exchanged : /\ \E i \in issued : i.state = exchanged[n].state
                                   /\ \A l \in logins : l.state # exchanged[n].state
    /\ Auth!LoginOnce

\* The key of a configuration is the key of no other.
LEMMA KeysTellApart ==
    ASSUME NEW c \in AuthConfigs, NEW d \in AuthConfigs, Auth!CacheKey(c) = Auth!CacheKey(d)
    PROVE  c = d
  <1>1. c.issuer = d.issuer /\ c.audience = d.audience /\ c.client = d.client
    BY DEF Auth!CacheKey
  <1>2. IsConfiguration(c) /\ IsConfiguration(d)
    BY AuthAssumption DEF AuthConfigs
  <1> QED BY <1>1, <1>2 DEF IsConfiguration

\* What a step hands out is accepted when it works and is the client's own.
LEMMA HandedIsAccepted ==
    ASSUME NEW p, NEW t, t.config = ConfigOf[p], now < t.dies, now' = now, Auth!Give(p, t)
    PROVE  Auth!TokenIsAccepted'
  BY DEF Auth!Give, Auth!TokenIsAccepted, Auth!Verify

\* A step in which at most one process moves and the memory stays.
LEMMA OneProcMoves ==
    ASSUME TokenInv, NEW p \in Auth!Procs, NEW q, RightProc(now, p, q),
           proc' = [proc EXCEPT ![p] = q], UNCHANGED <<now, memory>>,
           RightEntries(file'.entries), Auth!TokenIsAccepted'
    PROVE  TokenInv'
  <1>1. DOMAIN proc' = Auth!Procs /\ \A r \in Auth!Procs : RightProc(now', r, proc'[r])
    BY DEF TokenInv
  <1> QED BY <1>1 DEF TokenInv

\* Nothing is handed out.
LEMMA NothingHanded == ASSUME handed' = {} PROVE Auth!TokenIsAccepted'
  BY DEF Auth!TokenIsAccepted

\* The invariants hold of a server and clients that have done nothing.
LEMMA TokenInvInit == Auth!Init => TokenInv /\ LoginInv
  <1> SUFFICES ASSUME Auth!Init PROVE TokenInv /\ LoginInv
    OBVIOUS
  <1>1. /\ now = 1 /\ file.entries = {} /\ handed = {} /\ DOMAIN memory = Workers /\ \A w \in Workers : memory[w] = {}
        /\ DOMAIN proc = Auth!Procs /\ \A p \in Auth!Procs : proc[p].pc = "idle"
    BY DEF Auth!Init, Auth!Idle
  <1>2. TokenInv
    BY <1>1, AuthAssumption DEF TokenInv, RightEntries, RightProc, Auth!TokenIsAccepted
  <1>3. exchanged = << >> /\ logins = {} /\ issued = {}
    BY DEF Auth!Init
  <1>4. exchanged \in Seq([state : Logins, at : Nat]) /\ DOMAIN exchanged = {}
    BY <1>3
  <1> QED BY <1>1, <1>2, <1>3, <1>4 DEF LoginInv, Auth!LoginOnce

\* The file is read before it is written.
LEMMA TokenInvReads ==
    ASSUME TokenInv, NEW p \in Auth!Procs, Auth!StoreReads(p)
    PROVE  TokenInv'
  <1> DEFINE t == proc[p].token
             k == proc[p].key
             kept == IF file.ok THEN {e \in file.entries : ~Auth!Expired(e) /\ e.key # k} ELSE {}
             own == IF t = Auth!NoToken THEN {} ELSE {[key |-> k, token |-> t, exp |-> proc[p].exp]}
             q == [pc |-> "emptying", entries |-> kept \cup own, token |-> t]
  <1>1. /\ proc[p].pc = "storing" /\ proc' = [proc EXCEPT ![p] = q] /\ handed' = {}
        /\ UNCHANGED <<now, file, memory>>
    BY DEF Auth!StoreReads, Auth!Becomes
  <1>2. /\ OnItsWay(now, p, t)
        /\ t # Auth!NoToken => k = Auth!CacheKey(t.config) /\ WorksUntil(t, proc[p].exp)
    BY <1>1 DEF TokenInv, RightProc
  <1>3. \A e \in kept : e \in file.entries /\ e.key # k
    OBVIOUS
  <1>4. \A e \in own : /\ e.key = k /\ e.token \in AuthTokens /\ e.key = Auth!CacheKey(e.token.config)
                       /\ WorksUntil(e.token, e.exp) /\ \A f \in own : e = f
    BY <1>2 DEF OnItsWay
  <1> HIDE DEF kept, own
  <1>5. RightEntries(kept \cup own)
    BY <1>3, <1>4 DEF RightEntries, TokenInv
  <1>6. RightProc(now, p, q)
    BY <1>2, <1>5 DEF RightProc
  <1> HIDE DEF q
  <1> QED BY <1>1, <1>6, OneProcMoves, NothingHanded DEF TokenInv

\* Only the place changes.
LEMMA ToTheWrite ==
    ASSUME NEW E, NEW t, NEW s, s = [pc |-> "emptying", entries |-> E, token |-> t]
    PROVE  [s EXCEPT !.pc = "writing"] = [pc |-> "writing", entries |-> E, token |-> t]
  <1> DEFINE F == {"pc", "entries", "token"}
             r == [pc |-> "writing", entries |-> E, token |-> t]
             u == [s EXCEPT !.pc = "writing"]
  <1>1. r = [f \in F |-> r[f]] /\ DOMAIN s = F
    OBVIOUS
  <1>2. DOMAIN u = F /\ u = [f \in F |-> u[f]]
    BY <1>1
  <1>3. r.pc = "writing" /\ r.entries = E /\ r.token = t
    OBVIOUS
  <1>4. u.pc = "writing" /\ u.entries = E /\ u.token = t
    OBVIOUS
  <1>5. r = u
    <2> HIDE DEF r, u
    <2>1. \A f \in F : r[f] = u[f]
      BY <1>3, <1>4
    <2> QED BY <1>1, <1>2, <2>1
  <1> QED BY <1>5

\* It is empty before it is written.
LEMMA TokenInvEmpties ==
    ASSUME TokenInv, NEW p \in Auth!Procs, Auth!StoreEmpties(p)
    PROVE  TokenInv'
  <1> DEFINE E == proc[p].entries
             t == proc[p].token
             q == [pc |-> "writing", entries |-> E, token |-> t]
  <1>1. /\ proc[p].pc = "emptying" /\ proc' = [proc EXCEPT ![p] = [proc[p] EXCEPT !.pc = "writing"]]
        /\ handed' = {} /\ file' = [ok |-> FALSE, entries |-> {}] /\ UNCHANGED <<now, memory>>
    BY DEF Auth!StoreEmpties, Auth!Becomes
  <1>2. proc[p] = [pc |-> "emptying", entries |-> E, token |-> t] /\ OnItsWay(now, p, t) /\ RightEntries(E)
    BY <1>1 DEF TokenInv, RightProc
  <1>3. [proc[p] EXCEPT !.pc = "writing"] = q
    BY <1>2, ToTheWrite
  <1>4. RightProc(now, p, q)
    BY <1>2 DEF RightProc
  <1>5. RightEntries(file'.entries)
    BY <1>1 DEF RightEntries
  <1> HIDE DEF q
  <1> QED BY <1>1, <1>3, <1>4, <1>5, OneProcMoves, NothingHanded

\* The write, after which a client has its token.
LEMMA TokenInvWrites ==
    ASSUME TokenInv, NEW p \in Auth!Procs, Auth!StoreWrites(p)
    PROVE  TokenInv'
  <1> DEFINE t == proc[p].token
  <1>1. /\ proc[p].pc = "writing" /\ UNCHANGED <<now, memory>>
        /\ file' = [ok |-> TRUE, entries |-> proc[p].entries]
    BY DEF Auth!StoreWrites
  <1>2. OnItsWay(now, p, t) /\ RightEntries(file'.entries)
    BY <1>1 DEF TokenInv, RightProc
  <1>3. RightProc(now, p, Auth!Idle) /\ RightProc(now, p, [pc |-> "fetch"])
    BY DEF RightProc, Auth!Idle
  <1>4. CASE t = Auth!NoToken
    <2>1. proc' = [proc EXCEPT ![p] = [pc |-> "fetch"]] /\ handed' = {}
      BY <1>4 DEF Auth!StoreWrites, Auth!Becomes
    <2> QED BY <1>1, <1>2, <1>3, <2>1, OneProcMoves, NothingHanded
  <1>5. CASE t # Auth!NoToken
    <2>1. proc' = [proc EXCEPT ![p] = Auth!Idle] /\ (handed' = {} \/ (p \in Clients /\ Auth!Give(p, t)))
      BY <1>5 DEF Auth!StoreWrites, Auth!Becomes
    <2>2. p \in Clients => t.config = ConfigOf[p] /\ now < t.dies
      BY <1>2, <1>5 DEF OnItsWay
    <2>3. Auth!TokenIsAccepted'
      BY <1>1, <2>1, <2>2, HandedIsAccepted, NothingHanded
    <2> QED BY <1>1, <1>2, <1>3, <2>1, <2>3, OneProcMoves
  <1> QED BY <1>4, <1>5

\* A token that is held to be alive works.
LEMMA HeldIsGood ==
    ASSUME TokenInv, NEW t, NEW x, WorksUntil(t, x), now < x
    PROVE  now < t.dies
  BY AuthAssumption DEF TokenInv, WorksUntil

\* A client asks its memory.
LEMMA TokenInvAsk ==
    ASSUME TokenInv, NEW p \in Clients, Auth!Ask(p)
    PROVE  TokenInv'
  <1>0. p \in Auth!Procs /\ UNCHANGED <<now, memory, file>>
    BY DEF Auth!Procs, Auth!Ask
  <1>1. CASE Auth!InMemory(p) = {}
    <2>1. proc' = [proc EXCEPT ![p] = [pc |-> "load"]] /\ handed' = {}
      BY <1>1 DEF Auth!Ask, Auth!Becomes
    <2>2. RightProc(now, p, [pc |-> "load"])
      BY DEF RightProc
    <2> QED BY <1>0, <2>1, <2>2, OneProcMoves, NothingHanded DEF TokenInv
  <1>2. CASE Auth!InMemory(p) # {}
    <2>1. PICK m \in Auth!InMemory(p) : Auth!Give(p, m.token) /\ UNCHANGED proc
      BY <1>2 DEF Auth!Ask
    <2>2. p \in Workers /\ m \in memory[p] /\ now < m.exp
      BY <2>1 DEF Auth!InMemory
    <2>3. m.token.config = ConfigOf[p] /\ now < m.token.dies
      BY <2>2, HeldIsGood DEF TokenInv
    <2>4. Auth!TokenIsAccepted'
      BY <1>0, <2>1, <2>3, HandedIsAccepted
    <2> QED BY <1>0, <2>1, <2>4 DEF TokenInv
  <1> QED BY <1>1, <1>2

\* A client asks the file.
LEMMA TokenInvLoad ==
    ASSUME TokenInv, NEW p \in Clients, Auth!LoadCachedToken(p)
    PROVE  TokenInv'
  <1> DEFINE k == Auth!CacheKey(ConfigOf[p])
             found == {e \in file.entries : file.ok /\ e.key = k}
  <1>0. p \in Auth!Procs /\ UNCHANGED <<now, memory, file>> /\ RightEntries(file'.entries)
    BY DEF Auth!Procs, Auth!LoadCachedToken, TokenInv
  <1>1. RightProc(now, p, Auth!Idle) /\ RightProc(now, p, [pc |-> "fetch"])
    BY DEF RightProc, Auth!Idle
  <1>2. CASE \E e \in found : Auth!Expired(e)
    <2>1. proc' = [proc EXCEPT ![p] = Auth!Store(k, Auth!NoToken, 0)] /\ handed' = {}
      BY <1>2 DEF Auth!LoadCachedToken, Auth!Becomes
    <2>2. RightProc(now, p, Auth!Store(k, Auth!NoToken, 0))
      BY DEF RightProc, OnItsWay, Auth!Store
    <2> QED BY <1>0, <2>1, <2>2, OneProcMoves, NothingHanded
  <1>3. CASE ~(\E e \in found : Auth!Expired(e)) /\ \E e \in found : now + Skew < e.exp
    <2>1. PICK e \in found : Auth!Give(p, e.token) /\ proc' = [proc EXCEPT ![p] = Auth!Idle]
      BY <1>3 DEF Auth!LoadCachedToken, Auth!Becomes
    <2>2. PICK f \in found : now + Skew < f.exp
      BY <1>3
    <2>3. e = f
      BY <2>1, <2>2 DEF TokenInv, RightEntries
    <2>4. /\ e.token \in AuthTokens /\ Auth!CacheKey(e.token.config) = Auth!CacheKey(ConfigOf[p])
          /\ WorksUntil(e.token, e.exp)
      BY <2>1 DEF TokenInv, RightEntries
    <2>5. e.token.config = ConfigOf[p]
      BY <2>4, KeysTellApart DEF AuthTokens, AuthConfigs
    <2>6. now < e.exp
      BY <2>2, <2>3, <2>4, AuthAssumption DEF TokenInv, WorksUntil
    <2>7. now < e.token.dies
      BY <2>4, <2>6, HeldIsGood
    <2> QED BY <1>0, <1>1, <2>1, <2>5, <2>7, OneProcMoves, HandedIsAccepted
  <1>4. CASE ~(\E e \in found : Auth!Expired(e)) /\ ~(\E e \in found : now + Skew < e.exp)
    <2>1. proc' = [proc EXCEPT ![p] = [pc |-> "fetch"]] /\ handed' = {}
      BY <1>4 DEF Auth!LoadCachedToken, Auth!Becomes
    <2> QED BY <1>0, <1>1, <2>1, OneProcMoves, NothingHanded
  <1> QED BY <1>2, <1>3, <1>4

\* A new token.
LEMMA NewToken ==
    ASSUME TokenInv, NEW life \in Lifetimes, NEW c \in AuthConfigs
    PROVE  /\ Auth!Token(c, life) \in AuthTokens /\ Auth!Token(c, life).config = c
           /\ WorksUntil(Auth!Token(c, life), Auth!Expiry(life))
           /\ now < Auth!Token(c, life).dies
  <1>1. CASE life = 0
    BY <1>1, AuthAssumption DEF TokenInv, Auth!Token, Auth!Expiry, AuthTokens, WorksUntil
  <1>2. CASE life # 0
    BY <1>2, AuthAssumption DEF TokenInv, Auth!Token, Auth!Expiry, AuthTokens, WorksUntil
  <1> QED BY <1>1, <1>2

\* The issuer is asked.
LEMMA TokenInvFetch ==
    ASSUME TokenInv, NEW p \in Clients, NEW life \in Lifetimes, NEW up, Auth!Fetch(p, life, up)
    PROVE  TokenInv'
  <1> DEFINE t == Auth!Token(ConfigOf[p], life)
             x == Auth!Expiry(life)
             q == Auth!Store(Auth!CacheKey(ConfigOf[p]), t, x)
  <1>0. p \in Auth!Procs /\ UNCHANGED <<now, file>> /\ handed' = {} /\ Auth!TokenIsAccepted'
    BY NothingHanded DEF Auth!Procs, Auth!Fetch
  <1>1. CASE proc' = [proc EXCEPT ![p] = Auth!Idle] /\ UNCHANGED memory
    <2>1. RightProc(now, p, Auth!Idle)
      BY DEF RightProc, Auth!Idle
    <2> QED BY <1>0, <1>1, <2>1, OneProcMoves DEF TokenInv
  <1>2. CASE /\ memory' = IF p \in Workers THEN [memory EXCEPT ![p] = {[token |-> t, exp |-> x]}] ELSE memory
             /\ proc' = [proc EXCEPT ![p] = q]
    <2>1. /\ t \in AuthTokens /\ t.config = ConfigOf[p] /\ WorksUntil(t, x) /\ now < t.dies
      BY NewToken DEF AuthConfigs
    <2> HIDE DEF t, x
    <2>2. RightProc(now, p, q)
      BY <2>1 DEF RightProc, Auth!Store, OnItsWay
    <2> HIDE DEF q
    <2>3. DOMAIN proc' = Auth!Procs /\ \A r \in Auth!Procs : RightProc(now', r, proc'[r])
      BY <1>0, <1>2, <2>2 DEF TokenInv
    <2>4. /\ DOMAIN memory' = Workers
          /\ \A w \in Workers : \A m \in memory'[w] : m.token.config = ConfigOf[w] /\ WorksUntil(m.token, m.exp)
      BY <1>2, <2>1 DEF TokenInv
    <2> QED BY <1>0, <2>3, <2>4 DEF TokenInv
  <1> QED BY <1>1, <1>2 DEF Auth!Fetch, Auth!Becomes

\* The callback of a login stores a token, which no client is given.
LEMMA TokenInvCallback ==
    ASSUME TokenInv, NEW s, NEW life \in Lifetimes, NEW up, Auth!LoginCallback(s, life, up)
    PROVE  TokenInv'
  <1> DEFINE t == Auth!Token(LoginConfig, life)
             x == Auth!Expiry(life)
             q == Auth!Store(Auth!CacheKey(LoginConfig), t, x)
  <1>0. UNCHANGED <<now, file, memory>> /\ Auth!TokenIsAccepted'
    BY NothingHanded DEF Auth!LoginCallback
  <1>1. CASE UNCHANGED proc
    BY <1>0, <1>1 DEF TokenInv
  <1>2. CASE proc' = [proc EXCEPT !["server"] = q]
    <2>1. /\ t \in AuthTokens /\ t.config = LoginConfig /\ WorksUntil(t, x) /\ now < t.dies
      BY NewToken DEF AuthConfigs
    <2> HIDE DEF t, x
    <2>2. RightProc(now, "server", q)
      BY <2>1, AuthAssumption DEF RightProc, Auth!Store, OnItsWay
    <2> HIDE DEF q
    <2> QED BY <1>0, <1>2, <2>2, OneProcMoves DEF TokenInv, Auth!Procs
  <1> QED BY <1>1, <1>2 DEF Auth!LoginCallback, Auth!Becomes

\* Time passes between the operations on the file only.
LEMMA TokenInvTick == ASSUME TokenInv, Auth!Tick PROVE TokenInv'
  <1>1. /\ now' = now + 1 /\ now < MaxTime /\ handed' = {} /\ UNCHANGED <<file, memory, proc>>
        /\ \A p \in Auth!Procs : proc[p].pc \notin {"storing", "emptying", "writing"}
    BY DEF Auth!Tick
  <1>2. \A p \in Auth!Procs : RightProc(now', p, proc'[p])
    BY <1>1 DEF TokenInv, RightProc
  <1>3. now' \in Nat /\ now' > 0 /\ now' <= MaxTime
    BY <1>1, AuthAssumption DEF TokenInv
  <1> QED BY <1>1, <1>2, <1>3, NothingHanded DEF TokenInv

\* TokenInv is inductive.
LEMMA TokenInvNext == TokenInv /\ [Auth!Next]_(Auth!vars) => TokenInv'
  <1> SUFFICES ASSUME TokenInv, [Auth!Next]_(Auth!vars) PROVE TokenInv'
    OBVIOUS
  <1>1. CASE UNCHANGED Auth!vars
    BY <1>1 DEF Auth!vars, TokenInv, Auth!TokenIsAccepted, Auth!Verify
  <1>2. ASSUME NEW s \in Logins, NEW up, Auth!Login(s, up) PROVE TokenInv'
    BY <1>2, NothingHanded DEF Auth!Login, TokenInv
  <1> QED BY <1>1, <1>2, TokenInvReads, TokenInvEmpties, TokenInvWrites, TokenInvAsk, TokenInvLoad, TokenInvFetch,
             TokenInvCallback, TokenInvTick DEF Auth!Next

\* A login begins.
LEMMA LoginInvLogin ==
    ASSUME LoginInv, NEW s, NEW up, Auth!Login(s, up)
    PROVE  LoginInv'
  <1> DEFINE l == [state |-> s, verifier |-> s, exp |-> now + LoginLife]
             i == [state |-> s, challenge |-> s, at |-> now]
  <1>1. /\ \A j \in issued : j.state # s
        /\ logins' = Auth!Live(logins) \cup {l} /\ issued' = issued \cup {i} /\ UNCHANGED <<now, exchanged>>
    BY DEF Auth!Login
  <1>2. l.state = s /\ l.exp = now + LoginLife /\ i.state = s /\ i.at = now
    OBVIOUS
  <1> HIDE DEF l, i
  <1>3. \A j \in issued' : j.at \in Nat
    BY <1>1, <1>2 DEF LoginInv
  <1>4. \A m \in Auth!Live(logins) : m \in logins
    BY DEF Auth!Live
  <1>5. \A m \in logins' : /\ \E j \in issued' : j.state = m.state
                           /\ \A j \in issued' : j.state = m.state => m.exp = j.at + LoginLife
    <2> TAKE m \in logins'
    <2>1. CASE m = l
      BY <1>1, <1>2, <2>1
    <2>2. CASE m \in logins
      BY <1>1, <1>2, <2>2 DEF LoginInv
    <2> QED BY <1>1, <1>4, <2>1, <2>2
  <1>6. \A n \in DOMAIN exchanged : exchanged[n].state # s
    BY <1>1 DEF LoginInv
  <1>7. \A n \in DOMAIN exchanged' : /\ \E j \in issued' : j.state = exchanged'[n].state
                                    /\ \A m \in logins' : m.state # exchanged'[n].state
    BY <1>1, <1>2, <1>4, <1>6 DEF LoginInv
  <1>8. Auth!LoginOnce'
    BY <1>1, <1>2, <1>6 DEF LoginInv, Auth!LoginOnce
  <1> QED BY <1>1, <1>3, <1>5, <1>7, <1>8 DEF LoginInv

\* The browser comes back: the state goes, and with it every later callback.
LEMMA LoginInvCallback ==
    ASSUME LoginInv, NEW s \in Logins, NEW life, NEW up, Auth!LoginCallback(s, life, up)
    PROVE  LoginInv'
  <1>1. logins' = Auth!Consumed(s) /\ UNCHANGED <<now, issued>>
    BY DEF Auth!LoginCallback
  <1>2. \A l \in logins' : l \in logins /\ l.state # s
    BY <1>1 DEF Auth!Consumed, Auth!Live
  <1>3. CASE UNCHANGED exchanged
    BY <1>1, <1>2, <1>3 DEF LoginInv, Auth!LoginOnce
  <1>4. CASE exchanged' # exchanged
    <2> DEFINE x == [state |-> s, at |-> now]
    <2>1. PICK l \in Auth!Live(logins) : l.state = s
      BY <1>4 DEF Auth!LoginCallback
    <2>2. exchanged' = Append(exchanged, x)
      BY <1>4 DEF Auth!LoginCallback
    <2>3. l \in logins /\ now <= l.exp
      BY <2>1 DEF Auth!Live
    <2>4. \A n \in DOMAIN exchanged : exchanged[n].state # s
      BY <2>1, <2>3 DEF LoginInv
    <2>5. x \in [state : Logins, at : Nat] /\ x.state = s /\ x.at = now
      BY DEF LoginInv
    <2> HIDE DEF x
    <2>6. exchanged' \in Seq([state : Logins, at : Nat])
      BY <2>2, <2>5 DEF LoginInv
    <2>7. /\ DOMAIN exchanged = 1..Len(exchanged) /\ Len(exchanged) \in Nat
          /\ DOMAIN exchanged' = 1..Len(exchanged) + 1
          /\ \A n \in DOMAIN exchanged' : \/ n \in DOMAIN exchanged /\ exchanged'[n] = exchanged[n]
                                          \/ n = Len(exchanged) + 1 /\ exchanged'[n] = x
      BY <2>2, <2>5 DEF LoginInv
    <2>8. \E i \in issued : i.state = s
      BY <2>1, <2>3 DEF LoginInv
    <2>9. \A i \in issued : i.state = s => now <= i.at + LoginLife
      BY <2>1, <2>3 DEF LoginInv
    <2>10. \A n \in DOMAIN exchanged' : /\ \E i \in issued' : i.state = exchanged'[n].state
                                       /\ \A m \in logins' : m.state # exchanged'[n].state
      BY <1>1, <1>2, <2>5, <2>7, <2>8 DEF LoginInv
    <2>11. \A n, m \in DOMAIN exchanged' : exchanged'[n].state = exchanged'[m].state => n = m
      BY <2>4, <2>5, <2>7 DEF LoginInv, Auth!LoginOnce
    <2>12. \A n \in DOMAIN exchanged' : \A i \in issued' :
              i.state = exchanged'[n].state => exchanged'[n].at <= i.at + LoginLife
      BY <1>1, <2>5, <2>7, <2>9 DEF LoginInv, Auth!LoginOnce
    <2>13. Auth!LoginOnce'
      BY <2>11, <2>12 DEF Auth!LoginOnce
    <2> QED BY <1>1, <1>2, <2>6, <2>10, <2>13 DEF LoginInv
  <1> QED BY <1>3, <1>4

\* LoginInv is inductive.
LEMMA LoginInvNext == LoginInv /\ [Auth!Next]_(Auth!vars) => LoginInv'
  <1> SUFFICES ASSUME LoginInv, [Auth!Next]_(Auth!vars) PROVE LoginInv'
    OBVIOUS
  <1>1. CASE UNCHANGED <<logins, issued, exchanged>> /\ now' \in Nat
    BY <1>1 DEF LoginInv, Auth!LoginOnce
  <1>2. CASE UNCHANGED Auth!vars
    BY <1>1, <1>2 DEF Auth!vars, LoginInv
  <1>3. CASE Auth!Tick
    BY <1>1, <1>3 DEF Auth!Tick, LoginInv
  <1>4. ASSUME NEW p, Auth!StoreReads(p) \/ Auth!StoreEmpties(p) \/ Auth!StoreWrites(p) \/ Auth!Ask(p)
                      \/ Auth!LoadCachedToken(p)
        PROVE  LoginInv'
    <2>1. UNCHANGED <<now, logins, issued, exchanged>>
      BY <1>4 DEF Auth!StoreReads, Auth!StoreEmpties, Auth!StoreWrites, Auth!Ask, Auth!LoadCachedToken
    <2> QED BY <1>1, <2>1 DEF LoginInv
  <1>5. ASSUME NEW p, NEW life, NEW up, Auth!Fetch(p, life, up) PROVE LoginInv'
    BY <1>1, <1>5 DEF Auth!Fetch, LoginInv
  <1> QED BY <1>2, <1>3, <1>4, <1>5, LoginInvLogin, LoginInvCallback DEF Auth!Next

\* Whatever clients, workers and configurations there are, and in whatever
\* order they read, empty and write the file: a token that a client gets is
\* its own and works, and a login is exchanged once and in time.
THEOREM TokensGood == ServicesSpec => []TokensAreGood
  <1> DEFINE Inv == focus = "auth" => TokenInv /\ LoginInv
  <1>1. ServicesInit => Inv
    BY PartStarts, TokenInvInit
  <1>2. Inv /\ [ServicesNext]_ServicesVars => Inv'
    BY PartMoves, TokenInvNext, LoginInvNext
  <1>3. Inv => TokensAreGood
    BY DEF TokensAreGood, TokenInv, LoginInv
  <1> QED BY <1>1, <1>2, <1>3, PTL DEF ServicesSpec

-----------------------------------------------------------------------------
(* ProviderInstances: for every set of tenants, keys, configurations and    *)
(* requests that run at once.  I is a table, C a cache.                     *)

Named(I, k) == {r \in I : r.key = k}
Shown(I, t) == {r \in I : t = "" \/ r.tenant = t}
HasEntry(C, u, k) == \E e \in C[u] : e.key = k

\* The cache holds a tenant as the table has it, or not at all.
TrueCache(I, C) == \A u \in Tenants : C[u] # {} => C[u] = Instances!Entries(Instances!OfTenant(I, u))

TableOk(I) ==
    /\ IsFiniteSet(I)
    /\ \A r \in I : r.tenant \in Tenants /\ r.key # ""
    /\ \A r, s \in I : r.tenant = s.tenant /\ r.key = s.key => r = s

\* The tenant has the key itself, and all it has can be read.
Own(I, t, k) ==
    /\ t # "" /\ Instances!Valid(Instances!OfTenant(I, t))
    /\ \E r \in Named(I, k) : r.tenant = t

\* The tenant and the key mean one instance or none.
Settled(I, t, k) == Named(I, k) = {} \/ (\E r \in I : Named(I, k) = {r}) \/ Own(I, t, k)

\* The instance is one that cannot be read but is cached where it is looked
\* for, as when its configuration became invalid after it was cached.
OnlyCached(C, r, t, k) == ~r.config.valid /\ r.tenant \in {t, ""} /\ HasEntry(C, r.tenant, k)

\* The application that a tenant and a key stand for.
Meant(I, C, a, t, k) ==
    \/ k = "" /\ a = Fallback /\ ~(Cardinality(Shown(I, t)) = 1 /\ Instances!Valid(Shown(I, t)))
    \/ k # "" /\ Named(I, k) = {} /\ a = Fallback
    \/ k # "" /\ \E r \in I : /\ Named(I, k) = {r}
                              /\ a = IF r.config.valid \/ OnlyCached(C, r, t, k) THEN Instances!App(r) ELSE Fallback
    \/ k # "" /\ Own(I, t, k) /\ \E r \in Named(I, k) : r.tenant = t /\ a = Instances!App(r)

\* The plan of a handler, of which n steps are left.
PlanOf(at, t) == IF at = "start" THEN Instances!StartPlan(t) ELSE Instances!CallbackPlan(t)
PlanSteps == [cached : BOOLEAN, tenant : Tenants]
PlanOk(at, t, p) ==
    /\ p \in Seq(PlanSteps) /\ Len(p) <= 4
    /\ \A i \in 1..Len(p) : p[i] = PlanOf(at, t)[4 - Len(p) + i]

\* With n steps left, a handler asks the cache, or the table, for tenant u.
CacheTurn(at, t, n, u) == (n = 4 /\ u = t) \/ (n = (IF at = "start" THEN 2 ELSE 3) /\ u = "")
TableTurn(at, t, n, u) == (n = (IF at = "start" THEN 3 ELSE 2) /\ u = t) \/ (n = 1 /\ u = "")

\* What a handler knows when n steps of its plan are left.
Path(I, C, at, t, k, n) ==
    /\ Own(I, t, k) => n = 4
    /\ n = 0 => \A r \in Named(I, k) : ~r.config.valid
    /\ \A r \in Named(I, k) : Named(I, k) = {r} /\ ~r.config.valid =>
          /\ n <= 3 /\ r.tenant = t => ~HasEntry(C, t, k)
          /\ n <= (IF at = "start" THEN 1 ELSE 2) /\ r.tenant = "" => ~HasEntry(C, "", k)

FlowFields == {"pc", "provider", "tenant", "key", "plan", "loading", "rows", "app", "url"}

FlowOk(f) ==
    \/ f.pc \in {"none", "done"}
    \/ /\ f.pc \in {"start", "away", "callback"} /\ DOMAIN f = FlowFields
       /\ f.provider = "atlassian" /\ f.tenant \in Tenants /\ f.loading \in BOOLEAN
       /\ f.pc # "start" => f.url = Instances!CallbackURL("atlassian")
       /\ f.pc # "away" => PlanOk(f.pc, f.tenant, f.plan)
       /\ f.loading = TRUE => f.pc # "away" /\ Len(f.plan) > 0 /\ f.key # "" /\ f.plan[1].cached = TRUE

\* A flow in which nothing was written or cached from elsewhere.
CalmFlow(I, C, f) ==
    f.pc \in {"start", "away", "callback"} =>
        /\ TrueCache(I, C)
        /\ f.loading = TRUE => C[f.plan[1].tenant] = {} /\ f.rows = Shown(I, f.plan[1].tenant)
        /\ f.pc = "start" /\ f.key # "" => Settled(I, f.tenant, f.key)
        /\ f.pc # "start" => Meant(I, C, f.app, f.tenant, f.key)
        /\ f.pc # "away" /\ f.key # "" => Path(I, C, f.pc, f.tenant, f.key, Len(f.plan))

AdminOk(q) ==
    q.pc \in {"config", "write"} =>
        DOMAIN q = {"pc", "tenant", "key", "config"} /\ q.tenant \in Tenants /\ q.key # ""

\* The inductive invariant.
PInv ==
    /\ TableOk(instances)
    /\ DOMAIN tenantCache = Tenants
    /\ DOMAIN admin = InstanceAdmins /\ \A a \in InstanceAdmins : AdminOk(admin[a])
    /\ FlowOk(flow)
    /\ calm \in BOOLEAN
    /\ calm = TRUE => CalmFlow(instances, tenantCache, flow)
    /\ Instances!SameApplication

\* A refresh keeps the cache true, and does not touch a tenant that has an
\* instance it cannot read.
LEMMA RefreshKeepsTrue ==
    ASSUME DOMAIN tenantCache = Tenants, TableOk(instances), NEW u \in Tenants,
           NEW C \in Instances!Refreshed(u, Shown(instances, u)),
           TrueCache(instances, tenantCache)
    PROVE  /\ TrueCache(instances, C)
           /\ \A r \in instances : ~r.config.valid => C[r.tenant] = tenantCache[r.tenant]
           /\ u # "" /\ Instances!Valid(Shown(instances, u)) =>
                 C[u] = Instances!Entries(Instances!OfTenant(instances, u))
  <1>1. CASE u # ""
    <2>1. Shown(instances, u) = Instances!OfTenant(instances, u)
      BY <1>1, Zenon DEF Shown, Instances!OfTenant
    <2>2. CASE Instances!Valid(Shown(instances, u))
      <3>1. C = [tenantCache EXCEPT ![u] = Instances!Entries(Shown(instances, u))]
        BY <1>1, <2>2, Zenon DEF Instances!Refreshed
      <3>2. \A r \in instances : ~r.config.valid => r.tenant # u
        BY <1>1, <2>2, Zenon DEF Instances!Valid, Shown
      <3> QED BY <2>1, <3>1, <3>2, Zenon DEF TrueCache, TableOk
    <2>3. CASE ~Instances!Valid(Shown(instances, u))
      <3>1. C = tenantCache
        BY <1>1, <2>3, Zenon DEF Instances!Refreshed
      <3> QED BY <2>3, <3>1, Zenon DEF TrueCache
    <2> QED BY <2>2, <2>3, Zenon
  <1>2. CASE u = ""
    <2> DEFINE good == {v \in Tenants : /\ Instances!OfTenant(instances, v) # {}
                                        /\ Instances!Valid(Instances!OfTenant(instances, v))}
               With(done, others) == [v \in Tenants |-> IF v \in done
                                                        THEN Instances!Entries(Instances!OfTenant(instances, v))
                                                        ELSE others[v]]
    <2>1. Shown(instances, u) = instances
      BY <1>2, Zenon DEF Shown
    <2>2. CASE Instances!Valid(instances)
      <3>1. C = With(good, [v \in Tenants |-> {}])
        BY <1>2, <2>1, <2>2, Zenon DEF Instances!Refreshed
      <3>2. \A r \in instances : r.config.valid
        BY <2>2 DEF Instances!Valid
      <3> QED BY <1>2, <3>1, <3>2, Zenon DEF TrueCache
    <2>3. CASE ~Instances!Valid(instances)
      <3>1. PICK done \in SUBSET good : C = With(done, tenantCache)
        <4>1. Instances!Refreshed(u, instances) = {With(done, tenantCache) : done \in SUBSET good}
          BY <1>2, <2>3, Zenon DEF Instances!Refreshed
        <4> HIDE DEF good, With
        <4> QED BY <2>1, <4>1
      <3>2. \A r \in instances : ~r.config.valid => r.tenant \notin done /\ r.tenant \in Tenants
        BY <3>1, Zenon DEF Instances!Valid, Instances!OfTenant, TableOk
      <3> QED BY <1>2, <3>1, <3>2, Zenon DEF TrueCache
    <2> QED BY <2>2, <2>3, Zenon
  <1> QED BY <1>1, <1>2, Zenon

\* A refresh leaves a cache.
LEMMA RefreshKeepsCache ==
    ASSUME DOMAIN tenantCache = Tenants, NEW u, NEW rows, NEW C \in Instances!Refreshed(u, rows)
    PROVE  DOMAIN C = Tenants
  BY Zenon DEF Instances!Refreshed

\* A tenant and a key stand for one application.
LEMMA MeantIsOne ==
    ASSUME NEW I, TableOk(I), NEW C, NEW a, NEW b, NEW t, NEW k, Meant(I, C, a, t, k), Meant(I, C, b, t, k)
    PROVE  a = b
  <1>1. CASE k = ""
    BY <1>1, Zenon DEF Meant
  <1>2. CASE k # "" /\ Named(I, k) = {}
    BY <1>2, Zenon DEF Meant, Own
  <1>3. CASE k # "" /\ \E r \in I : Named(I, k) = {r}
    <2>1. PICK r \in I : Named(I, k) = {r}
      BY <1>3, Zenon
    <2>2. Own(I, t, k) => r.tenant = t /\ r.config.valid
      BY <2>1, Zenon DEF Own, Named, Instances!Valid, Instances!OfTenant
    <2>3. ASSUME NEW c, Meant(I, C, c, t, k)
          PROVE  c = IF r.config.valid \/ OnlyCached(C, r, t, k) THEN Instances!App(r) ELSE Fallback
      BY <1>3, <2>1, <2>2, <2>3, Zenon DEF Meant
    <2> QED BY <2>3
  <1>4. CASE k # "" /\ Named(I, k) # {} /\ ~\E r \in I : Named(I, k) = {r}
    <2>1. PICK r \in Named(I, k) : r.tenant = t /\ a = Instances!App(r)
      BY <1>4, Zenon DEF Meant
    <2>2. PICK s \in Named(I, k) : s.tenant = t /\ b = Instances!App(s)
      BY <1>4, Zenon DEF Meant
    <2>3. r = s
      BY <2>1, <2>2, Zenon DEF TableOk, Named
    <2> QED BY <2>1, <2>2, <2>3
  <1> QED BY <1>1, <1>2, <1>3, <1>4, Zenon

\* What stands for something is settled.
LEMMA MeantIsSettled ==
    ASSUME NEW I, NEW C, NEW a, NEW t, NEW k, k # "", Meant(I, C, a, t, k)
    PROVE  Settled(I, t, k)
  BY Zenon DEF Meant, Settled

\* A refresh does not change what is meant, nor what a handler knows.
LEMMA MeantStays ==
    ASSUME NEW I, NEW C, NEW D, \A r \in I : ~r.config.valid => D[r.tenant] = C[r.tenant],
           NEW a, NEW t, NEW k, Meant(I, C, a, t, k)
    PROVE  Meant(I, D, a, t, k)
  <1>1. \A r \in I : OnlyCached(C, r, t, k) <=> OnlyCached(D, r, t, k)
    BY Zenon DEF OnlyCached, HasEntry
  <1> QED BY <1>1, Zenon DEF Meant

LEMMA PathStays ==
    ASSUME NEW I, NEW C, NEW D, \A r \in I : ~r.config.valid => D[r.tenant] = C[r.tenant],
           NEW at, NEW t, NEW k, NEW n, Path(I, C, at, t, k, n)
    PROVE  Path(I, D, at, t, k, n)
  BY Zenon DEF Path, HasEntry, Named

\* What the cache has for a key is what is meant.
LEMMA HitIsMeant ==
    ASSUME NEW I, TableOk(I), NEW C, TrueCache(I, C), NEW t, NEW k, k # "", Settled(I, t, k),
           NEW u \in Tenants, u \in {t, ""}, Own(I, t, k) => u = t,
           NEW e \in C[u], e.key = k
    PROVE  Meant(I, C, e.app, t, k)
  <1>1. PICK r \in I : r.tenant = u /\ r.key = k /\ e.app = Instances!App(r)
    <2>1. e \in Instances!Entries(Instances!OfTenant(I, u))
      BY Zenon DEF TrueCache
    <2>2. PICK r \in Instances!OfTenant(I, u) : e = [key |-> r.key, app |-> Instances!App(r)]
      BY <2>1, Zenon DEF Instances!Entries
    <2> QED BY <2>2, Zenon DEF Instances!OfTenant
  <1>2. r \in Named(I, k)
    BY <1>1, Zenon DEF Named
  <1>3. HasEntry(C, u, k)
    BY Zenon DEF HasEntry
  <1>4. CASE \E s \in I : Named(I, k) = {s}
    <2>1. Named(I, k) = {r}
      BY <1>2, <1>4, Zenon
    <2>2. r.config.valid \/ OnlyCached(C, r, t, k)
      BY <1>1, <1>3, Zenon DEF OnlyCached
    <2> QED BY <1>1, <2>1, <2>2, Zenon DEF Meant
  <1>5. CASE Own(I, t, k)
    BY <1>1, <1>2, <1>5, Zenon DEF Meant
  <1> QED BY <1>2, <1>4, <1>5, Zenon DEF Settled

\* What the table has for a key, when it can be read.
LEMMA RowIsMeant ==
    ASSUME NEW I, NEW C, NEW t, NEW k, k # "", Settled(I, t, k), ~Own(I, t, k),
           NEW r \in Named(I, k), r.config.valid
    PROVE  Meant(I, C, Instances!App(r), t, k)
  <1>1. Named(I, k) = {r} /\ r \in I
    BY Zenon DEF Settled, Named
  <1> QED BY <1>1, Zenon DEF Meant

\* The numbers of steps that are left.
LEMMA AtMostThree ==
    ASSUME NEW at, NEW n \in Nat, n <= (IF at = "start" THEN 1 ELSE 2)
    PROVE  n <= 3 /\ n # 4
  OBVIOUS

LEMMA UpToFour ==
    ASSUME NEW n \in Nat, n > 0, n <= 4
    PROVE  n \in {1, 2, 3, 4}
  OBVIOUS

LEMMA StepOfPlan ==
    ASSUME NEW n \in Nat
    PROVE  /\ n = 4 => 4 - n + 1 = 1
           /\ n = 3 => 4 - n + 1 = 2
           /\ n = 2 => 4 - n + 1 = 3
           /\ n = 1 => 4 - n + 1 = 4
  OBVIOUS

\* Nothing can be read, and nothing is cached.
LEMMA FallbackIsMeant ==
    ASSUME NEW I, NEW C, NEW at, NEW t, NEW k, k # "", Settled(I, t, k), NEW n \in Nat,
           n <= (IF at = "start" THEN 1 ELSE 2), Path(I, C, at, t, k, n),
           \A r \in Named(I, k) : ~r.config.valid
    PROVE  Meant(I, C, Fallback, t, k)
  <1>0. n <= 3 /\ n # 4
    BY AtMostThree, Zenon
  <1>1. ~Own(I, t, k)
    BY <1>0, Zenon DEF Path
  <1>2. CASE Named(I, k) = {}
    BY <1>2, Zenon DEF Meant
  <1>3. CASE \E r \in I : Named(I, k) = {r}
    <2>1. PICK r \in I : Named(I, k) = {r}
      BY <1>3, Zenon
    <2>2. ~r.config.valid
      BY <2>1, Zenon
    <2>3. ~OnlyCached(C, r, t, k)
      <3>1. r \in Named(I, k)
        BY <2>1, Zenon
      <3>2. r.tenant = t => ~HasEntry(C, t, k)
        BY <1>0, <2>1, <2>2, <3>1, Zenon DEF Path
      <3>3. r.tenant = "" => ~HasEntry(C, "", k)
        BY <2>1, <2>2, <3>1, Zenon DEF Path
      <3> QED BY <3>2, <3>3, Zenon DEF OnlyCached
    <2> QED BY <2>1, <2>2, <2>3, Zenon DEF Meant
  <1> QED BY <1>1, <1>2, <1>3, Zenon DEF Settled

\* One step of the plan less.
LEMMA PlanTail ==
    ASSUME NEW at, NEW t, NEW p, PlanOk(at, t, p), Len(p) > 0
    PROVE  PlanOk(at, t, Tail(p)) /\ Len(Tail(p)) = Len(p) - 1 /\ Len(p) \in {1, 2, 3, 4}
  <1>0. p \in Seq(PlanSteps) /\ Len(p) <= 4
    BY DEF PlanOk
  <1>1. p \in Seq(PlanSteps) /\ Len(p) \in Nat /\ p # << >> /\ Len(p) \in {1, 2, 3, 4}
    <2>1. Len(p) \in Nat /\ p # << >>
      BY <1>0
    <2> QED BY <1>0, <2>1, UpToFour
  <1>2. Tail(p) \in Seq(PlanSteps) /\ Len(Tail(p)) = Len(p) - 1 /\ \A i \in 1..Len(p) - 1 : Tail(p)[i] = p[i + 1]
    BY <1>1
  <1>3. \A i \in 1..Len(p) - 1 : i + 1 \in 1..Len(p) /\ 4 - Len(p) + (i + 1) = 4 - (Len(p) - 1) + i
    BY <1>1
  <1> QED BY <1>1, <1>2, <1>3 DEF PlanOk

LEMMA CacheTurnIs ==
    ASSUME NEW at, NEW t, NEW n \in Nat, NEW u, CacheTurn(at, t, n, u)
    PROVE  (n = 4 => u = t) /\ u \in {t, ""}
  <1>1. CASE n = 4 /\ u = t
    BY <1>1
  <1>2. CASE n = (IF at = "start" THEN 2 ELSE 3) /\ u = ""
    <2>1. n = 2 \/ n = 3
      BY <1>2, Zenon
    <2>2. n # 4
      BY <2>1
    <2> QED BY <1>2, <2>2, Zenon
  <1> QED BY <1>1, <1>2, Zenon DEF CacheTurn

LEMMA TableTurnIs ==
    ASSUME NEW at, NEW t, NEW n \in Nat, NEW u, TableTurn(at, t, n, u)
    PROVE  n # 4 /\ (n = 1 => u = "") /\ (at = "callback" => n <= (IF at = "start" THEN 1 ELSE 2))
  <1>1. CASE n = 1 /\ u = ""
    <2>1. n = 1 => n # 4 /\ n <= 1 /\ n <= 2
      OBVIOUS
    <2> QED BY <1>1, <2>1, Zenon
  <1>2. CASE n = (IF at = "start" THEN 3 ELSE 2) /\ u = t
    <2>1. n = 3 \/ n = 2
      BY <1>2, Zenon
    <2>2. at = "callback" => at # "start"
      OBVIOUS
    <2>3. at = "callback" => n = 2
      BY <1>2, <2>2, Zenon
    <2>4. n # 4 /\ n # 1 /\ (n = 2 => n <= 2)
      BY <2>1
    <2> QED BY <2>2, <2>3, <2>4, Zenon
  <1> QED BY <1>1, <1>2, Zenon DEF TableTurn

\* The plans ask the cache at these steps, and the table at these.
LEMMA PlanStep ==
    ASSUME NEW at \in {"start", "callback"}, NEW t, NEW p, PlanOk(at, t, p), Len(p) > 0
    PROVE  /\ p[1].tenant \in Tenants
           /\ p[1].cached = TRUE => /\ CacheTurn(at, t, Len(p), p[1].tenant)
                                    /\ Len(p) = 4 => p[1].tenant = t
                                    /\ p[1].tenant \in {t, ""}
           /\ p[1].cached # TRUE => TableTurn(at, t, Len(p), p[1].tenant)
  <1>0. Len(p) \in {1, 2, 3, 4}
    BY PlanTail
  <1>1. p \in Seq(PlanSteps) /\ 1 \in 1..Len(p) /\ Len(p) \in Nat
    BY <1>0 DEF PlanOk
  <1>2. p[1] = PlanOf(at, t)[4 - Len(p) + 1] /\ p[1] \in PlanSteps
    BY <1>1 DEF PlanOk
  <1>3. p[1].tenant \in Tenants
    BY <1>2 DEF PlanSteps
  <1>4. /\ Len(p) = 4 => 4 - Len(p) + 1 = 1
        /\ Len(p) = 3 => 4 - Len(p) + 1 = 2
        /\ Len(p) = 2 => 4 - Len(p) + 1 = 3
        /\ Len(p) = 1 => 4 - Len(p) + 1 = 4
    BY <1>1, StepOfPlan
  <1>5. ASSUME at = "start"
        PROVE  /\ p[1].cached = TRUE => CacheTurn(at, t, Len(p), p[1].tenant)
               /\ p[1].cached # TRUE => TableTurn(at, t, Len(p), p[1].tenant)
    <2>1. /\ PlanOf(at, t)[1].cached = TRUE /\ PlanOf(at, t)[1].tenant = t
          /\ PlanOf(at, t)[2].cached = FALSE /\ PlanOf(at, t)[2].tenant = t
          /\ PlanOf(at, t)[3].cached = TRUE /\ PlanOf(at, t)[3].tenant = ""
          /\ PlanOf(at, t)[4].cached = FALSE /\ PlanOf(at, t)[4].tenant = ""
      BY <1>5, Zenon DEF PlanOf, Instances!StartPlan
    <2>2. /\ Len(p) = 4 => p[1].cached = TRUE /\ p[1].tenant = t
          /\ Len(p) = 3 => p[1].cached = FALSE /\ p[1].tenant = t
          /\ Len(p) = 2 => p[1].cached = TRUE /\ p[1].tenant = ""
          /\ Len(p) = 1 => p[1].cached = FALSE /\ p[1].tenant = ""
      BY <1>2, <1>4, <2>1, Zenon
    <2> QED BY <1>0, <1>3, <1>5, <2>2, Zenon DEF CacheTurn, TableTurn
  <1>6. ASSUME at = "callback"
        PROVE  /\ p[1].cached = TRUE => CacheTurn(at, t, Len(p), p[1].tenant)
               /\ p[1].cached # TRUE => TableTurn(at, t, Len(p), p[1].tenant)
    <2>1. /\ PlanOf(at, t)[1].cached = TRUE /\ PlanOf(at, t)[1].tenant = t
          /\ PlanOf(at, t)[2].cached = TRUE /\ PlanOf(at, t)[2].tenant = ""
          /\ PlanOf(at, t)[3].cached = FALSE /\ PlanOf(at, t)[3].tenant = t
          /\ PlanOf(at, t)[4].cached = FALSE /\ PlanOf(at, t)[4].tenant = ""
      BY <1>6, Zenon DEF PlanOf, Instances!CallbackPlan
    <2>2. /\ Len(p) = 4 => p[1].cached = TRUE /\ p[1].tenant = t
          /\ Len(p) = 3 => p[1].cached = TRUE /\ p[1].tenant = ""
          /\ Len(p) = 2 => p[1].cached = FALSE /\ p[1].tenant = t
          /\ Len(p) = 1 => p[1].cached = FALSE /\ p[1].tenant = ""
      BY <1>2, <1>4, <2>1, Zenon
    <2>3. at # "start"
      BY <1>6
    <2> QED BY <1>0, <1>3, <2>2, <2>3, Zenon DEF CacheTurn, TableTurn
  <1>7. p[1].cached = TRUE => CacheTurn(at, t, Len(p), p[1].tenant)
    BY <1>5, <1>6
  <1>8. p[1].cached # TRUE => TableTurn(at, t, Len(p), p[1].tenant)
    BY <1>5, <1>6
  <1>9. CacheTurn(at, t, Len(p), p[1].tenant) => (Len(p) = 4 => p[1].tenant = t) /\ p[1].tenant \in {t, ""}
    <2> DEFINE n == Len(p)
               u == p[1].tenant
    <2>1. n \in Nat
      BY <1>1
    <2> HIDE DEF n, u
    <2>2. CacheTurn(at, t, n, u) => (n = 4 => u = t) /\ u \in {t, ""}
      BY <2>1, CacheTurnIs, Zenon
    <2> QED BY <2>2, Zenon DEF n, u
  <1> QED BY <1>3, <1>7, <1>8, <1>9, Zenon

\* The numbers of steps that are left after one more.
LEMMA AfterCache ==
    ASSUME NEW n \in Nat
    PROVE  /\ n = 4 => n - 1 # 0 /\ n - 1 <= 3 /\ n - 1 # 4 /\ ~(n - 1 <= 2) /\ ~(n - 1 <= 1)
           /\ n = 2 => n - 1 # 0 /\ n - 1 <= 3 /\ n - 1 # 4 /\ n <= 3
           /\ n = 3 => n - 1 # 0 /\ n - 1 <= 3 /\ n - 1 # 4 /\ n <= 3 /\ ~(n - 1 <= 1)
  OBVIOUS

LEMMA AfterTable ==
    ASSUME NEW n \in Nat, n \in {1, 2, 3}
    PROVE  /\ n - 1 # 4 /\ n <= 3 /\ n # 4
           /\ n - 1 = 0 => n = 1
           /\ n = 3 => ~(n - 1 <= 1)
           /\ n = 2 => n <= 2
           /\ n = 1 => n <= 2 /\ n <= 1
  OBVIOUS

\* A step of the plan that did not find the key in the cache.
LEMMA PathAfterCache ==
    ASSUME NEW I, NEW C, NEW at, NEW t, NEW k, NEW n \in Nat, NEW u, Path(I, C, at, t, k, n), ~Own(I, t, k),
           CacheTurn(at, t, n, u),
           \A r \in Named(I, k) : ~r.config.valid /\ r.tenant = u => ~HasEntry(C, u, k)
    PROVE  Path(I, C, at, t, k, n - 1)
  <1>0. (n = 4 /\ u = t) \/ (n = (IF at = "start" THEN 2 ELSE 3) /\ u = "")
    BY Zenon DEF CacheTurn
  <1>1. n - 1 # 0
    BY <1>0, AfterCache, Zenon
  <1>2. ASSUME NEW r \in Named(I, k), Named(I, k) = {r}, ~r.config.valid
        PROVE  /\ n - 1 <= 3 /\ r.tenant = t => ~HasEntry(C, t, k)
               /\ n - 1 <= (IF at = "start" THEN 1 ELSE 2) /\ r.tenant = "" => ~HasEntry(C, "", k)
    <2>1. n <= 3 /\ r.tenant = t => ~HasEntry(C, t, k)
      BY <1>2, Zenon DEF Path
    <2>2. r.tenant = u => ~HasEntry(C, u, k)
      BY <1>2
    <2>3. n = 4 \/ n <= 3
      BY <1>0, AfterCache, Zenon
    <2>4. n = 4 => ~(n - 1 <= (IF at = "start" THEN 1 ELSE 2))
      BY <1>0, AfterCache
    <2> HIDE DEF HasEntry, Named
    <2> QED BY <1>0, <2>1, <2>2, <2>3, <2>4, AfterCache, Zenon
  <1> QED BY <1>1, <1>2, Zenon DEF Path

\* A step of the plan that did not find in the table what can be read.
LEMMA PathAfterTable ==
    ASSUME NEW I, NEW C, NEW at, NEW t, NEW k, NEW n \in Nat, NEW u, Path(I, C, at, t, k, n),
           TableTurn(at, t, n, u),
           n = 1 => \A r \in Named(I, k) : ~r.config.valid
    PROVE  Path(I, C, at, t, k, n - 1)
  <1>0. n \in {1, IF at = "start" THEN 3 ELSE 2} /\ n \in {1, 2, 3}
    BY Zenon DEF TableTurn
  <1>1. n - 1 = 0 => \A r \in Named(I, k) : ~r.config.valid
    BY <1>0, AfterTable
  <1>2. ASSUME NEW r \in Named(I, k), Named(I, k) = {r}, ~r.config.valid
        PROVE  /\ n - 1 <= 3 /\ r.tenant = t => ~HasEntry(C, t, k)
               /\ n - 1 <= (IF at = "start" THEN 1 ELSE 2) /\ r.tenant = "" => ~HasEntry(C, "", k)
    <2>1. /\ n <= 3 /\ r.tenant = t => ~HasEntry(C, t, k)
          /\ n <= (IF at = "start" THEN 1 ELSE 2) /\ r.tenant = "" => ~HasEntry(C, "", k)
      BY <1>2, Zenon DEF Path
    <2>2. n - 1 <= (IF at = "start" THEN 1 ELSE 2) => n <= (IF at = "start" THEN 1 ELSE 2)
      BY <1>0, AfterTable
    <2> QED BY <1>0, <2>1, <2>2, AfterTable, Zenon
  <1>3. ~Own(I, t, k)
    BY <1>0, AfterTable, Zenon DEF Path
  <1> QED BY <1>1, <1>2, <1>3, Zenon DEF Path

\* What a step of a handler leaves.
Kept(C, f) ==
    /\ FlowOk(f)
    /\ calm = TRUE => /\ CalmFlow(instances, C, f)
                      /\ f.pc = "done" => f.exchanged = f.authorised /\ f.urls[1] = f.urls[2]

LEMMA FoundKeeps ==
    ASSUME FlowOk(flow), flow.pc \in {"start", "callback"}, NEW C, NEW app, NEW k, Instances!Found(app, k),
           calm = TRUE => /\ TrueCache(instances, C)
                          /\ flow.pc = "start" => Meant(instances, C, app, flow.tenant, k)
                          /\ flow.pc = "callback" => app = flow.app
    PROVE  Kept(C, flow')
  <1>0. /\ DOMAIN flow = FlowFields /\ flow.provider = "atlassian" /\ flow.tenant \in Tenants
        /\ flow.pc = "callback" => flow.url = Instances!CallbackURL("atlassian")
    BY Zenon DEF FlowOk
  <1>1. CASE flow.pc = "start" /\ app = ""
    <2>0. flow' = Instances!NoFlow
      BY <1>1, Zenon DEF Instances!Found
    <2>1. flow'.pc = "none"
      BY <2>0 DEF Instances!NoFlow
    <2> QED BY <2>1, Zenon DEF Kept, FlowOk, CalmFlow
  <1>2. CASE flow.pc = "start" /\ app # ""
    <2>1. flow' = [flow EXCEPT !.pc = "away", !.app = app, !.url = Instances!CallbackURL(flow.provider),
                               !.tenant = flow.tenant, !.key = k, !.loading = FALSE, !.rows = {}]
      BY <1>2, Zenon DEF Instances!Found, Instances!EncodeState
    <2>2. /\ DOMAIN flow' = FlowFields /\ flow'.pc = "away" /\ flow'.app = app /\ flow'.tenant = flow.tenant
          /\ flow'.url = Instances!CallbackURL("atlassian") /\ flow'.key = k /\ flow'.loading = FALSE
          /\ flow'.provider = "atlassian"
      BY <1>0, <2>1 DEF FlowFields
    <2> QED BY <1>0, <1>2, <2>2, Zenon DEF Kept, FlowOk, CalmFlow
  <1>3. CASE flow.pc = "callback"
    <2>1. flow' = [pc |-> "done", authorised |-> flow.app, exchanged |-> app,
                   urls |-> <<flow.url, Instances!CallbackURL("atlassian")>>]
      BY <1>3 DEF Instances!Found
    <2>2. flow'.pc = "done" /\ flow'.authorised = flow.app /\ flow'.exchanged = app
      BY <2>1
    <2>3. flow'.urls[1] = flow'.urls[2]
      BY <1>0, <1>3, <2>1
    <2> QED BY <1>3, <2>2, <2>3, Zenon DEF Kept, FlowOk, CalmFlow
  <1> QED BY <1>1, <1>2, <1>3, Zenon

LEMMA NextStepKeeps ==
    ASSUME FlowOk(flow), flow.pc \in {"start", "callback"}, Len(flow.plan) > 0, flow.key # "", NEW C,
           Instances!NextStep,
           calm = TRUE => /\ TrueCache(instances, C)
                          /\ flow.pc = "start" => Settled(instances, flow.tenant, flow.key)
                          /\ flow.pc = "callback" => Meant(instances, C, flow.app, flow.tenant, flow.key)
                          /\ Path(instances, C, flow.pc, flow.tenant, flow.key, Len(flow.plan) - 1)
    PROVE  Kept(C, flow')
  <1>1. /\ DOMAIN flow = FlowFields /\ flow.provider = "atlassian" /\ flow.tenant \in Tenants
        /\ flow.pc # "start" => flow.url = Instances!CallbackURL("atlassian")
        /\ PlanOk(flow.pc, flow.tenant, flow.plan)
    BY Zenon DEF FlowOk
  <1>2. flow' = [flow EXCEPT !.plan = Tail(flow.plan), !.loading = FALSE, !.rows = {}]
    BY Zenon DEF Instances!NextStep
  <1>3. /\ DOMAIN flow' = FlowFields /\ flow'.pc = flow.pc /\ flow'.provider = flow.provider
        /\ flow'.tenant = flow.tenant /\ flow'.key = flow.key /\ flow'.plan = Tail(flow.plan)
        /\ flow'.loading = FALSE /\ flow'.app = flow.app /\ flow'.url = flow.url
    BY <1>1, <1>2, Zenon DEF FlowFields
  <1>4. PlanOk(flow.pc, flow.tenant, Tail(flow.plan)) /\ Len(Tail(flow.plan)) = Len(flow.plan) - 1
    BY <1>1, PlanTail, Zenon
  <1>5. FlowOk(flow')
    BY <1>1, <1>3, <1>4, Zenon DEF FlowOk
  <1>6. calm = TRUE => CalmFlow(instances, C, flow')
    BY <1>3, <1>4, Zenon DEF CalmFlow
  <1> QED BY <1>3, <1>5, <1>6, Zenon DEF Kept

LEMMA KeptIsEnough ==
    ASSUME PInv, UNCHANGED <<instances, admin, calm>>, DOMAIN tenantCache' = Tenants, Kept(tenantCache', flow')
    PROVE  PInv'
  <1>1. FlowOk(flow') /\ (calm' = TRUE => CalmFlow(instances', tenantCache', flow'))
    BY DEF Kept
  <1>2. Instances!SameApplication'
    BY DEF Kept, Instances!SameApplication, PInv
  <1>3. TableOk(instances') /\ DOMAIN admin' = InstanceAdmins /\ \A a \in InstanceAdmins : AdminOk(admin'[a])
    BY DEF PInv
  <1> QED BY <1>1, <1>2, <1>3 DEF PInv

\* What the invariant says while a handler looks for an instance.
LEMMA HandlerKnows ==
    ASSUME PInv, flow.pc \in {"start", "callback"}
    PROVE  /\ FlowOk(flow) /\ TableOk(instances) /\ DOMAIN tenantCache = Tenants
           /\ PlanOk(flow.pc, flow.tenant, flow.plan) /\ flow.tenant \in Tenants /\ flow.loading \in BOOLEAN
           /\ Len(flow.plan) \in Nat
           /\ calm = TRUE =>
                 /\ TrueCache(instances, tenantCache)
                 /\ flow.pc = "callback" => Meant(instances, tenantCache, flow.app, flow.tenant, flow.key)
                 /\ flow.key # "" => /\ Settled(instances, flow.tenant, flow.key)
                                     /\ Path(instances, tenantCache, flow.pc, flow.tenant, flow.key, Len(flow.plan))
                 /\ flow.loading = TRUE => /\ tenantCache[flow.plan[1].tenant] = {}
                                           /\ flow.rows = Shown(instances, flow.plan[1].tenant)
  <1>1. FlowOk(flow) /\ TableOk(instances) /\ DOMAIN tenantCache = Tenants
    BY DEF PInv
  <1>2. PlanOk(flow.pc, flow.tenant, flow.plan) /\ flow.tenant \in Tenants /\ flow.loading \in BOOLEAN
    BY <1>1, Zenon DEF FlowOk
  <1>3. Len(flow.plan) \in Nat
    BY <1>2 DEF PlanOk
  <1>4. calm = TRUE => CalmFlow(instances, tenantCache, flow)
    BY DEF PInv
  <1>5. calm = TRUE => /\ TrueCache(instances, tenantCache)
                       /\ flow.pc = "start" /\ flow.key # "" => Settled(instances, flow.tenant, flow.key)
                       /\ flow.pc = "callback" => Meant(instances, tenantCache, flow.app, flow.tenant, flow.key)
                       /\ flow.key # "" =>
                              Path(instances, tenantCache, flow.pc, flow.tenant, flow.key, Len(flow.plan))
                       /\ flow.loading = TRUE => /\ tenantCache[flow.plan[1].tenant] = {}
                                                 /\ flow.rows = Shown(instances, flow.plan[1].tenant)
    BY <1>4, Zenon DEF CalmFlow
  <1>6. calm = TRUE /\ flow.key # "" => Settled(instances, flow.tenant, flow.key)
    BY <1>5, MeantIsSettled, Zenon
  <1> QED BY <1>1, <1>2, <1>3, <1>5, <1>6, Zenon

\* A tenant that has the key is in what its entries are.
LEMMA OwnIsEntry ==
    ASSUME NEW I, NEW t, NEW k, Own(I, t, k)
    PROVE  \E e \in Instances!Entries(Instances!OfTenant(I, t)) : e.key = k
  <1>1. PICK r \in Named(I, k) : r.tenant = t
    BY Zenon DEF Own
  <1>2. r \in Instances!OfTenant(I, t) /\ r.key = k
    BY <1>1 DEF Named, Instances!OfTenant
  <1>3. [key |-> r.key, app |-> Instances!App(r)] \in Instances!Entries(Instances!OfTenant(I, t))
    BY <1>2 DEF Instances!Entries
  <1> QED BY <1>2, <1>3

\* Where a handler asks the cache.
LEMMA CacheStep ==
    ASSUME PInv, flow.pc \in {"start", "callback"}, Len(flow.plan) > 0, flow.plan[1].cached = TRUE
    PROVE  /\ flow.plan[1].tenant \in Tenants
           /\ CacheTurn(flow.pc, flow.tenant, Len(flow.plan), flow.plan[1].tenant)
           /\ Len(flow.plan) = 4 => flow.plan[1].tenant = flow.tenant
           /\ flow.plan[1].tenant \in {flow.tenant, ""}
  <1>1. PlanOk(flow.pc, flow.tenant, flow.plan)
    BY HandlerKnows, Zenon
  <1> QED BY <1>1, PlanStep, Zenon

LEMMA PlanSome ==
    ASSUME NEW at \in {"start", "callback"}, NEW t, NEW p, PlanOk(at, t, p), p # << >>
    PROVE  Len(p) > 0 /\ p[1].tenant \in Tenants /\ p[1].cached \in BOOLEAN
  <1>1. p \in Seq(PlanSteps) /\ Len(p) \in Nat
    BY DEF PlanOk
  <1>2. Len(p) > 0 /\ 1 \in 1..Len(p)
    BY <1>1
  <1>3. p[1] \in PlanSteps
    BY <1>1, <1>2
  <1> QED BY <1>2, <1>3 DEF PlanSteps

LEMMA EmptyHasNone == Len(<< >>) = 0
  OBVIOUS

\* What the cache answers, after a load or without one.
LEMMA CacheAnswers ==
    ASSUME PInv, flow.pc \in {"start", "callback"}, flow.key # "", Len(flow.plan) > 0, flow.plan[1].cached = TRUE,
           NEW C, NEW hits, hits \subseteq {e \in C[flow.plan[1].tenant] : e.key = flow.key},
           calm = TRUE =>
              /\ TrueCache(instances, C)
              /\ \A r \in instances : ~r.config.valid => C[r.tenant] = tenantCache[r.tenant]
              /\ Own(instances, flow.tenant, flow.key) /\ flow.plan[1].tenant = flow.tenant => hits # {}
              /\ hits = {} => \A r \in Named(instances, flow.key) :
                                  ~r.config.valid /\ r.tenant = flow.plan[1].tenant =>
                                     ~HasEntry(C, r.tenant, flow.key),
           IF hits = {} THEN Instances!NextStep ELSE \E e \in hits : Instances!Found(e.app, flow.key)
    PROVE  Kept(C, flow')
  <1> DEFINE n == Len(flow.plan)
             u == flow.plan[1].tenant
             t == flow.tenant
             k == flow.key
  <1>1. /\ FlowOk(flow) /\ TableOk(instances) /\ PlanOk(flow.pc, t, flow.plan) /\ n \in Nat
    BY HandlerKnows, Zenon
  <1>2. u \in Tenants /\ CacheTurn(flow.pc, t, n, u) /\ (n = 4 => u = t) /\ u \in {t, ""}
    BY CacheStep, Zenon
  <1>3. calm = TRUE =>
           /\ Settled(instances, t, k) /\ Path(instances, C, flow.pc, t, k, n)
           /\ flow.pc = "callback" => Meant(instances, C, flow.app, t, k)
    <2> SUFFICES ASSUME calm = TRUE
                 PROVE  /\ Settled(instances, t, k) /\ Path(instances, C, flow.pc, t, k, n)
                        /\ flow.pc = "callback" => Meant(instances, C, flow.app, t, k)
      BY Zenon
    <2>1. /\ Settled(instances, t, k) /\ Path(instances, tenantCache, flow.pc, t, k, n)
          /\ flow.pc = "callback" => Meant(instances, tenantCache, flow.app, t, k)
      BY HandlerKnows, Zenon
    <2>2. \A r \in instances : ~r.config.valid => C[r.tenant] = tenantCache[r.tenant]
      BY Zenon
    <2>3. Path(instances, C, flow.pc, t, k, n)
      BY <2>1, <2>2, PathStays, Zenon
    <2>4. flow.pc = "callback" => Meant(instances, C, flow.app, t, k)
      BY <2>1, <2>2, MeantStays, Zenon
    <2> QED BY <2>1, <2>3, <2>4, Zenon
  <1>4. calm = TRUE => (Own(instances, t, k) => n = 4 /\ u = t)
    BY <1>2, <1>3, Zenon DEF Path
  <1>5. CASE hits = {}
    <2>1. Instances!NextStep
      BY <1>5, Zenon
    <2>2. calm = TRUE => Path(instances, C, flow.pc, t, k, n - 1)
      <3> SUFFICES ASSUME calm = TRUE PROVE Path(instances, C, flow.pc, t, k, n - 1)
        BY Zenon
      <3>1. ~Own(instances, t, k)
        BY <1>4, <1>5, Zenon
      <3>2. \A r \in Named(instances, k) : ~r.config.valid /\ r.tenant = u => ~HasEntry(C, u, k)
        BY <1>5, Zenon
      <3>3. Path(instances, C, flow.pc, t, k, n)
        BY <1>3, Zenon
      <3> HIDE DEF n, u, t, k
      <3> QED BY <1>1, <1>2, <3>1, <3>2, <3>3, PathAfterCache, Zenon
    <2> QED BY <1>1, <1>3, <2>1, <2>2, NextStepKeeps, Zenon
  <1>6. CASE hits # {}
    <2>1. PICK e \in hits : Instances!Found(e.app, k)
      BY <1>6, Zenon
    <2>2. calm = TRUE => Meant(instances, C, e.app, t, k)
      <3> SUFFICES ASSUME calm = TRUE PROVE Meant(instances, C, e.app, t, k)
        BY Zenon
      <3>1. e \in C[u] /\ e.key = k /\ k # ""
        BY <2>1, Zenon
      <3>2. Settled(instances, t, k) /\ TrueCache(instances, C) /\ u \in {t, ""} /\ (Own(instances, t, k) => u = t)
        BY <1>2, <1>3, <1>4, Zenon
      <3> HIDE DEF u, t, k
      <3> QED BY <1>1, <1>2, <3>1, <3>2, HitIsMeant, Zenon
    <2>3. calm = TRUE /\ flow.pc = "callback" => e.app = flow.app
      BY <1>1, <1>3, <2>2, MeantIsOne, Zenon
    <2> QED BY <1>1, <2>1, <2>2, <2>3, FoundKeeps, Zenon
  <1> QED BY <1>5, <1>6, Zenon

LEMMA ConfigForKeeps ==
    ASSUME PInv, Instances!ConfigFor
    PROVE  PInv'
  <1> DEFINE u == flow.plan[1].tenant
             hits == {e \in tenantCache[u] : e.key = flow.key}
  <1>1. /\ flow.pc \in {"start", "callback"} /\ flow.key # "" /\ flow.plan # << >> /\ flow.plan[1].cached
        /\ tenantCache[u] # {}
        /\ IF hits = {} THEN Instances!NextStep ELSE \E e \in hits : Instances!Found(e.app, flow.key)
        /\ UNCHANGED <<instances, tenantCache, admin, calm>>
    BY Zenon DEF Instances!ConfigFor, Instances!Looking, Instances!NoKey, Instances!Step
  <1>2. PlanOk(flow.pc, flow.tenant, flow.plan)
    BY <1>1, HandlerKnows, Zenon
  <1>3. Len(flow.plan) > 0 /\ flow.plan[1].cached = TRUE /\ u \in Tenants
    BY <1>1, <1>2, PlanSome, Zenon
  <1>4. calm = TRUE => /\ TrueCache(instances, tenantCache)
                       /\ Own(instances, flow.tenant, flow.key) /\ u = flow.tenant => hits # {}
    <2> SUFFICES ASSUME calm = TRUE
                 PROVE  /\ TrueCache(instances, tenantCache)
                        /\ Own(instances, flow.tenant, flow.key) /\ u = flow.tenant => hits # {}
      OBVIOUS
    <2>1. TrueCache(instances, tenantCache)
      BY <1>1, HandlerKnows, Zenon
    <2>2. tenantCache[u] = Instances!Entries(Instances!OfTenant(instances, u))
      BY <1>1, <1>3, <2>1, Zenon DEF TrueCache
    <2> QED BY <2>1, <2>2, OwnIsEntry
  <1>5. hits = {} => \A r \in Named(instances, flow.key) :
                        ~r.config.valid /\ r.tenant = u => ~HasEntry(tenantCache, r.tenant, flow.key)
    BY DEF HasEntry
  <1>6. hits \subseteq {e \in tenantCache[u] : e.key = flow.key}
    OBVIOUS
  <1>7. Kept(tenantCache, flow')
    <2> HIDE DEF hits
    <2> QED BY <1>1, <1>3, <1>4, <1>5, <1>6, CacheAnswers, Zenon
  <1>8. DOMAIN tenantCache' = Tenants /\ tenantCache' = tenantCache
    BY <1>1, Zenon DEF PInv
  <1> QED BY <1>1, <1>7, <1>8, KeptIsEnough, Zenon

LEMMA LoadReadsKeeps ==
    ASSUME PInv, Instances!LoadReads
    PROVE  PInv'
  <1> DEFINE u == flow.plan[1].tenant
  <1>1. /\ flow.pc \in {"start", "callback"} /\ flow.key # "" /\ flow.plan # << >> /\ flow.plan[1].cached
        /\ tenantCache[u] = {}
        /\ flow' = [flow EXCEPT !.loading = TRUE, !.rows = Instances!ListProviderInstances(u)]
        /\ UNCHANGED <<instances, tenantCache, admin, calm>>
    BY Zenon DEF Instances!LoadReads, Instances!Looking, Instances!NoKey, Instances!Step
  <1>2. PlanOk(flow.pc, flow.tenant, flow.plan) /\ FlowOk(flow)
    BY <1>1, HandlerKnows, Zenon
  <1>3. Len(flow.plan) > 0 /\ flow.plan[1].cached = TRUE /\ u \in Tenants
    BY <1>1, <1>2, PlanSome, Zenon
  <1>4. Instances!ListProviderInstances(u) = Shown(instances, u)
    BY DEF Instances!ListProviderInstances, Instances!Scope, Shown
  <1>5. DOMAIN flow = FlowFields
    BY <1>1, <1>2, Zenon DEF FlowOk
  <1>6. /\ DOMAIN flow' = FlowFields /\ flow'.pc = flow.pc /\ flow'.provider = flow.provider
        /\ flow'.tenant = flow.tenant /\ flow'.key = flow.key /\ flow'.plan = flow.plan
        /\ flow'.loading = TRUE /\ flow'.rows = Shown(instances, u) /\ flow'.app = flow.app /\ flow'.url = flow.url
    BY <1>1, <1>4, <1>5, Zenon DEF FlowFields
  <1>7. FlowOk(flow')
    BY <1>1, <1>2, <1>3, <1>6, Zenon DEF FlowOk
  <1>8. calm = TRUE => CalmFlow(instances, tenantCache, flow')
    <2>1. calm = TRUE => CalmFlow(instances, tenantCache, flow)
      BY DEF PInv
    <2> QED BY <1>1, <1>6, <2>1, Zenon DEF CalmFlow
  <1>9. Kept(tenantCache, flow')
    BY <1>1, <1>6, <1>7, <1>8, Zenon DEF Kept
  <1>10. DOMAIN tenantCache' = Tenants /\ tenantCache' = tenantCache
    BY <1>1, Zenon DEF PInv
  <1> QED BY <1>1, <1>9, <1>10, KeptIsEnough, Zenon

LEMMA LoadSetsKeeps ==
    ASSUME PInv, Instances!LoadSets
    PROVE  PInv'
  <1> DEFINE u == flow.plan[1].tenant
             t == flow.tenant
             k == flow.key
  <1>1. /\ flow.pc \in {"start", "callback"} /\ flow.loading
        /\ UNCHANGED <<instances, admin, calm>>
    BY DEF Instances!LoadSets, Instances!Looking
  <1>2. PICK C \in Instances!Refreshed(u, flow.rows) :
           /\ tenantCache' = C
           /\ LET hits == {e \in C[u] : Instances!Valid(flow.rows) /\ e.key = k}
              IN  IF hits = {} THEN Instances!NextStep ELSE \E e \in hits : Instances!Found(e.app, k)
    BY DEF Instances!LoadSets, Instances!Step
  <1> DEFINE hits == {e \in C[u] : Instances!Valid(flow.rows) /\ e.key = k}
  <1>3. FlowOk(flow) /\ TableOk(instances) /\ DOMAIN tenantCache = Tenants /\ flow.loading = TRUE
    BY <1>1, HandlerKnows, Zenon
  <1>4. Len(flow.plan) > 0 /\ k # "" /\ flow.plan[1].cached = TRUE
    BY <1>1, <1>3, Zenon DEF FlowOk
  <1>5. u \in Tenants
    BY <1>1, <1>4, CacheStep, Zenon
  <1>6. DOMAIN C = Tenants
    BY <1>3, RefreshKeepsCache
  <1>7. calm = TRUE =>
           /\ TrueCache(instances, C)
           /\ \A r \in instances : ~r.config.valid => C[r.tenant] = tenantCache[r.tenant]
           /\ Own(instances, t, k) /\ u = t => hits # {}
           /\ hits = {} => \A r \in Named(instances, k) : ~r.config.valid /\ r.tenant = u => ~HasEntry(C, r.tenant, k)
    <2> SUFFICES ASSUME calm = TRUE
                 PROVE  /\ TrueCache(instances, C)
                        /\ \A r \in instances : ~r.config.valid => C[r.tenant] = tenantCache[r.tenant]
                        /\ Own(instances, t, k) /\ u = t => hits # {}
                        /\ hits = {} => \A r \in Named(instances, k) :
                                           ~r.config.valid /\ r.tenant = u => ~HasEntry(C, r.tenant, k)
      OBVIOUS
    <2>1. /\ TrueCache(instances, tenantCache) /\ tenantCache[u] = {} /\ flow.rows = Shown(instances, u)
      BY <1>1, <1>3, HandlerKnows, Zenon
    <2>2. C \in Instances!Refreshed(u, Shown(instances, u))
      BY <2>1
    <2>3. /\ TrueCache(instances, C)
          /\ \A r \in instances : ~r.config.valid => C[r.tenant] = tenantCache[r.tenant]
          /\ u # "" /\ Instances!Valid(Shown(instances, u)) =>
                 C[u] = Instances!Entries(Instances!OfTenant(instances, u))
      BY <1>3, <1>5, <2>1, <2>2, RefreshKeepsTrue, Zenon
    <2>4. ASSUME Own(instances, t, k), u = t
          PROVE  hits # {}
      <3>1. Shown(instances, u) = Instances!OfTenant(instances, u) /\ Instances!Valid(flow.rows) /\ u # ""
        BY <2>1, <2>4, Zenon DEF Own, Shown, Instances!OfTenant
      <3>2. C[u] = Instances!Entries(Instances!OfTenant(instances, u))
        BY <2>1, <2>3, <3>1, Zenon
      <3>3. PICK e \in Instances!Entries(Instances!OfTenant(instances, t)) : e.key = k
        BY <2>4, OwnIsEntry
      <3>4. e \in C[u]
        BY <2>4, <3>2, <3>3
      <3> QED BY <3>1, <3>3, <3>4, Zenon
    <2>5. ASSUME NEW r \in Named(instances, k), ~r.config.valid, r.tenant = u
          PROVE  ~HasEntry(C, r.tenant, k)
      <3>1. C[r.tenant] = tenantCache[r.tenant]
        BY <2>3, <2>5, Zenon DEF Named
      <3> QED BY <2>1, <2>5, <3>1 DEF HasEntry
    <2> QED BY <2>3, <2>4, <2>5, Zenon
  <1>8. hits \subseteq {e \in C[u] : e.key = k}
    OBVIOUS
  <1>9. IF hits = {} THEN Instances!NextStep ELSE \E e \in hits : Instances!Found(e.app, k)
    BY <1>2
  <1>10. Kept(C, flow')
    <2> HIDE DEF hits
    <2> QED BY <1>1, <1>4, <1>7, <1>8, <1>9, CacheAnswers, Zenon
  <1> QED BY <1>1, <1>2, <1>6, <1>10, KeptIsEnough

LEMMA GetInstanceKeeps ==
    ASSUME PInv, Instances!GetInstance
    PROVE  PInv'
  <1> DEFINE u == flow.plan[1].tenant
             t == flow.tenant
             k == flow.key
             n == Len(flow.plan)
             records == {r \in Shown(instances, u) : r.key = k}
  <1>1. /\ flow.pc \in {"start", "callback"} /\ k # "" /\ flow.plan # << >> /\ ~flow.plan[1].cached
        /\ UNCHANGED <<instances, tenantCache, admin, calm>>
        /\ IF records = {} THEN Instances!NextStep
           ELSE \E r \in records :
                   IF r.config.valid THEN Instances!Found(Instances!App(r), k)
                   ELSE IF flow.pc = "start" THEN Instances!NextStep ELSE Instances!Found(Fallback, k)
    BY Zenon DEF Instances!GetInstance, Instances!Looking, Instances!NoKey, Instances!Step, Shown,
           Instances!GetProviderInstance, Instances!Scope
  <1>2. FlowOk(flow) /\ TableOk(instances) /\ PlanOk(flow.pc, t, flow.plan) /\ n \in Nat
    BY <1>1, HandlerKnows, Zenon
  <1>3. n > 0 /\ u \in Tenants /\ flow.plan[1].cached # TRUE
    BY <1>1, <1>2, PlanSome, Zenon
  <1>4. TableTurn(flow.pc, t, n, u)
    BY <1>1, <1>2, <1>3, PlanStep, Zenon
  <1>5. n # 4 /\ (n = 1 => u = "") /\ (flow.pc = "callback" => n <= (IF flow.pc = "start" THEN 1 ELSE 2))
    <2> HIDE DEF n, u, t
    <2> QED BY <1>2, <1>4, TableTurnIs, Zenon
  <1>6. calm = TRUE =>
           /\ TrueCache(instances, tenantCache) /\ Settled(instances, t, k)
           /\ Path(instances, tenantCache, flow.pc, t, k, n) /\ ~Own(instances, t, k)
           /\ flow.pc = "callback" => Meant(instances, tenantCache, flow.app, t, k)
    <2>1. calm = TRUE =>
             /\ TrueCache(instances, tenantCache) /\ Settled(instances, t, k)
             /\ Path(instances, tenantCache, flow.pc, t, k, n)
             /\ flow.pc = "callback" => Meant(instances, tenantCache, flow.app, t, k)
      BY <1>1, HandlerKnows, Zenon
    <2>2. calm = TRUE => ~Own(instances, t, k)
      BY <1>5, <2>1, Zenon DEF Path
    <2> QED BY <2>1, <2>2
  <1>7. ASSUME Instances!NextStep,
               calm = TRUE /\ n = 1 => \A r \in Named(instances, k) : ~r.config.valid
        PROVE  Kept(tenantCache, flow')
    <2>1. calm = TRUE => Path(instances, tenantCache, flow.pc, t, k, n - 1)
      <3> SUFFICES ASSUME calm = TRUE PROVE Path(instances, tenantCache, flow.pc, t, k, n - 1)
        OBVIOUS
      <3>1. Path(instances, tenantCache, flow.pc, t, k, n)
        BY <1>6
      <3>2. n = 1 => \A r \in Named(instances, k) : ~r.config.valid
        BY <1>7
      <3> HIDE DEF n, u, t, k
      <3> QED BY <1>2, <1>4, <3>1, <3>2, PathAfterTable
    <2> QED BY <1>1, <1>2, <1>3, <1>6, <1>7, <2>1, NextStepKeeps, Zenon
  <1>8. ASSUME NEW a, Instances!Found(a, k), calm = TRUE => Meant(instances, tenantCache, a, t, k)
        PROVE  Kept(tenantCache, flow')
    <2>1. calm = TRUE /\ flow.pc = "callback" => a = flow.app
      BY <1>2, <1>6, <1>8, MeantIsOne
    <2> QED BY <1>1, <1>2, <1>6, <1>8, <2>1, FoundKeeps, Zenon
  <1>9. ASSUME records = {}
        PROVE  Kept(tenantCache, flow')
    <2>1. Instances!NextStep
      BY <1>1, <1>9, Zenon
    <2>2. n = 1 => \A r \in Named(instances, k) : ~r.config.valid
      BY <1>5, <1>9, Zenon DEF Named, Shown
    <2> QED BY <1>7, <2>1, <2>2
  <1>10. ASSUME records # {}
         PROVE  Kept(tenantCache, flow')
    <2>1. PICK r \in records :
             IF r.config.valid THEN Instances!Found(Instances!App(r), k)
             ELSE IF flow.pc = "start" THEN Instances!NextStep ELSE Instances!Found(Fallback, k)
      BY <1>1, <1>10, Zenon
    <2>2. r \in Named(instances, k)
      BY <2>1, Zenon DEF Named, Shown
    <2>3. calm = TRUE => Named(instances, k) = {r}
      BY <1>6, <2>2 DEF Settled
    <2>4. CASE r.config.valid
      <3>1. calm = TRUE => Meant(instances, tenantCache, Instances!App(r), t, k)
        BY <1>1, <1>6, <2>2, <2>4, RowIsMeant, Zenon
      <3> QED BY <1>8, <2>1, <2>4, <3>1
    <2>5. CASE ~r.config.valid /\ flow.pc = "start"
      BY <1>7, <2>1, <2>3, <2>5
    <2>6. CASE ~r.config.valid /\ flow.pc = "callback"
      <3>1. calm = TRUE => Meant(instances, tenantCache, Fallback, t, k)
        <4> SUFFICES ASSUME calm = TRUE PROVE Meant(instances, tenantCache, Fallback, t, k)
          OBVIOUS
        <4>1. \A s \in Named(instances, k) : ~s.config.valid
          BY <2>3, <2>6
        <4>2. n <= (IF flow.pc = "start" THEN 1 ELSE 2)
          BY <1>5, <2>6, Zenon
        <4>3. Settled(instances, t, k) /\ Path(instances, tenantCache, flow.pc, t, k, n)
          BY <1>6
        <4> HIDE DEF n, u, t, k
        <4> QED BY <1>1, <1>2, <4>1, <4>2, <4>3, FallbackIsMeant, Zenon
      <3>2. Instances!Found(Fallback, k)
        BY <2>1, <2>6
      <3> QED BY <1>8, <3>1, <3>2
    <2> QED BY <1>1, <2>4, <2>5, <2>6, Zenon
  <1>11. Kept(tenantCache, flow')
    BY <1>9, <1>10
  <1>12. DOMAIN tenantCache' = Tenants /\ tenantCache' = tenantCache
    BY <1>1, Zenon DEF PInv
  <1> QED BY <1>1, <1>11, <1>12, KeptIsEnough, Zenon

LEMMA NotFoundKeeps ==
    ASSUME PInv, Instances!NotFound
    PROVE  PInv'
  <1> DEFINE t == flow.tenant
             k == flow.key
  <1>1. /\ flow.pc \in {"start", "callback"} /\ k # "" /\ flow.plan = << >>
        /\ UNCHANGED <<instances, tenantCache, admin, calm>> /\ Instances!Found(Fallback, k)
    BY Zenon DEF Instances!NotFound, Instances!Looking, Instances!NoKey
  <1>2. FlowOk(flow) /\ TableOk(instances)
    BY <1>1, HandlerKnows, Zenon
  <1>3. Len(flow.plan) = 0
    BY <1>1, EmptyHasNone, Zenon
  <1>4. calm = TRUE => /\ TrueCache(instances, tenantCache)
                       /\ Meant(instances, tenantCache, Fallback, t, k)
                       /\ flow.pc = "callback" => Fallback = flow.app
    <2> SUFFICES ASSUME calm = TRUE
                 PROVE  /\ TrueCache(instances, tenantCache)
                        /\ Meant(instances, tenantCache, Fallback, t, k)
                        /\ flow.pc = "callback" => Fallback = flow.app
      OBVIOUS
    <2>1. /\ TrueCache(instances, tenantCache) /\ Settled(instances, t, k)
          /\ Path(instances, tenantCache, flow.pc, t, k, 0)
          /\ flow.pc = "callback" => Meant(instances, tenantCache, flow.app, t, k)
      BY <1>1, <1>3, HandlerKnows, Zenon
    <2>2. \A r \in Named(instances, k) : ~r.config.valid
      BY <2>1, Zenon DEF Path
    <2>3. 0 \in Nat /\ 0 <= (IF flow.pc = "start" THEN 1 ELSE 2)
      OBVIOUS
    <2>4. Meant(instances, tenantCache, Fallback, t, k)
      BY <1>1, <2>1, <2>2, <2>3, FallbackIsMeant, Zenon
    <2> QED BY <1>2, <2>1, <2>4, MeantIsOne
  <1>5. Kept(tenantCache, flow')
    BY <1>1, <1>2, <1>4, FoundKeeps, Zenon
  <1>6. DOMAIN tenantCache' = Tenants /\ tenantCache' = tenantCache
    BY <1>1, Zenon DEF PInv
  <1> QED BY <1>1, <1>5, <1>6, KeptIsEnough, Zenon

\* The instances count as the project does.
LEMMA SameCardinality == ASSUME NEW S PROVE Instances!Cardinality(S) = Cardinality(S)
  BY DEF Instances!Cardinality, Cardinality

LEMMA ResolveWithoutKeyKeeps ==
    ASSUME PInv, Instances!ResolveWithoutKey
    PROVE  PInv'
  <1> DEFINE t == flow.tenant
             records == Shown(instances, t)
             one == Cardinality(records) = 1 /\ Instances!Valid(records)
  <1>0. Instances!ListProviderInstances(t) = records
    BY DEF Shown, Instances!ListProviderInstances, Instances!Scope
  <1>1. /\ flow.pc \in {"start", "callback"} /\ flow.key = ""
        /\ UNCHANGED <<instances, tenantCache, admin, calm>>
        /\ one => \E r \in records : Instances!Found(Instances!App(r), r.key)
        /\ ~one => Instances!Found(Fallback, "")
    <2>1. /\ flow.pc \in {"start", "callback"} /\ flow.key = ""
          /\ UNCHANGED <<instances, tenantCache, admin, calm>>
      BY Zenon DEF Instances!ResolveWithoutKey, Instances!Looking, Instances!NoKey
    <2>2. IF one THEN \E r \in records : Instances!Found(Instances!App(r), r.key)
          ELSE Instances!Found(Fallback, "")
      <3>1. Instances!Cardinality(records) = Cardinality(records)
        BY SameCardinality
      <3> HIDE DEF records
      <3> QED BY <1>0, <3>1, Zenon DEF Instances!ResolveWithoutKey, Instances!NoKey
    <2> HIDE DEF one, records
    <2> QED BY <2>1, <2>2, Zenon
  <1>2. FlowOk(flow) /\ TableOk(instances)
    BY <1>1, HandlerKnows, Zenon
  <1>3. calm = TRUE => /\ TrueCache(instances, tenantCache)
                       /\ flow.pc = "callback" => Meant(instances, tenantCache, flow.app, t, "")
    BY <1>1, HandlerKnows, Zenon
  <1>4. calm = TRUE /\ flow.pc = "callback" => flow.app = Fallback /\ ~one
    BY <1>3 DEF Meant
  <1>5. ASSUME one
        PROVE  Kept(tenantCache, flow')
    <2>1. PICK r \in records : Instances!Found(Instances!App(r), r.key)
      BY <1>1, <1>5, Zenon
    <2>2. records = {r}
      <3>1. IsFiniteSet(records)
        BY <1>2, FS_Subset, Zenon DEF TableOk, Shown
      <3>2. \E x : records = {x}
        BY <1>5, <3>1, FS_Singleton
      <3> QED BY <2>1, <3>2
    <2>3. r \in instances /\ r.config.valid /\ r.key # "" /\ (t = "" \/ r.tenant = t)
      BY <1>2, <1>5, <2>1, Zenon DEF TableOk, Shown, Instances!Valid
    <2>4. Meant(instances, tenantCache, Instances!App(r), t, r.key)
      <3>1. CASE t = ""
        <4>1. Named(instances, r.key) = {r}
          BY <2>2, <3>1, Zenon DEF Named, Shown
        <4> QED BY <2>3, <4>1, Zenon DEF Meant
      <3>2. CASE t # ""
        <4>1. Instances!OfTenant(instances, t) = {r}
          BY <2>2, <3>2, Zenon DEF Shown, Instances!OfTenant
        <4>2. r \in Named(instances, r.key) /\ r.tenant = t
          BY <2>3, <3>2, Zenon DEF Named
        <4>3. Own(instances, t, r.key)
          BY <2>3, <3>2, <4>1, <4>2, Zenon DEF Own, Instances!Valid
        <4> QED BY <2>3, <4>2, <4>3, Zenon DEF Meant
      <3> QED BY <3>1, <3>2, Zenon
    <2>5. calm = TRUE => flow.pc # "callback"
      BY <1>4, <1>5
    <2> HIDE DEF one, records, t
    <2> QED BY <1>1, <1>2, <1>3, <2>1, <2>4, <2>5, FoundKeeps, Zenon DEF t
  <1>6. ASSUME ~one
        PROVE  Kept(tenantCache, flow')
    <2>1. Instances!Found(Fallback, "")
      BY <1>1, <1>6, Zenon
    <2>2. Meant(instances, tenantCache, Fallback, t, "")
      BY <1>6 DEF Meant
    <2> HIDE DEF one, records, t
    <2> QED BY <1>1, <1>2, <1>3, <1>4, <2>1, <2>2, FoundKeeps, Zenon DEF t
  <1>7. Kept(tenantCache, flow')
    BY <1>5, <1>6
  <1>8. DOMAIN tenantCache' = Tenants /\ tenantCache' = tenantCache
    BY <1>1, Zenon DEF PInv
  <1> QED BY <1>1, <1>7, <1>8, KeptIsEnough, Zenon

LEMMA FourInSeq ==
    ASSUME NEW S, NEW a \in S, NEW b \in S, NEW c \in S, NEW d \in S
    PROVE  <<a, b, c, d>> \in Seq(S) /\ Len(<<a, b, c, d>>) = 4
  OBVIOUS

\* A plan before its first step, and what its handler knows then.
LEMMA PlanStarts ==
    ASSUME NEW at \in {"start", "callback"}, NEW t \in Tenants
    PROVE  PlanOk(at, t, PlanOf(at, t)) /\ Len(PlanOf(at, t)) = 4
  <1>1. "" \in Tenants
    BY InstanceAssumption, Zenon DEF InstanceAssumption
  <1>2. PlanOf(at, t) \in Seq(PlanSteps) /\ Len(PlanOf(at, t)) = 4
    <2>1. /\ [cached |-> TRUE, tenant |-> t] \in PlanSteps /\ [cached |-> FALSE, tenant |-> t] \in PlanSteps
          /\ [cached |-> TRUE, tenant |-> ""] \in PlanSteps /\ [cached |-> FALSE, tenant |-> ""] \in PlanSteps
      BY <1>1, Zenon DEF PlanSteps
    <2>2. Instances!StartPlan(t) \in Seq(PlanSteps) /\ Len(Instances!StartPlan(t)) = 4
      BY <2>1, FourInSeq, Zenon DEF Instances!StartPlan
    <2>3. Instances!CallbackPlan(t) \in Seq(PlanSteps) /\ Len(Instances!CallbackPlan(t)) = 4
      BY <2>1, FourInSeq, Zenon DEF Instances!CallbackPlan
    <2> QED BY <2>2, <2>3 DEF PlanOf
  <1>3. \A i \in 1..4 : 4 - 4 + i = i
    OBVIOUS
  <1> QED BY <1>2, <1>3 DEF PlanOk

LEMMA PathStarts ==
    ASSUME NEW I, NEW C, NEW at, NEW t, NEW k
    PROVE  Path(I, C, at, t, k, 4)
  <1>1. 4 # 0 /\ ~(4 <= 3) /\ ~(4 <= (IF at = "start" THEN 1 ELSE 2))
    OBVIOUS
  <1> QED BY <1>1 DEF Path

LEMMA CallbackKeeps ==
    ASSUME PInv, Instances!Callback
    PROVE  PInv'
  <1>1. /\ flow.pc = "away"
        /\ flow' = [flow EXCEPT !.pc = "callback", !.plan = Instances!CallbackPlan(flow.tenant), !.loading = FALSE]
        /\ UNCHANGED <<instances, tenantCache, admin, calm>>
    BY DEF Instances!Callback
  <1>2. FlowOk(flow) /\ (calm = TRUE => CalmFlow(instances, tenantCache, flow)) /\ DOMAIN tenantCache = Tenants
    BY DEF PInv
  <1>3. /\ DOMAIN flow = FlowFields /\ flow.provider = "atlassian" /\ flow.tenant \in Tenants
        /\ flow.url = Instances!CallbackURL("atlassian")
    BY <1>1, <1>2 DEF FlowOk
  <1>4. /\ DOMAIN flow' = FlowFields /\ flow'.pc = "callback" /\ flow'.provider = flow.provider
        /\ flow'.tenant = flow.tenant /\ flow'.key = flow.key /\ flow'.plan = PlanOf("callback", flow.tenant)
        /\ flow'.loading = FALSE /\ flow'.app = flow.app /\ flow'.url = flow.url
    BY <1>1, <1>3 DEF FlowFields, PlanOf
  <1>5. PlanOk("callback", flow.tenant, flow'.plan) /\ Len(flow'.plan) = 4
    BY <1>3, <1>4, PlanStarts
  <1>6. FlowOk(flow')
    BY <1>3, <1>4, <1>5, Zenon DEF FlowOk
  <1>7. calm = TRUE => CalmFlow(instances, tenantCache, flow')
    <2>1. Path(instances, tenantCache, "callback", flow.tenant, flow.key, Len(flow'.plan))
      BY <1>5, PathStarts
    <2>2. calm = TRUE => /\ TrueCache(instances, tenantCache)
                         /\ Meant(instances, tenantCache, flow.app, flow.tenant, flow.key)
      BY <1>1, <1>2 DEF CalmFlow
    <2> QED BY <1>4, <2>1, <2>2, Zenon DEF CalmFlow
  <1>8. Kept(tenantCache, flow')
    BY <1>4, <1>6, <1>7 DEF Kept
  <1>9. DOMAIN tenantCache' = Tenants /\ tenantCache' = tenantCache
    BY <1>1, <1>2
  <1> QED BY <1>1, <1>8, <1>9, KeptIsEnough

\* What Unambiguous says of the table.
LEMMA UnambiguousIsSettled ==
    ASSUME TableOk(instances), NEW t, NEW k, Instances!Unambiguous(t, k)
    PROVE  Settled(instances, t, k)
  <1>1. IsFiniteSet(Named(instances, k)) /\ Cardinality(Named(instances, k)) \in Nat
    BY FS_Subset, FS_CardinalityType, Zenon DEF TableOk, Named
  <1>2. CASE Cardinality(Named(instances, k)) <= 1
    <2>1. Cardinality(Named(instances, k)) = 0 \/ Cardinality(Named(instances, k)) = 1
      BY <1>1, <1>2
    <2>2. Named(instances, k) = {} \/ \E r : Named(instances, k) = {r}
      BY <1>1, <2>1, FS_EmptySet, FS_Singleton
    <2> QED BY <2>2 DEF Settled, Named
  <1>3. CASE ~(Cardinality(Named(instances, k)) <= 1)
    <2> DEFINE rows == {r \in instances : r.key = k}
    <2>1. rows = Named(instances, k)
      BY DEF Named
    <2>2. Cardinality(rows) <= 1 \/ (t # "" /\ Instances!OfTenant(rows, t) # {}
                                    /\ Instances!Valid(Instances!OfTenant(instances, t)))
      BY SameCardinality, Zenon DEF Instances!Unambiguous
    <2>3. t # "" /\ Instances!OfTenant(rows, t) # {} /\ Instances!Valid(Instances!OfTenant(instances, t))
      BY <1>3, <2>1, <2>2, Zenon
    <2>4. \E r \in Named(instances, k) : r.tenant = t
      BY <2>1, <2>3, Zenon DEF Instances!OfTenant
    <2> QED BY <2>3, <2>4, Zenon DEF Settled, Own
  <1> QED BY <1>2, <1>3

LEMMA StartKeeps ==
    ASSUME PInv, NEW name \in {"jira", "atlassian"}, NEW t \in Tenants, NEW k, Instances!Start(name, t, k)
    PROVE  PInv'
  <1>1. /\ calm' = (/\ Instances!CacheTrue /\ Instances!Unambiguous(t, k)
                    /\ \A a \in InstanceAdmins : admin[a] = Instances!Idle)
        /\ flow' = [pc |-> "start", provider |-> "atlassian", tenant |-> t, key |-> k,
                    plan |-> PlanOf("start", t), loading |-> FALSE, rows |-> {}, app |-> "", url |-> << >>]
        /\ UNCHANGED <<instances, tenantCache, admin>>
    BY Zenon DEF Instances!Start, Instances!NormalizeProviderName, PlanOf
  <1>2. TableOk(instances) /\ DOMAIN tenantCache = Tenants
    BY DEF PInv
  <1>3. /\ DOMAIN flow' = FlowFields /\ flow'.pc = "start" /\ flow'.provider = "atlassian" /\ flow'.tenant = t
        /\ flow'.key = k /\ flow'.plan = PlanOf("start", t) /\ flow'.loading = FALSE
    BY <1>1, Zenon DEF FlowFields
  <1>4. PlanOk("start", t, flow'.plan) /\ Len(flow'.plan) = 4
    BY <1>3, PlanStarts
  <1>5. FlowOk(flow')
    BY <1>3, <1>4, Zenon DEF FlowOk
  <1>6. calm' \in BOOLEAN
    BY <1>1, Zenon
  <1>7. calm' = TRUE => CalmFlow(instances, tenantCache, flow')
    <2> SUFFICES ASSUME calm' = TRUE PROVE CalmFlow(instances, tenantCache, flow')
      OBVIOUS
    <2>1. Instances!CacheTrue /\ Instances!Unambiguous(t, k)
      BY <1>1, Zenon
    <2>2. TrueCache(instances, tenantCache)
      BY <2>1 DEF TrueCache, Instances!CacheTrue
    <2>3. Settled(instances, t, k)
      BY <1>2, <2>1, UnambiguousIsSettled
    <2>4. Path(instances, tenantCache, "start", t, k, Len(flow'.plan))
      BY <1>4, PathStarts
    <2> QED BY <1>3, <2>2, <2>3, <2>4, Zenon DEF CalmFlow
  <1>8. Instances!SameApplication'
    BY <1>3 DEF Instances!SameApplication
  <1>9. DOMAIN admin' = InstanceAdmins /\ \A a \in InstanceAdmins : AdminOk(admin'[a])
    BY <1>1, Zenon DEF PInv
  <1> QED BY <1>1, <1>2, <1>5, <1>6, <1>7, <1>8, <1>9, Zenon DEF PInv

\* Any write and any refresh: what the flow knows is given up.
LEMMA DisturbedIsKept ==
    ASSUME PInv, UNCHANGED flow, calm' = FALSE, TableOk(instances'), DOMAIN tenantCache' = Tenants,
           NEW a \in InstanceAdmins, NEW q, AdminOk(q), admin' = [admin EXCEPT ![a] = q]
    PROVE  PInv'
  <1>1. DOMAIN admin' = InstanceAdmins /\ \A b \in InstanceAdmins : AdminOk(admin'[b])
    BY DEF PInv
  <1>2. FlowOk(flow') /\ calm' \in BOOLEAN /\ calm' # TRUE
    BY DEF PInv
  <1>3. Instances!SameApplication'
    BY DEF Instances!SameApplication
  <1> QED BY <1>1, <1>2, <1>3 DEF PInv

LEMMA AdminKeeps ==
    ASSUME PInv, NEW a \in InstanceAdmins,
           \/ \E t \in Tenants, k \in InstanceKeys \cup {Instances!NoKey}, w \in Wires \cup {Instances!Blank} :
                 Instances!UpsertProvider(a, t, k, w)
           \/ \E t \in Tenants, k \in InstanceKeys : Instances!DeleteProvider(a, t, k)
           \/ Instances!KeepConfig(a) \/ Instances!WriteInstance(a)
           \/ Instances!RefreshReads(a) \/ Instances!RefreshSets(a)
    PROVE  PInv'
  <1>0. TableOk(instances) /\ DOMAIN tenantCache = Tenants /\ AdminOk(admin[a]) /\ DOMAIN admin = InstanceAdmins
    BY DEF PInv
  <1>1. ASSUME NEW t \in Tenants, NEW k \in InstanceKeys \cup {Instances!NoKey}, NEW w,
               Instances!UpsertProvider(a, t, k, w)
        PROVE  PInv'
    <2>1. PICK h \in IF k = Instances!NoKey THEN {x \in Hashes : Instances!GetProviderInstance(t, x) = {}} ELSE {k} :
             admin' = [admin EXCEPT ![a] = [pc |-> IF w = Instances!Blank THEN "config" ELSE "write",
                                            tenant |-> t, key |-> h, config |-> w]]
      BY <1>1 DEF Instances!UpsertProvider, Instances!Answer
    <2>2. h # ""
      BY InstanceAssumption, <2>1, Zenon DEF InstanceAssumption, Instances!NoKey
    <2> DEFINE q == [pc |-> IF w = Instances!Blank THEN "config" ELSE "write", tenant |-> t, key |-> h, config |-> w]
    <2>3. AdminOk(q)
      BY <2>2, Zenon DEF AdminOk
    <2>4. UNCHANGED <<instances, tenantCache, flow>> /\ calm' = FALSE
      BY <1>1 DEF Instances!UpsertProvider, Instances!Disturb
    <2>5. TableOk(instances') /\ DOMAIN tenantCache' = Tenants /\ admin' = [admin EXCEPT ![a] = q]
      BY <1>0, <2>1, <2>4
    <2> HIDE DEF q
    <2> QED BY <2>3, <2>4, <2>5, DisturbedIsKept
  <1>2. ASSUME NEW t \in Tenants, NEW k \in InstanceKeys, Instances!DeleteProvider(a, t, k)
        PROVE  PInv'
    <2>1. /\ instances' = instances \ Instances!GetProviderInstance(t, k)
          /\ admin' = [admin EXCEPT ![a] = [pc |-> "refresh", tenant |-> t]]
          /\ UNCHANGED <<tenantCache, flow>> /\ calm' = FALSE
      BY <1>2 DEF Instances!DeleteProvider, Instances!Answer, Instances!Disturb
    <2>2. TableOk(instances')
      <3>1. instances' \in SUBSET instances
        BY <2>1
      <3> QED BY <1>0, <3>1, FS_Subset, Zenon DEF TableOk
    <2>3. AdminOk([pc |-> "refresh", tenant |-> t])
      BY Zenon DEF AdminOk
    <2>4. DOMAIN tenantCache' = Tenants
      BY <1>0, <2>1
    <2> QED BY <2>1, <2>2, <2>3, <2>4, DisturbedIsKept
  <1>3. ASSUME Instances!KeepConfig(a)
        PROVE  PInv'
    <2>1. PICK c : admin' = [admin EXCEPT ![a] = [admin[a] EXCEPT !.pc = "write", !.config = c]]
      BY <1>3, Zenon DEF Instances!KeepConfig, Instances!Answer
    <2>2. admin[a].pc = "config" /\ UNCHANGED <<instances, tenantCache, flow>> /\ calm' = FALSE
      BY <1>3, Zenon DEF Instances!KeepConfig, Instances!Disturb
    <2> DEFINE q == [admin[a] EXCEPT !.pc = "write", !.config = c]
    <2>3. AdminOk(q)
      <3>1. DOMAIN admin[a] = {"pc", "tenant", "key", "config"} /\ admin[a].tenant \in Tenants /\ admin[a].key # ""
        BY <1>0, <2>2, Zenon DEF AdminOk
      <3>2. DOMAIN q = {"pc", "tenant", "key", "config"} /\ q.tenant = admin[a].tenant /\ q.key = admin[a].key
        BY <3>1, Zenon
      <3> QED BY <3>1, <3>2, Zenon DEF AdminOk
    <2>4. TableOk(instances') /\ DOMAIN tenantCache' = Tenants /\ admin' = [admin EXCEPT ![a] = q]
      BY <1>0, <2>1, <2>2
    <2> HIDE DEF q
    <2> QED BY <2>2, <2>3, <2>4, DisturbedIsKept
  <1>4. ASSUME Instances!WriteInstance(a)
        PROVE  PInv'
    <2> DEFINE t == admin[a].tenant
               k == admin[a].key
               row == [tenant |-> t, key |-> k, config |-> admin[a].config]
               others == {r \in instances : r.tenant # t \/ r.key # k}
    <2>1. /\ admin[a].pc = "write" /\ instances' = others \cup {row}
          /\ admin' = [admin EXCEPT ![a] = [pc |-> "refresh", tenant |-> t]]
          /\ UNCHANGED <<tenantCache, flow>> /\ calm' = FALSE
      BY <1>4 DEF Instances!WriteInstance, Instances!UpsertProviderInstance, Instances!Answer, Instances!Disturb
    <2>2. TableOk(instances')
      <3>1. IsFiniteSet(others)
        <4>1. others \in SUBSET instances
          OBVIOUS
        <4> HIDE DEF others
        <4> QED BY <1>0, <4>1, FS_Subset, Zenon DEF TableOk
      <3>2. IsFiniteSet(instances')
        <4> HIDE DEF others, row
        <4> QED BY <2>1, <3>1, FS_AddElement
      <3>3. t \in Tenants /\ k # "" /\ row.tenant = t /\ row.key = k
        BY <1>0, <2>1, Zenon DEF AdminOk
      <3> QED BY <1>0, <2>1, <3>2, <3>3, Zenon DEF TableOk
    <2>3. AdminOk([pc |-> "refresh", tenant |-> t])
      BY Zenon DEF AdminOk
    <2>4. DOMAIN tenantCache' = Tenants
      BY <1>0, <2>1
    <2> QED BY <2>1, <2>2, <2>3, <2>4, DisturbedIsKept
  <1>5. ASSUME Instances!RefreshReads(a)
        PROVE  PInv'
    <2> DEFINE q == [pc |-> "set", tenant |-> admin[a].tenant,
                     rows |-> Instances!ListProviderInstances(admin[a].tenant)]
    <2>1. admin' = [admin EXCEPT ![a] = q] /\ UNCHANGED <<instances, tenantCache, flow>> /\ calm' = FALSE
      BY <1>5 DEF Instances!RefreshReads, Instances!Answer, Instances!Disturb
    <2>2. AdminOk(q)
      BY Zenon DEF AdminOk
    <2>3. TableOk(instances') /\ DOMAIN tenantCache' = Tenants
      BY <1>0, <2>1
    <2> HIDE DEF q
    <2> QED BY <2>1, <2>2, <2>3, DisturbedIsKept
  <1>6. ASSUME Instances!RefreshSets(a)
        PROVE  PInv'
    <2>1. /\ tenantCache' \in Instances!Refreshed(admin[a].tenant, admin[a].rows)
          /\ admin' = [admin EXCEPT ![a] = Instances!Idle] /\ UNCHANGED <<instances, flow>> /\ calm' = FALSE
      BY <1>6 DEF Instances!RefreshSets, Instances!Answer, Instances!Disturb
    <2>2. DOMAIN tenantCache' = Tenants
      BY <1>0, <2>1, RefreshKeepsCache
    <2>3. AdminOk(Instances!Idle)
      BY Zenon DEF AdminOk, Instances!Idle
    <2>4. TableOk(instances')
      BY <1>0, <2>1
    <2> QED BY <2>1, <2>2, <2>3, <2>4, DisturbedIsKept
  <1> QED BY <1>1, <1>2, <1>3, <1>4, <1>5, <1>6

LEMMA PInvInit == Instances!Init => PInv
  <1> SUFFICES ASSUME Instances!Init PROVE PInv
    OBVIOUS
  <1>1. TableOk(instances)
    BY FS_EmptySet DEF Instances!Init, TableOk
  <1>2. DOMAIN tenantCache = Tenants /\ calm = FALSE /\ flow.pc = "none"
    BY DEF Instances!Init, Instances!NoFlow
  <1>3. DOMAIN admin = InstanceAdmins /\ \A a \in InstanceAdmins : AdminOk(admin[a])
    BY Zenon DEF Instances!Init, Instances!Idle, AdminOk
  <1>4. FlowOk(flow) /\ Instances!SameApplication
    BY <1>2 DEF FlowOk, Instances!SameApplication
  <1> QED BY <1>1, <1>2, <1>3, <1>4 DEF PInv

LEMMA PInvNext == PInv /\ [Instances!Next]_(Instances!vars) => PInv'
  <1> SUFFICES ASSUME PInv, [Instances!Next]_(Instances!vars) PROVE PInv'
    OBVIOUS
  <1>1. CASE UNCHANGED Instances!vars
    BY <1>1 DEF Instances!vars, PInv, Instances!SameApplication
  <1>2. ASSUME NEW a \in InstanceAdmins,
               \/ \E t \in Tenants, k \in InstanceKeys \cup {Instances!NoKey}, w \in Wires \cup {Instances!Blank} :
                     Instances!UpsertProvider(a, t, k, w)
               \/ \E t \in Tenants, k \in InstanceKeys : Instances!DeleteProvider(a, t, k)
               \/ Instances!KeepConfig(a) \/ Instances!WriteInstance(a)
               \/ Instances!RefreshReads(a) \/ Instances!RefreshSets(a)
        PROVE  PInv'
    BY <1>2, AdminKeeps
  <1>3. ASSUME NEW name \in {"jira", "atlassian"}, NEW t \in Tenants, NEW k, Instances!Start(name, t, k)
        PROVE  PInv'
    BY <1>3, StartKeeps
  <1>4. CASE \/ Instances!ResolveWithoutKey \/ Instances!LoadReads \/ Instances!LoadSets \/ Instances!ConfigFor
             \/ Instances!GetInstance \/ Instances!NotFound \/ Instances!Callback
    BY <1>4, ResolveWithoutKeyKeeps, LoadReadsKeeps, LoadSetsKeeps, ConfigForKeeps, GetInstanceKeeps,
       NotFoundKeeps, CallbackKeeps
  <1> QED BY <1>1, <1>2, <1>3, <1>4 DEF Instances!Next

\* Whatever tenants, instances and configurations there are, and however many
\* requests of the API run at once: the callback exchanges the code with the
\* application the user was sent to, wherever each of the two handlers found it.
THEOREM InstancesSame == ServicesSpec => []SameApplication
  <1> DEFINE Inv == focus = "instances" => PInv
  <1>1. ServicesInit => Inv
    BY PartStarts, PInvInit
  <1>2. Inv /\ [ServicesNext]_ServicesVars => Inv'
    BY PartMoves, PInvNext
  <1>3. Inv => SameApplication
    BY DEF SameApplication, PInv
  <1> QED BY <1>1, <1>2, <1>3, PTL DEF ServicesSpec
=============================================================================
