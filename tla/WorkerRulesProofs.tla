------------------------- MODULE WorkerRulesProofs -------------------------
(***************************************************************************)
(* Proofs about WorkerRules, for every set of rules, topics and drivers and *)
(* every number of changes that administrators make between the reads of    *)
(* the worker.                                                              *)
(***************************************************************************)
EXTENDS MCRules, TLAPS

-----------------------------------------------------------------------------
(* The tables and what was read of them.                                    *)

\* The columns of the two tables that matter, and their unique keys.
Tables ==
    /\ \A r \in ruleRows : /\ r.id \in Handled /\ r.tenant = Tenant /\ r.driver \in Worker!DriverIds
                           /\ \E t \in Topics : r.emit = {t}
    /\ \A r, s \in ruleRows : r.id = s.id => r = s
    /\ \A d \in driverRows : d \in Worker!DriverRows /\ d.tenant = Tenant /\ d.id = Worker!DriverId(d.name)
    /\ \A d, e \in driverRows : d.name = e.name => d = e

\* The state of the worker, without the driver that a topic has no handler for.
Reading ==
    /\ step \in {"prepare", "build", "running", "failed"}
    /\ step \in {"build", "running"} => todo = {}
    /\ topicHandlers \in [Topics -> Handled \cup {0}]
    /\ DOMAIN topicDrivers = Topics
    /\ DOMAIN subs = Worker!DriverIds
    /\ \A t \in Topics : topicHandlers[t] # 0 => topicHandlers[t] \notin todo
    /\ \A t \in Topics : topicHandlers[t] # 0 => topicDrivers[t] \in Worker!DriverIds

\* No subscriber is built before every rule is read.
BuiltLast == \A d \in Worker!DriverIds : subs[d] # {} => todo = {} /\ step # "prepare"

\* The handler of a topic is that of a rule that emits it, or of one that was
\* changed after it was read.
HandlerIsOwn ==
    \A t \in Topics : topicHandlers[t] = 0 \/ topicHandlers[t] \in changed
        \/ \E s \in ruleRows : s.id = topicHandlers[t] /\ s.emit = {t}

\* A rule that was read has left a handler for its topic.
ReadIsTaken ==
    step # "failed" => \A r \in Worker!Current : r.id \notin todo => \A t \in r.emit : topicHandlers[t] # 0

\* The subscriber of a driver is the one that its row describes, as long as
\* a rule of the driver counts as unchanged.
SubscriberIsCurrent ==
    \A r \in Worker!Current : subs[r.driver] # {} =>
         \A d \in Worker!Join(driverRows, r) :
            [name |-> d.name, cfg |-> Worker!SubscriberConfig(d.cfg)] \in subs[r.driver]

\* A running worker has a subscriber for every topic with a handler.
RunningIsBuilt ==
    step = "running" => \A t \in Topics : topicHandlers[t] # 0 => subs[topicDrivers[t]] # {}

\* The inductive invariant.
WInv ==
    /\ Tables /\ Reading /\ BuiltLast /\ HandlerIsOwn /\ Worker!HandlerAndDriverAgree
    /\ ReadIsTaken /\ SubscriberIsCurrent /\ RunningIsBuilt

-----------------------------------------------------------------------------

\* Two kinds of driver have two ids.
LEMMA DriverIdInjective ==
    ASSUME NEW m, NEW n, Worker!DriverId(m) = Worker!DriverId(n)
    PROVE  m = n
  BY DEF Worker!DriverId

\* Every table that Init admits has one row for each rule and each driver.
LEMMA WInvInit ==
    ASSUME Worker!Init
    PROVE  WInv
  <1>1. PICK f \in [DriverNames -> Worker!Cfgs] :
           driverRows = {[tenant |-> Tenant, id |-> Worker!DriverId(n), name |-> n, cfg |-> f[n]] : n \in DriverNames}
    BY DEF Worker!Init
  <1>2. PICK g \in [Handled -> Topics \X Worker!DriverIds] :
           ruleRows = {Worker!RowOf(id, g[id][1], g[id][2]) : id \in Handled}
    BY DEF Worker!Init
  <1>3. Tables
    <2>1. \A d \in driverRows : d \in Worker!DriverRows /\ d.tenant = Tenant /\ d.id = Worker!DriverId(d.name)
      BY <1>1 DEF Worker!DriverRows, Worker!DriverIds
    <2>2. \A d, e \in driverRows : d.name = e.name => d = e
      BY <1>1
    <2>3. \A id \in Handled : g[id][1] \in Topics /\ g[id][2] \in Worker!DriverIds
      BY <1>2
    <2>4. \A r \in ruleRows : \E id \in Handled :
             /\ r = Worker!RowOf(id, g[id][1], g[id][2])
             /\ r.id = id /\ r.tenant = Tenant /\ r.driver = g[id][2] /\ r.emit = {g[id][1]}
      BY <1>2 DEF Worker!RowOf
    <2>5. \A r \in ruleRows : /\ r.id \in Handled /\ r.tenant = Tenant /\ r.driver \in Worker!DriverIds
                              /\ \E t \in Topics : r.emit = {t}
      BY <2>3, <2>4
    <2>6. \A r, s \in ruleRows : r.id = s.id => r = s
      BY <2>4
    <2> QED BY <2>1, <2>2, <2>5, <2>6 DEF Tables
  <1>4. /\ step = "prepare" /\ todo = Handled
        /\ topicHandlers = [t \in Topics |-> 0] /\ topicDrivers = [t \in Topics |-> Worker!NoDriver]
        /\ subs = [d \in Worker!DriverIds |-> {}]
    BY DEF Worker!Init
  <1>5. Reading /\ BuiltLast /\ HandlerIsOwn /\ RunningIsBuilt
    BY <1>4 DEF Reading, BuiltLast, HandlerIsOwn, RunningIsBuilt
  <1>6. \A r \in Worker!Current : r \in ruleRows /\ r.id \in Handled /\ r.driver \in Worker!DriverIds
                              /\ \A t \in r.emit : t \in Topics
    BY <1>3 DEF Worker!Current, Tables
  <1>7. Worker!HandlerAndDriverAgree
    BY <1>4, <1>6, NoneIsNone DEF Worker!HandlerAndDriverAgree
  <1>8. ReadIsTaken
    BY <1>4, <1>6 DEF ReadIsTaken
  <1>9. SubscriberIsCurrent
    BY <1>4, <1>6 DEF SubscriberIsCurrent
  <1> QED BY <1>3, <1>5, <1>7, <1>8, <1>9 DEF WInv

-----------------------------------------------------------------------------
(* The steps of the worker.                                                 *)

\* What the invariant says of the rows that count as unchanged.
LEMMA CurrentRows ==
    ASSUME Tables
    PROVE  \A r \in Worker!Current :
              /\ r \in ruleRows /\ r.id \in Handled /\ r.id \notin changed
              /\ r.tenant = Tenant /\ r.driver \in Worker!DriverIds
              /\ \E t \in Topics : r.emit = {t}
  BY DEF Tables, Worker!Current

\* A read takes the topic, its handler and its driver from one row.
LEMMA ReadRuleKeeps ==
    ASSUME WInv, NEW id \in Handled, Worker!ReadRule(id)
    PROVE  WInv'
  <1>1. /\ step = "prepare" /\ id \in todo /\ todo' = todo \ {id}
        /\ UNCHANGED <<ruleRows, driverRows, changes, subs, changed>>
    BY DEF Worker!ReadRule
  <1>2. Tables' /\ Worker!Current' = Worker!Current
    BY <1>1 DEF WInv, Tables, Worker!Current
  <1>3. \A r \in Worker!Current : /\ r \in ruleRows /\ r.id \in Handled /\ r.driver \in Worker!DriverIds
                                  /\ \E t \in Topics : r.emit = {t}
    BY CurrentRows DEF WInv
  <1>4. BuiltLast' /\ \A d \in Worker!DriverIds : subs[d] = {}
    BY <1>1 DEF WInv, BuiltLast
  <1>5. SubscriberIsCurrent'
    BY <1>1, <1>2, <1>3, <1>4 DEF SubscriberIsCurrent
  <1>6. CASE Worker!FetchRule(id) = {}
    <2>1. step' = "failed" /\ UNCHANGED <<topicHandlers, topicDrivers>>
      BY <1>6 DEF Worker!ReadRule
    <2>2. Reading' /\ HandlerIsOwn' /\ Worker!HandlerAndDriverAgree' /\ ReadIsTaken' /\ RunningIsBuilt'
      BY <1>1, <1>2, <2>1
      DEF WInv, Reading, HandlerIsOwn, Worker!HandlerAndDriverAgree, ReadIsTaken, RunningIsBuilt
    <2> QED BY <1>2, <1>4, <1>5, <2>2 DEF WInv
  <1>7. CASE Worker!FetchRule(id) # {}
    <2>1. PICK r \in Worker!FetchRule(id) : \E t \in r.emit :
             /\ topicHandlers' = [topicHandlers EXCEPT ![t] = id]
             /\ topicDrivers' = [topicDrivers EXCEPT ![t] = r.driver]
      BY <1>7 DEF Worker!ReadRule
    <2>2. PICK t \in r.emit :
             /\ topicHandlers' = [topicHandlers EXCEPT ![t] = id]
             /\ topicDrivers' = [topicDrivers EXCEPT ![t] = r.driver]
      BY <2>1
    <2>3. step' = step
      BY <1>7 DEF Worker!ReadRule
    <2>4. r \in ruleRows /\ r.id = id /\ r.driver \in Worker!DriverIds /\ t \in Topics /\ r.emit = {t}
      BY DEF Worker!FetchRule, Worker!GetRule, WInv, Tables
    <2>5. /\ topicHandlers \in [Topics -> Handled \cup {0}] /\ DOMAIN topicDrivers = Topics
          /\ topicHandlers'[t] = id /\ topicDrivers'[t] = r.driver
          /\ \A u \in Topics \ {t} : topicHandlers'[u] = topicHandlers[u] /\ topicDrivers'[u] = topicDrivers[u]
      BY <2>2, <2>4 DEF WInv, Reading
    <2>6. Reading'
      BY <1>1, <2>2, <2>3, <2>4, <2>5 DEF WInv, Reading
    <2>7. HandlerIsOwn'
      BY <1>1, <2>4, <2>5 DEF WInv, HandlerIsOwn
    <2>8. Worker!HandlerAndDriverAgree'
      <3> SUFFICES ASSUME NEW s \in Worker!Current, NEW u \in s.emit, topicHandlers'[u] = s.id
                   PROVE  topicDrivers'[u] = s.driver
        BY <1>2 DEF Worker!HandlerAndDriverAgree
      <3>1. s \in ruleRows /\ s.id \in Handled /\ u \in Topics
        BY <1>3
      <3>2. CASE u = t
        BY <2>4, <2>5, <3>1, <3>2 DEF WInv, Tables
      <3>3. CASE u # t
        BY <2>5, <3>1, <3>3 DEF WInv, Worker!HandlerAndDriverAgree
      <3> QED BY <3>2, <3>3
    <2>9. ReadIsTaken'
      <3> SUFFICES ASSUME NEW s \in Worker!Current, s.id \notin todo', NEW u \in s.emit
                   PROVE  topicHandlers'[u] # 0
        BY <1>2 DEF ReadIsTaken
      <3>1. s \in ruleRows /\ s.id \in Handled /\ u \in Topics
        BY <1>3
      <3>2. CASE u = t
        BY <2>5, <3>2, NoneIsNone
      <3>3. CASE u # t
        <4>1. s.id # id
          BY <1>3, <2>4, <3>1, <3>3 DEF WInv, Tables
        <4> QED BY <1>1, <2>5, <3>1, <3>3, <4>1 DEF WInv, ReadIsTaken
      <3> QED BY <3>2, <3>3
    <2>10. RunningIsBuilt'
      BY <1>1, <2>3 DEF RunningIsBuilt
    <2> QED BY <1>2, <1>4, <1>5, <2>6, <2>7, <2>8, <2>9, <2>10 DEF WInv
  <1> QED BY <1>6, <1>7

\* The end of the reads, and the start of the subscribers that are all there.
LEMMA PhasesKeep ==
    ASSUME WInv, Worker!Prepared \/ Worker!StartAll \/ Worker!Done
    PROVE  WInv'
  <1>1. /\ UNCHANGED <<ruleRows, driverRows, todo, topicHandlers, topicDrivers, subs, changed>>
        /\ step' = step \/ (step = "prepare" /\ todo = {} /\ step' = "build")
                        \/ (step = "build" /\ Worker!ToBuild = {} /\ step' = "running")
    BY DEF Worker!Prepared, Worker!StartAll, Worker!Done, Worker!vars
  <1>2. Tables' /\ Worker!Current' = Worker!Current /\ BuiltLast' /\ HandlerIsOwn' /\ Worker!HandlerAndDriverAgree'
    BY <1>1 DEF WInv, Tables, Worker!Current, BuiltLast, HandlerIsOwn, Worker!HandlerAndDriverAgree
  <1>3. Reading' /\ ReadIsTaken' /\ SubscriberIsCurrent'
    BY <1>1, <1>2 DEF WInv, Reading, ReadIsTaken, SubscriberIsCurrent
  <1>4. RunningIsBuilt'
    <2>1. CASE Worker!ToBuild = {}
      BY <1>1, <2>1 DEF Worker!ToBuild, Worker!Needed, RunningIsBuilt
    <2>2. CASE Worker!ToBuild # {}
      BY <1>1, <2>2 DEF WInv, RunningIsBuilt
    <2> QED BY <2>1, <2>2
  <1> QED BY <1>2, <1>3, <1>4 DEF WInv

\* The subscriber of a driver is built from its row.
LEMMA BuildSubscriberKeeps ==
    ASSUME WInv, NEW d \in Worker!DriverIds, Worker!BuildSubscriber(d)
    PROVE  WInv'
  <1> DEFINE usable == {r \in Worker!FetchDriver(d) : r.name \in WorkerSubscribable}
  <1>1. /\ step = "build" /\ todo = {}
        /\ UNCHANGED <<ruleRows, driverRows, changes, todo, topicHandlers, topicDrivers, changed>>
    BY DEF Worker!BuildSubscriber, WInv, Reading
  <1>2. Tables' /\ Worker!Current' = Worker!Current /\ HandlerIsOwn' /\ Worker!HandlerAndDriverAgree'
    BY <1>1 DEF WInv, Tables, Worker!Current, HandlerIsOwn, Worker!HandlerAndDriverAgree
  <1>3. CASE usable = {}
    <2>1. step' = "failed" /\ subs' = subs
      BY <1>3 DEF Worker!BuildSubscriber
    <2> QED BY <1>1, <1>2, <2>1
        DEF WInv, Reading, BuiltLast, ReadIsTaken, SubscriberIsCurrent, RunningIsBuilt
  <1>4. CASE usable # {}
    <2>1. /\ step' = step
          /\ subs' = [subs EXCEPT ![d] = {[name |-> r.name, cfg |-> Worker!SubscriberConfig(r.cfg)] : r \in usable}]
      BY <1>4 DEF Worker!BuildSubscriber
    <2>2. Reading' /\ BuiltLast' /\ ReadIsTaken' /\ RunningIsBuilt'
      BY <1>1, <1>2, <2>1 DEF WInv, Reading, BuiltLast, ReadIsTaken, RunningIsBuilt
    <2>3. SubscriberIsCurrent'
      <3> SUFFICES ASSUME NEW r \in Worker!Current, subs'[r.driver] # {}, NEW e \in Worker!Join(driverRows, r)
                   PROVE  [name |-> e.name, cfg |-> Worker!SubscriberConfig(e.cfg)] \in subs'[r.driver]
        BY <1>1, <1>2 DEF SubscriberIsCurrent
      <3>1. r.driver \in Worker!DriverIds /\ DOMAIN subs = Worker!DriverIds
        BY CurrentRows DEF WInv, Reading
      <3>2. CASE r.driver = d
        <4>1. PICK u \in usable : TRUE
          BY <1>4
        <4>2. u \in driverRows /\ u.id = d /\ e \in driverRows /\ e.id = d
          BY <3>2 DEF Worker!FetchDriver, Worker!GetDriverByID, Worker!ListDrivers, Worker!Join
        <4>3. u.name = e.name
          BY <4>2, DriverIdInjective DEF WInv, Tables
        <4>4. u = e
          BY <4>2, <4>3 DEF WInv, Tables
        <4> QED BY <2>1, <3>1, <3>2, <4>4
      <3>3. CASE r.driver # d
        BY <2>1, <3>1, <3>3 DEF WInv, SubscriberIsCurrent
      <3> QED BY <3>2, <3>3
    <2> QED BY <1>2, <2>2, <2>3 DEF WInv
  <1> QED BY <1>3, <1>4

-----------------------------------------------------------------------------
(* The steps of the administrators.                                         *)

\* A change of the rules: the row of one rule is replaced or deleted, and the
\* rule counts as changed unless it is still to be read.
RuleChange(id) ==
    /\ \A r : r.id # id => (r \in ruleRows' <=> r \in ruleRows)
    /\ driverRows' = driverRows /\ changed' = changed \cup ({id} \ todo)
    /\ UNCHANGED <<step, todo, topicHandlers, topicDrivers, subs>>

\* The worker is not misled by a change of a rule: it has not read the rule, or
\* the rule counts as changed.
LEMMA RuleChangeKeeps ==
    ASSUME WInv, NEW id \in Handled, RuleChange(id), Tables'
    PROVE  WInv'
  <1>1. \A r \in Worker!Current' : \/ r \in Worker!Current /\ r.id # id
                                   \/ r.id = id /\ id \in todo
    BY DEF Worker!Current, RuleChange
  <1>2. \A r \in Worker!Current' : /\ r \in ruleRows' /\ r.id \in Handled /\ r.driver \in Worker!DriverIds
                                   /\ \E t \in Topics : r.emit = {t}
    BY DEF Tables, Worker!Current
  <1>3. Reading' /\ BuiltLast' /\ RunningIsBuilt'
    BY DEF WInv, RuleChange, Reading, BuiltLast, RunningIsBuilt
  <1>4. HandlerIsOwn'
    <2> SUFFICES ASSUME NEW t \in Topics, topicHandlers[t] # 0, topicHandlers[t] \notin changed'
                 PROVE  \E s \in ruleRows' : s.id = topicHandlers[t] /\ s.emit = {t}
      BY DEF HandlerIsOwn, RuleChange
    <2>1. topicHandlers[t] \notin todo /\ topicHandlers[t] \notin changed /\ topicHandlers[t] # id
      BY DEF WInv, Reading, RuleChange
    <2> QED BY <2>1 DEF WInv, HandlerIsOwn, RuleChange
  <1>5. Worker!HandlerAndDriverAgree'
    <2> SUFFICES ASSUME NEW r \in Worker!Current', NEW t \in r.emit, topicHandlers[t] = r.id
                 PROVE  topicDrivers[t] = r.driver
      BY DEF Worker!HandlerAndDriverAgree, RuleChange
    <2>1. t \in Topics /\ r.id \in Handled
      BY <1>2
    <2>2. r.id \notin todo
      BY <2>1, NoneIsNone DEF WInv, Reading
    <2> QED BY <1>1, <2>2 DEF WInv, Worker!HandlerAndDriverAgree
  <1>6. ReadIsTaken'
    BY <1>1 DEF WInv, ReadIsTaken, RuleChange
  <1>7. SubscriberIsCurrent'
    <2> SUFFICES ASSUME NEW r \in Worker!Current', subs[r.driver] # {}
                 PROVE  \A d \in Worker!Join(driverRows, r) :
                           [name |-> d.name, cfg |-> Worker!SubscriberConfig(d.cfg)] \in subs[r.driver]
      BY DEF SubscriberIsCurrent, RuleChange
    <2>1. todo = {}
      BY <1>2 DEF WInv, BuiltLast
    <2> QED BY <1>1, <2>1 DEF WInv, SubscriberIsCurrent
  <1> QED BY <1>3, <1>4, <1>5, <1>6, <1>7 DEF WInv

\* UpdateRule keeps the id and the tenant of the row.
LEMMA UpdateRuleKeeps ==
    ASSUME WInv, NEW id \in Handled, NEW t \in Topics, NEW d \in Worker!DriverIds,
           Worker!UpdateRuleRPC(id, t, d)
    PROVE  WInv'
  <1> DEFINE fresh == Worker!RowOf(id, t, d)
  <1>1. fresh.id = id /\ fresh.tenant = Tenant /\ fresh.driver = d /\ fresh.emit = {t}
        /\ fresh = [id |-> fresh.id, tenant |-> fresh.tenant, when |-> fresh.when,
                    emit |-> fresh.emit, driver |-> fresh.driver, js |-> fresh.js]
    BY DEF Worker!RowOf
  <1>2. Tables
    BY DEF WInv
  <1>3. PICK r \in ruleRows : r.id = id /\ Worker!GetRule(ruleRows, Tenant, id) = {r}
    BY <1>2 DEF Worker!UpdateRuleRPC, Worker!GetRule, Tables
  <1> DEFINE new == [fresh EXCEPT !.tenant = IF @ = NoTenant THEN r.tenant ELSE @,
                                  !.js = IF @ = NoJS THEN r.js ELSE @]
  <1>4. ruleRows' = (ruleRows \ {r}) \cup {new}
    BY <1>1, <1>3 DEF Worker!UpdateRuleRPC, Worker!UpdateRule
  <1>5. new.id = id /\ new.tenant = Tenant /\ new.driver = d /\ new.emit = {t}
    BY <1>1, <1>2, <1>3 DEF Tables, Worker!RowOf
  <1>6. RuleChange(id)
    BY <1>3, <1>4, <1>5 DEF RuleChange, Worker!UpdateRuleRPC, Worker!Change
  <1>7. Tables'
    <2>1. driverRows' = driverRows
      BY <1>6 DEF RuleChange
    <2>2. \A s \in ruleRows' : s = new \/ (s \in ruleRows /\ s.id # id)
      BY <1>2, <1>3, <1>4 DEF Tables
    <2>3. \A s \in ruleRows' : /\ s.id \in Handled /\ s.tenant = Tenant /\ s.driver \in Worker!DriverIds
                               /\ \E u \in Topics : s.emit = {u}
      BY <1>2, <1>5, <2>2 DEF Tables
    <2>4. \A s, u \in ruleRows' : s.id = u.id => s = u
      BY <1>2, <1>5, <2>2 DEF Tables
    <2> HIDE DEF new
    <2> QED BY <1>2, <2>1, <2>3, <2>4 DEF Tables
  <1> QED BY <1>6, <1>7, RuleChangeKeeps

\* DeleteRule deletes the row of the rule.
LEMMA DeleteRuleKeeps ==
    ASSUME WInv, NEW id \in Handled, Worker!DeleteRuleRPC(id)
    PROVE  WInv'
  <1>1. ruleRows' \subseteq ruleRows /\ RuleChange(id)
    BY DEF Worker!DeleteRuleRPC, Worker!DeleteRule, Worker!GetRule, RuleChange, Worker!Change
  <1>2. Tables'
    BY <1>1 DEF WInv, Tables, RuleChange
  <1> QED BY <1>1, <1>2, RuleChangeKeeps

\* A change of the drivers: the row of one kind is replaced, added or deleted,
\* and where it has a subscriber the rules that use it count as changed.
DriverChange(n) ==
    /\ \A d : d.name # n => (d \in driverRows' <=> d \in driverRows)
    /\ ruleRows' = ruleRows /\ changed \subseteq changed'
    /\ subs[Worker!DriverId(n)] # {} => Worker!Users(Worker!DriverId(n)) \subseteq changed'
    /\ UNCHANGED <<step, todo, topicHandlers, topicDrivers, subs>>

\* The worker is not misled by a change of a driver either: it has not read
\* the driver, or every rule of it counts as changed.
LEMMA DriverChangeKeeps ==
    ASSUME WInv, NEW n \in DriverNames, DriverChange(n), Tables'
    PROVE  WInv'
  <1>1. Worker!Current' \subseteq Worker!Current
    BY DEF Worker!Current, DriverChange
  <1>2. Reading' /\ BuiltLast' /\ RunningIsBuilt' /\ HandlerIsOwn'
    BY DEF WInv, DriverChange, Reading, BuiltLast, RunningIsBuilt, HandlerIsOwn
  <1>3. Worker!HandlerAndDriverAgree' /\ ReadIsTaken'
    BY <1>1 DEF WInv, DriverChange, Worker!HandlerAndDriverAgree, ReadIsTaken
  <1>4. SubscriberIsCurrent'
    <2> SUFFICES ASSUME NEW r \in Worker!Current', subs[r.driver] # {}, NEW d \in Worker!Join(driverRows', r)
                 PROVE  [name |-> d.name, cfg |-> Worker!SubscriberConfig(d.cfg)] \in subs[r.driver]
      BY DEF SubscriberIsCurrent, DriverChange
    <2>1. d \in driverRows' /\ d.id = r.driver /\ d.tenant = r.tenant /\ d.id = Worker!DriverId(d.name)
      BY DEF Worker!Join, Tables
    <2>2. r \in ruleRows /\ r.id \notin changed'
      BY DEF Worker!Current, DriverChange
    <2>3. r.driver # Worker!DriverId(n)
      BY <2>2 DEF DriverChange, Worker!Users
    <2>4. d \in Worker!Join(driverRows, r)
      BY <2>1, <2>3 DEF Worker!Join, DriverChange
    <2> QED BY <1>1, <2>4 DEF WInv, SubscriberIsCurrent
  <1> QED BY <1>2, <1>3, <1>4 DEF WInv

\* UpsertDriver keeps the id of the row, which is that of its kind.
LEMMA UpsertDriverKeeps ==
    ASSUME WInv, NEW n \in DriverNames, NEW cfg \in Worker!Cfgs, Worker!UpsertDriverRPC(n, cfg)
    PROVE  WInv'
  <1>1. Tables
    BY DEF WInv
  <1>2. \A d \in driverRows : d \in Worker!GetDriver(driverRows, Tenant, n) <=> d.name = n
    BY <1>1 DEF Tables, Worker!GetDriver, Worker!ListDrivers
  <1>3. \E w \in Worker!DriverRows :
           /\ w.name = n /\ w.tenant = Tenant /\ w.id = Worker!DriverId(n)
           /\ \A d : d \in driverRows' <=> (d \in driverRows /\ d.name # n) \/ d = w
    <2>1. CASE Worker!GetDriver(driverRows, Tenant, n) = {}
      <3> DEFINE w == [tenant |-> Tenant, id |-> Worker!DriverId(n), name |-> n, cfg |-> cfg]
      <3>1. driverRows' = driverRows \cup {w}
        BY <2>1 DEF Worker!UpsertDriverRPC, Worker!UpsertDriver
      <3>2. w \in Worker!DriverRows
        BY DEF Worker!DriverRows, Worker!DriverIds
      <3> QED BY <1>2, <2>1, <3>1, <3>2
    <2>2. CASE Worker!GetDriver(driverRows, Tenant, n) # {}
      <3>1. PICK o \in driverRows : o.name = n
        BY <1>2, <2>2 DEF Worker!GetDriver, Worker!ListDrivers
      <3>2. Worker!GetDriver(driverRows, Tenant, n) = {o}
        BY <1>1, <1>2, <3>1 DEF Tables, Worker!GetDriver, Worker!ListDrivers
      <3> DEFINE w == [o EXCEPT !.cfg = cfg]
      <3>3. driverRows' = (driverRows \ {o}) \cup {w}
        BY <2>2, <3>2 DEF Worker!UpsertDriverRPC, Worker!UpsertDriver
      <3>4. o \in Worker!DriverRows /\ o.tenant = Tenant /\ o.id = Worker!DriverId(n)
        BY <1>1, <3>1 DEF Tables
      <3>5. w \in Worker!DriverRows /\ w.name = n /\ w.tenant = Tenant /\ w.id = Worker!DriverId(n)
        BY <3>1, <3>4 DEF Worker!DriverRows
      <3>6. \A d : d \in driverRows' <=> (d \in driverRows /\ d.name # n) \/ d = w
        BY <1>1, <3>1, <3>3 DEF Tables
      <3> QED BY <3>5, <3>6
    <2> QED BY <2>1, <2>2
  <1>4. PICK w \in Worker!DriverRows :
           /\ w.name = n /\ w.tenant = Tenant /\ w.id = Worker!DriverId(n)
           /\ \A d : d \in driverRows' <=> (d \in driverRows /\ d.name # n) \/ d = w
    BY <1>3
  <1>5. DriverChange(n)
    BY <1>4 DEF DriverChange, Worker!UpsertDriverRPC, Worker!Change
  <1>6. Tables'
    BY <1>1, <1>4, <1>5 DEF Tables, DriverChange
  <1> QED BY <1>5, <1>6, DriverChangeKeeps

\* DeleteDriver deletes the row of the kind.
LEMMA DeleteDriverKeeps ==
    ASSUME WInv, NEW n \in DriverNames, Worker!DeleteDriverRPC(n)
    PROVE  WInv'
  <1>1. driverRows' \subseteq driverRows /\ DriverChange(n)
    BY DEF Worker!DeleteDriverRPC, Worker!DeleteDriver, Worker!GetDriver, Worker!ListDrivers, DriverChange,
           Worker!Change
  <1>2. Tables'
    BY <1>1 DEF WInv, Tables, DriverChange
  <1> QED BY <1>1, <1>2, DriverChangeKeeps

-----------------------------------------------------------------------------

\* WInv is inductive.
LEMMA WInvNext ==
    ASSUME WInv, [Worker!Next]_(Worker!vars)
    PROVE  WInv'
  <1>1. CASE UNCHANGED Worker!vars
    BY <1>1 DEF Worker!vars, WInv, Tables, Reading, BuiltLast, HandlerIsOwn, Worker!HandlerAndDriverAgree,
                ReadIsTaken, SubscriberIsCurrent, RunningIsBuilt, Worker!Current
  <1> QED BY <1>1, ReadRuleKeeps, PhasesKeep, BuildSubscriberKeeps, DeleteRuleKeeps, UpdateRuleKeeps,
             UpsertDriverKeeps, DeleteDriverKeeps DEF Worker!Next

\* A running worker with this invariant hears what it has read.
LEMMA WInvImplies ==
    ASSUME WInv
    PROVE  Worker!HeardUnlessChanged
  <1> SUFFICES ASSUME step = "running", NEW r \in Worker!Current,
                      ~Worker!Shared(r), \A t \in r.emit : topicHandlers[t] \notin changed,
                      \A p \in Worker!PublishedAt(r) : p.cfg.prefix = NoPrefix
               PROVE  Worker!Heard(r)
    BY DEF Worker!HeardUnlessChanged
  <1>1. PICK t \in Topics : r.emit = {t}
    BY CurrentRows DEF WInv
  <1>2. r \in ruleRows /\ r.id \in Handled /\ r.driver \in Worker!DriverIds /\ r.tenant = Tenant
    BY CurrentRows DEF WInv
  <1>3. topicHandlers[t] # 0 /\ topicHandlers[t] \notin changed
    BY <1>1 DEF WInv, ReadIsTaken, Reading
  <1>4. topicHandlers[t] = r.id
    <2>1. PICK s \in ruleRows : s.id = topicHandlers[t] /\ s.emit = {t}
      BY <1>3 DEF WInv, HandlerIsOwn
    <2>2. s \in Worker!Current
      BY <1>3, <2>1 DEF Worker!Current
    <2> QED BY <1>1, <2>1, <2>2 DEF Worker!Shared
  <1>5. topicDrivers[t] = r.driver /\ topicDrivers[t] # Worker!NoDriver
    <2>1. topicDrivers[t] = r.driver
      BY <1>1, <1>4 DEF WInv, Worker!HandlerAndDriverAgree
    <2>2. Worker!NoDriver \notin Worker!DriverIds
      BY NoneIsNone DEF Worker!NoDriver, Worker!DriverIds, Worker!DriverId
    <2> QED BY <1>2, <2>1, <2>2
  <1>6. subs[r.driver] # {}
    BY <1>3, <1>5 DEF WInv, RunningIsBuilt
  <1>7. ASSUME NEW d \in Worker!Join(driverRows, r)
        PROVE  [name |-> d.name, cfg |-> d.cfg] \in subs[r.driver]
    <2>1. [name |-> d.name, cfg |-> Worker!SubscriberConfig(d.cfg)] \in subs[r.driver]
      BY <1>6 DEF WInv, SubscriberIsCurrent
    <2>2. [name |-> d.name, cfg |-> d.cfg, topic |-> t] \in Worker!PublishedAt(r)
      BY <1>1 DEF Worker!PublishedAt
    <2>3. d.cfg.prefix = NoPrefix
      BY <2>2
    <2>4. d.cfg \in Worker!Cfgs
      BY DEF WInv, Tables, Worker!Join, Worker!DriverRows
    <2>5. Worker!SubscriberConfig(d.cfg) = d.cfg
      BY <2>3, <2>4 DEF Worker!SubscriberConfig, Worker!Cfgs
    <2> QED BY <2>1, <2>5
  <1>8. Worker!PublishedAt(r) \subseteq Worker!ListensAt(t)
    <2> SUFFICES ASSUME NEW d \in Worker!Join(driverRows, r)
                 PROVE  [name |-> d.name, cfg |-> d.cfg, topic |-> t] \in Worker!ListensAt(t)
      BY <1>1 DEF Worker!PublishedAt
    <2> DEFINE s == [name |-> d.name, cfg |-> d.cfg]
    <2>1. s \in subs[topicDrivers[t]] /\ s.name = d.name /\ s.cfg = d.cfg
      BY <1>5, <1>7
    <2> HIDE DEF s
    <2>2. [name |-> s.name, cfg |-> s.cfg, topic |-> t] \in Worker!ListensAt(t)
      BY <1>5, <2>1 DEF Worker!ListensAt
    <2> QED BY <2>1, <2>2
  <1> QED BY <1>1, <1>4, <1>8 DEF Worker!Heard

\* WInv holds as long as the worker is in focus.
LEMMA WInvAlways == MCSpec => [](focus = "worker" => WInv)
  <1> DEFINE Inv == focus = "worker" => WInv
  <1>1. MCInit => Inv
    BY WInvInit DEF MCInit
  <1>2. Inv /\ [MCNext]_<<focus, vars, workerVars, exprVars>> => Inv'
    <2>1. [MCNext]_<<focus, vars, workerVars, exprVars>> =>
              UNCHANGED focus /\ (focus = "worker" => [Worker!Next]_(Worker!vars))
      BY DEF MCNext, workerVars, Worker!vars
    <2> QED BY <2>1, WInvNext
  <1> QED BY <1>1, <1>2, PTL DEF MCSpec

\* However administrators change the tables between the reads of a worker, a
\* running worker hears the events of every rule that is as it read it, where
\* the server publishes them; but for shared topics and prefixes.
THEOREM WorkerHeardUnlessChanged == MCSpec => []HeardUnlessChanged
  <1>1. (focus = "worker" => WInv) => HeardUnlessChanged
    BY WInvImplies DEF HeardUnlessChanged
  <1> QED BY <1>1, WInvAlways, PTL

\* The handler and the driver of a topic come from one rule, whichever rule was
\* read last.
THEOREM WorkerHandlerAndDriverAgree == MCSpec => []HandlerAndDriverAgree
  <1>1. (focus = "worker" => WInv) => HandlerAndDriverAgree
    BY DEF WInv, HandlerAndDriverAgree
  <1> QED BY <1>1, WInvAlways, PTL
=============================================================================
