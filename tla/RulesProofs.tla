---------------------------- MODULE RulesProofs ----------------------------
(***************************************************************************)
(* Proofs about RulesService.  EngineCurrent rests on the rule ids being    *)
(* unique, so that a write touches one tenant only, and on the listing of a *)
(* request that nobody has overlapped being the rules its context sees.     *)
(* OwnDriver and MatchingKept are about the tables alone.                   *)
(***************************************************************************)
EXTENDS RulesService, TLAPS

AllTenants == Tenants \cup {NoTenant}
DriverRows == [tenant : AllTenants, id : DriverIds, name : Names, cfg : Configs]

\* No two rules, stored or about to be inserted, share an id: CreateRule takes
\* a fresh one, and Updates keeps the id of the row.
IdsFresh ==
    /\ \A r \in rules : r.id <= made
    /\ \A c \in Clients : pc[c] = "insert" =>
          /\ row[c].id <= made
          /\ \A r \in rules : r.id # row[c].id
          /\ \A d \in Clients \ {c} : pc[d] = "insert" => row[d].id # row[c].id

\* The row a request is about to write carries the tenant of its context.
RowIsOwn ==
    \A c \in Clients :
        /\ pc[c] \in {"insert", "write"} => row[c] \in Rows
        /\ pc[c] \in {"insert", "write"} => row[c].tenant = ctx[c]

\* The request applies what its context sees, and, when nobody has overlapped
\* it, what its context sees now.
ListingInScope ==
    \A c \in Clients : pc[c] = "apply" => \A r \in listing[c] : InScope(ctx[c], r.tenant)
ListingIsCurrent ==
    \A c \in alone : pc[c] = "apply" => listing[c] = ListRules(rules, ctx[c])

RInv == TypeOK /\ IdsFresh /\ RowIsOwn /\ ListingInScope /\ ListingIsCurrent

-----------------------------------------------------------------------------
(* What the operators on the tables return.                                 *)

\* Loaded pairs every rule with the drivers of its own tenant and id.
LEMMA LoadedMember ==
    ASSUME NEW R, NEW D, NEW x
    PROVE  x \in Loaded(R, D) <=>
              \E r \in R : \E d \in D :
                 d.tenant = r.tenant /\ d.id = r.driver /\ x = Named(r, d)
  BY DEF Loaded, GetDriverByID, ListDrivers

\* An event of a tenant other than the empty one is matched against the rules
\* of that tenant, each with a driver of that tenant: the fallback of
\* loadRulesForTenant finds nothing that the join does not.
LEMMA LoadMember ==
    ASSUME NEW R, NEW D, NEW t, t # NoTenant, NEW x
    PROVE  x \in LoadRulesForTenant(R, D, t) <=>
              \E r \in R : \E d \in D :
                 r.tenant = t /\ d.tenant = t /\ d.id = r.driver /\ x = Named(r, d)
  <1>1. \A r \in ListRules(R, t) : r \in R /\ r.tenant = t
    BY DEF ListRules, InScope
  <1>2. \A r \in R : r.tenant = t => r \in ListRules(R, t)
    BY DEF ListRules, InScope
  <1>3. \A r : r.tenant = t => Join(D, r) = GetDriverByID(D, t, r.driver)
    BY DEF Join, GetDriverByID, ListDrivers
  <1>4. x \in LoadRulesForTenant(R, D, t) <=>
           \E r \in ListRules(R, t) : \E d \in GetDriverByID(D, t, r.driver) :
              x = Named(r, d)
    BY <1>1, <1>3 DEF LoadRulesForTenant
  <1> QED BY <1>1, <1>2, <1>4 DEF GetDriverByID, ListDrivers

\* What loads for a tenant does not depend on the drivers of the others.
LEMMA LoadedOfTenant ==
    ASSUME NEW T, NEW D, NEW E, NEW t,
           \A r \in T : r.tenant = t,
           \A d : d.tenant = t => (d \in D <=> d \in E)
    PROVE  Loaded(T, D) = Loaded(T, E)
  <1>1. \A x : x \in Loaded(T, D) <=> x \in Loaded(T, E)
    BY LoadedMember
  <1> QED BY <1>1 DEF Loaded

OfTenant(R, t) == {r \in R : r.tenant = t}

\* The part of a tenant in what loads is what loads of the tenant.
LEMMA LoadedPart ==
    ASSUME NEW R, NEW D, NEW t, NEW x
    PROVE  x \in Loaded(OfTenant(R, t), D) <=> x \in Loaded(R, D) /\ x.rule.tenant = t
  <1>1. \A r, d : Named(r, d).rule = r
    BY DEF Named
  <1> QED BY <1>1, LoadedMember DEF OfTenant

-----------------------------------------------------------------------------
(* OwnDriver.                                                               *)

\* A matched rule is loaded for its tenant.
LEMMA MatchedIsLoaded ==
    ASSUME NEW t \in Tenants, NEW x \in MatchRulesFromStore(rules, drivers, t, Strict)
    PROVE  \E r \in rules : \E d \in drivers :
              r.tenant = t /\ d.tenant = t /\ d.id = r.driver /\ x = Named(r, d)
  <1>1. x \in LoadRulesForTenant(rules, drivers, t)
    BY DEF MatchRulesFromStore, Evaluate
  <1> QED BY <1>1, LoadMember, RulesAssumption

\* An event of a tenant is published with a driver of that tenant, the one its
\* rule names: matchRulesFromStore never reaches another tenant's tables.
THEOREM RulesOwnDriver == Spec => []OwnDriver
  <1>1. OwnDriver
    BY MatchedIsLoaded DEF OwnDriver, Named
  <1> QED BY <1>1, PTL

-----------------------------------------------------------------------------
(* The tables keep their unique indexes.                                    *)

\* idx_driver_id and the primary key (tenant_id, name).
DriversUnique(D) ==
    \A d, e \in D : d.tenant = e.tenant =>
        (d.id = e.id) = (d = e) /\ (d.name = e.name) = (d = e)

\* UpsertDriver inserts a row or changes the configuration of one.
LEMMA UpsertKeepsDrivers ==
    ASSUME NEW D, D \subseteq DriverRows, DriversUnique(D),
           NEW t \in AllTenants, NEW id \in DriverIds, NEW n \in Names, NEW g \in Configs,
           ~UpsertClashes(D, t, id, n)
    PROVE  LET E == UpsertDriver(D, t, id, n, g)
           IN  /\ E \subseteq DriverRows
               /\ DriversUnique(E)
               /\ \A d \in D : \E e \in E : e.tenant = d.tenant /\ e.id = d.id /\ e.name = d.name
               /\ \A d : d.tenant # t => (d \in E <=> d \in D)
  <1> DEFINE E == UpsertDriver(D, t, id, n, g)
             old == GetDriver(D, t, n)
             fresh == [tenant |-> t, id |-> id, name |-> n, cfg |-> g]
  <1>0. fresh \in DriverRows /\ fresh.tenant = t /\ fresh.id = id /\ fresh.name = n
    BY DEF DriverRows
  <1>1. CASE old = {}
    <2>1. E = D \cup {fresh}
      BY <1>1 DEF UpsertDriver
    <2>2. \A d \in D : d.tenant = t => d.name # n /\ d.id # id
      BY <1>1 DEF UpsertClashes, GetDriver, GetDriverByID, ListDrivers
    <2> HIDE DEF E, fresh
    <2>3. E \subseteq DriverRows
      BY <1>0, <2>1
    <2>4. DriversUnique(E)
      BY <1>0, <2>1, <2>2 DEF DriversUnique
    <2>5. \A d \in D : \E e \in E : e.tenant = d.tenant /\ e.id = d.id /\ e.name = d.name
      BY <2>1
    <2>6. \A d : d.tenant # t => (d \in E <=> d \in D)
      BY <1>0, <2>1
    <2> QED BY <2>3, <2>4, <2>5, <2>6 DEF E
  <1>2. CASE old # {}
    <2>1. PICK o \in D : o.tenant = t /\ o.name = n /\ old = {o}
      BY <1>2 DEF GetDriver, ListDrivers, DriversUnique
    <2> DEFINE new == [o EXCEPT !.cfg = g]
    <2>2. new \in DriverRows /\ new.tenant = t /\ new.name = n /\ new.id = o.id
      BY <2>1 DEF DriverRows
    <2>3. E = (D \ {o}) \cup {new}
      BY <1>2, <2>1 DEF UpsertDriver
    <2> HIDE DEF E, new
    <2>4. E \subseteq DriverRows
      BY <2>2, <2>3
    <2>5. DriversUnique(E)
      BY <2>1, <2>2, <2>3 DEF DriversUnique
    <2>6. \A d \in D : \E e \in E : e.tenant = d.tenant /\ e.id = d.id /\ e.name = d.name
      BY <2>1, <2>2, <2>3
    <2>7. \A d : d.tenant # t => (d \in E <=> d \in D)
      BY <2>1, <2>2, <2>3
    <2> QED BY <2>4, <2>5, <2>6, <2>7 DEF E
  <1> QED BY <1>1, <1>2

\* DeleteDriver removes the driver of that name from its tenant.
LEMMA DeleteKeepsDrivers ==
    ASSUME NEW D, D \subseteq DriverRows, DriversUnique(D), NEW t, NEW n
    PROVE  LET E == DeleteDriver(D, t, n)
           IN  /\ E \subseteq DriverRows
               /\ DriversUnique(E)
               /\ \A d \in D : d \in E \/ (d.tenant = t /\ d.name = n)
               /\ \A d : d.tenant # t => (d \in E <=> d \in D)
  BY DEF DeleteDriver, GetDriver, ListDrivers, DriversUnique

\* The index of Rows on id.
RulesUnique(R) == \A r, s \in R : r.id = s.id => r = s

\* UpdateRule rewrites at most one row, in the tenant that owns it.
LEMMA UpdateKeepsRules ==
    ASSUME NEW R, R \subseteq Rows, RulesUnique(R), NEW t \in AllTenants,
           NEW w \in Rows, w.tenant = t
    PROVE  LET S == UpdateRule(R, t, w)
           IN  /\ S \subseteq Rows
               /\ RulesUnique(S)
               /\ \A s \in S : \E r \in R : r.id = s.id
               /\ GetRule(R, t, w.id) = {} => S = R
               /\ \A o \in GetRule(R, t, w.id) : \A r : r.tenant # o.tenant => (r \in S <=> r \in R)
  <1> DEFINE S == UpdateRule(R, t, w)
             old == GetRule(R, t, w.id)
  <1>1. CASE old = {}
    <2>1. S = R
      BY <1>1 DEF UpdateRule
    <2> QED BY <1>1, <2>1
  <1>2. CASE old # {}
    <2>1. PICK o \in R : o.id = w.id /\ InScope(t, o.tenant) /\ old = {o}
      BY <1>2 DEF GetRule, RulesUnique
    <2> DEFINE new == [w EXCEPT !.tenant = IF @ = NoTenant THEN o.tenant ELSE @,
                                !.js = IF @ = NoJS THEN o.js ELSE @]
    <2>2. new \in Rows /\ new.id = o.id /\ new.tenant = o.tenant
      <3>1. o \in Rows
        BY <2>1
      <3>2. (IF w.tenant = NoTenant THEN o.tenant ELSE w.tenant) = o.tenant
        BY <2>1 DEF InScope
      <3>3. o.tenant \in AllTenants /\ o.js \in Scripts
        BY <3>1 DEF Rows, AllTenants
      <3> QED BY <2>1, <3>2, <3>3 DEF Rows, AllTenants
    <2>3. S = (R \ {o}) \cup {new}
      BY <1>2, <2>1 DEF UpdateRule
    <2> HIDE DEF S, new
    <2>4. S \subseteq Rows
      BY <2>2, <2>3
    <2>5. RulesUnique(S)
      BY <2>1, <2>2, <2>3 DEF RulesUnique
    <2>6. \A s \in S : \E r \in R : r.id = s.id
      BY <2>1, <2>2, <2>3
    <2>7. \A r : r.tenant # o.tenant => (r \in S <=> r \in R)
      BY <2>1, <2>2, <2>3
    <2> QED BY <1>2, <2>1, <2>4, <2>5, <2>6, <2>7 DEF S
  <1> QED BY <1>1, <1>2

\* DeleteRule removes at most one row, from the tenant that owns it.
LEMMA DeleteKeepsRules ==
    ASSUME NEW R, R \subseteq Rows, RulesUnique(R), NEW t, NEW id
    PROVE  LET S == DeleteRule(R, t, id)
           IN  /\ S \subseteq R
               /\ GetRule(R, t, id) = {} => S = R
               /\ \A o \in GetRule(R, t, id) : \A r : r.tenant # o.tenant => (r \in S <=> r \in R)
  BY DEF DeleteRule, GetRule, RulesUnique

-----------------------------------------------------------------------------
(* Every step keeps RInv and EngineCurrent.                                 *)

EInv == RInv /\ EngineCurrent

\* Only the rules and the drivers of tenant u may have changed.
Only(u) ==
    /\ \A r : r.tenant # u => (r \in rules' <=> r \in rules)
    /\ \A d : d.tenant # u => (d \in drivers' <=> d \in drivers)

\* The engine stays current for the tenants that were not written.
LEMMA WriteKeepsEngine ==
    ASSUME EngineCurrent, NEW u, Only(u), clean' = clean \ {u}, engine' = engine
    PROVE  EngineCurrent'
  <1> SUFFICES ASSUME NEW t \in clean', Compiles(Loaded({r \in rules' : r.tenant = t}, drivers'))
               PROVE  engine'[t] = Loaded({r \in rules' : r.tenant = t}, drivers')
    BY DEF EngineCurrent
  <1>1. t \in clean /\ t # u
    OBVIOUS
  <1>2. /\ {r \in rules' : r.tenant = t} = {r \in rules : r.tenant = t}
        /\ \A d : d.tenant = t => (d \in drivers' <=> d \in drivers)
    BY <1>1 DEF Only
  <1> DEFINE T == {r \in rules : r.tenant = t}
  <1>3. \A r \in T : r.tenant = t
    OBVIOUS
  <1>4. Loaded({r \in rules' : r.tenant = t}, drivers')
            = Loaded({r \in rules : r.tenant = t}, drivers)
    <2> HIDE DEF T
    <2>1. Loaded(T, drivers') = Loaded(T, drivers)
      BY <1>2, <1>3, LoadedOfTenant
    <2> QED BY <1>2, <2>1 DEF T
  <1> QED BY <1>1, <1>4 DEF EngineCurrent

\* A request that is still alone sees the rules it saw before.
LEMMA WriteKeepsScope ==
    ASSUME NEW u, Only(u), NEW x, ~InScope(x, u)
    PROVE  ListRules(rules', x) = ListRules(rules, x)
  BY DEF Only, ListRules, InScope

\* The invariant holds before the first request.
LEMMA RulesInit ==
    ASSUME Init
    PROVE  EInv
  <1>1. TypeOK
    BY RulesAssumption DEF Init, TypeOK, DriverIds
  <1> QED BY <1>1 DEF Init, EInv, RInv, IdsFresh, RowIsOwn, ListingInScope,
                      ListingIsCurrent, EngineCurrent

\* CreateRule, before the insertion: a fresh id.
LEMMA StartCreateStep ==
    ASSUME EInv, NEW c \in Clients, NEW t \in Contexts, NEW in \in Inputs,
           StartCreate(c, t, in)
    PROVE  EInv'
  <1> USE DEF EInv, RInv
  <1>0. pc[c] = "idle" /\ ctx' = [ctx EXCEPT ![c] = t] /\ ops < MaxOps /\ ops' = ops + 1
    BY DEF StartCreate, Begin
  <1>1. UNCHANGED <<rules, drivers, engine, listing, alone, clean>>
    BY DEF StartCreate
  <1>2. EngineCurrent'
    BY <1>1 DEF EngineCurrent
  <1>3. CASE WellFormed(in) /\ Resolves(t, in.driver)
    <2> DEFINE new == RowOf(made + 1, t, in)
    <2>1. /\ made < MaxRules /\ made' = made + 1
          /\ pc' = [pc EXCEPT ![c] = "insert"]
          /\ row' = [row EXCEPT ![c] = new]
          /\ resp' = [resp EXCEPT ![c] = "none"]
      BY <1>3 DEF StartCreate
    <2>2. new \in Rows /\ new.id = made + 1 /\ new.tenant = t
      <3>1. made + 1 \in Ids
        BY <2>1, RulesAssumption DEF TypeOK, Ids
      <3> QED BY <1>3, <3>1, RulesAssumption DEF RowOf, Rows, Inputs, WellFormed
    <2> HIDE DEF new
    <2>3. TypeOK'
      BY <1>0, <1>1, <2>1, <2>2, RulesAssumption DEF TypeOK
    <2>4. IdsFresh'
      <3>1. \A r \in Rows : r.id \in Nat
        BY DEF Rows, Ids
      <3>2. made \in Nat
        BY DEF TypeOK
      <3>3. \A r \in rules : r.id \in Nat /\ r.id <= made
        BY <3>1 DEF TypeOK, IdsFresh
      <3>4. \A d \in Clients : pc[d] = "insert" => row[d].id \in Nat /\ row[d].id <= made
        BY <3>1 DEF RowIsOwn, IdsFresh
      <3>5. \A d \in Clients \ {c} : pc'[d] = pc[d] /\ row'[d] = row[d]
        BY <2>1 DEF TypeOK
      <3>6. pc'[c] = "insert" /\ row'[c] = new
        BY <2>1 DEF TypeOK
      <3>7. \A r \in rules' : r.id <= made'
        BY <1>1, <2>1, <3>2, <3>3
      <3>8. ASSUME NEW a \in Clients, pc'[a] = "insert"
            PROVE  /\ row'[a].id <= made'
                   /\ \A r \in rules' : r.id # row'[a].id
                   /\ \A d \in Clients \ {a} : pc'[d] = "insert" => row'[d].id # row'[a].id
        <4>1. CASE a = c
          BY <1>1, <2>1, <2>2, <3>2, <3>3, <3>4, <3>5, <3>6, <4>1
        <4>2. CASE a # c
          <5>1. pc[a] = "insert" /\ row'[a] = row[a]
            BY <3>5, <3>8, <4>2
          <5>2. row'[c].id # row'[a].id
            BY <2>2, <3>2, <3>4, <3>6, <5>1
          <5> QED BY <1>1, <2>1, <3>2, <3>4, <3>5, <5>1, <5>2 DEF IdsFresh
        <4> QED BY <4>1, <4>2
      <3> QED BY <3>7, <3>8 DEF IdsFresh
    <2>5. RowIsOwn'
      BY <1>0, <1>1, <2>1, <2>2 DEF RowIsOwn, TypeOK
    <2>6. ListingInScope' /\ ListingIsCurrent'
      BY <1>0, <1>1, <2>1 DEF ListingInScope, ListingIsCurrent, TypeOK
    <2> QED BY <1>2, <2>3, <2>4, <2>5, <2>6
  <1>4. CASE ~(WellFormed(in) /\ Resolves(t, in.driver))
    <2>1. /\ pc' = [pc EXCEPT ![c] = "idle"]
          /\ resp' = [resp EXCEPT ![c] = "invalid"]
          /\ UNCHANGED <<row, made>>
      BY <1>4 DEF StartCreate, Answer
    <2>3. TypeOK'
      BY <1>0, <1>1, <2>1, RulesAssumption DEF TypeOK
    <2>4. IdsFresh'
      BY <1>0, <1>1, <2>1 DEF IdsFresh, TypeOK
    <2>5. RowIsOwn'
      BY <1>0, <1>1, <2>1 DEF RowIsOwn, TypeOK
    <2>6. ListingInScope' /\ ListingIsCurrent'
      BY <1>0, <1>1, <2>1 DEF ListingInScope, ListingIsCurrent, TypeOK
    <2> QED BY <1>2, <2>3, <2>4, <2>5, <2>6
  <1> QED BY <1>3, <1>4

\* UpdateRule, before the write.
LEMMA StartUpdateStep ==
    ASSUME EInv, NEW c \in Clients, NEW t \in Contexts, NEW id \in Ids, NEW in \in Inputs,
           StartUpdate(c, t, id, in)
    PROVE  EInv'
  <1> USE DEF EInv, RInv
  <1>0. pc[c] = "idle" /\ ctx' = [ctx EXCEPT ![c] = t] /\ ops < MaxOps /\ ops' = ops + 1
    BY DEF StartUpdate, Begin
  <1>1. UNCHANGED <<rules, drivers, engine, made, listing, alone, clean>>
    BY DEF StartUpdate
  <1>2. EngineCurrent'
    BY <1>1 DEF EngineCurrent
  <1>3. CASE pc' = [pc EXCEPT ![c] = "write"]
    <2> DEFINE new == RowOf(id, t, in)
    <2>1. /\ WellFormed(in)
          /\ row' = [row EXCEPT ![c] = new]
          /\ resp' = [resp EXCEPT ![c] = "none"]
      <3>1. pc'[c] = "write"
        BY <1>3 DEF TypeOK
      <3>2. pc'[c] # "idle"
        BY <3>1
      <3> QED BY <3>2 DEF StartUpdate, Answer, TypeOK
    <2>2. new \in Rows /\ new.id = id /\ new.tenant = t
      BY <2>1, RulesAssumption DEF RowOf, Rows, Inputs, WellFormed
    <2> HIDE DEF new
    <2>3. TypeOK'
      BY <1>0, <1>1, <1>3, <2>1, <2>2, RulesAssumption DEF TypeOK
    <2>4. IdsFresh'
      BY <1>0, <1>1, <1>3, <2>1, <2>2 DEF IdsFresh, TypeOK
    <2>5. RowIsOwn'
      BY <1>0, <1>1, <1>3, <2>1, <2>2 DEF RowIsOwn, TypeOK
    <2>6. ListingInScope' /\ ListingIsCurrent'
      BY <1>0, <1>1, <1>3, <2>1 DEF ListingInScope, ListingIsCurrent, TypeOK
    <2> QED BY <1>2, <2>3, <2>4, <2>5, <2>6
  <1>4. CASE pc' # [pc EXCEPT ![c] = "write"]
    <2>1. \E a \in {"notfound", "invalid"} : Answer(c, a) /\ UNCHANGED row
      BY <1>4 DEF StartUpdate
    <2>2. /\ pc' = [pc EXCEPT ![c] = "idle"]
          /\ \E a \in {"notfound", "invalid"} : resp' = [resp EXCEPT ![c] = a]
          /\ UNCHANGED row
      BY <2>1 DEF Answer
    <2>3. TypeOK'
      BY <1>0, <1>1, <2>2, RulesAssumption DEF TypeOK
    <2>4. IdsFresh'
      BY <1>0, <1>1, <2>2 DEF IdsFresh, TypeOK
    <2>5. RowIsOwn'
      BY <1>0, <1>1, <2>2 DEF RowIsOwn, TypeOK
    <2>6. ListingInScope' /\ ListingIsCurrent'
      BY <1>0, <1>1, <2>2 DEF ListingInScope, ListingIsCurrent, TypeOK
    <2> QED BY <1>2, <2>3, <2>4, <2>5, <2>6
  <1> QED BY <1>3, <1>4

\* Store.CreateRule: the new rule is of the tenant of the request.
LEMMA InsertStep ==
    ASSUME EInv, NEW c \in Clients, Insert(c)
    PROVE  EInv'
  <1> USE DEF EInv, RInv
  <1> DEFINE u == row[c].tenant
  <1>0. /\ pc[c] = "insert" /\ rules' = rules \cup {row[c]}
        /\ pc' = [pc EXCEPT ![c] = "validate"]
        /\ alone' = {d \in alone : ~InScope(ctx[d], u)} \cup {c}
        /\ clean' = clean \ {u}
        /\ UNCHANGED <<drivers, engine, made, ops, ctx, row, listing, resp>>
    BY DEF Insert, Written, CreateRule
  <1>1. row[c] \in Rows /\ \A r \in rules : r.id # row[c].id
    BY <1>0 DEF RowIsOwn, IdsFresh
  <1>2. Only(u)
    BY <1>0 DEF Only
  <1>3. EngineCurrent'
    BY <1>0, <1>2, WriteKeepsEngine
  <1>4. TypeOK'
    BY <1>0, <1>1 DEF TypeOK
  <1>5. IdsFresh'
    BY <1>0, <1>1 DEF IdsFresh, TypeOK
  <1>6. RowIsOwn'
    BY <1>0 DEF RowIsOwn, TypeOK
  <1>7. ListingInScope'
    BY <1>0 DEF ListingInScope, TypeOK
  <1>8. ListingIsCurrent'
    <2> SUFFICES ASSUME NEW d \in alone', pc'[d] = "apply"
                 PROVE  listing'[d] = ListRules(rules', ctx'[d])
      BY DEF ListingIsCurrent
    <2>1. d \in alone /\ ~InScope(ctx[d], u) /\ pc[d] = "apply"
      BY <1>0 DEF TypeOK
    <2>2. ListRules(rules', ctx[d]) = ListRules(rules, ctx[d])
      BY <2>1, <1>2, WriteKeepsScope
    <2> QED BY <1>0, <2>1, <2>2 DEF ListingIsCurrent
  <1> QED BY <1>3, <1>4, <1>5, <1>6, <1>7, <1>8

\* Owner is the tenant of the row that a write reaches.
LEMMA OwnerIsTenant ==
    ASSUME TypeOK, NEW t \in AllTenants, NEW id
    PROVE  /\ \A o \in GetRule(rules, t, id) : o.tenant = Owner(t, id)
           /\ Owner(t, id) \in AllTenants
  <1>1. CASE GetRule(rules, t, id) = {}
    BY <1>1 DEF Owner
  <1>2. CASE GetRule(rules, t, id) # {}
    <2>1. PICK o \in rules : GetRule(rules, t, id) = {o}
      BY <1>2 DEF GetRule, TypeOK
    <2>2. o.tenant \in AllTenants
      BY <2>1 DEF TypeOK, Rows, AllTenants
    <2> QED BY <2>1, <2>2 DEF Owner
  <1> QED BY <1>1, <1>2

\* Store.UpdateRule: one row of one tenant, or none when the rule is gone.
LEMMA WriteStep ==
    ASSUME EInv, NEW c \in Clients, Write(c)
    PROVE  EInv'
  <1> USE DEF EInv, RInv
  <1> DEFINE u == Owner(ctx[c], row[c].id)
  <1>0. /\ pc[c] = "write" /\ rules' = UpdateRule(rules, ctx[c], row[c])
        /\ pc' = [pc EXCEPT ![c] = "list"]
        /\ alone' = {d \in alone : ~InScope(ctx[d], u)} \cup {c}
        /\ clean' = clean \ {u}
        /\ UNCHANGED <<drivers, engine, made, ops, ctx, row, listing, resp>>
    BY DEF Write, Written
  <1>1. row[c] \in Rows /\ row[c].tenant = ctx[c] /\ ctx[c] \in AllTenants
    BY <1>0, RulesAssumption DEF RowIsOwn, TypeOK, AllTenants
  <1>2. rules \subseteq Rows /\ RulesUnique(rules)
    BY DEF TypeOK, RulesUnique
  <1>3. /\ rules' \subseteq Rows /\ RulesUnique(rules')
        /\ \A s \in rules' : \E r \in rules : r.id = s.id
    BY <1>0, <1>1, <1>2, UpdateKeepsRules
  <1>4. Only(u)
    <2>1. \A o \in GetRule(rules, ctx[c], row[c].id) : o.tenant = u
      BY <1>1, OwnerIsTenant
    <2>3. /\ GetRule(rules, ctx[c], row[c].id) = {} => rules' = rules
          /\ \A o \in GetRule(rules, ctx[c], row[c].id) :
                \A r : r.tenant # o.tenant => (r \in rules' <=> r \in rules)
      <3> DEFINE w == row[c]
                 t == ctx[c]
      <3>1. w \in Rows /\ w.tenant = t /\ t \in AllTenants /\ rules' = UpdateRule(rules, t, w)
        BY <1>0, <1>1
      <3> HIDE DEF w, t
      <3>2. /\ GetRule(rules, t, w.id) = {} => rules' = rules
            /\ \A o \in GetRule(rules, t, w.id) :
                  \A r : r.tenant # o.tenant => (r \in rules' <=> r \in rules)
        BY ONLY <3>1, <1>2, UpdateKeepsRules
      <3> QED BY <3>2 DEF w, t
    <2> HIDE DEF u
    <2>2. \A r : r.tenant # u => (r \in rules' <=> r \in rules)
      <3>1. CASE GetRule(rules, ctx[c], row[c].id) = {}
        <4>1. rules' = rules
          BY <2>3, <3>1
        <4> QED BY <4>1
      <3>2. CASE GetRule(rules, ctx[c], row[c].id) # {}
        <4>1. PICK o \in GetRule(rules, ctx[c], row[c].id) : o.tenant = u
          BY <2>1, <3>2
        <4> QED BY <2>3, <4>1
      <3> QED BY <3>1, <3>2
    <2> QED BY <1>0, <2>2 DEF Only
  <1> HIDE DEF u
  <1>5. EngineCurrent'
    BY <1>0, <1>4, WriteKeepsEngine
  <1>6. TypeOK'
    BY <1>0, <1>3 DEF TypeOK, RulesUnique
  <1>7. IdsFresh'
    BY <1>0, <1>3 DEF IdsFresh, TypeOK
  <1>8. RowIsOwn' /\ ListingInScope'
    BY <1>0 DEF RowIsOwn, ListingInScope, TypeOK
  <1>9. ListingIsCurrent'
    <2> SUFFICES ASSUME NEW d \in alone', pc'[d] = "apply"
                 PROVE  listing'[d] = ListRules(rules', ctx'[d])
      BY DEF ListingIsCurrent
    <2>1. d \in alone /\ ~InScope(ctx[d], u) /\ pc[d] = "apply"
      BY <1>0 DEF TypeOK
    <2>2. ListRules(rules', ctx[d]) = ListRules(rules, ctx[d])
      BY <2>1, <1>4, WriteKeepsScope
    <2> QED BY <1>0, <2>1, <2>2 DEF ListingIsCurrent
  <1> QED BY <1>5, <1>6, <1>7, <1>8, <1>9

\* DeleteRule, up to the deletion.
LEMMA DeleteRuleStep ==
    ASSUME EInv, NEW c \in Clients, NEW t \in Contexts, NEW id \in Ids,
           DeleteRuleRPC(c, t, id)
    PROVE  EInv'
  <1> USE DEF EInv, RInv
  <1> DEFINE u == Owner(t, id)
  <1>0. /\ pc[c] = "idle" /\ rules' = DeleteRule(rules, t, id)
        /\ ops < MaxOps /\ ops' = ops + 1 /\ ctx' = [ctx EXCEPT ![c] = t]
        /\ pc' = [pc EXCEPT ![c] = "list"]
        /\ resp' = [resp EXCEPT ![c] = "none"]
        /\ alone' = {d \in alone : ~InScope(ctx[d], u)} \cup {c}
        /\ clean' = clean \ {u}
        /\ UNCHANGED <<drivers, engine, made, row, listing>>
    BY DEF DeleteRuleRPC, Begin
  <1>1. t \in AllTenants
    BY RulesAssumption DEF AllTenants
  <1>2. rules \subseteq Rows /\ RulesUnique(rules)
    BY DEF TypeOK, RulesUnique
  <1>3. rules' \subseteq rules
    BY <1>0, <1>2, DeleteKeepsRules
  <1>4. Only(u)
    <2>1. \A o \in GetRule(rules, t, id) : o.tenant = u
      BY <1>1, OwnerIsTenant
    <2> HIDE DEF u
    <2>2. \A r : r.tenant # u => (r \in rules' <=> r \in rules)
      <3>1. CASE GetRule(rules, t, id) = {}
        <4>1. rules' = rules
          BY <1>0, <1>2, <3>1, DeleteKeepsRules
        <4> QED BY <4>1
      <3>2. CASE GetRule(rules, t, id) # {}
        <4>1. PICK o \in GetRule(rules, t, id) : o.tenant = u
          BY <2>1, <3>2
        <4> QED BY <1>0, <1>2, <4>1, DeleteKeepsRules
      <3> QED BY <3>1, <3>2
    <2> QED BY <1>0, <2>2 DEF Only
  <1> HIDE DEF u
  <1>5. EngineCurrent'
    BY <1>0, <1>4, WriteKeepsEngine
  <1>6. TypeOK'
    BY <1>0, <1>3, RulesAssumption DEF TypeOK
  <1>7. IdsFresh'
    BY <1>0, <1>3 DEF IdsFresh, TypeOK
  <1>8. RowIsOwn' /\ ListingInScope'
    BY <1>0 DEF RowIsOwn, ListingInScope, TypeOK
  <1>9. ListingIsCurrent'
    <2> SUFFICES ASSUME NEW d \in alone', pc'[d] = "apply"
                 PROVE  listing'[d] = ListRules(rules', ctx'[d])
      BY DEF ListingIsCurrent
    <2>1. d \in alone /\ ~InScope(ctx[d], u) /\ pc[d] = "apply" /\ ctx'[d] = ctx[d]
      BY <1>0 DEF TypeOK
    <2>2. ListRules(rules', ctx[d]) = ListRules(rules, ctx[d])
      BY <2>1, <1>4, WriteKeepsScope
    <2> QED BY <1>0, <2>1, <2>2 DEF ListingIsCurrent
  <1> QED BY <1>5, <1>6, <1>7, <1>8, <1>9

\* validateRuleSubscriber, and the listing of refreshEngine.
LEMMA ReadSteps ==
    ASSUME EInv, NEW c \in Clients, Validate(c) \/ List(c)
    PROVE  EInv'
  <1> USE DEF EInv, RInv
  <1>1. UNCHANGED <<rules, drivers, engine, made, ops, ctx, row, alone, clean>>
    BY DEF Validate, List
  <1>2. EngineCurrent'
    BY <1>1 DEF EngineCurrent
  <1>3. CASE Validate(c)
    <2>1. /\ pc' = [pc EXCEPT ![c] = "list"] \/ pc' = [pc EXCEPT ![c] = "idle"]
          /\ resp' = resp \/ resp' = [resp EXCEPT ![c] = "internal"]
          /\ listing' = listing
      BY <1>3 DEF Validate, Answer
    <2>2. TypeOK'
      BY <1>1, <2>1 DEF TypeOK
    <2>3. IdsFresh' /\ RowIsOwn'
      BY <1>1, <2>1 DEF IdsFresh, RowIsOwn, TypeOK
    <2>4. ListingInScope' /\ ListingIsCurrent'
      BY <1>1, <2>1 DEF ListingInScope, ListingIsCurrent, TypeOK
    <2> QED BY <1>2, <2>2, <2>3, <2>4
  <1>4. CASE List(c)
    <2>1. /\ pc' = [pc EXCEPT ![c] = "apply"] /\ resp' = resp
          /\ listing' = [listing EXCEPT ![c] = ListRules(rules, ctx[c])]
      BY <1>4 DEF List
    <2>2. /\ ListRules(rules, ctx[c]) \subseteq Rows
          /\ \A r \in ListRules(rules, ctx[c]) : InScope(ctx[c], r.tenant)
      BY DEF ListRules, TypeOK
    <2>3. TypeOK'
      BY <1>1, <2>1, <2>2 DEF TypeOK
    <2>4. IdsFresh' /\ RowIsOwn'
      BY <1>1, <2>1 DEF IdsFresh, RowIsOwn, TypeOK
    <2>5. ListingInScope' /\ ListingIsCurrent'
      BY <1>1, <2>1, <2>2 DEF ListingInScope, ListingIsCurrent, TypeOK
    <2> QED BY <1>2, <2>3, <2>4, <2>5
  <1> QED BY <1>3, <1>4

\* UpsertDriver and DeleteDriver: the drivers of one tenant.
LEMMA DriverSteps ==
    ASSUME EInv, NEW c \in Clients, NEW t \in Contexts,
           \/ \E n \in Names : DeleteDriverRPC(c, t, n)
           \/ \E n \in Names, g \in Configs : \E id \in Chosen \cup {<<t, n>>} :
                 UpsertDriverRPC(c, t, id, n, g)
    PROVE  EInv'
  <1> USE DEF EInv, RInv
  <1>0. /\ pc[c] = "idle" /\ ops < MaxOps /\ ops' = ops + 1 /\ ctx' = [ctx EXCEPT ![c] = t]
        /\ pc' = [pc EXCEPT ![c] = "idle"]
        /\ \E a \in {"ok", "internal"} : resp' = [resp EXCEPT ![c] = a]
        /\ row' = [row EXCEPT ![c] = NoRow]
        /\ UNCHANGED <<rules, engine, made, listing>>
    BY DEF DeleteDriverRPC, UpsertDriverRPC, Begin, Answer
  <1>1. t \in AllTenants
    BY RulesAssumption DEF AllTenants
  <1>2. drivers \subseteq DriverRows /\ DriversUnique(drivers)
    BY DEF TypeOK, DriverRows, DriversUnique, AllTenants
  <1> DEFINE OneTenant == /\ drivers' \subseteq DriverRows /\ DriversUnique(drivers')
                          /\ alone' \subseteq alone
                          /\ \/ UNCHANGED <<drivers, clean>>
                             \/ Only(t) /\ clean' = clean \ {t}
  <1>3. OneTenant
    <2>1. ASSUME NEW n \in Names, DeleteDriverRPC(c, t, n)
          PROVE  OneTenant
      <3>1. drivers' = DeleteDriver(drivers, t, n) /\ DriverWritten(t)
        BY <2>1 DEF DeleteDriverRPC
      <3>2. /\ drivers' \subseteq DriverRows /\ DriversUnique(drivers')
            /\ \A d : d.tenant # t => (d \in drivers' <=> d \in drivers)
        BY <1>2, <3>1, DeleteKeepsDrivers
      <3> QED BY <1>0, <3>1, <3>2 DEF Only, DriverWritten
    <2>2. ASSUME NEW n \in Names, NEW g \in Configs, NEW id \in Chosen \cup {<<t, n>>},
                 UpsertDriverRPC(c, t, id, n, g)
          PROVE  OneTenant
      <3>1. CASE UpsertClashes(drivers, t, id, n)
        <4>1. UNCHANGED <<drivers, alone, clean>>
          BY <2>2, <3>1 DEF UpsertDriverRPC
        <4>2. DriversUnique(drivers')
          BY <1>2, <4>1 DEF DriversUnique
        <4> QED BY <1>2, <4>1, <4>2
      <3>2. CASE ~UpsertClashes(drivers, t, id, n)
        <4>1. drivers' = UpsertDriver(drivers, t, id, n, g) /\ DriverWritten(t)
          BY <2>2, <3>2 DEF UpsertDriverRPC
        <4>2. id \in DriverIds
          BY DEF DriverIds
        <4>3. /\ drivers' \subseteq DriverRows /\ DriversUnique(drivers')
              /\ \A d : d.tenant # t => (d \in drivers' <=> d \in drivers)
          BY <1>1, <1>2, <3>2, <4>1, <4>2, UpsertKeepsDrivers
        <4> QED BY <1>0, <4>1, <4>3 DEF Only, DriverWritten
      <3> QED BY <3>1, <3>2
    <2> QED BY <2>1, <2>2
  <1>4. EngineCurrent'
    <2>1. CASE UNCHANGED <<drivers, clean>>
      BY <1>0, <2>1 DEF EngineCurrent
    <2>2. CASE Only(t) /\ clean' = clean \ {t}
      BY <1>0, <2>2, WriteKeepsEngine
    <2> QED BY <1>3, <2>1, <2>2
  <1>5. TypeOK'
    <2>1. clean' \subseteq clean
      BY <1>3
    <2> QED BY <1>0, <1>3, <2>1, RulesAssumption DEF TypeOK, DriverRows, DriversUnique, AllTenants
  <1>6. IdsFresh' /\ RowIsOwn'
    BY <1>0 DEF IdsFresh, RowIsOwn, TypeOK
  <1>7. ListingInScope' /\ ListingIsCurrent'
    BY <1>0, <1>3 DEF ListingInScope, ListingIsCurrent, TypeOK
  <1> QED BY <1>4, <1>5, <1>6, <1>7

\* What loads is a compiled rule of the tenant of its row.
LEMMA LoadedTyped ==
    ASSUME TypeOK, NEW R, R \subseteq Rows
    PROVE  \A x \in Loaded(R, drivers) :
              x \in [rule : Rows, name : Names] /\ x.rule \in R
  <1> SUFFICES ASSUME NEW x \in Loaded(R, drivers)
               PROVE  x \in [rule : Rows, name : Names] /\ x.rule \in R
    OBVIOUS
  <1>1. PICK r \in R, d \in drivers : x = Named(r, d)
    BY LoadedMember
  <1>2. d.name \in Names
    BY <1>1 DEF TypeOK
  <1> QED BY <1>1, <1>2 DEF Named

\* The rules that a context sees of a tenant in its scope.
LEMMA ListedOfTenant ==
    ASSUME NEW x, NEW t, InScope(x, t)
    PROVE  {r \in ListRules(rules, x) : r.tenant = t} = {r \in rules : r.tenant = t}
  BY DEF ListRules, InScope

\* refreshEngine: the groups that compile replace the rules of their tenants,
\* and are the rules of the table when nobody has overlapped the request.
LEMMA ApplyStep ==
    ASSUME EInv, NEW c \in Clients, Apply(c)
    PROVE  EInv'
  <1> USE DEF EInv, RInv
  <1> DEFINE rs == Loaded(listing[c], drivers)
             part(t) == Loaded({r \in listing[c] : r.tenant = t}, drivers)
             all == {r.rule.tenant : r \in rs}
             good == {t \in all : Compiles({r \in rs : r.rule.tenant = t})}
  <1>0. /\ pc[c] = "apply" /\ pc' = [pc EXCEPT ![c] = "idle"]
        /\ resp' = [resp EXCEPT ![c] = "ok"] /\ alone' = alone \ {c}
        /\ UNCHANGED <<rules, drivers, made, ops, ctx, row, listing>>
    BY DEF Apply, Answer
  <1>1. listing[c] \subseteq Rows /\ ctx[c] \in AllTenants
    BY RulesAssumption DEF TypeOK, AllTenants
  <1>2. \A x \in rs : x \in [rule : Rows, name : Names] /\ x.rule \in listing[c]
    BY <1>1, LoadedTyped
  <1>3. \A t : {x \in rs : x.rule.tenant = t} = part(t)
    <2> TAKE t
    <2>1. \A x : x \in Loaded(OfTenant(listing[c], t), drivers) <=> x \in rs /\ x.rule.tenant = t
      BY LoadedPart
    <2>2. \A x : x \in part(t) <=> x \in rs /\ x.rule.tenant = t
      BY <2>1 DEF OfTenant
    <2> HIDE DEF rs
    <2> QED BY <2>2 DEF Loaded
  <1>4. \A t : c \in alone /\ InScope(ctx[c], t) =>
               part(t) = Loaded({r \in rules : r.tenant = t}, drivers)
    <2> SUFFICES ASSUME NEW t, c \in alone, InScope(ctx[c], t)
                 PROVE  part(t) = Loaded({r \in rules : r.tenant = t}, drivers)
      OBVIOUS
    <2>1. listing[c] = ListRules(rules, ctx[c])
      BY <1>0 DEF ListingIsCurrent
    <2> QED BY <2>1, ListedOfTenant
  <1>5. PICK done \in SUBSET AllTenants :
           /\ engine' = [t \in AllTenants |-> IF t \in done THEN part(t) ELSE engine[t]]
           /\ clean' \subseteq AllTenants
           /\ \A t \in clean' : (t \in clean /\ t \notin done)
                 \/ (c \in alone /\ InScope(ctx[c], t) /\ (t \in done \/ ~Compiles(part(t))))
    <2>1. CASE ctx[c] # NoTenant
      <3>1. /\ engine' = EngineUpdate(ctx[c], rs)
            /\ clean' = IF c \in alone THEN clean \cup {ctx[c]} ELSE clean \ {ctx[c]}
        BY <2>1 DEF Apply
      <3>2. rs = part(ctx[c])
        <4>1. \A r \in listing[c] : r.tenant = ctx[c]
          BY <1>0, <2>1 DEF ListingInScope, InScope
        <4>2. listing[c] = {r \in listing[c] : r.tenant = ctx[c]}
          BY <4>1
        <4> QED BY <4>2
      <3> DEFINE done == IF Compiles(rs) THEN {ctx[c]} ELSE {}
      <3> HIDE DEF rs, part
      <3>3. engine' = [t \in AllTenants |-> IF t \in done THEN part(t) ELSE engine[t]]
        BY <1>1, <3>1, <3>2 DEF EngineUpdate, TypeOK, AllTenants
      <3>4. clean' \subseteq AllTenants
        BY <1>1, <3>1 DEF TypeOK, AllTenants
      <3>5. \A t \in clean' : (t \in clean /\ t \notin done)
               \/ (c \in alone /\ InScope(ctx[c], t) /\ (t \in done \/ ~Compiles(part(t))))
        BY <3>1, <3>2 DEF InScope
      <3>6. done \in SUBSET AllTenants
        BY <1>1
      <3> QED BY <3>3, <3>4, <3>5, <3>6
    <2>2. CASE ctx[c] = NoTenant
      <3>1. PICK done \in SUBSET good :
               /\ engine' = EngineUpdateAll(rs, done)
               /\ clean' = IF c \in alone THEN clean \cup done ELSE clean \ done
        BY <2>2 DEF Apply
      <3>2. all \subseteq AllTenants
        BY <1>2 DEF Rows, AllTenants
      <3>3. done \in SUBSET AllTenants
        BY <3>2
      <3>4. DOMAIN engine = AllTenants
        BY DEF TypeOK, AllTenants
      <3>5. engine' = [t \in AllTenants |-> IF t \in done THEN part(t) ELSE engine[t]]
        <4> HIDE DEF rs, part
        <4> QED BY <1>3, <3>1, <3>4 DEF EngineUpdateAll
      <3>6. clean' \subseteq AllTenants
        BY <3>1, <3>3 DEF TypeOK, AllTenants
      <3>7. \A t \in clean' : (t \in clean /\ t \notin done)
               \/ (c \in alone /\ InScope(ctx[c], t) /\ (t \in done \/ ~Compiles(part(t))))
        BY <2>2, <3>1 DEF InScope
      <3> QED BY <3>3, <3>5, <3>6, <3>7
    <2> QED BY <2>1, <2>2
  <1>6. EngineCurrent'
    <2> SUFFICES ASSUME NEW t \in clean',
                        Compiles(Loaded({r \in rules : r.tenant = t}, drivers))
                 PROVE  engine'[t] = Loaded({r \in rules : r.tenant = t}, drivers)
      BY <1>0 DEF EngineCurrent
    <2> DEFINE now == Loaded({r \in rules : r.tenant = t}, drivers)
    <2>1. t \in AllTenants
      BY <1>5
    <2>2. CASE t \in clean /\ t \notin done
      <3>1. engine[t] = now
        BY <2>2 DEF EngineCurrent
      <3>2. engine'[t] = now
        <4> HIDE DEF part, now
        <4> QED BY <1>5, <2>1, <2>2, <3>1
      <3> QED BY <3>2
    <2>3. CASE c \in alone /\ InScope(ctx[c], t) /\ (t \in done \/ ~Compiles(part(t)))
      <3>1. part(t) = now
        BY <1>4, <2>3
      <3>2. Compiles(now)
        OBVIOUS
      <3>3. engine'[t] = now
        <4> HIDE DEF part, now
        <4> QED BY <1>5, <2>1, <2>3, <3>1, <3>2
      <3> QED BY <3>3
    <2> QED BY <1>5, <2>2, <2>3
  <1>7. TypeOK'
    <2>1. \A t \in AllTenants : \A x \in engine'[t] :
             x \in [rule : Rows, name : Names] /\ x.rule.tenant = t
      <3> SUFFICES ASSUME NEW t \in AllTenants, NEW x \in engine'[t]
                   PROVE  x \in [rule : Rows, name : Names] /\ x.rule.tenant = t
        OBVIOUS
      <3>1. CASE t \in done
        <4>1. x \in part(t)
          <5> HIDE DEF part
          <5> QED BY <1>5, <3>1
        <4>2. x \in rs /\ x.rule.tenant = t
          BY <1>3, <4>1
        <4> QED BY <1>2, <4>2
      <3>2. CASE t \notin done
        <4>1. x \in engine[t]
          <5> HIDE DEF part
          <5> QED BY <1>5, <3>2
        <4> QED BY <4>1 DEF TypeOK, AllTenants
      <3> QED BY <3>1, <3>2
    <2>2. engine' \in [AllTenants -> SUBSET [rule : Rows, name : Names]]
      <3>1. engine' = [t \in AllTenants |-> engine'[t]]
        BY <1>5
      <3>2. \A t \in AllTenants : engine'[t] \in SUBSET [rule : Rows, name : Names]
        BY <2>1
      <3> QED BY <3>1, <3>2
    <2>3. clean' \subseteq AllTenants
      BY <1>5
    <2> HIDE DEF rs, part, all, good
    <2> QED BY <1>0, <2>1, <2>2, <2>3 DEF TypeOK, AllTenants
  <1>8. IdsFresh' /\ RowIsOwn'
    BY <1>0 DEF IdsFresh, RowIsOwn, TypeOK
  <1>9. ListingInScope' /\ ListingIsCurrent'
    BY <1>0 DEF ListingInScope, ListingIsCurrent, TypeOK
  <1> QED BY <1>6, <1>7, <1>8, <1>9

\* EInv is inductive.
LEMMA RulesStep ==
    ASSUME EInv, [Next]_vars
    PROVE  EInv'
  <1>1. CASE Next
    <2> PICK c \in Clients :
           \/ Insert(c) \/ Validate(c) \/ Write(c) \/ List(c) \/ Apply(c)
           \/ \E t \in Contexts :
                 \/ \E in \in Inputs : StartCreate(c, t, in)
                 \/ \E id \in Ids, in \in Inputs : StartUpdate(c, t, id, in)
                 \/ \E id \in Ids : DeleteRuleRPC(c, t, id)
                 \/ \E n \in Names : DeleteDriverRPC(c, t, n)
                 \/ \E n \in Names, g \in Configs : \E id \in Chosen \cup {<<t, n>>} :
                       UpsertDriverRPC(c, t, id, n, g)
      BY <1>1 DEF Next
    <2> QED BY StartCreateStep, StartUpdateStep, InsertStep, WriteStep, DeleteRuleStep,
               ReadSteps, DriverSteps, ApplyStep
  <1>2. CASE UNCHANGED vars
    BY <1>2 DEF vars, EInv, RInv, TypeOK, IdsFresh, RowIsOwn, ListingInScope,
                ListingIsCurrent, EngineCurrent
  <1> QED BY <1>1, <1>2

\* EInv holds in every state.
LEMMA RulesInvariant == Spec => []EInv
  BY RulesInit, RulesStep, PTL DEF Spec

\* The tables, the engine and the requests in progress stay well typed; in
\* particular no driver or rule id is ever stored twice.
THEOREM RulesTypeOK == Spec => []TypeOK
  BY RulesInvariant, PTL DEF EInv, RInv

\* After a refresh that no other write overlaps, the engine of a tenant holds
\* the rules of the table, whatever requests of other tenants, or of contexts
\* without tenant, come in between.
THEOREM RulesEngineCurrent == Spec => []EngineCurrent
  BY RulesInvariant, PTL DEF EInv

-----------------------------------------------------------------------------
(* MatchingKept.                                                            *)

\* A driver keeps its id and its name, unless its tenant deletes it.
LEMMA DriverKept ==
    ASSUME TypeOK, [Next]_vars, NEW d \in drivers
    PROVE  \/ \E e \in drivers' : e.tenant = d.tenant /\ e.id = d.id /\ e.name = d.name
           \/ drivers' = DeleteDriver(drivers, d.tenant, d.name)
  <1>1. drivers \subseteq DriverRows /\ DriversUnique(drivers)
    BY DEF TypeOK, DriverRows, DriversUnique, AllTenants
  <1>2. CASE drivers' = drivers
    BY <1>2
  <1>3. ASSUME NEW c \in Clients, NEW t \in Contexts, NEW n \in Names, DeleteDriverRPC(c, t, n)
        PROVE  \/ d \in drivers'
               \/ drivers' = DeleteDriver(drivers, d.tenant, d.name)
    <2>1. drivers' = DeleteDriver(drivers, t, n)
      BY <1>3 DEF DeleteDriverRPC
    <2>2. d \in drivers' \/ (d.tenant = t /\ d.name = n)
      BY <1>1, <2>1, DeleteKeepsDrivers
    <2> QED BY <2>1, <2>2
  <1>4. ASSUME NEW c \in Clients, NEW t \in Contexts, NEW n \in Names, NEW g \in Configs,
               NEW id \in Chosen \cup {<<t, n>>}, UpsertDriverRPC(c, t, id, n, g)
        PROVE  \E e \in drivers' : e.tenant = d.tenant /\ e.id = d.id /\ e.name = d.name
    <2>1. CASE UpsertClashes(drivers, t, id, n)
      BY <1>4, <2>1 DEF UpsertDriverRPC
    <2>2. CASE ~UpsertClashes(drivers, t, id, n)
      <3>1. drivers' = UpsertDriver(drivers, t, id, n, g)
        BY <1>4, <2>2 DEF UpsertDriverRPC
      <3>2. t \in AllTenants /\ id \in DriverIds
        BY RulesAssumption DEF AllTenants, DriverIds
      <3> QED BY <1>1, <2>2, <3>1, <3>2, UpsertKeepsDrivers
    <2> QED BY <2>1, <2>2
  <1>5. CASE Next
    BY <1>2, <1>3, <1>4, <1>5 DEF Next, Insert, Validate, Write, List, Apply,
       StartCreate, StartUpdate, DeleteRuleRPC
  <1>6. CASE UNCHANGED vars
    BY <1>2, <1>6 DEF vars
  <1> QED BY <1>5, <1>6

\* No request silently stops a rule of anyone.
LEMMA StepKeepsMatching ==
    ASSUME TypeOK, [Next]_vars
    PROVE  KeepsMatching
  <1> SUFFICES ASSUME NEW t \in Tenants, NEW r \in Matches(rules, drivers, t),
                      r \in rules',
                      ~\E d \in Join(drivers, r) : drivers' = DeleteDriver(drivers, t, d.name),
                      ~\E b \in LoadRulesForTenant(rules', drivers', t)
                                 \ LoadRulesForTenant(rules, drivers, t) : b.rule.when \in Broken
               PROVE  r \in Matches(rules', drivers', t)
    BY DEF KeepsMatching
  <1> DEFINE before == LoadRulesForTenant(rules, drivers, t)
             after == LoadRulesForTenant(rules', drivers', t)
  <1>1. PICK x \in MatchRulesFromStore(rules, drivers, t, Strict) : x.rule = r
    BY DEF Matches
  <1>2. Compiles(before) /\ x \in Evaluate(before, Strict)
    BY <1>1 DEF MatchRulesFromStore
  <1>3. Compiles(after)
    BY <1>2 DEF Compiles
  <1>4. PICK d \in drivers : r.tenant = t /\ d.tenant = t /\ d.id = r.driver
    BY <1>1, MatchedIsLoaded DEF Named
  <1>5. PICK e \in drivers' : e.tenant = t /\ e.id = r.driver
    BY <1>4, DriverKept DEF Join
  <1> DEFINE y == Named(r, e)
  <1>6. y \in after
    BY <1>4, <1>5, LoadMember, RulesAssumption
  <1>7. y.rule = r
    BY DEF Named
  <1>8. y \in Evaluate(after, Strict)
    <2> HIDE DEF before, after, y
    <2> QED BY <1>1, <1>2, <1>6, <1>7 DEF Evaluate
  <1>9. y \in MatchRulesFromStore(rules', drivers', t, Strict)
    BY <1>3, <1>8 DEF MatchRulesFromStore
  <1> QED BY <1>7, <1>9 DEF Matches

\* What one administrator does stops a rule from matching only by changing or
\* deleting it, by deleting its driver, or by loading an expression that does
\* not compile in its tenant.
THEOREM RulesMatchingKept == Spec => MatchingKept
  <1>1. TypeOK /\ [Next]_vars => [KeepsMatching]_vars
    BY StepKeepsMatching
  <1> QED BY <1>1, RulesTypeOK, PTL DEF Spec, MatchingKept

=============================================================================
