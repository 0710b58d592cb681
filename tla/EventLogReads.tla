---------------------------- MODULE EventLogReads ----------------------------
(***************************************************************************)
(* The reads of the event log (pkg/api/eventlogs_service.go over            *)
(* pkg/storage/eventlogs): a client pages through the log, asks for groups, *)
(* for a time series or for the analytics, while webhooks add rows and      *)
(* workers change their status.  Each page is a request of its own, and     *)
(* each number of the analytics is a query of its own.  A blank column is   *)
(* "".  The store of the tests (MockEventLogStore) is the reference that    *)
(* the SQL store is compared with.                                          *)
(***************************************************************************)
EXTENDS Integers, SequencesExt

CONSTANTS
    Ids,        \* identifiers of rows: numbers, since they are ordered
    Times,      \* created_at
    Contents,   \* what a webhook may record: the other columns of a row
    Filters,    \* what a client may ask for
    Intervals,  \* [len, shift]: hour, day or week
    Zones,      \* offsets of the time zone of the database session
    PageSize,
    MaxWrites   \* bound: writes while a client is at work

VARIABLES
    table,      \* set of rows: the contents, id and at
    client,     \* the client and its request
    writes      \* changes of the table since the client started

vars == <<table, client, writes>>

Idle == [op |-> "none"]
Init == table = {} /\ client = Idle /\ writes = 0

-----------------------------------------------------------------------------
(* The table.                                                               *)

Row(id, at, c) == [id |-> id, at |-> at] @@ c

\* applyFilter; where holds the columns that must have a given value.
Matches(r, f) ==
    /\ f.tenant # "" => r.tenant = f.tenant
    /\ \A c \in DOMAIN f.where : r[c] = f.where[c]
    /\ f.matchedOnly => r.matched
    /\ f.start <= r.at /\ r.at <= f.end
ApplyFilter(rows, f) == {r \in rows : Matches(r, f)}

Write(rows) ==
    /\ client # Idle => ~client.done /\ writes < MaxWrites
    /\ writes' = IF client = Idle THEN 0 ELSE writes + 1
    /\ table' = rows
    /\ UNCHANGED client

\* CreateEventLogs.  The handler takes the time before it inserts, so a row may
\* be older than rows that are already there.
Insert(id, at, c) ==
    /\ \A r \in table : r.id # id
    /\ Write(table \union {Row(id, at, c)})

UpdateStatus(r) ==
    /\ ~r.failed
    /\ Write((table \ {r}) \union {[r EXCEPT !.failed = TRUE]})

-----------------------------------------------------------------------------
(* ListEventLogs.                                                           *)

\* order by created_at desc, id desc
Before(r, s) == r.at > s.at \/ (r.at = s.at /\ r.id > s.id)

NoCursor == [at |-> 0, id |-> 0]

\* Mutant: the cursor is only a time.
AfterCursorByTime(r, cursor) == cursor # NoCursor => r.at < cursor.at

\* The predicate of a cursor.
AfterCursor(r, cursor) == cursor # NoCursor => Before(cursor, r)

First(s, n) == SubSeq(s, 1, IF Len(s) < n THEN Len(s) ELSE n)

\* ListEventLogs of the store.
StoreList(f, cursor, limit) ==
    First(SetToSortSeq({r \in ApplyFilter(table, f) : AfterCursor(r, cursor)}, Before), limit)

\* ListEventLogs of the service asks for one row more than a page has, and only
\* then gives a token: the cursor of the last row of the page.
ListPage(f, cursor) ==
    LET rows == StoreList(f, cursor, PageSize + 1)
        more == Len(rows) > PageSize
        page == First(rows, PageSize)
    IN  [rows |-> page, more |-> more, cursor |-> IF more THEN [at |-> Last(page).at, id |-> Last(page).id] ELSE NoCursor]

\* MockEventLogStore.ListEventLogs: a column of the filter that is not given
\* rejects no record.
MockListEventLogs(f) ==
    LET given == {c \in DOMAIN f.where : f.where[c] # ""}
    IN  table \ {r \in table : \/ f.tenant \notin {"", r.tenant}
                               \/ \E c \in given : r[c] # f.where[c]
                               \/ f.matchedOnly /\ ~r.matched
                               \/ r.at < f.start \/ r.at > f.end}

\* The client remembers what the store of the tests would give it at once.
StartList(f) ==
    /\ client = Idle
    /\ client' = [op |-> "list", filter |-> f, cursor |-> NoCursor, seen |-> << >>, done |-> FALSE,
                  initial |-> {r.id : r \in MockListEventLogs(f)}]
    /\ UNCHANGED <<table, writes>>

ListEventLogs ==
    /\ client.op = "list" /\ ~client.done
    /\ LET p == ListPage(client.filter, client.cursor)
       IN  client' = [client EXCEPT !.cursor = p.cursor, !.done = ~p.more,
                                    !.seen = @ \o [i \in DOMAIN p.rows |-> p.rows[i].id]]
    /\ UNCHANGED <<table, writes>>

-----------------------------------------------------------------------------
(* GetEventLogBreakdown.                                                    *)

\* percentile: the value at the truncated index; there is always a value.
Percentile(values, p) == values[((Len(values) - 1) * p) \div 100 + 1]

\* fetchLatencyByGroup: of the rows that have one.
Latencies(rows) ==
    LET vs == SetToSortSeq({r \in rows : r.latency > 0},
                           LAMBDA r, s : r.latency < s.latency \/ (r.latency = s.latency /\ r.id < s.id))
        ms == [i \in DOMAIN vs |-> vs[i].latency]
    IN  IF ms = << >> THEN << >> ELSE <<Percentile(ms, 50), Percentile(ms, 95), Percentile(ms, 99)>>

Group(rows, column, key) ==
    LET of == {r \in rows : r[column] = key}
    IN  [key |-> key, count |-> Cardinality(of), matched |-> Cardinality({r \in of : r.matched}),
         failed |-> Cardinality({r \in of : r.failed}), latency |-> Latencies(of)]
Groups(rows, column) == {Group(rows, column, r[column]) : r \in rows}

\* breakdownSortExpr: by one number; the database orders equal ones as it likes,
\* in each query anew.
Orders(groups, sortBy) ==
    {s \in SetToSeqs(groups) : \A i, j \in DOMAIN s : i < j => s[i][sortBy] >= s[j][sortBy]}

\* MockEventLogStore.GetEventLogBreakdown: record by record into the group of
\* its key, a record without one into none.
MockBreakdown(f, column) ==
    LET Add(r, gs) ==
            IF r[column] = "" THEN gs
            ELSE LET old == {g \in gs : g.key = r[column]}
                     from == IF old # {} THEN CHOOSE g \in old : TRUE
                             ELSE [key |-> r[column], count |-> 0, matched |-> 0, failed |-> 0]
                 IN  (gs \ old) \union {[from EXCEPT !.count = @ + 1,
                                                     !.matched = @ + (IF r.matched THEN 1 ELSE 0),
                                                     !.failed = @ + (IF r.failed THEN 1 ELSE 0)]}
    IN  {g @@ [latency |-> Latencies({r \in MockListEventLogs(f) : r[column] = g.key})] :
            g \in FoldSet(Add, {}, MockListEventLogs(f))}

StartBreakdown(f, column, sortBy) ==
    /\ client = Idle
    /\ client' = [op |-> "breakdown", filter |-> f, column |-> column, sortBy |-> sortBy,
                  offset |-> 0, seen |-> << >>, done |-> FALSE,
                  initial |-> MockBreakdown(f, column)]
    /\ UNCHANGED <<table, writes>>

\* A page by offset; a group with a blank key takes a place in it and is left
\* out.  A full page has a token.
GetEventLogBreakdown ==
    /\ client.op = "breakdown" /\ ~client.done
    /\ \E order \in Orders(Groups(ApplyFilter(table, client.filter), client.column), client.sortBy) :
          LET page == First(SubSeq(order, client.offset + 1, Len(order)), PageSize)
          IN  client' = [client EXCEPT !.offset = @ + PageSize, !.done = Len(page) < PageSize,
                                       !.seen = @ \o SelectSeq(page, LAMBDA g : g.key # "")]
    /\ UNCHANGED <<table, writes>>

-----------------------------------------------------------------------------
(* GetEventLogTimeseries.                                                   *)

\* bucketStart, in UTC; a week starts on Monday and the epoch on a Thursday.
BucketStart(t, iv) == t - ((t + iv.shift) % iv.len)

\* timeseriesBucketExpr truncates in the time zone of the session.
BucketExpr(t, iv, zone) == BucketStart(t + zone, iv) - zone

\* The loop over the buckets from the start's to the end, which is included.
BucketStarts(f, iv) == {t \in 0..f.end : t >= BucketStart(f.start, iv) /\ BucketStart(t, iv) = t}

Bucket(rows) ==
    [count |-> Cardinality(rows), matched |-> Cardinality({r \in rows : r.matched}),
     requests |-> Cardinality({r.request : r \in rows} \ {""}),
     failed |-> Cardinality({r \in rows : r.failed})]

Timeseries(f, iv, zone) ==
    [t \in BucketStarts(f, iv) |-> Bucket({r \in ApplyFilter(table, f) : BucketExpr(r.at, iv, zone) = t})]

\* MockEventLogStore.GetEventLogTimeseries walks over the rows instead.
MockTimeseries(f, iv) ==
    LET rows == ApplyFilter(table, f)
        used == {BucketStart(r.at, iv) : r \in rows}
        start == BucketStart(f.start, iv)
    IN  [t \in {start + k * iv.len : k \in 0..f.end} \intersect 0..f.end |->
            IF t \in used THEN Bucket({r \in rows : r.at >= t /\ r.at < t + iv.len}) ELSE Bucket({})]

GetEventLogTimeseries(f, iv, zone) ==
    /\ client = Idle
    /\ client' = [op |-> "timeseries", done |-> TRUE, buckets |-> Timeseries(f, iv, zone),
                  expected |-> MockTimeseries(f, iv), aligned |-> zone % iv.len = 0]
    /\ UNCHANGED <<table, writes>>

-----------------------------------------------------------------------------
(* GetEventLogAnalytics.                                                    *)

\* COALESCE(NULLIF(x,''), y)
Coalesce(x, y) == IF x # "" THEN x ELSE y

Column(r, c) ==
    CASE c = "rule" -> Coalesce(r.ruleID, r.ruleWhen)
      [] c = "namespace" -> Coalesce(r.namespaceName, r.namespaceID)
      [] OTHER -> r[c]

Queries == <<"total", "matched", "request", "provider", "name", "topic", "rule", "installation", "namespace">>

\* The Where of each query.
Condition(q) == IF q \in {"matched", "request", "topic", "installation"} THEN {q} ELSE {}
Holds(r, cond) == IF cond = "matched" THEN r.matched ELSE r[cond] # ""

\* aggregateCounts.
AggregateCounts(rows, q, grouped) ==
    {<<Column(r, q), Cardinality({s \in rows : \A g \in grouped : Column(s, g) = Column(r, g)})>> :
        r \in {x \in rows : Column(x, q) # ""}}

\* MockEventLogStore.GetEventLogAnalytics counts in one pass.
MockAnalytics(rows, q) ==
    CASE q = "total" -> Cardinality(rows)
      [] q = "matched" -> Cardinality({r \in rows : r.matched})
      [] q = "request" -> Cardinality({r.request : r \in rows} \ {""})
      [] OTHER -> LET keys == {Column(r, q) : r \in rows} \ {""}
                  IN  {<<k, Cardinality({r \in rows : Column(r, q) = k})>> : k \in keys}

StartAnalytics(f) ==
    /\ client = Idle
    /\ client' = [op |-> "analytics", filter |-> f, done |-> FALSE, conds |-> {}, grouped |-> {},
                  results |-> << >>,
                  expected |-> LET rows == ApplyFilter(table, f)
                               IN  [i \in DOMAIN Queries |-> MockAnalytics(rows, Queries[i])]]
    /\ UNCHANGED <<table, writes>>

\* One query.  gorm keeps what is chained onto a statement that is no new
\* session, so the Where and the Group By of a query stay in base for the
\* queries after it.
GetEventLogAnalytics ==
    /\ client.op = "analytics" /\ ~client.done
    /\ LET n == Len(client.results) + 1
           q == Queries[n]
           conds == client.conds \union Condition(q)
           grouped == IF n > 3 THEN client.grouped \union {q} ELSE {}
           rows == {r \in ApplyFilter(table, client.filter) : \A c \in conds : Holds(r, c)}
           result == CASE q \in {"total", "matched"} -> Cardinality(rows)
                       [] q = "request" -> Cardinality({r.request : r \in rows})
                       [] OTHER -> AggregateCounts(rows, q, grouped)
       IN  client' = [client EXCEPT !.conds = conds, !.grouped = grouped, !.done = n = Len(Queries),
                                    !.results = Append(@, result)]
    /\ UNCHANGED <<table, writes>>

-----------------------------------------------------------------------------

Next ==
    \/ \E id \in Ids, at \in Times, c \in Contents : Insert(id, at, c)
    \/ \E r \in table : UpdateStatus(r)
    \/ \E f \in Filters :
          \/ StartList(f) \/ StartAnalytics(f)
          \/ \E s \in {"count", "matched", "failed"} : StartBreakdown(f, "topic", s)
          \/ \E iv \in Intervals, zone \in Zones : GetEventLogTimeseries(f, iv, zone)
    \/ ListEventLogs \/ GetEventLogBreakdown \/ GetEventLogAnalytics

Spec == Init /\ [][Next]_vars

-----------------------------------------------------------------------------
(* Properties.                                                              *)

\* A client that follows the tokens of ListEventLogs gets no row twice, and
\* every row that the reference store would have given it when it started,
\* whatever is inserted or updated between its pages and however many rows have
\* the same time.  The pages of a breakdown, which are offsets, make up the
\* groups of the reference store when the table did not change and no two
\* groups are equal.
ListsAreComplete ==
    /\ client.op = "list" =>
          /\ \A i, j \in DOMAIN client.seen : client.seen[i] = client.seen[j] => i = j
          /\ client.done => client.initial \subseteq ToSet(client.seen)
    /\ (/\ client.op = "breakdown" /\ client.done /\ writes = 0
        /\ \A g, h \in Groups(ApplyFilter(table, client.filter), client.column) :
              g[client.sortBy] = h[client.sortBy] => g = h) =>
          ToSet(client.seen) = client.initial

\* GetEventLogTimeseries gives the buckets of the reference store, each with
\* the rows that fall into it, as long as the session's time zone is a whole
\* number of buckets away from UTC.
BucketsAreRight ==
    client.op = "timeseries" /\ client.aligned => client.buckets = client.expected

\* idl/cloud/v1/githooks.proto: every count of the analytics is the number of
\* events of its key within the query window.
CountsAreTheWindow ==
    client.op = "analytics" /\ client.done /\ writes = 0 => client.results = client.expected
=============================================================================
