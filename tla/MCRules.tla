------------------------------ MODULE MCRules ------------------------------
(***************************************************************************)
(* Three instances over the rule and driver tables, and the evaluation of   *)
(* one rule; a behaviour follows one of the four:                           *)
(*   race     two requests, of a tenant and of a context without tenant     *)
(*   tenants  one request after the other, of two tenants with equal ids    *)
(*   worker   a worker that reads the tables while they change              *)
(*   expr     an expression against a payload                               *)
(***************************************************************************)
EXTENDS RulesService

CONSTANTS
    \* worker
    Tenant, Handled, Topics, DriverNames, WorkerSubscribable, Urls, Prefixes, NoPrefix, MaxChanges,
    \* expr
    Paths, Values, Needles

\* The values that stand for no rule and for no driver are not among them.
ASSUME NoneIsNone == 0 \notin Handled /\ NoTenant \notin DriverNames

VARIABLES
    focus,
    ruleRows, driverRows, changes, step, todo,
    topicHandlers, topicDrivers, subs, changed,
    when, object, strict, matched

exprVars == <<when, object, strict, matched>>
workerVars == <<ruleRows, driverRows, changes, step, todo,
                topicHandlers, topicDrivers, subs, changed>>

Race == INSTANCE RulesService WITH
    Clients <- {"c1", "c2"}, Tenants <- {"t1"}, Contexts <- {"t1", NoTenant},
    Names <- {"amqp"}, Missing <- {}, True <- {"hit"},
    Exprs <- {"hit", "bad", "empty"}, Emits <- {{"x"}},
    Configs <- {1}, Strict <- FALSE

Worker == INSTANCE WorkerRules WITH
    Subscribable <- WorkerSubscribable, rules <- ruleRows, drivers <- driverRows, pc <- step

Expr == INSTANCE RuleExpr

\* Two paths that share a name, and the values at which the functions differ.
TextOf(s) == [t |-> "text", s |-> s]
ListOf(vs) == [t |-> "list", items |-> vs]
SomePaths == {<<<<"a">>, <<"b">>>>, <<<<"a", "b">>>>, <<<<"b">>>>}
SomeNeedles == {<<"x">>, <<"x", "%">>}
SomeValues ==
    {[t |-> "nil"], TextOf(<<"x">>), TextOf(<<"x", "y">>), ListOf(<<>>), ListOf(<<TextOf(<<"x", "y">>)>>),
     ListOf(<<TextOf(<<"x">>), TextOf(<<"x", "y">>)>>), [t |-> "map", keys |-> {<<"x">>}]}

NothingEvaluated == when = 0 /\ object = 0 /\ strict = 0 /\ matched = 0

NoWorker ==
    /\ ruleRows = {} /\ driverRows = {} /\ changes = 0 /\ step = "prepare" /\ todo = {}
    /\ topicHandlers = [t \in Topics |-> 0]
    /\ topicDrivers = [t \in Topics |-> Worker!NoDriver]
    /\ subs = [d \in Worker!DriverIds |-> {}] /\ changed = {}

MCInit ==
    \/ focus = "race" /\ Race!Init /\ NoWorker /\ NothingEvaluated
    \/ focus = "tenants" /\ Init /\ NoWorker /\ NothingEvaluated
    \/ focus = "worker" /\ Worker!Init /\ Init /\ NothingEvaluated
    \/ focus = "expr" /\ Expr!Init /\ Init /\ NoWorker

MCNext ==
    \/ focus = "race" /\ Race!Next /\ UNCHANGED <<focus, workerVars, exprVars>>
    \/ focus = "tenants" /\ Next /\ UNCHANGED <<focus, workerVars, exprVars>>
    \/ focus = "worker" /\ Worker!Next /\ UNCHANGED <<focus, vars, exprVars>>
    \/ focus = "expr" /\ Expr!Next /\ UNCHANGED <<focus, vars, workerVars>>

MCSpec == MCInit /\ [][MCNext]_<<focus, vars, workerVars, exprVars>>

-----------------------------------------------------------------------------

\* A running worker hears each of its rules that is still as it read it.
HeardUnlessChanged == focus = "worker" => Worker!HeardUnlessChanged

\* The handler and the driver of a topic always come from the same rule.
HandlerAndDriverAgree == focus = "worker" => Worker!HandlerAndDriverAgree

\* A rule matches exactly the payloads its expression, read as it is written,
\* is true of, within the limits RuleExpr states.
MatchesAsWritten == focus = "expr" => Expr!MatchesAsWritten
=============================================================================
