------------------------------ MODULE RuleExpr ------------------------------
(***************************************************************************)
(* How the rule engine (pkg/core/rules*.go) decides whether an event        *)
(* matches: it rewrites the JSON paths of the expression to variables, has  *)
(* govaluate compile it, resolves the variables against the payload and     *)
(* evaluates.  An expression is one comparison, or two joined by && or ||.  *)
(* A name is the sequence of its parts between underscores and a path is a  *)
(* sequence of names, so that a.b and a_b differ but are spelled alike once *)
(* every other character has become an underscore.                          *)
(***************************************************************************)
EXTENDS Naturals, SequencesExt

CONSTANTS
    Paths,    \* the paths the expressions read
    Values,   \* the values a payload can have at a path
    Needles   \* texts to compare with

VARIABLES
    when,     \* [op, atoms]; an atom is [neg, fn, path, arg]
    object,   \* RawObject: the value at each path, Nil where there is none
    strict,   \* rules_strict
    matched   \* the answer: pending, yes or no

vars == <<when, object, strict, matched>>

Text(s) == [t |-> "text", s |-> s]
List(vs) == [t |-> "list", items |-> vs]
Map(ks) == [t |-> "map", keys |-> ks]
Nil == [t |-> "nil"]

Atoms == [neg : BOOLEAN, fn : {"==", "contains", "like"}, path : Paths, arg : Needles]
Whens == [op : {"&&"}, atoms : {<<a>> : a \in Atoms}]
         \cup [op : {"&&", "||"}, atoms : Atoms \X {a \in Atoms : ~a.neg}]
Reads == {when.atoms[i].path : i \in DOMAIN when.atoms}

Init ==
    /\ when \in Whens
    /\ object \in [Reads -> Values]
    /\ strict \in BOOLEAN
    /\ matched = "pending"

-----------------------------------------------------------------------------
(* Compilation.                                                             *)

\* Mutant: the variable is named after the last name of the path.
SafeVarLast(path) == path[Len(path)]

\* safeVarName: dots and all other punctuation become underscores.
SafeVarName(path) == FlattenSeq(path)

\* rewriteExpression: literals, keywords and function names stay; a path turns
\* into its variable, and the last path of a variable is the one remembered.
RewriteExpression(w) ==
    LET var(i) == SafeVarName(w.atoms[i].path)
        last(v) == CHOOSE i \in DOMAIN w.atoms :
                      /\ var(i) = v
                      /\ \A j \in DOMAIN w.atoms : var(j) = v => j <= i
    IN  [vars |-> [i \in DOMAIN w.atoms |-> var(i)],
         varMap |-> [v \in {var(i) : i \in DOMAIN w.atoms} |-> w.atoms[last(v)].path]]

-----------------------------------------------------------------------------
(* Parameters.                                                              *)

\* normalizeJSONPathResult: no item is nothing, a single item stands alone.
NormalizeJSONPathResult(v) ==
    IF v.t # "list" THEN v
    ELSE CASE Len(v.items) = 0 -> Nil
           [] Len(v.items) = 1 -> v.items[1]
           [] OTHER -> v

ResolveJSONPath(path) == NormalizeJSONPathResult(object[path])

\* resolveRuleParams: the parameters, Nil for the missing ones.
ResolveRuleParams(varMap) == [v \in DOMAIN varMap |-> ResolveJSONPath(varMap[v])]

-----------------------------------------------------------------------------
(* Functions; a result is "true", "false" or "error".                       *)

Truth(b) == IF b THEN "true" ELSE "false"

Substring(s, hay) ==
    \E i \in 1..(Len(hay) + 1), j \in 0..Len(hay) : SubSeq(hay, i, j) = s

\* sliceContains and reflectContains
SliceContains(items, v) == \E i \in DOMAIN items : items[i] = v

\* govaluate's argument separator: a list on its left takes the right operand
\* as one more item, so the items arrive as arguments.
Arguments(left, right) == IF left.t = "list" THEN Append(left.items, right) ELSE <<left, right>>

ContainsFunc(args) ==
    LET hay == args[1]  needle == args[Len(args)]
    IN  Truth(IF Len(args) > 2 THEN SliceContains(Front(args), needle)
              ELSE CASE hay.t = "nil" -> FALSE
                     [] hay.t = "text" -> Substring(needle.s, hay.s)
                     [] hay.t = "map" -> needle.s \in hay.keys)

\* likePatternToRegex: "%" stands for any text and "_" for one character; the
\* needles use a "%" at the end only.
LikeMatches(s, p) ==
    IF p # << >> /\ Last(p) = "%"
    THEN IsPrefix(Front(p), s)
    ELSE s = p

LikeFunc(args) ==
    IF Len(args) # 2 THEN "error"
    ELSE Truth(args[1].t = "text" /\ LikeMatches(args[1].s, args[2].s))

\* One comparison, as govaluate evaluates it with the value of its variable.
Compare(a, v) ==
    LET args == Arguments(v, Text(a.arg))
        r == CASE a.fn = "==" -> Truth(v = Text(a.arg))
               [] a.fn = "contains" -> ContainsFunc(args)
               [] a.fn = "like" -> LikeFunc(args)
    IN  IF a.neg /\ r # "error" THEN Truth(r = "false") ELSE r

\* && and || do not look at their right side when the left one decides.
Join(op, rs) ==
    IF Len(rs) = 1 \/ rs[1] = "error" \/ rs[1] = Truth(op = "||") THEN rs[1] ELSE rs[2]

\* evaluateWithLoggerForTenant for one rule: in strict mode a missing parameter
\* skips it, and so does an error.
Evaluate ==
    LET c == RewriteExpression(when)
        params == ResolveRuleParams(c.varMap)
        missing == {v \in DOMAIN params : params[v] = Nil}
        result == Join(when.op, [i \in DOMAIN when.atoms |-> Compare(when.atoms[i], params[c.vars[i]])])
    IN  /\ matched = "pending"
        /\ matched' = IF result = "true" /\ ~(strict /\ missing # {}) THEN "yes" ELSE "no"
        /\ UNCHANGED <<when, object, strict>>

Next == Evaluate
Spec == Init /\ [][Next]_vars

-----------------------------------------------------------------------------
(* What docs/rules.md says an expression means.                             *)

\* The meaning of an atom, read off the payload itself.
Meaning(a) ==
    LET v == object[a.path]
        holds == \/ v.t = "text" /\ a.fn = "==" /\ v.s = a.arg
                 \/ v.t = "text" /\ a.fn = "contains" /\ Substring(a.arg, v.s)
                 \/ v.t = "text" /\ a.fn = "like" /\ LikeMatches(v.s, a.arg)
                 \/ v.t = "list" /\ a.fn = "contains" /\ Text(a.arg) \in Range(v.items)
                 \/ v.t = "map" /\ a.fn = "contains" /\ a.arg \in v.keys
    IN  holds # a.neg

\* Two paths that are written alike share a variable, and a list of one item
\* is taken for the item: there the engine departs from what is written.
Departs ==
    \/ \E p, q \in Reads : p # q /\ FlattenSeq(p) = FlattenSeq(q)
    \/ \E p \in Reads : object[p].t = "list" /\ Len(object[p].items) = 1

\* like is not defined on a list; such a rule is skipped
Undefined ==
    \E a \in Range(when.atoms) :
        a.fn = "like" /\ object[a.path].t = "list" /\ Len(object[a.path].items) > 1

FieldAbsent == \E p \in Reads : object[p] \in {Nil, List(<< >>)}

Satisfied ==
    IF when.op = "&&" THEN \A i \in DOMAIN when.atoms : Meaning(when.atoms[i])
    ELSE \E i \in DOMAIN when.atoms : Meaning(when.atoms[i])

\* Rewriting paths to variables, unwrapping what a path yields and spreading
\* lists over arguments do not change what a rule means: it matches an event
\* exactly when its expression holds of the payload as written, and in strict
\* mode only if no field it reads is missing (docs/rules.md); except where
\* two paths share a variable or a list of one item is taken for the item.
MatchesAsWritten ==
    matched # "pending" /\ ~Departs /\ ~Undefined =>
        (matched = "yes" <=> Satisfied /\ ~(strict /\ FieldAbsent))
=============================================================================
