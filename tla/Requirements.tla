---------------------------- MODULE Requirements ----------------------------
(***************************************************************************)
(* The syntax of the requirement language as the parser hands it over.     *)
(*                                                                         *)
(* A file has dimensions, keys (with inputs among them), functions and     *)
(* items; an item derives a bound, checks a predicate or reports a value.  *)
(* Names stay names: a path is the sequence of its segments.  An           *)
(* expression is a tree of records that carry their operator in op.        *)
(***************************************************************************)
EXTENDS Quantities, Sequences, SequencesExt

(* Expressions.                                                            *)
Number(q)          == [op |-> "number", q |-> q]
Measure(q, d)      == [op |-> "measure", q |-> q, dim |-> d]
Ref(segs)          == [op |-> "path", segs |-> segs]
Name(n)            == Ref(<<n>>)
Call(segs, args)   == [op |-> "call", segs |-> segs, args |-> args]
Neg(e)             == [op |-> "neg", e |-> e]
Not(e)             == [op |-> "not", e |-> e]
Bin(o, l, r)       == [op |-> o, l |-> l, r |-> r]
Ite(c, t, e)       == [op |-> "if", c |-> c, t |-> t, e |-> e]
SumOver(v, over, body) == [op |-> "sum", var |-> v, over |-> over, body |-> body]

Comparisons == {"<", "<=", ">", ">=", "==", "!="}
Arithmetic  == {"+", "-", "*", "/", "^"}
Binary      == Comparisons \cup Arithmetic \cup {"and", "or"}

(* Declarations.  A type in a declaration is a product of powers of named  *)
(* dimensions.                                                             *)
Factor(n, p) == [name |-> n, power |-> p]
Of(n)        == <<Factor(n, 1)>>

DimensionDecl(n, factors) == [name |-> n, factors |-> factors]

ValueType(p)         == [kind |-> "value", dim |-> p, to |-> <<>>, magnitude |-> FALSE, unit |-> <<>>]
ParamType(p, mag, u) == [kind |-> "param", dim |-> p, to |-> <<>>, magnitude |-> mag, unit |-> u]
TableType(p, q)      == [kind |-> "table", dim |-> p, to |-> q, magnitude |-> FALSE, unit |-> <<>>]

(* A default is a sequence of at most one expression.                      *)
KeyDecl(path, ty, default) ==
    [path |-> path, ty |-> ty, default |-> default, kind |-> "key"]
InputDecl(path, p, default) ==
    [path |-> path, ty |-> ValueType(p), default |-> default, kind |-> "input"]

Binding(n, e) == [name |-> n, e |-> e]

FnDecl(n, params, ret, value, bindings) ==
    [name |-> n, params |-> params, ret |-> ret, value |-> value, bindings |-> bindings]

(* The clauses of a derive or a check.                                     *)
Increasing(var) == [direction |-> "increasing", var |-> var]
Decreasing(var) == [direction |-> "decreasing", var |-> var]

Within(var, lo, hi, loClosed, hiClosed) ==
    [kind |-> "in", var |-> var, lo |-> lo, hi |-> hi,
     loClosed |-> loClosed, hiClosed |-> hiClosed]
Pred(e) == [kind |-> "pred", e |-> e]

Body(value, bindings, worstCase, domain) ==
    [value |-> value, bindings |-> bindings, worstCase |-> worstCase, domain |-> domain]

Derive(target, p, body) == [item |-> "derive", name |-> target, dim |-> p, body |-> body]
Check(n, body)          == [item |-> "check", name |-> <<n>>, dim |-> <<>>, body |-> body]
Report(n, p, value, bindings) ==
    [item |-> "report", name |-> <<n>>, dim |-> p,
     body |-> Body(value, bindings, <<>>, <<>>)]
-----------------------------------------------------------------------------
(* The expressions directly below e.                                       *)
Below(e) ==
    CASE e.op \in {"number", "measure", "path"} -> <<>>
      [] e.op = "call"            -> e.args
      [] e.op \in {"neg", "not"}  -> <<e.e>>
      [] e.op \in Binary          -> <<e.l, e.r>>
      [] e.op = "if"              -> <<e.c, e.t, e.e>>
      [] e.op = "sum"             -> <<e.over, e.body>>

(* The names of the functions an expression calls.                         *)
RECURSIVE CallsIn(_)
CallsIn(e) ==
    (IF e.op = "call" /\ Len(e.segs) = 1 THEN {e.segs[1]} ELSE {})
        \cup UNION {CallsIn(Below(e)[i]) : i \in DOMAIN Below(e)}

(* The summation variables an expression binds.                            *)
RECURSIVE SumVars(_)
SumVars(e) ==
    (IF e.op = "sum" THEN {e.var} ELSE {})
        \cup UNION {SumVars(Below(e)[i]) : i \in DOMAIN Below(e)}
-----------------------------------------------------------------------------
(* The names in scope inside one item, each with what a pass knows of it.  *)
NoScope == [binds |-> <<>>, sums |-> <<>>, params |-> <<>>]

Bound(n, x) == [name |-> n, x |-> x]

Bind(scope, n, x)    == [scope EXCEPT !.binds = Append(@, Bound(n, x))]
BindSum(scope, n, x) == [scope EXCEPT !.sums = Append(@, Bound(n, x))]

HitsIn(s, n) == {i \in DOMAIN s : s[i].name = n}

InScope(scope, n) ==
    HitsIn(scope.binds, n) \cup HitsIn(scope.sums, n) \cup HitsIn(scope.params, n) # {}

Newest(s, n) == s[CHOOSE i \in HitsIn(s, n) : \A j \in HitsIn(s, n) : j <= i].x

(* A binding hides a summation variable, and that a parameter.             *)
Lookup(scope, n) ==
    CASE HitsIn(scope.binds, n) # {} -> Newest(scope.binds, n)
      [] HitsIn(scope.binds, n) = {} /\ HitsIn(scope.sums, n) # {} -> Newest(scope.sums, n)
      [] OTHER -> Newest(scope.params, n)

(* The key a path means, by its full path or, when it is one name, by its  *)
(* last segment; 0 when there is none.                                     *)
KeyNamed(keys, segs) ==
    LET byPath == {i \in DOMAIN keys : keys[i].path = segs}
        byLast == {i \in DOMAIN keys : Len(segs) = 1 /\ keys[i].last = segs[1]}
        first(S) == CHOOSE i \in S : \A j \in S : i <= j
    IN  CASE byPath # {} -> first(byPath)
          [] byPath = {} /\ byLast # {} -> first(byLast)
          [] OTHER -> 0

(* The longest prefix of a path that is a key: its length, 0 when there is *)
(* none.                                                                   *)
KeyPrefix(keys, segs) ==
    LET ks == {k \in 1 .. Len(segs) : KeyNamed(keys, SubSeq(segs, 1, k)) # 0} IN
        IF ks = {} THEN 0 ELSE CHOOSE k \in ks : \A j \in ks : j <= k
=============================================================================
