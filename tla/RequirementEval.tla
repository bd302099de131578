--------------------------- MODULE RequirementEval ---------------------------
(***************************************************************************)
(* The evaluator of the requirement language.                              *)
(*                                                                         *)
(* A result is a value, an error code, which is empty when there is a      *)
(* value, and the key that is missing when one is.  Where the code relies  *)
(* on the type check and would stop the program otherwise, the model has   *)
(* the error "panic".  A value also says whether its dimension is sure:    *)
(* the dimension of an empty sum is found by evaluating the body on a      *)
(* made-up band, which can fail.                                           *)
(***************************************************************************)
EXTENDS RequirementTypes

-----------------------------------------------------------------------------
(***************************************************************************)
(* What a contract writes for the keys of an extension, and what becomes   *)
(* of it: a quantity or a table in SI units, or a refusal.                 *)
(*                                                                         *)
(* Written values are records: nothing, a bare number, a number with a     *)
(* unit (its dimension and the number in SI units), the name of a node     *)
(* parameter, or the rows of a table.  A value that was accepted is a      *)
(* quantity or a sequence of rows <<key, value>>.                          *)
(***************************************************************************)
Written(kind, q, d, rows) == [kind |-> kind, q |-> q, dim |-> d, rows |-> rows]

Nothing       == Written("nothing", Zero, Scalar, <<>>)
Bare(q)       == Written("bare", q, Scalar, <<>>)
WithUnit(q, d) == Written("unit", q, d, <<>>)
ParamName     == Written("name", Zero, Scalar, <<>>)
Map(rows)     == Written("map", Zero, Scalar, rows)

(* An input the evaluator is given: none, a quantity or a table.           *)
Input(kind, q, d, rows) == [kind |-> kind, q |-> q, dim |-> d, rows |-> rows, err |-> ""]

NoInput        == Input("none", Zero, Scalar, <<>>)
Amount(q, d)   == Input("quantity", q, d, <<>>)
Rows(rows)     == Input("table", Zero, Scalar, rows)
Refused(code)  == [NoInput EXCEPT !.err = code]

(* A literal of dimension want: a bare number only where no unit is        *)
(* needed.                                                                 *)
ParseQuantity(w, want) ==
    CASE w.kind \notin {"bare", "unit"} -> Refused("value")
      [] w.kind = "bare" /\ want # Scalar -> Refused("value")
      [] OTHER -> IF w.dim # want THEN Refused("dimension") ELSE Amount(w.q, want)

(* The keys of a table increase strictly.                                  *)
Increases(rows) == \A i \in 1 .. Len(rows) - 1 : Less(rows[i][1], rows[i + 1][1])

(* The rows are pairs of written values.  The first of them all that is    *)
(* refused decides; the keys are compared row by row.                      *)
ParseTable(w, k) ==
    LET at(i, j) == ParseQuantity(w.rows[i][j], IF j = 1 THEN k.dim ELSE k.to)
        out == [i \in DOMAIN w.rows |-> <<at(i, 1).q, at(i, 2).q>>]
        faults(i) == {j \in 1 .. 2 : at(i, j).err # ""}
        stops == {i \in DOMAIN w.rows : faults(i) # {} \/ ~ Increases(SubSeq(out, 1, i))}
        first == CHOOSE i \in stops : \A j \in stops : i <= j
    IN  CASE w.rows = <<>> -> Refused("value")
          [] w.rows # <<>> /\ stops = {} -> Rows(out)
          [] OTHER -> IF faults(first) = {} THEN Refused("value")
                      ELSE at(first, CHOOSE j \in faults(first) : \A l \in faults(first) : j <= l)

(* The raw number of a node parameter, as the value of a param key.        *)
ParamValue(raw, k) ==
    LET v == IF k.magnitude /\ raw[1] < 0 THEN Opposite(raw) ELSE raw IN
    Amount(IF k.unit = <<>> THEN v ELSE Prod(v, k.unit[1].scale), k.dim)

(* The value of key k from what the contract writes.  A table key takes a  *)
(* map, a param key the name of a node parameter, whose number is raw.     *)
ParseValue(w, raw, k) ==
    CASE w.kind = "nothing" -> NoInput
      [] w.kind # "nothing" /\ k.ty = "value" -> ParseQuantity(w, k.dim)
      [] w.kind # "nothing" /\ k.ty = "param" ->
            IF w.kind = "name" THEN ParamValue(raw, k) ELSE Refused("value")
      [] w.kind # "nothing" /\ k.ty = "table" ->
            IF w.kind = "map" THEN ParseTable(w, k) ELSE Refused("value")

-----------------------------------------------------------------------------
V(k, q, a, b, yes, rows, sure) ==
    [k |-> k, q |-> q, a |-> a, b |-> b, yes |-> yes, rows |-> rows, sure |-> sure]

Ok(v) == [v |-> v, err |-> "", key |-> 0]

OkQ(q, d, sure)       == Ok(V("quantity", q, d, Scalar, FALSE, <<>>, sure))
OkB(yes, sure)        == Ok(V("boolean", Zero, Scalar, Scalar, yes, <<>>, sure))
OkRows(k, rows, a, b) == Ok(V(k, Zero, a, b, FALSE, rows, TRUE))

Fails(code, sure) == [OkQ(Zero, Scalar, sure) EXCEPT !.err = code]

Failed(r) == r.err # ""
Sure(rs)  == \A i \in DOMAIN rs : rs[i].v.sure

(* The kind the checker guarantees; anything else stops the program.       *)
As(kind, r) == IF Failed(r) \/ r.v.k = kind THEN r ELSE Fails("panic", r.v.sure)
Q(r) == As("quantity", r)
B(r) == As("boolean", r)

(* The first failure among results, in the order they are computed.        *)
Failing(rs)      == {i \in DOMAIN rs : Failed(rs[i])}
FirstFailure(rs) == rs[CHOOSE i \in Failing(rs) : \A j \in Failing(rs) : i <= j]

ABand(lo, hi, value) == [lo |-> lo, hi |-> hi, value |-> value]

BandValue(b, x, d) == V("band", Zero, x, d, FALSE, <<b>>, TRUE)

FieldOf(r, f) ==
    LET b == r.v.rows[1] IN
    CASE Failed(r) -> r
      [] ~Failed(r) /\ r.v.k # "band" -> Fails("panic", r.v.sure)
      [] OTHER -> OkQ(CASE f = "lo" -> b.lo [] f = "hi" -> b.hi [] f = "value" -> b.value,
                      IF f = "value" THEN r.v.b ELSE r.v.a, TRUE)
(* The fields that follow a name.                                          *)
RECURSIVE FieldsOf(_, _)
FieldsOf(r, fs) == IF fs = <<>> THEN r ELSE FieldsOf(FieldOf(r, Head(fs)), Tail(fs))
-----------------------------------------------------------------------------
(* A value that was supplied, against the type of its key.                 *)
Convert(k, given) ==
    CASE (given.kind = "table") # (k.ty = "table") -> Fails("input", TRUE)
      [] given.kind = "quantity" /\ k.ty # "table" ->
            IF given.dim # k.dim THEN Fails("input", TRUE) ELSE OkQ(given.q, k.dim, TRUE)
      [] given.kind = "table" /\ k.ty = "table" ->
            IF given.rows = <<>> \/ ~Increases(given.rows) THEN Fails("input", TRUE)
            ELSE OkRows("table", given.rows, k.dim, k.to)

(* A step table, clipped to [lo, hi]: each entry holds from its key to the *)
(* next key, the last to infinity.                                         *)
Clipped(rows, lo, hi) ==
    LET from(i) == Greater(rows[i][1], lo)
        upto(i) == IF i < Len(rows) THEN Lesser(rows[i + 1][1], hi) ELSE hi
    IN  SelectSeq([i \in DOMAIN rows |-> ABand(from(i), upto(i), rows[i][2])],
                  LAMBDA b : Less(b.lo, b.hi))

Bands(table, lo, hi) ==
    CASE Less(hi, lo) -> Fails("bands", TRUE)
      [] ~Less(hi, lo) /\ Less(lo, table.rows[1][1]) -> Fails("bands", TRUE)
      [] OTHER -> OkRows("list", Clipped(table.rows, lo, hi), table.a, table.b)

Compare(c, l, r) ==
    LET sure == l.v.sure /\ r.v.sure IN
    CASE l.v.k = "quantity" /\ r.v.k = "quantity" -> OkB(Compares(c, l.v.q, r.v.q), sure)
      [] l.v.k = "boolean" /\ r.v.k = "boolean" /\ c = "==" -> OkB(l.v.yes = r.v.yes, sure)
      [] l.v.k = "boolean" /\ r.v.k = "boolean" /\ c = "!=" -> OkB(l.v.yes # r.v.yes, sure)
      [] OTHER -> Fails("panic", sure)

(* x to the power y.  A dimension is raised by y cut to an integer; an     *)
(* exponent that is none gives an irrational value.                        *)
Raised(x, y, sure) ==
    LET n == Integer(y.q)
        d == IF x.a = Scalar THEN Scalar ELSE Powi(x.a, n)
    IN  CASE ~IsWhole(y.q) -> Fails("irrational", sure)
          [] IsWhole(y.q) /\ n < 0 /\ x.q[1] = 0 -> Fails("non-finite", sure)
          [] OTHER -> OkQ(IF n < 0 THEN Quot(One, Power(x.q, -n)) ELSE Power(x.q, n), d, sure)

Arithmetical(o, l, r) ==
    LET x == l.v
        y == r.v
        sure == x.sure /\ y.sure
    IN  CASE o = "+" -> OkQ(Plus(x.q, y.q), x.a, sure)
          [] o = "-" -> OkQ(Minus(x.q, y.q), x.a, sure)
          [] o = "*" -> OkQ(Prod(x.q, y.q), Times(x.a, y.a), sure)
          [] o = "/" -> IF y.q[1] = 0 THEN Fails("division-by-zero", sure)
                        ELSE OkQ(Quot(x.q, y.q), Per(x.a, y.a), sure)
          [] o = "^" -> Raised(x, y, sure)

(* min and max keep the first of equals.                                   *)
Best(f, rs) ==
    LET better(i, j) == IF f = "min" THEN Less(rs[i].v.q, rs[j].v.q) ELSE Less(rs[j].v.q, rs[i].v.q)
        best == CHOOSE i \in DOMAIN rs :
                    \A j \in DOMAIN rs : ~better(j, i) /\ (j < i => better(i, j))
    IN  OkQ(rs[best].v.q, rs[best].v.a, Sure(rs))

SquareRoot(r) ==
    CASE r.v.q[1] < 0 -> Fails("negative-sqrt", r.v.sure)
      [] r.v.q[1] >= 0 /\ ~Even(r.v.a) -> Fails("panic", r.v.sure)
      [] OTHER -> IF HasRoot(r.v.q) THEN OkQ(RootOf(r.v.q), HalfOf(r.v.a), r.v.sure)
                  ELSE Fails("irrational", r.v.sure)
-----------------------------------------------------------------------------
(* The evaluator proper.  cx has the file, what it declares (env), and the *)
(* input of every key; scope binds names to values; busy are the keys      *)
(* whose default is being evaluated.                                       *)

RECURSIVE Eval(_, _, _, _), EvalBindings(_, _, _, _), KeyValue(_, _, _)

PathValue(cx, segs, scope, busy) ==
    LET KeyAt(k) == FieldsOf(KeyValue(cx, KeyNamed(cx.env.keys, SubSeq(segs, 1, k)), busy),
                             SubSeq(segs, k + 1, Len(segs)))
    IN  IF InScope(scope, segs[1]) THEN FieldsOf(Ok(Lookup(scope, segs[1])), Tail(segs))
        ELSE KeyAt(KeyPrefix(cx.env.keys, segs))

(* where bindings: the scope they leave, or the first failure.             *)
NotYet(scope) == [scope |-> scope, r |-> OkB(TRUE, TRUE)]

EvalBound(scope, name, r) ==
    [scope |-> IF Failed(r) THEN scope ELSE Bind(scope, name, r.v), r |-> r]

EvalBindings(cx, bs, before, busy) ==
    IF bs = <<>> \/ Failed(before.r) THEN before
    ELSE EvalBindings(cx, Tail(bs),
            EvalBound(before.scope, Head(bs).name, Eval(cx, Head(bs).e, before.scope, busy)), busy)

EvalAfter(cx, value, bs, busy) ==
    IF Failed(bs.r) THEN bs.r ELSE Eval(cx, value, bs.scope, busy)

CallFn(cx, fn, args, busy) ==
    LET params == [i \in DOMAIN fn.params |-> Bound(fn.params[i].name, args[i].v)] IN
    EvalAfter(cx, fn.value,
              EvalBindings(cx, fn.bindings, NotYet([NoScope EXCEPT !.params = params]), busy), busy)

(* The dimension of a sum over no bands is that of the body on a unit      *)
(* band, and a scalar when the body fails there.                           *)
EmptySum(cx, e, scope, over, busy) ==
    LET probe == BandValue(ABand(Zero, One, One), over.v.a, over.v.b)
        r     == Q(Eval(cx, e.body, BindSum(scope, e.var, probe), busy))
    IN  IF r.err = "panic" THEN r
        ELSE IF Failed(r) THEN OkQ(Zero, Scalar, FALSE) ELSE OkQ(Zero, r.v.a, r.v.sure)

EvalSum(cx, e, scope, busy) ==
    LET over  == As("list", Eval(cx, e.over, scope, busy))
        term(b) == Q(Eval(cx, e.body, BindSum(scope, e.var, BandValue(b, over.v.a, over.v.b)), busy))
        terms == [i \in DOMAIN over.v.rows |-> term(over.v.rows[i])]
        total == FoldLeft(LAMBDA q, i : Plus(q, terms[i].v.q), Zero, [i \in DOMAIN terms |-> i])
    IN  CASE Failed(over) -> over
          [] ~Failed(over) /\ terms = <<>> -> EmptySum(cx, e, scope, over, busy)
          [] OTHER -> IF Failing(terms) # {} THEN FirstFailure(terms)
                      ELSE OkQ(total, Last(terms).v.a, Sure(terms))

EvalCall(cx, e, scope, busy) ==
    LET f    == e.segs[1]
        as   == [i \in DOMAIN e.args |-> Eval(cx, e.args[i], scope, busy)]
        qs   == [i \in DOMAIN as |-> Q(as[i])]
        recv == As("table", PathValue(cx, Front(e.segs), scope, busy))
    IN  CASE Len(e.segs) > 1 ->
                IF Failing(<<recv>> \o qs) # {} THEN FirstFailure(<<recv>> \o qs)
                ELSE Bands(recv.v, qs[1].v.q, qs[2].v.q)
          [] Len(e.segs) = 1 /\ f \in BuiltinFns ->
                IF Failing(qs) # {} THEN FirstFailure(qs)
                ELSE (CASE f \in {"min", "max"} -> Best(f, qs)
                        [] f = "abs"  -> OkQ(Greater(qs[1].v.q, Opposite(qs[1].v.q)),
                                             qs[1].v.a, qs[1].v.sure)
                        [] f = "sqrt" -> SquareRoot(qs[1]))
          [] OTHER ->
                IF Failing(as) # {} THEN FirstFailure(as)
                ELSE CallFn(cx, FnOf(cx.file, f), as, busy)

Eval(cx, e, scope, busy) ==
    CASE e.op = "number"  -> OkQ(e.q, Scalar, TRUE)
      [] e.op = "measure" -> OkQ(e.q, e.dim, TRUE)
      [] e.op = "path"    -> PathValue(cx, e.segs, scope, busy)
      [] e.op = "call"    -> EvalCall(cx, e, scope, busy)
      [] e.op = "sum"     -> EvalSum(cx, e, scope, busy)
      [] e.op = "neg" ->
            LET r == Q(Eval(cx, e.e, scope, busy)) IN
            IF Failed(r) THEN r ELSE OkQ(Opposite(r.v.q), r.v.a, r.v.sure)
      [] e.op = "not" ->
            LET r == B(Eval(cx, e.e, scope, busy)) IN
            IF Failed(r) THEN r ELSE OkB(~r.v.yes, r.v.sure)
      [] e.op = "if" ->
            LET c == B(Eval(cx, e.c, scope, busy)) IN
            IF Failed(c) THEN c ELSE Eval(cx, IF c.v.yes THEN e.t ELSE e.e, scope, busy)
      [] e.op \in {"and", "or"} ->
            LET l == B(Eval(cx, e.l, scope, busy)) IN
            IF Failed(l) \/ l.v.yes = (e.op = "or") THEN l ELSE B(Eval(cx, e.r, scope, busy))
      [] e.op \in Comparisons ->
            LET rs == <<Eval(cx, e.l, scope, busy), Eval(cx, e.r, scope, busy)>> IN
            IF Failing(rs) # {} THEN FirstFailure(rs) ELSE Compare(e.op, rs[1], rs[2])
      [] e.op \in Arithmetic ->
            LET rs == <<Q(Eval(cx, e.l, scope, busy)), Q(Eval(cx, e.r, scope, busy))>> IN
            IF Failing(rs) # {} THEN FirstFailure(rs) ELSE Arithmetical(e.op, rs[1], rs[2])

(* A key is what was supplied, or its default, which sees no local names.  *)
KeyValue(cx, i, busy) ==
    LET k == cx.env.keys[i]
        missing == [Fails("missing-input", TRUE) EXCEPT !.key = i]
    IN  CASE cx.inputs[i].kind # "none" -> Convert(k, cx.inputs[i])
          [] cx.inputs[i].kind = "none" /\ (k.default = <<>> \/ i \in busy) -> missing
          [] OTHER -> Eval(cx, k.default[1], NoScope, busy \cup {i})
-----------------------------------------------------------------------------
(* Items.                                                                  *)

(* One constraint of a domain; an interval bounds every value of a table.  *)
Inside(r, yes) == IF Failed(r) \/ yes THEN r ELSE Fails("domain", r.v.sure)

InsideOf(c, k, lo, hi) ==
    LET vals == IF k.v.k = "table" THEN {k.v.rows[i][2] : i \in DOMAIN k.v.rows} ELSE {k.v.q}
        above(x) == IF c.loClosed THEN AtMost(lo.v.q, x) ELSE Less(lo.v.q, x)
        below(x) == IF c.hiClosed THEN AtMost(x, hi.v.q) ELSE Less(x, hi.v.q)
    IN  IF Failing(<<k, lo, hi>>) # {} THEN FirstFailure(<<k, lo, hi>>)
        ELSE Inside(OkB(TRUE, TRUE), \A x \in vals : above(x) /\ below(x))

Constrain(cx, c) ==
    LET Predicate(p)  == Inside(p, p.v.yes)
        In(ends) == InsideOf(c, KeyValue(cx, KeyNamed(cx.env.keys, c.var), {}), ends[1], ends[2])
    IN  IF c.kind = "pred" THEN Predicate(B(Eval(cx, c.e, NoScope, {})))
        ELSE In([n \in 1 .. 2 |-> Q(Eval(cx, <<c.lo, c.hi>>[n], NoScope, {}))])

(* The keys an item reads, in the order of their declaration.              *)
InOrder(S) == SelectSeq([i \in 1 .. (IF S = {} THEN 0 ELSE CHOOSE m \in S : \A j \in S : j <= m) |-> i],
                        LAMBDA i : i \in S)

(* Every key the item reads, then its domain, its bindings and its value;  *)
(* the first failure ends it.                                              *)
Finished(cx, it, rs, bs) ==
    IF Failing(rs) # {} THEN FirstFailure(rs)
    ELSE As(IF it.item = "check" THEN "boolean" ELSE "quantity", EvalAfter(cx, it.body.value, bs, {}))

EvalBody(cx, it, keys) ==
    Finished(cx, it,
        [n \in DOMAIN keys |-> KeyValue(cx, keys[n], {})]
            \o [n \in DOMAIN it.body.domain |-> Constrain(cx, it.body.domain[n])],
        EvalBindings(cx, it.body.bindings, NotYet(NoScope), {}))

EvalItem(cx, it, reads) == EvalBody(cx, it, InOrder(reads))
=============================================================================
