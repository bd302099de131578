-------------------------- MODULE RequirementProof ---------------------------
(***************************************************************************)
(* The prover of the requirement language: that a value or a predicate     *)
(* moves one way with a key.                                               *)
(*                                                                         *)
(* The item is encoded twice for an external solver, over two points that  *)
(* differ in the claim's key only, together with the condition under which *)
(* the evaluator would compute it; the solver looks for two points at      *)
(* which the claim fails.  The model evaluates the encoding at points.     *)
(* What the code leaves free (the value of a quotient by zero) is any of   *)
(* Junk, and the solver's real numbers are those of the grids.  A root     *)
(* that is irrational is outside the grids: its point counts as undefined. *)
(***************************************************************************)
EXTENDS RequirementEval

CONSTANTS Grid,      \* the values of a scalar key
          KeyGrid,   \* the keys of a table whose keys are not written
          RowGrid,   \* the values of a table
          Junk       \* what an undefined quotient or root may be

(* Terms.  def: the evaluator computes the value without refusing.         *)
(* beyond: the encoding gives up, whatever the point.                      *)
Term(k, q, yes, bands, key, def) ==
    [k |-> k, q |-> q, yes |-> yes, bands |-> bands, key |-> key, def |-> def, beyond |-> FALSE]

RealTerm(q, def)       == Term("real", q, FALSE, <<>>, 0, def)
BoolTerm(yes, def)     == Term("bool", Zero, yes, <<>>, 0, def)
TableTerm(idx)         == Term("table", Zero, FALSE, <<>>, idx, TRUE)
BandsTerm(bands, def)  == Term("bands", Zero, FALSE, bands, 0, def)
BandTerm(b)            == Term("band", Zero, FALSE, <<b>>, 0, TRUE)

AllDef(ts) == \A i \in DOMAIN ts : ts[i].def

(* A term made of others: beyond the encoding when one of them is.         *)
Made(ts, t) == [t EXCEPT !.beyond = @ \/ \E i \in DOMAIN ts : ts[i].beyond]

Beyond == [RealTerm(Zero, FALSE) EXCEPT !.beyond = TRUE]

(* An exponent the encoding can unroll.                                    *)
ConstInt(e) == IntLiteral(e) /\ LiteralValue(e) \in -16 .. 16

BandField(t, f) ==
    LET b == t.bands[1] IN
    RealTerm(CASE f = "lo" -> b.lo [] f = "hi" -> b.hi [] f = "value" -> b.value, TRUE)

(* cx has the file, what it declares, the point (for each key a quantity   *)
(* or the rows of a table) and the junk.                                   *)
KeyTerm(cx, idx) ==
    IF cx.env.keys[idx].ty = "table" THEN TableTerm(idx) ELSE RealTerm(cx.point[idx].q, TRUE)

RECURSIVE FieldTerms(_, _)
FieldTerms(t, fs) == IF fs = <<>> THEN t ELSE FieldTerms(BandField(t, Head(fs)), Tail(fs))

PathTerm(cx, segs, scope) ==
    LET KeyAt(k) == FieldTerms(KeyTerm(cx, KeyNamed(cx.env.keys, SubSeq(segs, 1, k))),
                               SubSeq(segs, k + 1, Len(segs)))
    IN  IF InScope(scope, segs[1])
        THEN FieldTerms([Lookup(scope, segs[1]) EXCEPT !.def = TRUE], Tail(segs))
        ELSE KeyAt(KeyPrefix(cx.env.keys, segs))

(* A table unrolled over its entries: each is on when its clip is not      *)
(* empty.                                                                  *)
Unrolled(rows, lo, hi) ==
    LET from(i) == Greater(rows[i][1], lo)
        upto(i) == IF i < Len(rows) THEN Lesser(rows[i + 1][1], hi) ELSE hi
    IN  [i \in DOMAIN rows |-> [lo |-> from(i), hi |-> upto(i), value |-> rows[i][2],
                                on |-> Less(from(i), upto(i))]]

BandsOf(cx, recv, lo, hi) ==
    LET rows == cx.point[recv.key].rows IN
    Made(<<recv, lo, hi>>,
        BandsTerm(Unrolled(rows, lo.q, hi.q),
                  lo.def /\ hi.def /\ AtMost(lo.q, hi.q) /\ AtMost(rows[1][1], lo.q)))

(* min and max keep the first of equals.                                   *)
BestTerm(f, ts) ==
    LET take(x, q) == IF f = "min" THEN Less(x, q) ELSE Less(q, x) IN
    RealTerm(FoldLeft(LAMBDA q, t : IF take(t.q, q) THEN t.q ELSE q, ts[1].q, ts), AllDef(ts))

RootTerm(x, junk) ==
    IF HasRoot(x.q) THEN RealTerm(RootOf(x.q), x.def) ELSE RealTerm(junk, FALSE)

(* x to the integer n.                                                     *)
PowerTerm(x, n, junk) ==
    CASE n >= 0 -> RealTerm(Power(x.q, n), x.def)
      [] n < 0 /\ x.q[1] = 0 -> RealTerm(junk, FALSE)
      [] OTHER -> RealTerm(Quot(One, Power(x.q, -n)), x.def)

ArithmeticTerm(o, x, y, junk) ==
    CASE o = "+" -> RealTerm(Plus(x.q, y.q), x.def /\ y.def)
      [] o = "-" -> RealTerm(Minus(x.q, y.q), x.def /\ y.def)
      [] o = "*" -> RealTerm(Prod(x.q, y.q), x.def /\ y.def)
      [] o = "/" -> IF y.q[1] = 0 THEN RealTerm(junk, FALSE)
                    ELSE RealTerm(Quot(x.q, y.q), x.def /\ y.def)

CompareTerm(c, x, y) ==
    BoolTerm(CASE x.k = "real" -> Compares(c, x.q, y.q)
               [] x.k = "bool" -> IF c = "==" THEN x.yes = y.yes ELSE x.yes # y.yes,
             x.def /\ y.def)

(* A bug: both sides are always computed.                                  *)
LogicTermOfBoth(o, x, y) ==
    BoolTerm(IF o = "and" THEN x.yes /\ y.yes ELSE x.yes \/ y.yes, x.def /\ y.def)

(* The right side of `and` and `or` need be defined only where the left    *)
(* does not decide.                                                        *)
LogicTerm(o, x, y) ==
    BoolTerm(IF o = "and" THEN x.yes /\ y.yes ELSE x.yes \/ y.yes,
             x.def /\ (x.yes = (o = "and") => y.def))

(* Only the branch that is taken need be defined.                          *)
IfTerm(c, t, e) ==
    [(IF c.yes THEN t ELSE e) EXCEPT !.def = c.def /\ @]

(* Bands that are off add nothing and need not be defined.                 *)
SumTerm(over, terms) ==
    LET on(i) == over.bands[i].on IN
    RealTerm(FoldLeft(LAMBDA q, i : IF on(i) THEN Plus(q, terms[i].q) ELSE q, Zero,
                      [i \in DOMAIN terms |-> i]),
             over.def /\ \A i \in DOMAIN terms : on(i) => terms[i].def)
-----------------------------------------------------------------------------
RECURSIVE Encode(_, _, _), EncodeBindings(_, _, _)

(* Every binding is computed, used or not, so each must be defined.        *)
TermBound(scope, before, name, t) ==
    [scope |-> Bind(scope, name, t),
     t     |-> Made(<<t, before>>, BoolTerm(TRUE, before.def /\ t.def))]

EncodeBindings(cx, bs, before) ==
    IF bs = <<>> THEN before
    ELSE EncodeBindings(cx, Tail(bs),
            TermBound(before.scope, before.t, Head(bs).name, Encode(cx, Head(bs).e, before.scope)))

(* A value that is defined only where its bindings and ts are.             *)
DefinedWith(ts, v) == Made(ts, [v EXCEPT !.def = @ /\ AllDef(ts)])

EncodeAfter(cx, value, ts, bs) == DefinedWith(ts \o <<bs.t>>, Encode(cx, value, bs.scope))

NoTerms(scope) == [scope |-> scope, t |-> BoolTerm(TRUE, TRUE)]

EncodeFn(cx, fn, ts) ==
    LET params == [i \in DOMAIN fn.params |-> Bound(fn.params[i].name, ts[i])] IN
    EncodeAfter(cx, fn.value, ts,
                EncodeBindings(cx, fn.bindings, NoTerms([NoScope EXCEPT !.params = params])))

EncodeCall(cx, e, scope) ==
    LET ts == [i \in DOMAIN e.args |-> Encode(cx, e.args[i], scope)]
        f  == e.segs[1]
    IN  CASE Len(e.segs) > 1 -> BandsOf(cx, PathTerm(cx, Front(e.segs), scope), ts[1], ts[2])
          [] Len(e.segs) = 1 /\ f \in {"min", "max"} -> Made(ts, BestTerm(f, ts))
          [] Len(e.segs) = 1 /\ f = "abs" ->
                Made(ts, RealTerm(Greater(ts[1].q, Opposite(ts[1].q)), ts[1].def))
          [] Len(e.segs) = 1 /\ f = "sqrt" -> Made(ts, RootTerm(ts[1], cx.junk))
          [] OTHER -> EncodeFn(cx, FnOf(cx.file, f), ts)

EncodeSum(cx, e, scope) ==
    LET over  == Encode(cx, e.over, scope)
        terms == [i \in DOMAIN over.bands |->
                    Encode(cx, e.body, BindSum(scope, e.var, BandTerm(over.bands[i])))]
    IN  Made(<<over>> \o terms, SumTerm(over, terms))

Encode(cx, e, scope) ==
    CASE e.op \in {"number", "measure"} -> RealTerm(e.q, TRUE)
      [] e.op = "path" -> PathTerm(cx, e.segs, scope)
      [] e.op = "call" -> EncodeCall(cx, e, scope)
      [] e.op = "sum"  -> EncodeSum(cx, e, scope)
      [] e.op = "neg"  -> LET t == Encode(cx, e.e, scope) IN [t EXCEPT !.q = Opposite(@)]
      [] e.op = "not"  -> LET t == Encode(cx, e.e, scope) IN [t EXCEPT !.yes = ~@]
      [] e.op = "^" ->
            IF ~ConstInt(e.r) THEN Beyond
            ELSE LET x == Encode(cx, e.l, scope) IN
                 Made(<<x>>, PowerTerm(x, LiteralValue(e.r), cx.junk))
      [] e.op = "if" ->
            LET ts == [i \in 1 .. 3 |-> Encode(cx, Below(e)[i], scope)] IN
            Made(ts, IfTerm(ts[1], ts[2], ts[3]))
      [] e.op \in Binary \ {"^"} ->
            LET x == Encode(cx, e.l, scope)
                y == Encode(cx, e.r, scope)
            IN  Made(<<x, y>>, CASE e.op \in {"and", "or"} -> LogicTerm(e.op, x, y)
                                [] e.op \in Comparisons   -> CompareTerm(e.op, x, y)
                                [] OTHER                  -> ArithmeticTerm(e.op, x, y, cx.junk))

(* One constraint of the domain, as the evaluator checks it.               *)
InsideTerm(cx, c, idx, lo, hi) ==
    LET vals == IF cx.env.keys[idx].ty = "table" THEN {r[2] : r \in Range(cx.point[idx].rows)}
                ELSE {cx.point[idx].q}
        above(x) == IF c.loClosed THEN AtMost(lo.q, x) ELSE Less(lo.q, x)
        below(x) == IF c.hiClosed THEN AtMost(x, hi.q) ELSE Less(x, hi.q)
    IN  Made(<<lo, hi>>, BoolTerm(TRUE, lo.def /\ hi.def /\ \A x \in vals : above(x) /\ below(x)))

EncodeConstraint(cx, c) ==
    LET Predicate(p)  == [p EXCEPT !.def = @ /\ p.yes]
        In(ends) == InsideTerm(cx, c, KeyNamed(cx.env.keys, c.var), ends[1], ends[2])
    IN  IF c.kind = "pred" THEN Predicate(Encode(cx, c.e, NoScope))
        ELSE In([n \in 1 .. 2 |-> Encode(cx, <<c.lo, c.hi>>[n], NoScope)])

(* The item at one point: its value, defined where the point is inside the *)
(* domain and the bindings and the value are defined.                      *)
Copy(cx, body) ==
    EncodeAfter(cx, body.value, [i \in DOMAIN body.domain |-> EncodeConstraint(cx, body.domain[i])],
                EncodeBindings(cx, body.bindings, NoTerms(NoScope)))
-----------------------------------------------------------------------------
(* Claims and the points they are decided over.                            *)

(* A claim: the item, the key's index and the direction.                   *)
Claims(file, env) ==
    UNION {{[item |-> i, key |-> KeyNamed(env.keys, file.items[i].body.worstCase[j].var),
             direction |-> file.items[i].body.worstCase[j].direction]
                : j \in DOMAIN file.items[i].body.worstCase} : i \in DOMAIN file.items}

(* The shape of a table: its keys as written, or a number of entries.      *)
ShapeChoices(given) ==
    IF given.kind = "table"
    THEN <<[keys |-> [i \in DOMAIN given.rows |-> given.rows[i][1]], size |-> Len(given.rows)]>>
    ELSE [n \in 1 .. 3 |-> [keys |-> <<>>, size |-> n]]

(* Every combination of the shapes of the tables an item reads, each a     *)
(* sequence of <<key, shape>>; given are the contract's values.            *)
With(sets, k, choices) ==
    FlattenSeq([i \in DOMAIN sets |->
        [j \in DOMAIN choices |-> Append(sets[i], <<k, choices[j]>>)]])

ShapeSets(env, reads, given) ==
    FoldLeft(LAMBDA sets, k : With(sets, k, ShapeChoices(given[k])), <<<<>>>>,
             SelectSeq(InOrder(reads), LAMBDA k : env.keys[k].ty = "table"))

ShapeOf(shapes, k) ==
    LET at == {i \in DOMAIN shapes : shapes[i][1] = k} IN
    IF at = {} THEN [keys |-> <<>>, size |-> 1] ELSE shapes[CHOOSE i \in at : TRUE][2]

KeyRows(shape) ==
    IF shape.keys # <<>> THEN {shape.keys}
    ELSE {ks \in [1 .. shape.size -> KeyGrid] : \A i \in 1 .. shape.size - 1 : Less(ks[i], ks[i + 1])}

(* What a key may be at a point, with what its declaration states of it.   *)
Values(env, shapes, k, core) ==
    CASE env.keys[k].ty = "table" ->
            {[q |-> Zero, rows |-> [i \in DOMAIN ks |-> <<ks[i], vs[i]>>]] :
                <<ks, vs>> \in UNION {{ks} \X [DOMAIN ks -> RowGrid] : ks \in KeyRows(ShapeOf(shapes, k))}}
      [] env.keys[k].ty = "param" /\ env.keys[k].magnitude ->
            {[q |-> x, rows |-> <<>>] : x \in {y \in Grid : y[1] >= 0}}
      [] OTHER -> IF k \in core THEN {[q |-> One, rows |-> <<>>]}
                  ELSE {[q |-> x, rows |-> <<>>] : x \in Grid}

(* A core value that the item does not read is left alone.                 *)
IdleCore(env, reads) == {k \in DOMAIN env.keys : env.keys[k].kind = "core"} \ reads

Points(env, reads, shapes) ==
    LET at[k \in 0 .. Len(env.keys)] ==
            IF k = 0 THEN {<<>>}
            ELSE {Append(p, v) : <<p, v>> \in at[k - 1] \X Values(env, shapes, k, IdleCore(env, reads))}
    IN  at[Len(env.keys)]

(* The second point has the first one's values but for the claim's key,    *)
(* which is lower at the first; a table keeps its keys.                    *)
Ordered(env, k, a, b) ==
    /\ \A j \in DOMAIN a : j # k => a[j] = b[j]
    /\ IF env.keys[k].ty = "table"
       THEN \A i \in DOMAIN a[k].rows : /\ a[k].rows[i][1] = b[k].rows[i][1]
                                        /\ AtMost(a[k].rows[i][2], b[k].rows[i][2])
       ELSE Less(a[k].q, b[k].q)

(* The second value is worse, the way the claim says it never is.  For a   *)
(* check: it passes at the worse point and fails at the better.            *)
Worse(direction, kind, a, b) ==
    CASE kind = "real" /\ direction = "increasing" -> Less(b.q, a.q)
      [] kind = "real" /\ direction = "decreasing" -> Less(a.q, b.q)
      [] kind = "bool" /\ direction = "increasing" -> b.yes /\ ~a.yes
      [] kind = "bool" /\ direction = "decreasing" -> a.yes /\ ~b.yes
=============================================================================
