---------------------------- MODULE ContractValues ----------------------------
(***************************************************************************)
(* types/src/values.rs: a number of a contract that is read from the       *)
(* launch tree, or computed from numbers that are.  The first reading of a *)
(* file keeps each such number as an expression and its key as undeclared; *)
(* the entries of `let` are evaluated in order, then every value; a second *)
(* reading finds the numbers in place.                                     *)
(*                                                                         *)
(* An expression is a tree: [op, raw, unit] for a number, [op, name, node, *)
(* unit] for a parameter or a launch configuration, [op, name] for an      *)
(* entry of `let`, [op, lhs, rhs] for a sum, difference, product or        *)
(* quotient.  A unit has a dimension and a scale.                          *)
(***************************************************************************)
EXTENDS Contracts, Quantities, SequencesExt

Time == Builtin["Time"]
Frequency == Builtin["Frequency"]

IsReference(e) == e.op \in {"param", "var"}
IsLeaf(e) == e.op \in {"number", "let"} \/ IsReference(e)

RECURSIVE Leaves(_)
Leaves(e) == IF IsLeaf(e) THEN {e} ELSE Leaves(e.lhs) \cup Leaves(e.rhs)

\* Expr::lets.
LetsOf(e) == {l.name : l \in {l \in Leaves(e) : l.op = "let"}}

\* Expr::unitless_refs is not empty.
Unitless(e) == \E l \in Leaves(e) : IsReference(l) /\ l.unit = {}

\* check_static.
WellFormed(e, want, lets) == (want = Scalar \/ ~ Unitless(e)) /\ LetsOf(e) \subseteq lets

-----------------------------------------------------------------------------
(***************************************************************************)
(* What an expression is worth: a number, nothing yet, or a fault.         *)
(***************************************************************************)
Worth(x) == [is |-> "number", number |-> x, code |-> "none"]
Unknown == [is |-> "unknown", number |-> Zero, code |-> "none"]
Fault(code) == [is |-> "fault", number |-> Zero, code |-> code]

ScaleOf(e) == IF e.unit = {} THEN One ELSE TheOnly(e.unit).scale

\* dim_of; a sum has the dimension of both of its sides.
RECURSIVE DimOf(_, _)
DimOf(e, dims) ==
  IF e.op = "let" THEN dims[e.name]
  ELSE IF IsLeaf(e) THEN {IF e.unit = {} THEN Scalar ELSE TheOnly(e.unit).dim}
  ELSE LET left == DimOf(e.lhs, dims)
           right == DimOf(e.rhs, dims)
       IN  CASE e.op = "*" -> {Times(l, r) : l \in left, r \in right}
             [] e.op = "/" -> {Per(l, r) : l \in left, r \in right}
             [] OTHER -> left \cap right

\* Lookup, of the consumer that has the launch tree, and NoLaunchTree: a
\* parameter is one of a node, by default of the one its value is written at.
Answer(lookup, e, node) ==
  LET at == IF e.node = {} /\ e.op = "param" THEN node ELSE e.node
  IN  CASE ~ lookup.tree -> Unknown
        [] lookup.tree /\ e.op = "param" /\ at = {} -> Fault("param-node-missing")
        [] OTHER -> IF <<e.name, at>> \in DOMAIN lookup.value THEN Worth(lookup.value[<<e.name, at>>])
                    ELSE Fault("unset")

\* A bug: what is not known counts as zero.
CombineWithZero(op, a, b) ==
  CASE op = "+" -> Worth(Plus(a.number, b.number))
    [] op = "-" -> Worth(Minus(a.number, b.number))
    [] op = "*" -> Worth(Prod(a.number, b.number))
    [] op = "/" -> IF b.number[1] = 0 THEN Fault("value-range") ELSE Worth(Quot(a.number, b.number))

\* Two sides of an operator, of which neither is at fault.
Combine(op, a, b) ==
  IF "unknown" \in {a.is, b.is} THEN Unknown
  ELSE CASE op = "+" -> Worth(Plus(a.number, b.number))
         [] op = "-" -> Worth(Minus(a.number, b.number))
         [] op = "*" -> Worth(Prod(a.number, b.number))
         [] op = "/" -> IF b.number[1] = 0 THEN Fault("value-range") ELSE Worth(Quot(a.number, b.number))

\* Eval::eval: what lets holds of an entry is its number, if it has one.
RECURSIVE Eval(_, _, _, _)
Eval(e, lets, lookup, node) ==
  CASE e.op = "number" -> Worth(Prod(e.raw, ScaleOf(e)))
    [] IsReference(e) -> LET read == Answer(lookup, e, node)
                         IN  IF read.is = "number" THEN Worth(Prod(read.number, ScaleOf(e))) ELSE read
    [] e.op = "let" -> IF lets[e.name] = {} THEN Unknown ELSE Worth(TheOnly(lets[e.name]))
    [] OTHER -> LET a == Eval(e.lhs, lets, lookup, node)
                    b == Eval(e.rhs, lets, lookup, node)
                IN  IF a.is = "fault" THEN a ELSE IF b.is = "fault" THEN b ELSE Combine(e.op, a, b)

\* range_check.
InRange(want, x) ==
  CASE want = Time -> x[1] >= 0
    [] want = Frequency -> x[1] > 0
    [] want = Scalar -> x[1] >= 0 /\ IsWhole(x)
    [] OTHER -> TRUE

-----------------------------------------------------------------------------
(***************************************************************************)
(* Resolution: the entries of `let`, with their dimensions, and the values *)
(* written as expressions.  A value is [at, expr, want, sourced]; at is    *)
(* its node, the part and the name of the declaration, and the key.        *)
(***************************************************************************)
NodeOf(value) == {value.at[1]}

NoResolution(lets, values) ==
  [dims |-> [n \in {l.name : l \in Range(lets)} |-> {}], lets |-> [n \in {l.name : l \in Range(lets)} |-> {}],
   values |-> [k \in {v.at : v \in Range(values)} |-> {}], unknown |-> {}, errors |-> {}]

\* What became of the value or the entry at a place, its number kept apart.
Noted(res, place, worth) ==
  [res EXCEPT !.unknown = @ \cup {k \in {place} : worth.is = "unknown"},
              !.errors = @ \cup {[at |-> k, code |-> worth.code] : k \in {k \in {place} : worth.is = "fault"}}]

NumberOf(worth) == {w.number : w \in {w \in {worth} : w.is = "number"}}

\* resolve_values, of one entry of `let`; it sits under no node.
EvaluateLet(res, entry, lookup) ==
  LET dim == DimOf(entry.expr, res.dims)
      worth == IF dim = {} THEN Fault("param-dimension") ELSE Eval(entry.expr, res.lets, lookup, {})
  IN  [Noted(res, <<"let", entry.name>>, worth) EXCEPT !.dims[entry.name] = dim,
                                                       !.lets[entry.name] = NumberOf(worth)]

\* evaluate_one and range_check.
EvaluateOne(res, value, lookup) ==
  LET worth == Eval(value.expr, res.lets, lookup, NodeOf(value))
  IN  CASE DimOf(value.expr, res.dims) # {value.want} -> Fault("param-dimension")
        [] worth.is = "number" /\ ~ InRange(value.want, worth.number) -> Fault("value-range")
        [] OTHER -> worth

\* resolve_values, of one value; an entry without a dimension has its error.
EvaluateValue(res, value, lookup) ==
  LET worth == IF \E n \in LetsOf(value.expr) : res.dims[n] = {} THEN Unknown
               ELSE EvaluateOne(res, value, lookup)
  IN  [Noted(res, value.at, worth) EXCEPT !.values[value.at] = NumberOf(worth)]

-----------------------------------------------------------------------------
(***************************************************************************)
(* Reading a contract with its values in place.                            *)
(***************************************************************************)
Nearest(x) == (2 * x[1] + x[2]) \div (2 * x[2])

\* yaml_duration_at, yaml_rate_at, yaml_count_at: the contracts of this model
\* have their durations in milliseconds.
InPlace(want, x) == IF want = Time THEN Nearest(Prod(x, Whole(1000))) ELSE Nearest(x)

\* A declaration with a key read: as if undeclared while it has no number.  A
\* timer or a curve without its rate is none, nor is a curve without its burst.
WithKey(decl, key, number) ==
  CASE key = "trigger.timer.rate_hz" -> [decl EXCEPT !.trigger = {[t EXCEPT !.rate = r] : t \in @, r \in number}]
    [] key = "trigger.timer.jitter" -> [decl EXCEPT !.trigger = {[t EXCEPT !.jitter = number] : t \in @}]
    [] key = "sync.max_interval" -> [decl EXCEPT !.sync = {[s EXCEPT !.max_interval = number] : s \in @}]
    [] key = "arrival_curve.rate_hz" -> [decl EXCEPT !.curve = {[c EXCEPT !.rate = r] : c \in @, r \in number}]
    [] key = "arrival_curve.burst" -> [decl EXCEPT !.curve = {[c EXCEPT !.burst = n] : c \in @, n \in number}]
    [] OTHER -> [decl EXCEPT ![key] = number]

WithValue(m, value, number) ==
  LET at == value.at
  IN  [m EXCEPT ![Root].nodes[at[1]][at[2]][at[3]] =
                  WithKey(@, at[4], {InPlace(value.want, x) : x \in number})]

\* The contract with the numbers that some values have.
WithValues(m, values, numbers) ==
  FoldLeft(LAMBDA tree, value : WithValue(tree, value, numbers[value.at]), m, values)

\* read_reference and source_on_reference: the values a reading refuses.
BadValues(values, lets) ==
  {v.at : v \in {v \in Range(values) : v.sourced \/ ~ WellFormed(v.expr, v.want, {l.name : l \in Range(lets)})}}
=============================================================================
