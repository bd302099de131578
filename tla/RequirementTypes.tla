-------------------------- MODULE RequirementTypes --------------------------
(***************************************************************************)
(* What a file of the requirement language must satisfy before anything of *)
(* it is evaluated: the refusals that need no types, and the type check.   *)
(* Diagnostics are their codes; wording, spans and order are left out.     *)
(***************************************************************************)
EXTENDS Requirements, FiniteSets

CONSTANT UnitNames      \* the symbols that read as a unit after a number

BuiltinFns == {"min", "max", "abs", "sqrt"}
CoreInputs == {"reaction_total", "elapsed"}
DeriveTargets ==
    {<<"settle", "duration">>, <<"hazard", "detection">>, <<"hazard", "ftti">>,
     <<"settle", "speed_lost">>}
ElapsedReaders == {<<"settle", "speed_lost">>}

DeriveTargetDim(target) ==
    Builtin[IF target = <<"settle", "speed_lost">> THEN "Velocity" ELSE "Time"]

FnNames(file) == {file.fns[i].name : i \in DOMAIN file.fns}

(* Of two functions of one name the first counts.                          *)
FnOf(file, n) ==
    file.fns[CHOOSE i \in DOMAIN file.fns :
        /\ file.fns[i].name = n
        /\ \A j \in 1 .. i - 1 : file.fns[j].name # n]
-----------------------------------------------------------------------------
(* Refusals.                                                               *)

BindingCalls(bs) == UNION {CallsIn(bs[i].e) : i \in DOMAIN bs}

Calls(fn) == CallsIn(fn.value) \cup BindingCalls(fn.bindings)

(* The functions n leads to in at most k calls.                            *)
LeadsTo(file, n) ==
    LET to[k \in Nat] ==
            IF k = 0 THEN Calls(FnOf(file, n)) \cap FnNames(file)
            ELSE LET last == to[k - 1] IN
                 last \cup (UNION {Calls(FnOf(file, m)) : m \in last} \cap FnNames(file))
    IN  to[Cardinality(FnNames(file))]

Recursive(file) == \E n \in FnNames(file) : n \in LeadsTo(file, n)

BindingNames(bs) == {bs[i].name : i \in DOMAIN bs}

BoundBy(value, bs) ==
    SumVars(value) \cup BindingNames(bs) \cup UNION {SumVars(bs[i].e) : i \in DOMAIN bs}

(* The names that must not be those of units.                              *)
Shadowable(file) ==
    UNION {{Last(k.path)} \cup (IF k.kind = "key" /\ k.default # <<>>
                                THEN SumVars(k.default[1]) ELSE {}) : k \in Range(file.keys)}
        \cup UNION {BoundBy(it.body.value, it.body.bindings) : it \in Range(file.items)}
        \cup UNION {{p.name : p \in Range(fn.params)} \cup BoundBy(fn.value, fn.bindings)
                        : fn \in Range(file.fns)}

Refusals(file) ==
    (IF Recursive(file) THEN {"recursion"} ELSE {})
        \cup (IF Shadowable(file) \cap UnitNames # {} THEN {"shadow"} ELSE {})
-----------------------------------------------------------------------------
(* Dimensions.  What a name resolves to is a dimension, or nothing with    *)
(* the codes of what went wrong.                                           *)

Known(d)      == [ok |-> TRUE, dim |-> d, errs |-> {}]
Unknown(code) == [ok |-> FALSE, dim |-> Scalar, errs |-> {code}]

(* The product of the powers of what the factors resolve to.               *)
Multiplied(fs, found) ==
    [ok   |-> \A i \in DOMAIN fs : found[i].ok,
     dim  |-> FoldLeft(LAMBDA d, i : Times(d, Powi(found[i].dim, fs[i].power)),
                       Scalar, [i \in DOMAIN fs |-> i]),
     errs |-> UNION {found[i].errs : i \in DOMAIN fs}]

(* The declarations that count: not of a built-in name, not a second one.  *)
Declared(file) ==
    {i \in DOMAIN file.dims :
        /\ file.dims[i].name \notin DOMAIN Builtin
        /\ \A j \in 1 .. i - 1 : file.dims[j].name # file.dims[i].name}

RECURSIVE ResolveDecl(_, _, _)
ResolveDecl(file, n, stack) ==
    LET decl  == {i \in Declared(file) : file.dims[i].name = n}
        fs    == file.dims[CHOOSE i \in decl : TRUE].factors
        found == [j \in DOMAIN fs |-> ResolveDecl(file, fs[j].name, stack \cup {n})]
    IN  CASE n \in DOMAIN Builtin -> Known(Builtin[n])
          [] n \notin DOMAIN Builtin /\ decl = {} -> Unknown("unknown-dimension")
          [] decl # {} /\ n \in stack -> Unknown("cycle")
          [] decl # {} /\ n \notin stack -> Multiplied(fs, found)

(* The named dimensions of a file, and what is wrong with them.            *)
Dimensions(file) ==
    LET names == {file.dims[i].name : i \in Declared(file)}
        found == [n \in names |-> ResolveDecl(file, n, {})]
    IN  [dims |-> [n \in DOMAIN Builtin \cup {m \in names : found[m].ok} |->
                      IF n \in DOMAIN Builtin THEN Builtin[n] ELSE found[n].dim],
         errs |-> UNION {found[n].errs : n \in names}
                    \cup (IF Declared(file) # DOMAIN file.dims THEN {"redefinition"} ELSE {})]

(* A dimension expression in a type position.                              *)
ResolveProduct(dims, p) ==
    Multiplied(p, [i \in DOMAIN p |-> IF p[i].name \in DOMAIN dims
                                      THEN Known(dims[p[i].name])
                                      ELSE Unknown("unknown-dimension")])

(* The type of a key.  The unit of a parameter must be one of its          *)
(* dimension.                                                              *)
KeyTypeOf(dims, ty) ==
    LET d == ResolveProduct(dims, ty.dim)
        t == ResolveProduct(dims, ty.to)
        badUnit == ty.kind = "param" /\ ty.unit # <<>> /\ d.ok /\ ty.unit[1].dim # d.dim
    IN  [ok   |-> d.ok /\ (ty.kind = "table" => t.ok) /\ ~badUnit,
         dim  |-> d.dim,
         to   |-> t.dim,
         errs |-> d.errs \cup t.errs \cup (IF badUnit THEN {"unit"} ELSE {})]
-----------------------------------------------------------------------------
(* Keys and inputs, and the core's after them.                             *)

KeyInfo(path, kind, ty, t, default) ==
    [path |-> path, last |-> Last(path), kind |-> kind,
     ty |-> IF t.ok THEN ty.kind ELSE "value",
     dim |-> IF t.ok THEN t.dim ELSE Scalar, to |-> IF t.ok THEN t.to ELSE Scalar,
     magnitude |-> ty.magnitude, unit |-> ty.unit, default |-> default, poisoned |-> ~t.ok]

AddKey(dims, acc, k) ==
    LET isCore == k.kind = "input" /\ Len(k.path) = 1 /\ k.path[1] \in CoreInputs
        others == {i \in DOMAIN acc.keys : acc.keys[i].last = Last(k.path)}
        clash  == IF \E i \in others : acc.keys[i].path = k.path
                  THEN "redefinition" ELSE "ambiguous-key"
        Added(t) ==
            [keys |-> IF others # {} THEN acc.keys
                      ELSE Append(acc.keys, KeyInfo(k.path, k.kind, k.ty, t, k.default)),
             core |-> IF isCore THEN acc.core \cup {k.path[1]} ELSE acc.core,
             errs |-> acc.errs \cup t.errs
                        \cup (IF isCore /\ t.ok /\ t.dim # Builtin["Time"] THEN {"dimension"} ELSE {})
                        \cup (IF others # {} THEN {clash} ELSE {})]
    IN  Added(KeyTypeOf(dims, k.ty))

(* A core value that no input declares is a key of its own.                *)
AddCore(acc, n) ==
    IF \E i \in DOMAIN acc.keys : acc.keys[i].last = n
    THEN [acc EXCEPT !.errs = @ \cup (IF n \in acc.core THEN {} ELSE {"ambiguous-key"})]
    ELSE IF n \in acc.core THEN acc
    ELSE [acc EXCEPT !.keys =
            Append(@, KeyInfo(<<n>>, "core", ValueType(<<>>), Known(Builtin["Time"]) @@ [to |-> Scalar], <<>>))]

Keys(file, dims) ==
    AddCore(AddCore(FoldLeft(LAMBDA acc, k : AddKey(dims, acc, k),
                             [keys |-> <<>>, core |-> {}, errs |-> {}], file.keys),
                    "reaction_total"), "elapsed")
-----------------------------------------------------------------------------
(* The kinds of an expression.  "error" is one that is reported already;   *)
(* nothing is reported because of it.                                      *)

Ty(k, a, b) == [k |-> k, a |-> a, b |-> b]

TQ(d)        == Ty("quantity", d, Scalar)
TBool        == Ty("boolean", Scalar, Scalar)
TTable(a, b) == Ty("table", a, b)
TList(a, b)  == Ty("list", a, b)
TBand(a, b)  == Ty("band", a, b)
TErr         == Ty("error", Scalar, Scalar)

IsQ(t)   == t.k = "quantity"
IsErr(t) == t.k = "error"

(* What is reported when a quantity or a predicate is wanted.              *)
WantQ(t)    == IF t.k \in {"quantity", "error"} THEN {} ELSE {"type"}
WantBool(t) == IF t.k \in {"boolean", "error"} THEN {} ELSE {"not-boolean"}

(* Both are quantities, of different dimensions.                           *)
Differ(t, u) == IsQ(t) /\ IsQ(u) /\ t.a # u.a

When(cond, code) == IF cond THEN {code} ELSE {}

(* A verdict on an expression: its type, and the codes, the keys read and  *)
(* the functions called in it and in its parts.                            *)
Typed(t, errs, parts) ==
    [t |-> t, errs |-> errs \cup UNION {p.errs : p \in parts},
     used |-> UNION {p.used : p \in parts}, calls |-> UNION {p.calls : p \in parts}]

KeyTy(k) ==
    CASE k.poisoned -> TErr
      [] ~k.poisoned /\ k.ty = "table" -> TTable(k.dim, k.to)
      [] OTHER -> TQ(k.dim)

(* An integer literal, possibly negated.                                   *)
RECURSIVE IntLiteral(_)
IntLiteral(e) ==
    CASE e.op = "number" -> e.q[1] % e.q[2] = 0
      [] e.op = "neg"    -> IntLiteral(e.e)
      [] OTHER           -> FALSE

RECURSIVE LiteralValue(_)
LiteralValue(e) == IF e.op = "neg" THEN -LiteralValue(e.e) ELSE Integer(e.q)

FieldTy(t, f) ==
    CASE t.k = "band" /\ f \in {"lo", "hi"} -> TQ(t.a)
      [] t.k = "band" /\ f = "value"        -> TQ(t.b)
      [] OTHER                              -> TErr

(* A field of something that is no error and has no such field.            *)
Member(t, f) == ~IsErr(t) /\ IsErr(FieldTy(t, f))

(* A local first, then the longest prefix that is a key; what follows are  *)
(* fields.                                                                 *)
InferPath(env, segs, loc) ==
    LET Fields(head, fields) ==
            FoldLeft(LAMBDA r, f : [r EXCEPT !.t = FieldTy(@, f),
                                             !.errs = @ \cup When(Member(r.t, f), "member")],
                     head, fields)
        After(k) == SubSeq(segs, k + 1, Len(segs))
        Key(idx) == [Typed(KeyTy(env.keys[idx]), {}, {}) EXCEPT !.used = {idx}]
        Prefixed(k) ==
            IF k = 0 THEN Typed(TErr, {"unknown-name"}, {})
            ELSE Fields(Key(KeyNamed(env.keys, SubSeq(segs, 1, k))), After(k))
    IN  IF InScope(loc, segs[1]) THEN Fields(Typed(Lookup(loc, segs[1]), {}, {}), After(1))
        ELSE Prefixed(KeyPrefix(env.keys, segs))

Parts(as) == {as[i] : i \in DOMAIN as}

(* min and max: every argument in the dimension of the first quantity.     *)
InferBest(as) ==
    LET qs   == {i \in DOMAIN as : IsQ(as[i].t)}
        one  == as[CHOOSE i \in qs : \A j \in qs : i <= j].t
        bad  == \E i \in qs : as[i].t.a # one.a
        fine == qs = DOMAIN as /\ qs # {} /\ ~bad
    IN  Typed(IF fine THEN one ELSE TErr,
              When(Len(as) < 2, "arity") \cup When(bad, "dimension")
                \cup UNION {WantQ(as[i].t) : i \in DOMAIN as}, Parts(as))

InferAbsOrRoot(f, as) ==
    LET t    == as[1].t
        root == f = "sqrt"
    IN  CASE Len(as) # 1 -> Typed(TErr, {"arity"}, Parts(as))
          [] Len(as) = 1 /\ ~IsQ(t) -> Typed(TErr, WantQ(t), Parts(as))
          [] Len(as) = 1 /\ IsQ(t) /\ root /\ ~Even(t.a) -> Typed(TErr, {"dimension"}, Parts(as))
          [] OTHER -> Typed(IF root THEN TQ(HalfOf(t.a)) ELSE t, {}, Parts(as))

InferFn(env, n, as) ==
    LET sig   == env.fns[n]
        both  == DOMAIN as \cap DOMAIN sig.params
        wrong == \E i \in both : sig.params[i].ok /\ Differ(as[i].t, TQ(sig.params[i].dim))
        r     == Typed(IF sig.ret.ok THEN TQ(sig.ret.dim) ELSE TErr,
                       When(Len(as) # Len(sig.params), "arity") \cup When(wrong, "dimension")
                         \cup UNION {WantQ(as[i].t) : i \in DOMAIN as}, Parts(as))
    IN  IF n \notin DOMAIN env.fns THEN Typed(TErr, {"unknown-name"}, Parts(as))
        ELSE [r EXCEPT !.calls = @ \cup {n}]

(* t.bands(lo, hi), the one method, on what its receiver comes to.         *)
InferBands(recv, segs, as) ==
    LET wrong == \E i \in DOMAIN as : Differ(as[i].t, TQ(recv.t.a))
    IN  CASE IsErr(recv.t) -> Typed(TErr, {}, {recv} \cup Parts(as))
          [] ~IsErr(recv.t) /\ (recv.t.k # "table" \/ Last(segs) # "bands") ->
                Typed(TErr, {"member"}, {recv})
          [] OTHER ->
                Typed(TList(recv.t.a, recv.t.b),
                      When(Len(as) # 2, "arity") \cup When(wrong, "dimension")
                        \cup UNION {WantQ(as[i].t) : i \in DOMAIN as}, {recv} \cup Parts(as))
-----------------------------------------------------------------------------
(* Two operands of one operator.                                           *)
InferCompare(c, a, b) ==
    LET ordered == {a.t.k, b.t.k} = {"quantity"}
        logical == {a.t.k, b.t.k} = {"boolean"} /\ c \in {"==", "!="}
    IN  Typed(TBool, IF IsErr(a.t) \/ IsErr(b.t) \/ logical THEN {}
                     ELSE IF ordered THEN When(Differ(a.t, b.t), "dimension")
                     ELSE {"type"}, {a, b})

InferArithmetic(o, a, b) ==
    LET d == CASE o = "*" -> Times(a.t.a, b.t.a)
               [] o = "/" -> Per(a.t.a, b.t.a)
               [] OTHER   -> a.t.a
        apart == o \in {"+", "-"} /\ Differ(a.t, b.t)
    IN  Typed(IF IsQ(a.t) /\ IsQ(b.t) /\ ~apart THEN TQ(d) ELSE TErr,
              WantQ(a.t) \cup WantQ(b.t) \cup When(apart, "dimension"), {a, b})

(* Only an integer literal can raise a dimension.                          *)
InferPower(a, r, b) ==
    CASE ~IsQ(a.t) -> Typed(TErr, WantQ(a.t), {a})
      [] IsQ(a.t) /\ IntLiteral(r) -> Typed(TQ(Powi(a.t.a, LiteralValue(r))), {}, {a})
      [] IsQ(a.t) /\ ~IntLiteral(r) /\ ~IsQ(b.t) -> Typed(TErr, WantQ(b.t), {a, b})
      [] OTHER ->
            IF a.t.a = Scalar /\ b.t.a = Scalar THEN Typed(TQ(Scalar), {}, {a, b})
            ELSE Typed(TErr, {"exponent"}, {a, b})

InferIf(c, a, b) ==
    LET same == a.t.k = b.t.k /\ a.t.k \in {"quantity", "boolean"}
        t == CASE IsErr(a.t) -> b.t
               [] ~IsErr(a.t) /\ IsErr(b.t) -> a.t
               [] OTHER -> IF same /\ a.t = b.t THEN a.t ELSE TErr
    IN  Typed(t, WantBool(c.t) \cup IF IsErr(a.t) \/ IsErr(b.t) THEN {}
                                    ELSE IF same THEN When(Differ(a.t, b.t), "dimension")
                                    ELSE {"type"}, {c, a, b})

(* The type of an expression in a scope of types.                          *)
RECURSIVE Infer(_, _, _)
Infer(env, e, loc) ==
    CASE e.op = "number"  -> Typed(TQ(Scalar), {}, {})
      [] e.op = "measure" -> Typed(TQ(e.dim), {}, {})
      [] e.op = "path"    -> InferPath(env, e.segs, loc)
      [] e.op = "neg"     -> LET a == Infer(env, e.e, loc) IN
                             Typed(IF IsQ(a.t) THEN a.t ELSE TErr, WantQ(a.t), {a})
      [] e.op = "not"     -> LET a == Infer(env, e.e, loc) IN Typed(TBool, WantBool(a.t), {a})
      [] e.op \in {"and", "or"} ->
            LET a == Infer(env, e.l, loc) b == Infer(env, e.r, loc) IN
            Typed(TBool, WantBool(a.t) \cup WantBool(b.t), {a, b})
      [] e.op \in Comparisons -> InferCompare(e.op, Infer(env, e.l, loc), Infer(env, e.r, loc))
      [] e.op = "^" -> InferPower(Infer(env, e.l, loc), e.r, Infer(env, e.r, loc))
      [] e.op \in Arithmetic \ {"^"} ->
            InferArithmetic(e.op, Infer(env, e.l, loc), Infer(env, e.r, loc))
      [] e.op = "if" -> InferIf(Infer(env, e.c, loc), Infer(env, e.t, loc), Infer(env, e.e, loc))
      [] e.op = "sum" ->
            LET over == Infer(env, e.over, loc)
                band == IF over.t.k = "list" THEN TBand(over.t.a, over.t.b) ELSE TErr
                body == Infer(env, e.body, BindSum(loc, e.var, band))
            IN  Typed(IF IsQ(body.t) THEN body.t ELSE TErr,
                      When(over.t.k \notin {"list", "error"}, "type")
                        \cup When(InScope(loc, e.var), "redefinition") \cup WantQ(body.t),
                      {over, body})
      [] e.op = "call" ->
            LET as == [i \in DOMAIN e.args |-> Infer(env, e.args[i], loc)]
                f  == e.segs[1]
            IN  CASE Len(e.segs) > 1 -> InferBands(InferPath(env, Front(e.segs), loc), e.segs, as)
                  [] Len(e.segs) = 1 /\ f \in {"min", "max"} -> InferBest(as)
                  [] Len(e.segs) = 1 /\ f \in {"abs", "sqrt"} -> InferAbsOrRoot(f, as)
                  [] OTHER -> InferFn(env, f, as)

(* One more binding, of what it comes to.                                  *)
BoundTo(scope, r, name, got) ==
    [loc |-> Bind(scope, name, got.t),
     r   |-> Typed(TErr, When(HitsIn(scope.binds, name) \cup HitsIn(scope.params, name) # {},
                              "redefinition"), {r, got})]

NotBound(loc) == [loc |-> loc, r |-> Typed(TErr, {}, {})]

(* where bindings, each seeing the ones before it: the scope they leave    *)
(* and what they come to.                                                  *)
RECURSIVE InferBindings(_, _, _)
InferBindings(env, bs, before) ==
    IF bs = <<>> THEN before
    ELSE InferBindings(env, Tail(bs),
            BoundTo(before.loc, before.r, Head(bs).name, Infer(env, Head(bs).e, before.loc)))
-----------------------------------------------------------------------------
(* Functions and defaults.                                                 *)

SignatureOf(fn, params, ret) ==
    [params |-> [i \in DOMAIN params |->
                    [name |-> fn.params[i].name, ok |-> params[i].ok, dim |-> params[i].dim]],
     ret    |-> [ok |-> ret.ok, dim |-> ret.dim],
     errs   |-> ret.errs \cup UNION {params[i].errs : i \in DOMAIN params}
                  \cup When(Cardinality({p.name : p \in Range(fn.params)}) # Len(fn.params),
                            "redefinition")]

Signature(dims, fn) ==
    SignatureOf(fn, [i \in DOMAIN fn.params |-> ResolveProduct(dims, fn.params[i].dim)],
                ResolveProduct(dims, fn.ret))

Signatures(file, dims) == [n \in FnNames(file) \ BuiltinFns |-> Signature(dims, FnOf(file, n))]

SignatureErrs(file, sigs) ==
    UNION {sigs[n].errs : n \in DOMAIN sigs}
        \cup When(\E i \in DOMAIN file.fns :
                    \/ file.fns[i].name \in BuiltinFns
                    \/ \E j \in 1 .. i - 1 : file.fns[j].name = file.fns[i].name,
                  "redefinition")

(* A default has the dimension of its key, and no table has one.           *)
Defaulted(want, got) ==
    got.errs \cup IF IsErr(want) \/ IsErr(got.t) THEN {}
                  ELSE IF IsQ(want) /\ IsQ(got.t) THEN When(Differ(want, got.t), "dimension")
                  ELSE {"type"}

DefaultErrs(env) ==
    UNION {Defaulted(KeyTy(env.keys[i]), Infer(env, env.keys[i].default[1], NoScope)) :
           i \in {j \in DOMAIN env.keys : env.keys[j].default # <<>>}}

(* What is declared is what the value must be.                             *)
Returned(declared, got) ==
    IF declared.ok /\ IsQ(got) THEN When(declared.dim # got.a, "dimension") ELSE WantQ(got)

(* A value after its bindings.                                             *)
AfterBindings(bs, v) == Typed(v.t, {}, {bs.r, v})

InferAfter(env, value, bs) == AfterBindings(bs, Infer(env, value, bs.loc))

ReturnedFrom(ret, r) == [r EXCEPT !.errs = @ \cup Returned(ret, r.t)]

FnBody(env, fn) ==
    LET sig   == env.fns[fn.name]
        types == [i \in DOMAIN sig.params |->
                    Bound(sig.params[i].name,
                          IF sig.params[i].ok THEN TQ(sig.params[i].dim) ELSE TErr)]
    IN  ReturnedFrom(sig.ret, InferAfter(env, fn.value,
            InferBindings(env, fn.bindings, NotBound([NoScope EXCEPT !.params = types]))))

FnBodies(file, env) == [n \in DOMAIN env.fns |-> FnBody(env, FnOf(file, n))]

(* The keys each function reads, itself or through the ones it calls.      *)
FnUsed(file, bodies) ==
    [n \in DOMAIN bodies |->
        UNION {bodies[m].used : m \in {n} \cup (LeadsTo(file, n) \cap DOMAIN bodies)}]

(* A bug: the functions an expression calls read nothing.                  *)
OwnReads(r, fnUsed) == r.used

WithFnReads(r, fnUsed) == r.used \cup UNION {fnUsed[f] : f \in r.calls \cap DOMAIN fnUsed}
-----------------------------------------------------------------------------
(* Items.                                                                  *)

(* A direction is stated over a declared key that the item reads, once,    *)
(* and never over a binding.                                               *)
ClaimErr(env, body, used, i) ==
    LET var(j) == body.worstCase[j].var
        idx(j) == KeyNamed(env.keys, var(j))
        isBinding(j) == Len(var(j)) = 1 /\ var(j)[1] \in BindingNames(body.bindings)
        counts(j) == ~isBinding(j) /\ idx(j) # 0 /\ idx(j) \in used
    IN  CASE isBinding(i) -> {"worst-case"}
          [] ~isBinding(i) /\ idx(i) = 0 -> {"unknown-name"}
          [] OTHER -> When(\/ ~counts(i)
                           \/ \E j \in 1 .. i - 1 : counts(j) /\ idx(j) = idx(i), "worst-case")

(* One constraint of a domain: what it reads itself, and what is wrong.    *)
Interval(idx, want, ends) ==
    [Typed(TErr, UNION {WantQ(e.t) \cup When(Differ(e.t, want), "dimension") : e \in ends}, ends)
        EXCEPT !.used = @ \cup {idx}]

InferConstraint(env, c) ==
    LET idx == KeyNamed(env.keys, c.var)
        ty  == KeyTy(env.keys[idx])
        Predicate(p) == Typed(TErr, WantBool(p.t), {p})
    IN  CASE c.kind = "pred" -> Predicate(Infer(env, c.e, NoScope))
          [] c.kind = "in" /\ idx = 0 -> Typed(TErr, {"unknown-name"}, {})
          [] c.kind = "in" /\ idx # 0 ->
                IF IsErr(ty) THEN [Typed(TErr, {}, {}) EXCEPT !.used = {idx}]
                ELSE Interval(idx, IF ty.k = "table" THEN TQ(ty.b) ELSE ty,
                              {Infer(env, e, NoScope) : e \in {c.lo, c.hi}})

(* The constraints of a domain read what they name, not what the functions *)
(* they call read.                                                         *)
DomainReads(cs) == UNION {c.used : c \in cs}

(* What is wrong with an item itself, of what it is declared to be, what   *)
(* its value comes to and the keys it reads.                               *)
ItemErrs(file, env, i, decl, t, reads) ==
    LET it == file.items[i]
        twin(kinds) == \E j \in 1 .. i - 1 :
                            file.items[j].item \in kinds /\ file.items[j].name = it.name
        target == CASE it.name \notin DeriveTargets -> {"derive-target"}
                    [] it.name \in DeriveTargets /\ twin({"derive"}) -> {"redefinition"}
                    [] OTHER -> When(decl.ok /\ decl.dim # DeriveTargetDim(it.name), "dimension")
        elapsed == \E k \in reads : env.keys[k].path = <<"elapsed">> /\ env.keys[k].kind = "core"
    IN  CASE it.item = "check"  -> When(twin({"check", "report"}), "redefinition") \cup WantBool(t)
          [] it.item = "report" -> When(twin({"check", "report"}), "redefinition")
                                     \cup decl.errs \cup Returned(decl, t)
          [] OTHER -> target \cup When(elapsed /\ it.name \notin ElapsedReaders, "type")
                        \cup decl.errs \cup Returned(decl, t)

CheckedItem(file, env, i, r, used, cs) ==
    LET it == file.items[i] IN
    [reads |-> used \cup DomainReads(cs),
     errs  |-> r.errs \cup UNION {c.errs : c \in cs}
        \cup UNION {ClaimErr(env, it.body, used, k) : k \in DOMAIN it.body.worstCase}
        \cup ItemErrs(file, env, i, ResolveProduct(env.dims, it.dim), r.t, used \cup DomainReads(cs))]

Constraints(env, body) == {InferConstraint(env, body.domain[k]) : k \in DOMAIN body.domain}

CheckItemOf(file, env, fnUsed, i, r) ==
    CheckedItem(file, env, i, r, WithFnReads(r, fnUsed), Constraints(env, file.items[i].body))

CheckItem(file, env, fnUsed, i) ==
    CheckItemOf(file, env, fnUsed, i,
        InferAfter(env, file.items[i].body.value,
                   InferBindings(env, file.items[i].body.bindings, NotBound(NoScope))))

CheckItems(file, env, fnUsed) ==
    [i \in DOMAIN file.items |-> CheckItem(file, env, fnUsed, i)]

(* The whole check: what an extension declares, and what is wrong with it. *)
Checked(file, env, errs, bodies, its) ==
    [env   |-> env,
     reads |-> [i \in DOMAIN its |-> its[i].reads],
     errs  |-> errs \cup SignatureErrs(file, env.fns) \cup DefaultErrs(env)
                \cup UNION {bodies[n].errs : n \in DOMAIN bodies}
                \cup UNION {its[i].errs : i \in DOMAIN its}]

CheckBodies(file, env, errs, bodies) ==
    Checked(file, env, errs, bodies, CheckItems(file, env, FnUsed(file, bodies)))

CheckIn(file, env, errs) == CheckBodies(file, env, errs, FnBodies(file, env))

CheckKeys(file, ds, ks) ==
    CheckIn(file, [dims |-> ds.dims, keys |-> ks.keys, fns |-> Signatures(file, ds.dims)],
            ds.errs \cup ks.errs)

CheckDims(file, ds) == CheckKeys(file, ds, Keys(file, ds.dims))

TypeCheck(file) == CheckDims(file, Dimensions(file))
=============================================================================
