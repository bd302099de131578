-------------------------- MODULE RequirementCheck ---------------------------
(***************************************************************************)
(* The way of an extension through the requirement language: it is parsed  *)
(* and refused or checked, a contract's values for its keys are read, and  *)
(* then an item is evaluated or one of its claims is decided, shape by     *)
(* shape.                                                                  *)
(*                                                                         *)
(* The solver is external.  It may give up on any query; when it finds no  *)
(* violation there is none on the grids; what it finds is a violation of   *)
(* the encoding.  While a counterexample is made readable it does not give *)
(* up: otherwise any violation could be the one that is shown.             *)
(***************************************************************************)
EXTENDS RequirementProof

CONSTANTS Files,        \* what files there are
          File(_),      \* each as it is parsed
          Contracts(_)  \* what contracts write for its keys: key -> [w, raw]

VARIABLES id,       \* the file
          stage,    \* what has been done with it
          checked,  \* Checked: what it declares, what its items read, what is wrong with it
          inputs,   \* the values of its keys
          at,       \* the item that is evaluated or claimed of
          outcome,  \* what the evaluator answers
          claim,    \* the claim that is decided
          shape,    \* the shapes of its tables that come next
          verdict   \* how the claim came out

vars == <<id, stage, checked, inputs, at, outcome, claim, shape, verdict>>

file == File(id)

NoOutcome == OkB(TRUE, TRUE)
NoClaim   == [item |-> 0, key |-> 0, direction |-> "increasing"]

(* A verdict, the two points of a counterexample, and the constraints that *)
(* would make the claim hold.                                              *)
Verdict(kind, why, points, holdsOn) ==
    [kind |-> kind, why |-> why, points |-> points, holdsOn |-> holdsOn]

Proved       == Verdict("proved", "", <<>>, {})
GaveUp(why) == Verdict("unknown", why, <<>>, {})
-----------------------------------------------------------------------------
(* Points as the evaluator's inputs: the keys of ks.                       *)
InputsAt(env, p, ks) ==
    [k \in DOMAIN env.keys |->
        CASE k \notin ks -> NoInput
          [] k \in ks /\ env.keys[k].ty = "table" -> Rows(p[k].rows)
          [] OTHER -> Amount(p[k].q, env.keys[k].dim)]

(* A counterexample has the keys the item reads; of the core's values only *)
(* the reaction.                                                           *)
Shown(env, reads) ==
    {k \in reads : env.keys[k].kind = "core" => env.keys[k].path = <<"reaction_total">>}

Evaluated(env, i, reads, ins) ==
    EvalItem([file |-> file, env |-> env, inputs |-> ins], file.items[i], reads)

ResultKind(i) == IF file.items[i].item = "check" THEN "bool" ELSE "real"

(* The second evaluation is worse than the first, and neither fails.       *)
EvaluatesWorse(cl, r, s) ==
    ~Failed(r) /\ ~Failed(s) /\ Worse(cl.direction, ResultKind(cl.item), r.v, s.v)

(* The evaluator reproduces a violation.                                   *)
Confirmed(env, cl, reads, points) ==
    EvaluatesWorse(cl, Evaluated(env, cl.item, reads, InputsAt(env, points[1], Shown(env, reads))),
                       Evaluated(env, cl.item, reads, InputsAt(env, points[2], Shown(env, reads))))
-----------------------------------------------------------------------------
(* One query to the solver, over the points of one shape: the pairs of     *)
(* points that are ordered and defined, with how the encoding values them. *)
Copies(env, cl, reads, shapes, junk) ==
    {[at |-> p, t |-> Copy([file |-> file, env |-> env, point |-> p, junk |-> junk],
                           file.items[cl.item].body)] : p \in Points(env, reads, shapes)}

Ats(pairs) == {<<p[1].at, p[2].at>> : p \in pairs}

Answer(cl, beyond, base) ==
    [beyond |-> beyond, base |-> Ats(base),
     worse  |-> Ats({p \in base : Worse(cl.direction, ResultKind(cl.item), p[1].t, p[2].t)})]

Ask(env, cl, copies) ==
    Answer(cl, \E c \in copies : c.t.beyond,
           {p \in {c \in copies : c.t.def /\ ~c.t.beyond} \X {c \in copies : c.t.def /\ ~c.t.beyond} :
                Ordered(env, cl.key, p[1].at, p[2].at)})

Query(env, cl, reads, shapes) ==
    Ask(env, cl, UNION {Copies(env, cl, reads, shapes, j) : j \in Junk})

Positive(p) ==
    \A k \in DOMAIN p : IF p[k].rows = <<>> THEN p[k].q[1] > 0
                        ELSE \A i \in DOMAIN p[k].rows : p[k].rows[i][2][1] > 0

(* The numbers a counterexample is rounded to, in this order.              *)
Readable == <<One, Whole(2), Whole(3), Whole(5), Whole(10), Whole(20), <<1, 2>>, Zero, Opposite(One)>>

(* Pin one scalar of a counterexample: which is the point's number, k the  *)
(* key.  The contract's value is tried first, but not for the claim's key. *)
Pin(ins, cl, which, k, found) ==
    LET tries == (IF ins[k].kind = "quantity" /\ k # cl.key THEN <<ins[k].q>> ELSE <<>>) \o Readable
        with(x) == {w \in found : Equal(w[which][k].q, x)}
        hits == {i \in DOMAIN tries : with(tries[i]) # {}}
    IN  IF hits = {} THEN found
        ELSE with(tries[CHOOSE i \in hits : \A j \in hits : i <= j])

(* The violations that may be shown: positive ones when there are any,     *)
(* rounded key by key.                                                     *)
Rounded(env, ins, cl, worse) ==
    LET good == {w \in worse : Positive(w[1]) /\ Positive(w[2])}
        pin(found, k) == Pin(ins, cl, 1, k, found)
    IN  FoldLeft(LAMBDA found, k :
                    CASE env.keys[k].ty = "table" -> found
                      [] env.keys[k].ty # "table" /\ k = cl.key -> Pin(ins, cl, 2, k, pin(found, k))
                      [] OTHER -> pin(found, k),
                 IF good # {} THEN good ELSE worse, [k \in DOMAIN env.keys |-> k])
-----------------------------------------------------------------------------
(* Domains that would make a refuted claim hold.  A candidate is a key     *)
(* that is positive, or two keys of one dimension in order.                *)
Le(a, b)  == [a |-> a, b |-> b]
Pos(a)    == [a |-> a, b |-> 0]

Candidates(env, reads) ==
    LET scalars == {k \in reads : env.keys[k].ty # "table"} IN
    {Pos(a) : a \in scalars}
        \cup {Le(a, b) : <<a, b>> \in {<<c, d>> \in scalars \X scalars :
                                        c # d /\ env.keys[c].dim = env.keys[d].dim}}

HoldsAt(c, x, y) == IF c.b = 0 THEN x[1] > 0 ELSE AtMost(x, y)

HoldsOn(c, p) == HoldsAt(c, p[c.a].q, IF c.b = 0 THEN Zero ELSE p[c.b].q)

(* A candidate is false at inputs that have its keys; where one is missing *)
(* nothing is known of it.                                                 *)
FalseAt(c, ins) ==
    LET given(k) == ins[k].kind = "quantity" IN
    /\ given(c.a)
    /\ c.b # 0 => given(c.b)
    /\ ~HoldsAt(c, ins[c.a].q, IF c.b = 0 THEN Zero ELSE ins[c.b].q)

(* One or two candidates, or three signs.                                  *)
Few(cs) == Cardinality(cs) \in 1 .. 2 \/ (Cardinality(cs) = 3 /\ \A c \in cs : c.b = 0)

On(cs, pairs) == {w \in pairs : \A c \in cs : HoldsOn(c, w[1]) /\ HoldsOn(c, w[2])}

(* What may be suggested against a counterexample: it is excluded, the     *)
(* contract's values are admitted, and two points are left but no          *)
(* violation.  The first set is taken on which the solver does not give up.*)
Suggestions(env, ins, reads, q, points) ==
    LET shown(n)   == InputsAt(env, points[n], Shown(env, reads))
        usable     == {c \in Candidates(env, reads) : ~FalseAt(c, ins)}
        excludes   == {c \in usable : FalseAt(c, shown(1)) \/ FalseAt(c, shown(2))}
    IN  {cs \in SUBSET usable : /\ Few(cs)
                                /\ cs \cap excludes # {}
                                /\ On(cs, q.base) # {}
                                /\ On(cs, q.worse) = {}}

(* A violation, as it is shown.                                            *)
Refuted(env, ins, cl, reads, q, points) ==
    IF ~Confirmed(env, cl, reads, points) THEN {GaveUp("not reproduced")}
    ELSE {Verdict("refuted", "", points, s) :
            s \in {{}} \cup Suggestions(env, ins, reads, q, points)}

Answered(env, ins, cl, reads, q) ==
    CASE q.beyond -> {GaveUp("beyond")}
      [] ~q.beyond /\ q.worse # {} ->
            {GaveUp("solver")} \cup UNION {Refuted(env, ins, cl, reads, q, w) :
                                            w \in Rounded(env, ins, cl, q.worse)}
      [] OTHER -> {GaveUp("solver"), IF q.base = {} THEN GaveUp("vacuous") ELSE Proved}

(* What may come out of one shape.                                         *)
Verdicts(env, ins, cl, reads, shapes) ==
    Answered(env, ins, cl, reads, Query(env, cl, reads, shapes))
-----------------------------------------------------------------------------
Init ==
    /\ id \in Files
    /\ stage = "source"
    /\ checked = <<>>
    /\ inputs = <<>>
    /\ at = 0
    /\ outcome = NoOutcome
    /\ claim = NoClaim
    /\ shape = <<>>
    /\ verdict = Proved

(* parse_source: what it refuses is not type-checked.                      *)
Refuse ==
    /\ stage = "source"
    /\ Refusals(file) # {}
    /\ stage' = "refused"
    /\ UNCHANGED <<id, checked, inputs, at, outcome, claim, shape, verdict>>

(* check_source.                                                           *)
Load ==
    /\ stage = "source"
    /\ Refusals(file) = {}
    /\ checked' = TypeCheck(file)
    /\ stage' = IF checked'.errs = {} THEN "loaded" ELSE "refused"
    /\ UNCHANGED <<id, inputs, at, outcome, claim, shape, verdict>>

(* The contract's values, each by the type of its key; a key of the core   *)
(* takes what the core computed.                                           *)
Supply ==
    /\ stage = "loaded"
    /\ \E c \in Contracts(id) :
          LET keys   == checked.env.keys
              values == [k \in DOMAIN keys |->
                            IF k \in DOMAIN c THEN ParseValue(c[k].w, c[k].raw, keys[k]) ELSE NoInput]
          IN  IF \E k \in DOMAIN values : values[k].err # ""
              THEN stage' = "value refused" /\ UNCHANGED inputs
              ELSE stage' = "supplied" /\ inputs' = values
    /\ UNCHANGED <<id, checked, at, outcome, claim, shape, verdict>>

(* eval_derive, eval_check, eval_report.                                   *)
Evaluate ==
    /\ stage = "supplied"
    /\ \E i \in DOMAIN file.items :
          /\ at' = i
          /\ outcome' = Evaluated(checked.env, i, checked.reads[i], inputs)
    /\ stage' = "evaluated"
    /\ UNCHANGED <<id, checked, inputs, claim, shape, verdict>>

(* prove: one claim, over every shape of the tables its item reads.        *)
Claim ==
    /\ stage = "supplied"
    /\ \E cl \in Claims(file, checked.env) :
          /\ claim' = cl
          /\ at' = cl.item
          /\ shape' = ShapeSets(checked.env, checked.reads[cl.item], inputs)
    /\ stage' = "proving"
    /\ UNCHANGED <<id, checked, inputs, outcome, verdict>>

(* One shape; the first that is not proved decides the claim.              *)
Prove ==
    /\ stage = "proving"
    /\ \E v \in Verdicts(checked.env, inputs, claim, checked.reads[claim.item], Head(shape)) :
          IF v.kind = "proved" /\ Len(shape) > 1
          THEN shape' = Tail(shape) /\ UNCHANGED <<stage, verdict>>
          ELSE stage' = "decided" /\ verdict' = v /\ UNCHANGED shape
    /\ UNCHANGED <<id, checked, inputs, at, outcome, claim>>

Done ==
    /\ stage \in {"refused", "value refused", "evaluated", "decided"}
    /\ UNCHANGED vars

Next == Refuse \/ Load \/ Supply \/ Evaluate \/ Claim \/ Prove \/ Done

Spec == Init /\ [][Next]_vars
-----------------------------------------------------------------------------
(* Properties.                                                             *)

Kind(i) == IF file.items[i].item = "check" THEN "boolean" ELSE "quantity"

(* Whether the domain of an item calls functions: what they read is not    *)
(* among the keys the item is said to read.                                *)
DomainCalls(it) ==
    \E c \in Range(it.body.domain) :
        \E e \in (IF c.kind = "pred" THEN {c.e} ELSE {c.lo, c.hi}) : CallsIn(e) \cap FnNames(file) # {}

(* What a check at load promises to the evaluator (typeck.rs, eval.rs): an *)
(* item of a file that loaded comes to a value of its kind and of its      *)
(* declared dimension, or fails in one of the listed ways, and never       *)
(* stops the program.  A key it misses is one the file says it reads, or   *)
(* one that only a function called in the domain reads.  Values whose      *)
(* dimension was guessed for an empty sum are left out.                    *)
AcceptedFilesEvaluate ==
    stage = "evaluated" =>
        LET it == file.items[at]
            v  == outcome.v
        IN  v.sure =>
            /\ outcome.err # "panic"
            /\ outcome.err = "" =>
                /\ v.k = Kind(at)
                /\ it.item # "check" => v.a = ResolveProduct(checked.env.dims, it.dim).dim
            /\ outcome.err = "missing-input" =>
                /\ inputs[outcome.key].kind = "none"
                /\ DomainCalls(it) \/ \E k \in checked.reads[at] : inputs[k].kind = "none"

(* The evaluations of a claim's item at every point of one shape at which  *)
(* it evaluates, every key of the file written.                            *)
Evaluations(cl, shapes) ==
    LET env   == checked.env
        reads == checked.reads[cl.item]
    IN  {r \in {[at |-> p, r |-> Evaluated(env, cl.item, reads, InputsAt(env, p, DOMAIN env.keys))] :
                  p \in Points(env, reads, shapes)} : ~Failed(r.r)}

(* No two evaluations inside cs move against the claim.                    *)
MovesAsClaimed(cl, shapes, cs) ==
    LET inside == {r \in Evaluations(cl, shapes) : \A c \in cs : HoldsOn(c, r.at)} IN
    \A a, b \in inside : Ordered(checked.env, cl.key, a.at, b.at) => ~EvaluatesWorse(cl, a.r, b.r)

(* What a verdict promises (prove.rs:1-56): a proved claim holds of every  *)
(* two contracts the evaluator accepts, whatever the tables; a suggested   *)
(* domain makes it hold and admits what the contract writes; and a         *)
(* violation the solver found is one of the evaluator, unless the item     *)
(* reads what the evaluator is not given.                                  *)
VerdictsHold ==
    stage = "decided" =>
        LET reads  == checked.reads[at]
            shapes == ShapeSets(checked.env, reads, inputs)
        IN  /\ verdict.kind = "proved" =>
                  \A i \in DOMAIN shapes : MovesAsClaimed(claim, shapes[i], {})
            /\ verdict.kind = "refuted" /\ verdict.holdsOn # {} =>
                  /\ MovesAsClaimed(claim, Head(shape), verdict.holdsOn)
                  /\ \A c \in verdict.holdsOn : ~FalseAt(c, inputs)
            /\ verdict.why = "not reproduced" =>
                  \/ Shown(checked.env, reads) # reads
                  \/ DomainCalls(file.items[at])
=============================================================================
