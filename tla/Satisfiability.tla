--------------------------- MODULE Satisfiability ----------------------------
(***************************************************************************)
(* check/src/rules/satisfiability.rs: whether what a scope declares has a  *)
(* counterpart under every value its finite arguments may have.  The       *)
(* conditions are read as they are written, before anything is             *)
(* substituted, by a reader of their own.  The solver is modelled by what  *)
(* it decides: a search through all assignments.                           *)
(***************************************************************************)
EXTENDS ContractRules

FiniteArgs(s) == {a \in DOMAIN s.args : s.args[a] # {}}

\* All assignments of valid values to the finite arguments.
Assignments(s) ==
  {v \in [FiniteArgs(s) -> UNION {s.args[a] : a \in FiniteArgs(s)}] :
     \A a \in FiniteArgs(s) : v[a] \in s.args[a]}

-----------------------------------------------------------------------------
(***************************************************************************)
(* translate_condition.                                                    *)
(***************************************************************************)
\* find_top_level: where a connective first stands outside of parentheses and
\* of quotes, in a text that has something on both sides of it.
TopLevel(s, op) ==
  LET quoted[k \in 0..Len(s)] == k > 0 /\ quoted[k - 1] # (s[k] = Word("'"))
      depth[k \in 0..Len(s)] ==
        IF k = 0 THEN 0
        ELSE IF ~ quoted[k - 1] /\ s[k] = Word("(") THEN depth[k - 1] + 1
        ELSE IF ~ quoted[k - 1] /\ s[k] = Word(")") THEN Max({0, depth[k - 1] - 1})
        ELSE depth[k - 1]
  IN  {k \in 2..(Len(s) - 1) : s[k] = Word(op) /\ ~ quoted[k] /\ depth[k] = 0}

Anywhere(s, op) == {k \in 2..(Len(s) - 1) : s[k] = Word(op)}

\* extract_var: a reference or the bare name of an argument.
VarNamed(s) == {s[i].text : i \in {i \in DOMAIN s : Len(s) = 1}}

\* extract_literal.
Literal(s) ==
  IF Len(s) >= 2 /\ s[1] = Word("'") /\ s[Len(s)] = Word("'") THEN SubSeq(s, 2, Len(s) - 1) ELSE s

\* What a condition says of an assignment; not known when it names no finite
\* argument, or none of its values.
Translated(domains, v, s) ==
  LET Atom(text, op, value) ==
        LET names == {a \in VarNamed(text) \cap DOMAIN domains : value \in domains[a]}
        IN  [known |-> names # {}, holds |-> \E a \in names : (v[a] = value) = op]
      Joined(l, r, op) ==
        [known |-> l.known /\ r.known,
         holds |-> IF op = "and" THEN l.holds /\ r.holds ELSE l.holds \/ r.holds]
      read[i \in 1..(Len(s) + 1), j \in 0..Len(s)] ==
        LET text == SubSeq(s, i, j)
            Split(k, op) == Joined(read[i, i + k - 2], read[i + k, j], op)
            Compared(k, op) ==
              Atom(SubSeq(text, 1, k - 1), op, Literal(SubSeq(text, k + 1, Len(text))))
            Read(ands, ors, equals, differs) ==
              IF ands # {} THEN Split(Min(ands), "and")
              ELSE IF ors # {} THEN Split(Min(ors), "or")
              ELSE IF equals # {} THEN Compared(Min(equals), TRUE)
              ELSE IF differs # {} THEN Compared(Min(differs), FALSE)
              ELSE Atom(text, TRUE, <<Word("true")>>)
        IN  Read(TopLevel(text, "and"), TopLevel(text, "or"), Anywhere(text, "=="), Anywhere(text, "!="))
  IN  read[1, Len(s)]

\* build_node_condition: `unless` is read only when there is no `if`.
IsActive(domains, v, when, active) ==
  LET Says(c, holds) == c.known /\ c.holds = holds
  IN  IF when.if # {} THEN Says(Translated(domains, v, TheOnly(when.if)), active)
      ELSE Says(Translated(domains, v, TheOnly(when.unless)), ~ active)

\* A bug: one publisher that is filtered is enough.
OneFiltered(s, refs) ==
  LET domains == Restrict(s.args, FiniteArgs(s))
      Off(v, r) == \E n \in Owner(r) \cap DOMAIN s.nodes : IsActive(domains, v, s.nodes[n].when, FALSE)
  IN  \E v \in Assignments(s) : \E r \in refs : Off(v, r)

\* check_all_filtered: an assignment under which none of these is active.  A
\* condition that cannot be translated constrains nothing.
AllFiltered(s, refs) ==
  LET domains == Restrict(s.args, FiniteArgs(s))
      On(v, r) == \E n \in Owner(r) \cap DOMAIN s.nodes : IsActive(domains, v, s.nodes[n].when, TRUE)
  IN  \E v \in Assignments(s) : \A r \in refs : ~ On(v, r)

-----------------------------------------------------------------------------
ConditionalNodes(s) == {n \in DOMAIN s.nodes : ~ Unconditional(s.nodes[n].when)}

\* The refs to conditional nodes, when there is no other ref.
OptionalEnds(s, refs) ==
  IF \A r \in refs : Owner(r) \cap ConditionalNodes(s) # {} THEN refs ELSE {}

\* all_state_only_subs.
StateOnly(s, refs) ==
  \A r \in refs : \E e \in Subscriber(s, r) : IsTrue(e.state) /\ ~ IsTrue(e.required)

Satisfiability(s) ==
  LET Unserved(decls) == {d \in DOMAIN decls :
                            LET ends == OptionalEnds(s, Range(decls[d].server))
                            IN  decls[d].client # <<>> /\ ends # {} /\ AllFiltered(s, ends)}
      Unfed == {t \in DOMAIN s.topics :
                  LET ends == OptionalEnds(s, Range(s.topics[t].pub))
                  IN  /\ s.topics[t].sub # <<>> /\ ~ StateOnly(s, Range(s.topics[t].sub))
                      /\ ends # {} /\ AllFiltered(s, ends)}
      Holds(n, v) == IsActive(Restrict(s.args, FiniteArgs(s)), v, s.nodes[n].when, TRUE)
      Unreachable == {n \in ConditionalNodes(s) : \A v \in Assignments(s) : ~ Holds(n, v)}
  IN  IF FiniteArgs(s) = {} THEN {}
      ELSE {Error("satisfiability", <<"topics", t>>, <<>>) : t \in Unfed}
           \cup {Error("satisfiability", <<"services", d>>, <<>>) : d \in Unserved(s.services)}
           \cup {Error("satisfiability", <<"actions", d>>, <<>>) : d \in Unserved(s.actions)}
           \cup {Warning("satisfiability", <<"nodes", n>>, <<>>) : n \in Unreachable}
=============================================================================
