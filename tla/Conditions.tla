----------------------------- MODULE Conditions -----------------------------
(***************************************************************************)
(* types/src/cond.rs: conditions, and the contract that is left when they  *)
(* have been decided.                                                      *)
(***************************************************************************)
EXTENDS Contracts, SequencesExt

-----------------------------------------------------------------------------
(***************************************************************************)
(* types/src/subst.rs: the arguments of a contract and their place in its  *)
(* texts.  The value of an argument is a text without references.          *)
(***************************************************************************)
\* ArgDecl::valid_values, empty for a free string.
IsFinite(decl) == decl # {}

\* resolve_args: every declared argument is given, with a value it may have.
CanResolve(decls, given) ==
  \A a \in DOMAIN decls :
    /\ a \in DOMAIN given
    /\ IsFinite(decls[a]) => given[a] \in decls[a]

\* What the file does not declare is passed on.
ResolveArgs(decls, given) == given

\* substitute_str: a reference becomes the value, the rest stays.
SubstituteText(s, args) ==
  FlattenSeq([i \in DOMAIN s |-> IF s[i].var THEN args[s[i].text] ELSE <<s[i]>>])

SubstituteAll(texts, args) == [i \in DOMAIN texts |-> SubstituteText(texts[i], args)]

SubstituteWhen(when, args) ==
  [if |-> {SubstituteText(c, args) : c \in when.if},
   unless |-> {SubstituteText(c, args) : c \in when.unless}]

SubstitutePath(path, args) ==
  [path EXCEPT !.when = SubstituteWhen(@, args),
               !.input = SubstituteAll(@, args), !.output = SubstituteAll(@, args),
               !.trigger = {[t EXCEPT !.eps = SubstituteAll(@, args)] : t \in @}]

SubstituteService(d, args) ==
  [d EXCEPT !.when = SubstituteWhen(@, args), !.type = SubstituteText(@, args),
            !.server = SubstituteAll(@, args), !.client = SubstituteAll(@, args)]

\* substitute_manifest on the scope it is called with.
SubstituteScope(s, args) ==
  LET Paths(paths) == [p \in DOMAIN paths |-> SubstitutePath(paths[p], args)]
      Services(decls) == [d \in DOMAIN decls |-> SubstituteService(decls[d], args)]
  IN  [s EXCEPT
         !.nodes = [n \in DOMAIN @ |->
                      [@[n] EXCEPT !.when = SubstituteWhen(@, args), !.paths = Paths(@)]],
         !.topics = [t \in DOMAIN @ |->
                       [@[t] EXCEPT !.when = SubstituteWhen(@, args),
                                    !.type = SubstituteText(@, args),
                                    !.pub = SubstituteAll(@, args),
                                    !.sub = SubstituteAll(@, args)]],
         !.services = Services(@), !.actions = Services(@), !.paths = Paths(@),
         !.members = [f \in DOMAIN @ |-> SubstituteAll(@[f], args)],
         !.external_topics = [t \in DOMAIN @ |->
                                [@[t] EXCEPT !.type = {SubstituteText(x, args) : x \in @}]]]

\* It does not look into the includes.
SubstituteManifest(m, args) == [m EXCEPT ![Root] = SubstituteScope(@, args)]

-----------------------------------------------------------------------------
(***************************************************************************)
(* SubstError::Unresolved: a reference to no argument in a substituted     *)
(* text.                                                                   *)
(***************************************************************************)
Texts(s) ==
  LET Whens(decls) == UNION {decls[d].when.if \cup decls[d].when.unless : d \in DOMAIN decls}
      PathTexts(paths) ==
        Whens(paths) \cup UNION {Range(paths[p].input) \cup Range(paths[p].output)
                                   \cup UNION {Range(t.eps) : t \in paths[p].trigger} :
                                   p \in DOMAIN paths}
      ServiceTexts(decls) ==
        Whens(decls) \cup UNION {{decls[d].type} \cup Range(decls[d].server)
                                   \cup Range(decls[d].client) : d \in DOMAIN decls}
  IN  UNION {Whens(s.nodes), UNION {PathTexts(s.nodes[n].paths) : n \in DOMAIN s.nodes},
             Whens(s.topics), UNION {{s.topics[t].type} \cup Range(s.topics[t].pub)
                                       \cup Range(s.topics[t].sub) : t \in DOMAIN s.topics},
             ServiceTexts(s.services), ServiceTexts(s.actions), PathTexts(s.paths),
             UNION {Range(s.members[f]) : f \in DOMAIN s.members},
             UNION {s.external_topics[t].type : t \in DOMAIN s.external_topics}}

Resolvable(s, args) ==
  \A text \in Texts(s) : \A t \in Range(text) : t.var => t.text \in DOMAIN args

-----------------------------------------------------------------------------
(***************************************************************************)
(* evaluate.                                                               *)
(***************************************************************************)
Marks == {"(", ")", "==", "!=", "'"}

\* parse_value: a quoted text or one bare word.
ValueAt(s, i) ==
  LET ends == {j \in (i + 1)..Len(s) : s[j] = Word("'")}
  IN  IF i <= Len(s) /\ s[i] = Word("'") /\ ends # {}
        THEN [ok |-> TRUE, text |-> SubSeq(s, i + 1, Min(ends) - 1), next |-> Min(ends) + 1]
      ELSE IF i <= Len(s) /\ ~ s[i].var /\ s[i].text \notin Marks
        THEN [ok |-> TRUE, text |-> <<s[i]>>, next |-> i + 1]
      ELSE [ok |-> FALSE, text |-> <<>>, next |-> i]

\* What is read at each place of a text: at level 0 a chain of the looser
\* connective, at level 1 one of the tighter, at level 2 an atom.
ParsedWith(s, loose, tight) ==
  LET At(i, w) == i <= Len(s) /\ s[i] = Word(w)
      Failed == [ok |-> FALSE, holds |-> FALSE, next |-> 1]
      Found(holds, next) == [ok |-> TRUE, holds |-> holds, next |-> next]
      Joined(op, l, r) ==
        IF ~ r.ok THEN Failed
        ELSE Found(IF op = "or" THEN l.holds \/ r.holds ELSE l.holds /\ r.holds, r.next)
      Closed(inner) ==
        IF inner.ok /\ At(inner.next, ")") THEN [inner EXCEPT !.next = @ + 1] ELSE Failed
      Compared(lhs, equal, rhs) ==
        IF rhs.ok THEN Found((lhs.text = rhs.text) = equal, rhs.next) ELSE Failed
      Begun(lhs) ==
        IF ~ lhs.ok THEN Failed
        ELSE IF At(lhs.next, "==") \/ At(lhs.next, "!=")
        THEN Compared(lhs, At(lhs.next, "=="), ValueAt(s, lhs.next + 1))
        ELSE Found(lhs.text = <<Word("true")>>, lhs.next)
      parse[level \in 0..2, i \in 1..(Len(s) + 1)] ==
        LET Chained(op, left) ==
              IF left.ok /\ At(left.next, op) THEN Joined(op, left, parse[level, left.next + 1])
              ELSE left
        IN  IF level < 2 THEN Chained(IF level = 0 THEN loose ELSE tight, parse[level + 1, i])
            ELSE IF At(i, "(") THEN Closed(parse[0, i + 1])
            ELSE Begun(ValueAt(s, i))
  IN  parse[0, 1]

\* A bug: `and` binds weakest.
ParsedAndFirst(s) == ParsedWith(s, "and", "or")

\* parse_expr: `or` binds weakest.
Parsed(s) == ParsedWith(s, "or", "and")

\* A text the grammar does not cover to its end is the boolean it spells.
Decided(s, parsed) ==
  IF parsed.ok /\ parsed.next = Len(s) + 1 THEN parsed.holds ELSE s = <<Word("true")>>

Evaluate(s) == s # <<>> /\ Decided(s, Parsed(s))

ShouldInclude(when) ==
  /\ \A c \in when.if : Evaluate(c)
  /\ \A c \in when.unless : ~ Evaluate(c)

-----------------------------------------------------------------------------
(***************************************************************************)
(* filter_manifest.                                                        *)
(***************************************************************************)
\* The declarations whose condition holds, with the condition taken off.
Settled(decls) ==
  [n \in {d \in DOMAIN decls : ShouldInclude(decls[d].when)} |->
     [decls[n] EXCEPT !.when = Always]]

\* A bug: a ref is dropped whenever its owner is not there.
WithoutRemovedTypos(refs, owners, conditional) ==
  SelectSeq(refs, LAMBDA r : Owner(r) \subseteq owners)

\* cleanup_ref_list: a ref goes with the conditional owner it named; one to an
\* owner that is missing without a condition stays for the checker.
WithoutRemoved(refs, owners, conditional) ==
  SelectSeq(refs, LAMBDA r : Owner(r) \subseteq owners \/ Owner(r) \cap conditional = {})

\* cleanup_dangling_refs: refs first, then what has no end left.
CleanedUp(s, owners, conditional) ==
  LET Clean(refs) == WithoutRemoved(refs, owners, conditional)
      topics == [t \in DOMAIN s.topics |->
                   [s.topics[t] EXCEPT !.pub = Clean(@), !.sub = Clean(@)]]
      Served(decls) == [d \in DOMAIN decls |->
                          [decls[d] EXCEPT !.server = Clean(@), !.client = Clean(@)]]
      Used(decls) == {d \in DOMAIN decls : decls[d].server # <<>> \/ decls[d].client # <<>>}
  IN  [s EXCEPT
         !.topics = Restrict(topics, {t \in DOMAIN topics :
                      topics[t].pub # <<>> \/ topics[t].sub # <<>> \/ topics[t].external # {}}),
         !.services = Restrict(Served(@), Used(Served(@))),
         !.actions = Restrict(Served(@), Used(Served(@)))]

\* The include at a path is still there when all that enclose it are.
Survives(m, p) == \A k \in 1..Len(p) : ShouldInclude(m[SubSeq(p, 1, k)].when)

\* One scope of the tree; the owners of refs are its nodes and its includes.
FilterScope(m, p) ==
  LET s == m[p]
      nodes == [n \in DOMAIN Settled(s.nodes) |->
                  [Settled(s.nodes)[n] EXCEPT !.paths = Settled(@)]]
      includes == {n \in Includes(m, p) : ShouldInclude(m[Append(p, n)].when)}
      conditional == {n \in DOMAIN s.nodes : ~ Unconditional(s.nodes[n].when)}
                       \cup {n \in Includes(m, p) : ~ Unconditional(m[Append(p, n)].when)}
      settled == [s EXCEPT !.when = Always, !.nodes = nodes, !.topics = Settled(@),
                           !.services = Settled(@), !.actions = Settled(@), !.paths = Settled(@)]
  IN  CleanedUp(settled, DOMAIN nodes \cup includes, conditional)

FilterManifest(m) == [p \in {q \in DOMAIN m : Survives(m, q)} |-> FilterScope(m, p)]
=============================================================================
