--------------------------- MODULE MCTaskBinding ----------------------------
(***************************************************************************)
(* Up to three rules over a system whose nodes share a last segment and    *)
(* whose scopes nest, for Linux under both names and for another target.   *)
(***************************************************************************)
EXTENDS TaskBinding

CONSTANTS a, b, x, y, z

Full(segs) == [full |-> TRUE, segs |-> segs]
Bare(seg) == [full |-> FALSE, segs |-> <<seg>>]

Nd(scope, base) == [name |-> Append(scope, base), scope |-> scope]

\* /a/x, /a/b/x and /a/b/y.
MCNodeSets == {{Nd(<<a>>, x), Nd(<<a, b>>, x), Nd(<<a, b>>, y)}}

\* Tasks 1 and 2 are defined, 3 is not; the default task is 9.
Selectors ==
  {<<>>, <<Full(<<a, x>>)>>, <<Bare(x)>>, <<Full(<<a, b, y>>), Bare(x)>>, <<Bare(z)>>}
Scopes == {NoScope, <<a>>, <<a, b>>, <<b>>}

Rules(tasks, sels, scopes) == [task : tasks, nodes : sels, scope : scopes]

MCRuleLists ==
  {<<>>} \cup {<<p>> : p \in Rules({1, 3, 9}, Selectors, Scopes)}
         \cup {<<p, q>> : p \in Rules({1, 2}, Selectors, Scopes),
                          q \in Rules({1, 2, 3, 9}, Selectors, Scopes)}
         \cup {<<p, q, w>> : p \in Rules({1}, {<<>>, <<Full(<<a, x>>)>>}, {NoScope, <<a, b>>}),
                             q \in Rules({1, 2}, {<<>>, <<Bare(x)>>}, {NoScope, <<a, b>>}),
                             w \in Rules({9}, {<<>>, <<Full(<<a, b, y>>)>>}, {NoScope, <<a>>})}

Spec_(prio, class) == [priority |-> prio, class |-> class]

On(posix, rtos) == [t \in {"posix", "native", "zephyr"} |->
                      IF t = "zephyr" THEN rtos ELSE posix]

\* A definition of the default task may be there and may be wrong.
MCTaskTables ==
  {1 :> On(Spec_(50, "fifo"), Spec_(0 - 3, "none")) @@ 2 :> On(Spec_(20, c), NoSpec) :
     c \in {"rr", "none", "deadline", "typo"}}
   \cup {1 :> On(Spec_(p, "rr"), NoSpec) @@ 2 :> On(Spec_(20, "other"), Spec_(7, "none"))
           @@ 9 :> On(Spec_(5, "batch"), Spec_(1, "none")) : p \in {0, 99, 100}}
   \cup {1 :> On(Spec_(50, "idle"), NoSpec) @@ 2 :> On(NoSpec, NoSpec)}

MCTargets == {"posix", "native", "zephyr"}
=============================================================================
