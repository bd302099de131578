--------------------------- MODULE MCRequirements ---------------------------
(***************************************************************************)
(* Instances of RequirementCheck: families of small files over one or two  *)
(* keys of a time, over a table, and of whole declarations.  A file is     *)
(* named by its parameters.                                                *)
(***************************************************************************)
EXTENDS RequirementCheck

MCUnitNames == {"s", "m"}

MCGrid    == {Opposite(One), Zero, One, Whole(2)}
MCKeyGrid == {Zero, One, Whole(2)}
MCRowGrid == {Zero, One}
MCJunk    == {Zero, Whole(7)}

x == Name("x")
y == Name("y")
t == Name("t")

Second(n) == Measure(Whole(n), Base("Time"))
Num(n)    == Number(Whole(n))

XY == <<KeyDecl(<<"x">>, ValueType(Of("Time")), <<>>), KeyDecl(<<"y">>, ValueType(Of("Time")), <<>>)>>

Source(dims, keys, fns, items) == [dims |-> dims, keys |-> keys, fns |-> fns, items |-> items]

Settle(body) == Derive(<<"settle", "duration">>, Of("Time"), body)

Along(dir, n) == <<[direction |-> dir, var |-> <<n>>]>>

Directions == {"increasing", "decreasing"}

W(w) == [w |-> w, raw |-> Zero]

AsTime(n) == W(WithUnit(Whole(n), Base("Time")))

Times2(a, b) == 1 :> AsTime(a) @@ 2 :> AsTime(b)

-----------------------------------------------------------------------------
(* A time of x and y, with a domain or without.                            *)
Atoms == {x, y, Num(2), Second(1)}

Small == {Bin(o, a, b) : o \in {"+", "-", "*", "/"}, a \in Atoms, b \in Atoms}
            \cup {Call(<<f>>, <<a, b>>) : f \in {"min", "max"}, a \in {x, Second(1)}, b \in {y, Num(2)}}

Conds == {Bin("<", x, y), Not(Bin("==", y, Second(0))),
          Bin("and", Bin("!=", y, Second(0)), Bin("<", Bin("/", x, y), Num(2))),
          Bin("or", Bin("<", Bin("/", x, y), Num(2)), Bin("==", y, Second(0)))}

Chosen == {Ite(c, a, b) : c \in Conds, a \in {x, Bin("/", Bin("*", x, x), y)}, b \in {y, Neg(x)}}

Square(e) == Bin("^", e, Num(2))

Nested ==
    {Bin("/", Bin("*", x, y), Second(1)), Bin("/", x, Bin("/", y, Second(1))),
     Call(<<"abs">>, <<Bin("-", x, y)>>), Call(<<"sqrt">>, <<Bin("*", x, y)>>),
     Call(<<"sqrt">>, <<x>>), Call(<<"abs">>, <<x, y>>),
     Call(<<"sqrt">>, <<Bin("-", Square(x), Square(y))>>), Bin("/", Square(x), y),
     Bin("*", Bin("^", x, Neg(Num(1))), Square(Second(1))), Bin("^", x, y),
     Bin("*", Bin("^", Bin("/", x, y), Bin("/", x, y)), y),
     Bin("*", Bin("^", Bin("/", x, y), Num(3)), y),
     Call(<<"min">>, <<x, y, Bin("/", Square(x), y)>>), Call(<<"max">>, <<x>>)}

Domains == {<<>>, <<Within(<<"x">>, Second(0), Second(2), FALSE, TRUE), Pred(Bin(">", y, Second(0)))>>}

ValueFiles ==
    {"value"} \X (Small \cup Nested) \X {<<>>} \X Directions
        \cup {"value"} \X (Chosen \cup Nested) \X Domains \X Directions

ValueFile(v) == Source(<<>>, XY, <<>>, <<Settle(Body(v[2], <<>>, Along(v[4], "x"), v[3]))>>)

XYContracts == {Times2(1, 2), Times2(2, 0), 1 :> AsTime(-1)}

-----------------------------------------------------------------------------
(* A predicate over x and y.                                               *)
Tests == {Bin("<", x, y), Bin("<", Bin("/", x, y), Num(2)), Bin(">=", y, Second(1)), Bin("!=", y, Second(0)), x}

CheckFiles ==
    {"check"} \X {Bin(o, p, q) : o \in {"and", "or", "==", "<"}, p \in Tests, q \in Tests} \X {"x", "y"}
        \X Directions

CheckFile(c) == Source(<<>>, XY, <<>>, <<Check("c", Body(c[2], <<>>, Along(c[4], c[3]), <<>>))>>)

-----------------------------------------------------------------------------
(* A sum over a table of times, from here to there.                        *)
TX == <<KeyDecl(<<"t">>, TableType(Of("Time"), Of("Time")), <<>>),
        KeyDecl(<<"x">>, ValueType(Of("Time")), <<>>)>>

b(f)   == Ref(<<"b", f>>)
Length2 == Bin("-", b("hi"), b("lo"))

Summed == {b("value"), Length2, Bin("/", Bin("*", Length2, b("value")), Second(1)),
           Bin("/", Square(b("hi")), b("value")), Bin("/", Square(b("value")), b("lo"))}

SumFiles ==
    {"sum"} \X {<<Second(0), x>>, <<Second(1), x>>, <<x, Second(2)>>} \X Summed \X {"x", "t"} \X Directions

SumFile(s) ==
    Source(<<>>, TX, <<>>,
           <<Settle(Body(Name("all"), <<Binding("all", SumOver("b", Call(<<"t", "bands">>, s[2]), s[3]))>>,
                         Along(s[5], s[4]), <<>>))>>)

Row(k, v) == <<WithUnit(Whole(k), Base("Time")), WithUnit(Whole(v), Base("Time"))>>

SumContracts ==
    {2 :> AsTime(1), 1 :> W(Map(<<Row(0, 1), Row(1, 2)>>)) @@ 2 :> AsTime(2)}

-----------------------------------------------------------------------------
(* What a contract writes for a time, a parameter and a table.             *)
Typed3 == <<KeyDecl(<<"settle", "x">>, ValueType(Of("Time")), <<Second(2)>>),
            KeyDecl(<<"p">>, ParamType(Of("Time"), TRUE, <<[dim |-> Base("Time"), scale |-> <<1, 2>>]>>), <<>>),
            KeyDecl(<<"t">>, TableType(Of("Time"), Of("Velocity")), <<>>)>>

Speed(n) == WithUnit(Whole(n), Builtin["Velocity"])

WrittenX == {Nothing, Bare(One), WithUnit(One, Base("Time")), WithUnit(One, Base("Length")), ParamName}
WrittenP == {[w |-> ParamName, raw |-> Whole(-2)], [w |-> ParamName, raw |-> Whole(2)], W(Nothing), W(Bare(One))}
WrittenT == {Nothing, Map(<<>>), Bare(One), Map(<<<<WithUnit(Zero, Base("Time")), Speed(1)>>>>),
             Map(<<<<WithUnit(One, Base("Time")), Speed(1)>>, <<WithUnit(One, Base("Time")), Speed(2)>>>>),
             Map(<<<<WithUnit(One, Base("Time")), Bare(One)>>>>),
             Map(<<<<WithUnit(One, Base("Length")), Bare(One)>>>>),
             Map(<<<<WithUnit(One, Base("Time")), Speed(1)>>, <<WithUnit(Zero, Base("Time")), WithUnit(One, Base("Time"))>>>>)}

WrittenFiles == {<<"written">>}

WrittenFile(f) ==
    Source(<<>>, Typed3, <<>>,
           <<Settle(Body(Bin("/", Square(Name("p")), Second(1)), <<>>, Along("increasing", "p"), <<>>)),
             Report("way", Of("Length"),
                    SumOver("b", Call(<<"t", "bands">>, <<Second(0), Ref(<<"settle", "x">>)>>),
                            Bin("*", b("value"), Bin("-", b("hi"), b("lo")))), <<>>)>>)

WrittenContracts == {1 :> W(u) @@ 2 :> p @@ 3 :> W(v) : u \in WrittenX, p \in WrittenP, v \in WrittenT}

-----------------------------------------------------------------------------
(* Whole files, each for one rule of the load-time check or one way in     *)
(* which the passes have to agree.                                         *)
Plain(e) == Settle(Body(e, <<>>, <<>>, <<>>))

WithFn(fns, e, dom) ==
    Source(<<>>, XY, fns, <<Settle(Body(e, <<>>, Along("increasing", "x"), dom)),
                            Check("c", Body(Bin("<", e, e), <<>>, <<>>, <<>>))>>)

Fn(n, params, value) ==
    FnDecl(n, [i \in DOMAIN params |-> [name |-> params[i], dim |-> Of("Time")]], Of("Time"), value, <<>>)

Twice == Fn("twice", <<"a">>, Bin("*", Num(2), Name("a")))
ReadsY == Fn("later", <<"a">>, Bin("+", Name("a"), y))
Over(e, dom) == WithFn(<<Twice, ReadsY, Fn("latest", <<"a">>, Call(<<"later">>, <<Name("a")>>))>>, e, dom)

Elapsed == Name("elapsed")

Core(target, n, e, dir) == Source(<<>>, XY, <<>>, <<Derive(target, Of(n), Body(e, <<>>, Along(dir, "x"), <<>>))>>)

\* The speed lost after some time under a push that grows with x.
Lost == Bin("/", Bin("*", x, Measure(One, Base("Length"))), Square(Elapsed))

Default(e) == KeyDecl(<<"y">>, ValueType(Of("Time")), <<e>>)

WholeFiles == <<
    \* Functions: what they read, themselves and through others, in the value and in the domain.
    Over(Call(<<"later">>, <<x>>), <<>>),
    Over(Call(<<"latest">>, <<x>>), <<>>),
    Over(Call(<<"twice">>, <<x>>), <<Pred(Bin("<", Call(<<"later">>, <<x>>), Second(2)))>>),
    Over(Neg(Call(<<"twice">>, <<x>>)), <<Pred(Bin("<", Call(<<"later">>, <<x>>), Second(2)))>>),
    Over(Call(<<"twice">>, <<x, x>>), <<>>),
    Over(Call(<<"twice">>, <<Num(1)>>), <<>>),
    Over(Call(<<"thrice">>, <<x>>), <<>>),
    Over(Bin("+", x, Bin("<", x, y)), <<>>),
    WithFn(<<Fn("f", <<"a">>, Call(<<"g">>, <<Name("a")>>)), Fn("g", <<"a">>, Call(<<"f">>, <<Name("a")>>))>>, x, <<>>),
    WithFn(<<Fn("s", <<"a">>, Name("a"))>>, x, <<>>),
    WithFn(<<Fn("f", <<"s">>, Name("s"))>>, x, <<>>),
    WithFn(<<Twice, Twice>>, x, <<>>),
    WithFn(<<Fn("min", <<"a">>, Name("a"))>>, x, <<>>),
    WithFn(<<FnDecl("f", <<[name |-> "a", dim |-> Of("Tmie")]>>, Of("Time"), Name("a"), <<Binding("a", x)>>)>>,
           Call(<<"f">>, <<x>>), <<>>),
    \* Values of the core.
    Core(<<"settle", "speed_lost">>, "Velocity", Lost, "increasing"),
    Core(<<"settle", "speed_lost">>, "Velocity", Lost, "decreasing"),
    Core(<<"settle", "duration">>, "Time", Bin("+", x, Elapsed), "increasing"),
    Core(<<"settle", "duration">>, "Time", Bin("+", x, Name("reaction_total")), "increasing"),
    Core(<<"settle", "speed_lost">>, "Time", x, "increasing"),
    Core(<<"settle", "way">>, "Time", x, "increasing"),
    Source(<<>>, XY \o <<InputDecl(<<"reaction_total">>, Of("Length"), <<>>)>>, <<>>, <<Plain(x)>>),
    Source(<<>>, XY \o <<InputDecl(<<"elapsed">>, Of("Time"), <<>>)>>, <<>>,
           <<Plain(x), Check("late", Body(Bin("<", x, Elapsed), <<>>, Along("decreasing", "x"), <<>>))>>),
    \* Defaults.
    Source(<<>>, <<XY[1], Default(Bin("*", Num(2), x))>>, <<>>, <<Plain(Bin("-", y, x))>>),
    Source(<<>>, <<XY[1], Default(Bin("+", y, x))>>, <<>>, <<Plain(y)>>),
    Source(<<>>, <<XY[1], Default(Num(1))>>, <<>>, <<Plain(x)>>),
    Source(<<>>, <<XY[1], Default(Bin("<", x, x))>>, <<>>, <<Plain(x)>>),
    \* Dimensions.
    Source(<<DimensionDecl("D", <<Factor("E", 2)>>), DimensionDecl("E", <<Factor("Time", 1), Factor("Length", -1)>>)>>,
           <<KeyDecl(<<"x">>, ValueType(Of("D")), <<>>), XY[2]>>, <<>>,
           <<Report("r", <<Factor("D", 1), Factor("Time", -1)>>, Bin("/", x, y), <<>>), Report("d", Of("E"), x, <<>>)>>),
    Source(<<DimensionDecl("D", <<Factor("E", 2)>>), DimensionDecl("E", <<Factor("Time", 1), Factor("Length", -1)>>)>>,
           <<KeyDecl(<<"x">>, ValueType(Of("D")), <<>>), XY[2]>>, <<>>,
           <<Report("r", <<Factor("D", 1), Factor("Time", -1)>>, Bin("/", x, y), <<>>)>>),
    Source(<<DimensionDecl("D", Of("E")), DimensionDecl("E", Of("D"))>>, XY, <<>>, <<Plain(x)>>),
    Source(<<DimensionDecl("Time", Of("Length"))>>, XY, <<>>, <<Plain(x)>>),
    \* Keys.
    Source(<<>>, XY \o <<KeyDecl(<<"a", "y">>, ValueType(Of("Time")), <<>>)>>, <<>>, <<Plain(x)>>),
    Source(<<>>, XY \o <<XY[2]>>, <<>>, <<Plain(x)>>),
    Source(<<>>, XY \o <<KeyDecl(<<"m">>, ValueType(Of("Time")), <<>>)>>, <<>>, <<Plain(x)>>),
    Source(<<>>, <<XY[1], KeyDecl(<<"y">>, ParamType(Of("Time"), FALSE, <<[dim |-> Base("Length"), scale |-> One]>>), <<>>)>>,
           <<>>, <<Plain(x)>>),
    Source(<<>>, <<XY[1], KeyDecl(<<"y">>, TableType(Of("Time"), Of("Tmie")), <<>>)>>, <<>>, <<Plain(Bin("+", x, y))>>),
    \* Items.
    Source(<<>>, XY, <<>>, <<Plain(x), Plain(y)>>),
    Source(<<>>, XY, <<>>, <<Check("c", Body(Bin("<", x, y), <<>>, <<>>, <<>>)), Report("c", Of("Time"), x, <<>>)>>),
    Source(<<>>, XY, <<>>, <<Settle(Body(Name("a"), <<Binding("a", x), Binding("a", y)>>, <<>>, <<>>))>>),
    Source(<<>>, XY, <<>>, <<Settle(Body(Bin("+", Name("a"), y), <<Binding("a", Bin("/", x, y))>>, <<>>, <<>>))>>),
    Source(<<>>, XY, <<>>,
           <<Settle(Body(Bin("+", Name("a"), y), <<Binding("a", x), Binding("c", Bin("/", x, y))>>,
                         Along("increasing", "x") \o Along("increasing", "y"), <<>>))>>),
    Source(<<>>, XY, <<>>, <<Settle(Body(Name("x"), <<Binding("x", y)>>, Along("increasing", "x"), <<>>))>>),
    Source(<<>>, XY, <<>>, <<Settle(Body(x, <<>>, Along("increasing", "x") \o Along("decreasing", "x"), <<>>))>>),
    Source(<<>>, XY, <<>>, <<Settle(Body(x, <<>>, Along("increasing", "z"), <<>>))>>),
    Source(<<>>, TX, <<>>,
           <<Settle(Body(x, <<>>, <<>>, <<Within(<<"t">>, Second(0), x, TRUE, FALSE)>>)),
             Check("c", Body(Bin("<", t, x), <<>>, <<>>, <<>>))>>),
    Source(<<>>, TX, <<>>,
           <<Settle(Body(Bin("+", x, SumOver("b", Call(<<"t", "bands">>, <<Second(0), Second(1)>>), b("value"))), <<>>,
                         Along("increasing", "t"), <<Within(<<"t">>, Second(0), x, FALSE, TRUE)>>))>>),
    Source(<<>>, TX, <<>>, <<Plain(SumOver("b", Call(<<"t", "bands">>, <<x, x>>), Bin("/", Square(b("value")), b("lo"))))>>),
    Source(<<>>, TX, <<>>,
           <<Plain(Call(<<"sqrt">>, <<Bin("*", SumOver("b", Call(<<"t", "bands">>, <<x, x>>),
                                                       Bin("/", Square(Second(1)), b("lo"))), Second(1))>>))>>),
    Source(<<>>, <<TX[1], KeyDecl(<<"u">>, TableType(Of("Time"), Of("Time")), <<>>)>>, <<>>,
           <<Settle(Body(Bin("-", SumOver("b", Call(<<"t", "bands">>, <<Second(0), Second(1)>>), b("value")),
                                  SumOver("b", Call(<<"u", "bands">>, <<Second(1), Second(2)>>), b("value"))), <<>>,
                         Along("increasing", "t") \o Along("decreasing", "u"), <<>>))>>),
    Source(<<>>, TX, <<>>, <<Plain(SumOver("x", Call(<<"t", "cuts">>, <<x, x>>), Ref(<<"x", "mid">>)))>>)>>

MCFiles ==
    ValueFiles \cup CheckFiles \cup SumFiles \cup WrittenFiles \cup ({"whole"} \X DOMAIN WholeFiles)

MCFile(f) ==
    CASE f[1] = "value"   -> ValueFile(f)
      [] f[1] = "check"   -> CheckFile(f)
      [] f[1] = "sum"     -> SumFile(f)
      [] f[1] = "written" -> WrittenFile(f)
      [] f[1] = "whole"   -> WholeFiles[f[2]]

\* The first key is a table where there is one.
MCContracts(f) ==
    CASE f[1] \in {"value", "check"} -> XYContracts
      [] f[1] = "sum"     -> SumContracts
      [] f[1] = "written" -> WrittenContracts
      [] f[1] = "whole"   -> IF WholeFiles[f[2]].keys = TX THEN SumContracts
                             ELSE XYContracts \cup {<<>>, Times2(0, 1) @@ 3 :> AsTime(1) @@ 4 :> AsTime(2)}
=============================================================================
