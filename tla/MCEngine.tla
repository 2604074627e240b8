---------------------------- MODULE MCEngine ----------------------------
EXTENDS Engine, TLC

CONSTANTS w1, w2, p1

\* Two spellings that one gofmt renders alike and the next does not.
TwoRenderings ==
    [old |-> [a |-> "c1", b |-> "c1"], new |-> [a |-> "c1", b |-> "c2"]]

\* Nothing, a version-1 row, a canonical row of the other spelling, both.
FourRecords ==
    LET legacy == Row(NoDigest, "a", "before")
        modern == Row("c1", "b", "before")
    IN {{}, {legacy}, {modern}, {legacy, modern}}

\* Two workers on one schema; a probe cut anywhere; a probe beside others'
\* writes of the record; a worker that is cut; the derivation of oracles;
\* their narrowing.
Casts6 ==
    {{w1, w2, "schema"}, {w1, "world"}, {p1, "world"}, {p1, "record"}, {"derive"}, {"reach"}}

ReviewCast == {{p1, "record"}}

\* The second package's tests link both; their closure does not build.
TwoLinks == <<{1}, {1, 2}>>

\* A function from what it gives explicitly and a default.
With(domain, given, default) == [x \in domain |-> IF x \in DOMAIN given THEN given[x] ELSE default]

\* A test hands a T to a foreign runner, which calls it back through an
\* interface.  A variable of the second package calls b at start-up; a test
\* there calls a, which its test variant declares again.
Runner ==
    LET names == {"TestA", "TestB", "run", "Do", "T.Do", "a", "a'", "b", "start"}
    IN [objects    |-> names,
        key        |-> [o \in names |-> IF o = "a'" THEN "a" ELSE o],
        is         |-> With(names, [start |-> "var", Do |-> "method"], "func"),
        home       |-> With(names, [run |-> "ext", Do |-> "ext", b |-> "two", start |-> "two", TestB |-> "two"], "one"),
        tree       |-> {"one", "two"},
        uses       |-> ("T.Do" :> {"a"}) @@ With(names, [TestA |-> {"run"}, TestB |-> {"a'"}, start |-> {"b"}], {}),
        mentions   |-> With(names, [TestA |-> {"T"}], {}),
        speaks     |-> With(names, [run |-> {"Do"}], {}),
        interfaces |-> [p \in {"ext"} |-> {"Do"}],
        inits      |-> {},
        methods    |-> [tk \in {"T"} |-> {"T.Do"}],
        sig        |-> ("T.Do" :> "Do") @@ With(names, [Do |-> "Do"], "other"),
        protocol   |-> {"String"},
        reflects   |-> {},
        tests      |-> {"TestA", "TestB"},
        targets    |-> {"a", "b"},
        symbols    |-> [s \in {"TestA", "TestB", "a", "b"} |->
                          [objects |-> IF s = "a" THEN {"a", "a'"} ELSE {s},
                           pkg |-> IF s \in {"b", "TestB"} THEN "two" ELSE "one", init |-> FALSE]]]

\* A test reads a foreign variable that holds anything, after it met T or
\* before; another calls by reflection.  b is nobody's, c is an init.
Printer ==
    LET names == {"TestA", "TestB", "hook", "Do", "T.Do", "T.String", "a", "b", "c", "Call"}
    IN [objects    |-> names,
        key        |-> [o \in names |-> o],
        is         |-> With(names, [hook |-> "var", Do |-> "method"], "func"),
        home       |-> With(names, [hook |-> "ext", Do |-> "ext", Call |-> "ext"], "one"),
        tree       |-> {"one"},
        uses       |-> ("T.String" :> {"a"}) @@ With(names, [TestA |-> {"hook"}, TestB |-> {"Call"}], {}),
        mentions   |-> With(names, [TestA |-> {"T"}], {}),
        speaks     |-> With(names, [hook |-> {"any"}], {}),
        interfaces |-> [p \in {"ext"} |-> {"Do"}],
        inits      |-> {"c"},
        methods    |-> [tk \in {"T"} |-> {"T.Do", "T.String"}],
        sig        |-> ("T.Do" :> "Do") @@ ("T.String" :> "String") @@ With(names, [Do |-> "Do"], "other"),
        protocol   |-> {"String"},
        reflects   |-> {"Call"},
        tests      |-> {"TestA", "TestB"},
        targets    |-> {"a", "b", "c", "gone"},
        symbols    |-> [s \in {"TestA", "TestB", "a", "b", "c", "gone"} |->
                          [objects |-> {s} \ {"gone"}, pkg |-> "one", init |-> s = "c"]]]

TwoBuilds == {Runner, Printer}
==============================================================================
