----------------------- MODULE MCRuntimeDependencies -----------------------
EXTENDS RuntimeDependencies

\* The source package has the binary packages a, b (-common), d (-dev) and g (-dbgsym of a),
\* and one with all of them, l.  c and p are other packages.
MCBuiltVersion == [p \in {<<"a">>, <<"b">>, <<"d">>, <<"g">>, <<"l">>} |-> <<2>>]
MCCategoryOf == (<<"a">> :> "other" @@ <<"b">> :> "common" @@ <<"d">> :> "dev"
                   @@ <<"g">> :> "dbgsym" @@ <<"l">> :> "all")
MCBaseOf == (<<"g">> :> <<"a">>)
MCCurrentWord == <<"c">>
MCBuiltWord == <<"b">>

Nothing(v) == [p \in {<<"a">>, <<"b">>, <<"d">>, <<"g">>, <<"l">>} |-> v]
Files(s) == [files |-> s, package |-> <<>>, constraints |-> <<>>]
Plain ==
  [skip |-> FALSE,
   files |-> ("so" :> {<<<<"c">>, <<1>>>>, <<<<"c">>, <<3>>>>} @@ "own" :> {<<<<"a">>, <<2>>>>}
                @@ "sh" :> {<<<<"c">>, <<1>>>>} @@ "usr/sh" :> {<<<<"c">>, <<2>>>>} @@ "none" :> {}
                @@ "perl" :> {<<<<"p">>, <<4>>>>}),
   usr |-> ("sh" :> "usr/sh"),
   objects |-> [Nothing({}) EXCEPT ![<<"a">>] = {"so", "own"}],
   modules |-> {<<"b">>, <<"g">>}, perl |-> <<"none", "perl">>, perlPackages |-> {},
   formulas |-> [Nothing(<<>>) EXCEPT ![<<"a">>] = <<Files(<<"none", "sh", "own">>)>>],
   scripts |-> [Nothing(<<>>) EXCEPT ![<<"b">>] = <<Files(<<"none">>), Files(<<"so">>)>>],
   prescripts |-> [Nothing(<<>>) EXCEPT ![<<"b">>] =
                     <<[files |-> <<>>, package |-> <<"c">>, constraints |-> <<Constraint("<", <<9>>)>>]>>],
   devMode |-> "cdeps_headers",
   cdeps |-> {[found |-> TRUE, name |-> <<"c">>, versions |-> {<<3>>}, headers |-> TRUE]},
   removed |-> [Nothing({}) EXCEPT ![<<"b">>] = {<<"p">>}],
   installed |-> (<<"c">> :> <<3>>),
   own |-> <<[package |-> <<"b">>, value |-> Value("deps", <<"c">> :> <<Constraint(">", <<1>>)>>)]>>]

MCWorlds ==
  <<Plain, [Plain EXCEPT !.skip = TRUE],
   [Plain EXCEPT !.files["so"] = {<<<<"c">>, <<1>>>>, <<<<"p">>, <<1>>>>}],
   [Plain EXCEPT !.files["own"] = {<<<<"b">>, <<3>>>>}],
   [Plain EXCEPT !.devMode = "", !.own = <<>>],
   [Plain EXCEPT !.own = <<[package |-> <<"a">>, value |-> None]>>]>>

\* "b" is the word `built', too.
Word(w) == VersionOf(w)
MCInitialValues ==
  <<Value("arrows", <<[key |-> <<"b">>, deps |-> (<<"a">> :> <<Constraint(">=", Word(<<"b">>))>>)],
                      [key |-> <<"b">>, deps |-> (<<"c">> :> <<Constraint("!=", <<2>>)>>)]>>),
    Value("arrows", <<[key |-> <<"d">>, deps |-> (<<"c">> :> <<Constraint(">=", Word(<<"c">>))>>)]>>),
    Value("deps", <<"b">> :> <<Constraint(">=", <<1>>), Constraint("!=", <<3>>)>>),
    Value("pairs", <<[key |-> <<"a">>, many |-> TRUE, items |-> <<<<"b", "\"">>, <<>>>>],
                     [key |-> <<"\\", "\n">>, many |-> FALSE, items |-> <<<<"c">>>>],
                     [key |-> <<"#", " ">>, many |-> TRUE, items |-> <<>>]>>),
    Value("strs", <<<<"\\", "a", " ", "\"">>, <<"=">>>>),
    Value("str", <<"a", "\n", "#">>), None,
    \* What does not come back:
    Value("strs", <<<<"a">>, <<" ", "a">>, <<"b", "#">>, <<>>>>),
    Value("arrows", <<[key |-> <<"a">>, deps |-> <<>>],
                      [key |-> <<"b">>, deps |-> (<<"c">> :> <<Unconstrained>> @@ <<"p">> :> <<Unconstrained>>)]>>),
    Value("str", <<"a", "\n">>)>>

MCTyped == {"\"", "\\", "#", "\n", "=", "<", "!", "1", "z", " "}
MCPasted ==
  {<<"b", " ">> \o relation \o <<"2", "\n">> :
     relation \in {<<">", "=">>, <<"<", "=">>, <<"!", "=">>, <<"=">>, <<">">>, <<"<">>}}
    \union {<<"b", " ", "<", "2", ".", "0", "\n">>, <<"a", "-", ">", "b", "<", "=", "2", "\n">>}
MCAssigned == {<<"a">>}
=============================================================================
