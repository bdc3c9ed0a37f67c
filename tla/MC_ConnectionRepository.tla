----------------------- MODULE MC_ConnectionRepository -----------------------
(* A small instance of ConnectionRepository for TLC, and the comparison of  *)
(* the parser of OpenSshConfig with what a configuration file means.        *)
EXTENDS ConnectionRepository, TLC

Host(words) == [key |-> "host", value |-> words]
Set(option, value) == [key |-> option, value |-> value]

EditsOfUser == {[name |-> "web", endpoint |-> <<"h1", 22, "me">>,
                 credential |-> FALSE, settings |-> TRUE],
                [name |-> "db", endpoint |-> <<"h2", 22, "me">>,
                 credential |-> FALSE, settings |-> FALSE]}

\* One item has the name of an edit, one its endpoint, and one no valid name.
FileOfUser == <<Host(<<"web", "*">>), Set("hostname", "h3"),
                Host(<<"alias", Blank>>), Set("hostname", "h2"), Set("port", 22)>>

PatternsOfFile == {"*", "!web"}
MatchesOfFile == {<<"*", "web">>, <<"*", "db">>, <<"*", "alias">>, <<"*", Blank>>}
NegationsOfFile == {<<"!web", "web">>}

ConnectionSymmetry == Permutations(Connections)

-----------------------------------------------------------------------------
Lines == {Host(<<"web">>), Host(<<"db", "web">>), Host(<<"*", "!web">>),
          Set("hostname", "h1"), Set("hostname", Blank), Set("port", 2222), Set("port", 0),
          Set("user", "root"), Set("identityfile", "key")}

(***************************************************************************)
(* The parser reads every file of at most five of these lines like ssh     *)
(* does, where the import means to.                                        *)
(***************************************************************************)
ASSUME ParserIsRight ==
    \A n \in 0..5 : \A source \in [1..n -> Lines] :
        IsConfigFile(source) /\ ReadsLikeSsh(source)

\* A plain name beside a pattern block that applies, and three that are not plain.
ASSUME PlainIsNotEmpty ==
    LET pattern == <<Host(<<"*", "!web">>), Set("port", 2222)>>
        web == <<Host(<<"web">>), Set("user", "root")>>
        db == <<Host(<<"db">>), Set("user", "root")>>
    IN  /\ PlainFor(<<Set("port", 2222)>> \o db \o web, "web")
        /\ PlainFor(web \o pattern, "web")
        /\ ~PlainFor(db \o pattern, "db")
        /\ ~PlainFor(<<Set("user", "root")>> \o web, "web")
        /\ ~PlainFor(web \o web, "web")
=============================================================================
