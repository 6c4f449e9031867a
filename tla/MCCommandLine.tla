---------------------------- MODULE MCCommandLine ----------------------------
(***************************************************************************)
(* CommandLine on a tree with two packages next to each other, each with a *)
(* directory whose name a pattern for Go files lets through.               *)
(***************************************************************************)
EXTENDS CommandLine

Tree ==
    [d \in {<<>>, <<"a">>, <<"b">>, <<"a", "mongo">>, <<"b", "other">>} |->
        CASE d = <<>>             -> <<"a", "b", "main.go", "notes">>
          [] d = <<"a">>          -> <<"mongo", "x.go">>
          [] d = <<"b">>          -> <<"other", "x.go">>
          [] d = <<"a", "mongo">> -> <<"x.go">>
          [] d = <<"b", "other">> -> <<"x.go", "y.go">>]

StarsOfPatterns == [p \in {"*", "*.go", "*o*"} |-> IF p = "*o*" THEN 2 ELSE 1]
LetsOfPatterns ==
    [p \in {"*", "*.go", "*o*"} |->
        CASE p = "*"    -> {}
          [] p = "*.go" -> {"main.go", "x.go", "y.go", "mongo"}
          [] p = "*o*"  -> {"mongo", "other"}]

OnePattern ==
    {<<"*.go">>, <<"a", "*.go">>, <<"", "a", "*">>, <<"*", "x.go">>, <<"b", "*", "x.go">>}
TwoPatterns ==
    {<<"*", "*.go">>, <<"*", "*", "x.go">>, <<"a", "*o*", "x.go">>, <<"notes", "*">>}
Literals == {<<"main.go">>, <<"", "a", "x.go">>, <<"b", "z.go">>}
BelowAFile == <<"main.go", "*">>
Paths == OnePattern \cup TwoPatterns \cup Literals

AllArguments ==
    [asked : {{}}, noMutate : BOOLEAN, noExec : BOOLEAN, timeout : {NotGiven, 0, 5}]
    \cup [asked : SUBSET {"help", "list", "completion", "bad"}, noMutate : {FALSE}, noExec : {FALSE},
          timeout : {NotGiven}]

AllConfigurations ==
    {Unreadable}
    \cup [root : {TRUE}, slash : BOOLEAN, noMutate : {FALSE}, noExec : BOOLEAN,
          timeout : {0, 20}, include : {<<p>> : p \in Paths} \cup {<<p, q>> : p \in Literals, q \in OnePattern},
          exclude : {<<>>} \cup {<<p>> : p \in OnePattern \cup Literals \cup {BelowAFile}}]
    \cup [root : {FALSE}, slash : {FALSE}, noMutate : {FALSE}, noExec : {FALSE},
          timeout : {0}, include : {<<>>}, exclude : {<<>>}]

PlainRun ==
    [asked : {{}}, noMutate : {FALSE}, noExec : {FALSE}, timeout : {NotGiven}]
DeepPatterns ==
    [root : {TRUE}, slash : {TRUE}, noMutate : {FALSE}, noExec : {FALSE},
     timeout : {0}, include : {<<<<"*", "*", "x.go">>>>}, exclude : {<<>>}]
=============================================================================
