----------------------------- MODULE MCMutateWalk ----------------------------
(***************************************************************************)
(* MutateWalk with the repository's mutators on two small Go files.        *)
(***************************************************************************)
EXTENDS MutateWalkStream, SequencesExt

\* What the type checker knows: error, an untyped nil, variables, a package.
MCInfo ==
    [names |-> [err |-> [var |-> TRUE,  type |-> "error"],
                nil |-> [var |-> FALSE, type |-> "nil"],
                n   |-> [var |-> TRUE,  type |-> "int"],
                time |-> [var |-> FALSE, type |-> "package"]],
     time |-> "time"]

\* FileRead nests seven levels deep, and its mutants no deeper.
M == INSTANCE Mutators WITH Info <- MCInfo, Nil <- Nil, MaxDepth <- 8

Id(i, name) == M!Node("Ident", i, <<name>>, <<>>)
ErrCheck(i, op) == M!Node("Binary", i, <<op>>, <<Id(i + 1, "err"), Id(i + 2, "nil")>>)

\* n, err := conn.Read(b); if err != nil { time.Sleep(d) } else { n++ }
FileRead ==
    M!Node("Block", 1, <<>>,
      <<M!Node("Assign", 2, <<":=">>,
          <<Id(3, "n"), Id(4, "err"),
            M!Node("Call", 5, <<>>, <<M!Node("Selector", 6, <<"Read">>, <<Id(7, "conn")>>),
                                      Id(8, "b")>>)>>),
        M!Node("If", 9, <<>>,
          <<ErrCheck(10, "!="),
            M!Node("Block", 13, <<>>,
              <<M!Node("Expr", 14, <<>>,
                  <<M!Node("Call", 15, <<>>,
                      <<M!Node("Selector", 16, <<"Sleep">>, <<Id(17, "time")>>),
                        Id(18, "d")>>)>>)>>),
            M!Node("Block", 19, <<>>,
              <<M!Node("IncDec", 20, <<>>, <<Id(21, "n")>>)>>)>>)>>)

\* case ...: n = 0
\* if a && b { }
\* if err == nil { } else if err != nil { n++ }
FileCase ==
    M!Node("Block", 1, <<>>,
      <<M!Node("Case", 2, <<>>,
          <<M!Node("Assign", 3, <<"=">>, <<Id(4, "n"), M!Node("Lit", 5, <<"0">>, <<>>)>>)>>),
        M!Node("If", 6, <<>>,
          <<M!Node("Binary", 7, <<"&&">>, <<Id(8, "a"), Id(9, "b")>>),
            M!Node("Block", 10, <<>>, <<>>)>>),
        M!Node("If", 11, <<>>,
          <<ErrCheck(12, "=="),
            M!Node("Block", 15, <<>>, <<>>),
            M!Node("If", 16, <<>>,
              <<ErrCheck(17, "!="),
                M!Node("Block", 20, <<>>, <<M!Node("IncDec", 21, <<>>, <<Id(22, "n")>>)>>)>>)>>)>>)

OperatorsRead ==
    <<"branch/if", "branch/else", "statement/remove", "statement/timeout",
      "distributed/readzero">>
OperatorsCase ==
    <<"branch/case", "expression/remove", "statement/remove", "statement/removeblock",
      "distributed/protocols">>

MCRegistered == M!mutatorLookup
MCSafeName(o) == M!safeMutationName(o)

\* The walk of the parsed file and its mutations, computed once.
SourceWalk == M!WalkOrder(Source)
MCNodes == Range(SourceWalk)
SourceMutations ==
    [o \in M!mutatorLookup |-> [n \in MCNodes |-> M!MutationsOf(o, Source, n)]]

MCWalk(a) == IF a = Source THEN SourceWalk ELSE M!WalkOrder(a)
MCMutator(o, a, n) == IF a = Source THEN SourceMutations[o][n] ELSE M!MutationsOf(o, a, n)
MCAsts ==
    {Source} \cup
    {m.Change : m \in {c \in UNION {UNION {Range(SourceMutations[o][n]) : n \in MCNodes} :
                                         o \in M!mutatorLookup} : c.Change # Nil}}

MCMutants ==
    [o \in 1..Len(Operators) |->
        FlattenSeq([v \in 1..Len(SourceWalk) |->
            LET ms == SourceMutations[Operators[o]][SourceWalk[v]]
            IN  [k \in 1..Len(ms) |-> ms[k].Change]])]
MCOffset ==
    [o \in 1..Len(Operators) |->
        [v \in 1..(Len(SourceWalk) + 1) |->
            FoldLeft(LAMBDA sum, w : sum + Len(SourceMutations[Operators[o]][SourceWalk[w]]),
                     0, [w \in 1..(v - 1) |-> w])]]

\* The files are trees as the parser builds them.
ASSUME ParsedAssumption == M!Parsed(Source)

\* CountWalk foretells the mutations that MutateWalk goes through.
ASSUME CountAssumption ==
    \A o \in 1..Len(Operators) : M!CountWalk(Operators[o], Source) = Len(Mutants[o])
=============================================================================
