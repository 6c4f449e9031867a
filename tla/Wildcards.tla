------------------------------ MODULE Wildcards ------------------------------
(***************************************************************************)
(* The lists of files of a configuration (cmd/mutation-framework/          *)
(* config.go): expansion of patterns, inclusion, exclusion.                *)
(*                                                                         *)
(* A path is a sequence of pieces: names, patterns, and the empty piece    *)
(* in front of a leading slash.  The Go functions hand one slice down the  *)
(* recursion and write to it; Expand hands it back with what it found.     *)
(***************************************************************************)
EXTENDS Integers, Sequences, SequencesExt

CONSTANTS
    Listing,  \* for the path of every directory, the root being <<>>, its
              \* names as ReadDir sorts them
    Stars,    \* for every piece that is a pattern, the number of its stars
    Lets      \* for every pattern, the names that filterFileNames lets through

Pieces == STRING
EmptyPiece == ""
Nowhere == <<"nowhere">>

\* No name of a file is empty, has a star in it, or is the one kept for
\* nowhere; a directory is in the listing of the directory it is in.
ASSUME TreeAssumption ==
    /\ <<>> \in DOMAIN Listing
    /\ \A d \in DOMAIN Listing :
          /\ d \in Seq(Pieces) /\ Listing[d] \in Seq(Pieces)
          /\ Range(Listing[d]) \cap ({EmptyPiece} \cup DOMAIN Stars) = {}
          /\ d # <<>> => Front(d) \in DOMAIN Listing /\ Last(d) \in Range(Listing[Front(d)])
    /\ Nowhere[1] \notin Range(Listing[<<>>])

\* Every pattern has a star.
ASSUME PatternAssumption ==
    /\ EmptyPiece \in Pieces
    /\ DOMAIN Stars = DOMAIN Lets
    /\ DOMAIN Stars \subseteq Pieces \ {EmptyPiece}
    /\ Stars \in [DOMAIN Stars -> Nat \ {0}]

Directories == DOMAIN Listing
RegularFiles ==
    (UNION {{Append(d, name) : name \in Range(Listing[d])} : d \in Directories}) \ Directories

Patterns == DOMAIN Stars
StarsOf(piece) == IF piece \in Patterns THEN Stars[piece] ELSE 0
StarsIn(path) ==
    LET sum[n \in 0..Len(path)] == IF n = 0 THEN 0 ELSE sum[n - 1] + StarsOf(path[n])
    IN  sum[Len(path)]

\* The elements of s that are in T, in their order.
Filter(s, T) ==
    LET kept[n \in 0..Len(s)] ==
            IF n = 0 THEN <<>>
            ELSE IF s[n] \in T THEN Append(kept[n - 1], s[n]) ELSE kept[n - 1]
    IN  kept[Len(s)]

-----------------------------------------------------------------------------
(* The file system, asked for basepath + path.  While patterns are         *)
(* expanded basepath is the project root as it was configured: without the *)
(* slash at its end it runs into the first name of the path.               *)

Plain(path) == Filter(path, Range(path) \ {EmptyPiece})

Resolve(slash, path) ==
    IF path = <<>> THEN <<>>
    ELSE IF slash \/ Head(path) = EmptyPiece THEN Plain(path)
    ELSE Nowhere

isDirectory(slash, path) == Resolve(slash, path) \in Directories
exists(slash, path) == Resolve(slash, path) \in Directories \cup RegularFiles

\* Exactly one star.
isValidWildCard(piece) == StarsOf(piece) = 1

\* A star alone filters nothing.
filterFileNames(pattern, names) == IF pattern = "*" THEN names ELSE Filter(names, Lets[pattern])

-----------------------------------------------------------------------------
(* expandWildCardRecursive, called with the pieces of a path, of which     *)
(* those in front of the i-th are done with.                               *)

Calls == [slash : BOOLEAN, pieces : Seq(Pieces), i : Nat \ {0}]

getParentPath(call) == SubSeq(call.pieces, 1, call.i - 1)
getCurrentPath(call) == SubSeq(call.pieces, 1, call.i)
Here(call) == Resolve(call.slash, getParentPath(call))

\* What the pattern at i lets through, and the directories among it.
Listed(call) == filterFileNames(call.pieces[call.i], Listing[Here(call)])
SubDirectories(call) == {name \in Range(Listed(call)) : Append(Here(call), name) \in Directories}

Found(paths, pieces) == [paths |-> paths, pieces |-> pieces]

\* The directories are visited one by one, with expand for the recursive
\* calls.  The name of a directory stays in the place of the pattern, and what
\* a call writes to the pieces stays as well.
VisitDirectories(expand, call) ==
    LET names == Filter(Listed(call), SubDirectories(call))
        visited[n \in 0..Len(names)] ==
            IF n = 0 THEN Found(<<>>, call.pieces)
            ELSE LET before == visited[n - 1]
                     deeper == expand[[call EXCEPT !.pieces = [before.pieces EXCEPT ![call.i] = names[n]]]]
                 IN  Found(before.paths \o deeper.paths, deeper.pieces)
    IN  visited[Len(names)]

\* A bug: the piece itself is taken into the path, where the directory visited
\* last is.
FilesBelow(call) ==
    LET names == Filter(Listed(call), Range(Listed(call)) \ SubDirectories(call))
    IN  IF call.i = Len(call.pieces)
        THEN [j \in DOMAIN names |-> Append(getCurrentPath(call), names[j])]
        ELSE <<>>

\* Files count only for the last piece.
FilesHere(call) ==
    LET names == Filter(Listed(call), Range(Listed(call)) \ SubDirectories(call))
        paths == [j \in DOMAIN names |-> Append(getParentPath(call), names[j])]
    IN  IF call.i = Len(call.pieces)
        THEN Filter(paths, {path \in Range(paths) : exists(call.slash, path)})
        ELSE <<>>

expandWildCardRecursive(expand, call) ==
    LET current == getCurrentPath(call)
        visited == VisitDirectories(expand, call)
    IN  IF call.i > Len(call.pieces) THEN Found(<<>>, call.pieces)
        ELSE IF Here(call) \notin Directories
             THEN Found(IF exists(call.slash, current) THEN <<current>> ELSE <<>>, call.pieces)
        ELSE IF isValidWildCard(call.pieces[call.i])
             THEN Found(visited.paths \o FilesHere(call), visited.pieces)
        ELSE IF ~isDirectory(call.slash, current) /\ exists(call.slash, current)
             THEN Found(<<current>>, call.pieces)
        ELSE expand[[call EXCEPT !.i = @ + 1]]

Expand[call \in Calls] == expandWildCardRecursive(Expand, call)

expandWildCard(slash, path) == Expand[[slash |-> slash, pieces |-> path, i |-> 1]].paths

-----------------------------------------------------------------------------
(* The lists.                                                              *)

\* A path is taken for a pattern here if there is one star in all of it.
removeWildCardPaths(paths) == Filter(paths, {path \in Range(paths) : StarsIn(path) # 1})

expandWildCards(slash, paths) ==
    LET patterns == Filter(paths, {path \in Range(paths) : StarsIn(path) > 0})
    IN  removeWildCardPaths(paths) \o
        FlattenSeq([n \in DOMAIN patterns |-> expandWildCard(slash, patterns[n])])

\* A bug: the exclusion comes to nothing.
includeAll(include, exclude) == Range(include)

\* Paths are compared as they are spelled.
getIncludedFiles(include, exclude) == Range(include) \ Range(exclude)

-----------------------------------------------------------------------------
(* What the patterns mean.                                                 *)

\* Does a name, or a path, agree with a piece, or a pattern?
Agrees(name, piece) == name = piece \/ (piece \in Patterns /\ (piece = "*" \/ name \in Lets[piece]))
Matches(path, pattern) ==
    /\ Len(Plain(path)) = Len(Plain(pattern))
    /\ \A i \in DOMAIN Plain(path) : Agrees(Plain(path)[i], Plain(pattern)[i])
    /\ (Head(path) = EmptyPiece) = (Head(pattern) = EmptyPiece)

\* The files that patterns stand for, spelled as the patterns are.
Meant(patterns) ==
    {path \in RegularFiles \cup {<<EmptyPiece>> \o f : f \in RegularFiles} :
        \E pattern \in patterns : Matches(path, pattern)}

Starred(list) == {p \in Range(list) : StarsIn(p) > 0}

\* One star, in a path that the file system can be asked for.
Simple(slash, pattern) == StarsIn(pattern) = 1 /\ (slash \/ Head(pattern) = EmptyPiece)

\* The first pieces of patterns.
Beginnings(patterns) == UNION {{SubSeq(p, 1, k) : k \in 1..Len(p)} : p \in patterns}
=============================================================================
