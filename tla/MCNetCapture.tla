---------------------------- MODULE MCNetCapture ----------------------------
(***************************************************************************)
(* NetCapture with two nodes and four roles: one with two pieces of one    *)
(* file and a file that cannot be parsed, one without source code, one     *)
(* without calls, and one that has the name of the first.                  *)
(***************************************************************************)
EXTENDS NetCapture

Piece(path, first, last) == [Path |-> path, StartLine |-> first, EndLine |-> last]
Role(name, addresses, pieces) == [Name |-> name, Addresses |-> addresses, SourceCode |-> pieces]

TheRoles ==
    <<Role("server", <<"a", "b">>,
           <<Piece("net.go", 1, 9), Piece("net.go", 20, 21), Piece("broken.go", 1, 5)>>),
      Role("store", <<>>, <<>>),
      Role("docs", <<"a">>, <<Piece("doc.go", 3, 3)>>),
      Role("server", <<"c">>, <<Piece("doc.go", 1, 2)>>)>>

TheCalls == [p \in {"net.go", "doc.go"} |->
                 IF p = "net.go" THEN <<"rpc", "", "fmt", "net">> ELSE <<>>]
=============================================================================
