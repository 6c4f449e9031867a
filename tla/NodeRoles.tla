----------------------------- MODULE NodeRoles ------------------------------
(***************************************************************************)
(* The static analysis of compositions/compositions.go: the figures of a   *)
(* node role, which owns pieces of source files and network addresses.     *)
(*                                                                         *)
(* A file that can be parsed is the sequence of its calls, each named by   *)
(* the identifier its selector stands on ("" for a call of another form).  *)
(***************************************************************************)
EXTENDS Integers, Sequences, FiniteSets

CONSTANTS RoleFile,      \* the roles of the JSON file, as far as they can be
                         \* decoded: a sequence of records
          Calls,         \* the calls of every file that can be parsed
          NetworkLibraryDatabase

FileInfo == [Path : STRING, StartLine : Int, EndLine : Int]
NodeRole == [Name : STRING, Addresses : Seq(STRING), SourceCode : Seq(FileInfo)]

ASSUME RoleFileAssumption == RoleFile \in Seq(NodeRole)

ASSUME CallsAssumption ==
    \A path \in DOMAIN Calls : Calls[path] \in Seq(STRING)

Parsable == DOMAIN Calls

GetTotalLines(r) ==
    LET lines[n \in 0..Len(r.SourceCode)] ==
            IF n = 0 THEN 0
            ELSE lines[n - 1] + (r.SourceCode[n].EndLine - r.SourceCode[n].StartLine)
    IN  lines[Len(r.SourceCode)]

\* A path counts once, however many pieces of it the role owns.
GetTotalFiles(r) == Cardinality({r.SourceCode[i].Path : i \in DOMAIN r.SourceCode})

\* A file is parsed once for every piece of it, and left out if it cannot be.
Parsed(r) == {i \in DOMAIN r.SourceCode : r.SourceCode[i].Path \in Parsable}
CallsOf(r, i) == {<<i, k>> : k \in DOMAIN Calls[r.SourceCode[i].Path]}
CallsFound(r) == UNION {CallsOf(r, i) : i \in Parsed(r)}
isNetwork(r, c) == Calls[r.SourceCode[c[1]].Path][c[2]] \in NetworkLibraryDatabase

\* The ratio as a pair: with no call at all it is 0/0, which prints as NaN.
CalculateNetworkRatio(r) ==
    [network |-> Cardinality({c \in CallsFound(r) : isNetwork(r, c)}),
     calls   |-> Cardinality(CallsFound(r))]

RoleInfo(r) ==
    [NumFiles     |-> GetTotalFiles(r),
     NumLines     |-> GetTotalLines(r),
     NumAddresses |-> Len(r.Addresses),
     NetworkRatio |-> CalculateNetworkRatio(r)]

\* The last role of the name.
InfoOfLast(roles, role_name) ==
    LET named == {i \in DOMAIN roles : roles[i].Name = role_name}
    IN  RoleInfo(roles[CHOOSE i \in named : \A j \in named : j <= i])

\* The first role of the name.  It is asked only for names of the list itself,
\* so its error is never returned.
GetNodeStaticAnalysisInfo(roles, role_name) ==
    LET named == {i \in DOMAIN roles : roles[i].Name = role_name}
    IN  RoleInfo(roles[CHOOSE i \in named : \A j \in named : i <= j])
=============================================================================
