------------------------------ MODULE Mutators ------------------------------
(***************************************************************************)
(* The registered mutators (mutator) and the AST helpers they use          *)
(* (astutil), over a small AST.  A node is a record with its kind, an      *)
(* identity (Go: the pointer), attributes and its children in the order    *)
(* ast.Walk visits them:                                                   *)
(*   Block     statements             Case      body statements            *)
(*   If        cond, body [, else]    Binary    X, Y; attr <<operator>>    *)
(*   Assign    lhs..., one rhs; attr <<token>>  Expr, IncDec  operand      *)
(*   Call      Fun, args...           Selector  X; attr <<selector>>       *)
(*   Ident     attr <<name>>          Lit       attr <<literal>>           *)
(*   Noop      identifiers kept alive: `_, _ = a, b`, or an empty          *)
(*             statement if there are none                                 *)
(* Nodes a mutator creates have the identity New.                          *)
(*                                                                         *)
(* types.Info is the constant Info: Uses/Defs as a function from names to  *)
(* [var, type], and the name `time` is imported under.                     *)
(***************************************************************************)
EXTENDS Integers, Sequences, SequencesExt

CONSTANTS Info, Nil,
          MaxDepth   \* bound on the nesting of nodes

New == 0
Node(kind, id, attr, kids) ==
    [kind |-> kind, id |-> id, attr |-> attr, kids |-> kids]

\* The trees of at most d levels below the root.
TreesTo[d \in 0..MaxDepth] ==
    [kind : STRING, id : Nat, attr : Seq(STRING),
     kids : Seq(IF d = 0 THEN {} ELSE TreesTo[d - 1])]
Trees == TreesTo[MaxDepth]

NodesIn[t \in Trees] == {t} \cup UNION {NodesIn[t.kids[i]] : i \in DOMAIN t.kids}

\* The nodes of a tree, in the order of ast.Walk (go/ast).
Preorder[t \in Trees] == FoldLeft(LAMBDA nodes, u : nodes \o Preorder[u], <<t>>, t.kids)

\* A tree as the parser builds it: a node is one object at one place, and an
\* if statement has a condition, a body and at most one else branch.
Parsed(a) ==
    /\ a \in Trees
    /\ \A u, v \in NodesIn[a] : u.id = v.id => u = v
    /\ \A u \in NodesIn[a] : u.kind = "If" => Len(u.kids) \in 2..3

\* Writing a field of the node with identity id: t with that node replaced.
Replace(t, id, new) ==
    LET Replaced[u \in Trees] ==
            IF u.id = id THEN new
            ELSE [u EXCEPT !.kids = [i \in DOMAIN u.kids |-> Replaced[u.kids[i]]]]
    IN  Replaced[t]

-----------------------------------------------------------------------------
(* astutil.                                                                *)

Name(t) == t.attr[1]
TypeOf(t) ==
    IF t.kind = "Ident" /\ Name(t) \in DOMAIN Info.names
    THEN Info.names[Name(t)].type ELSE "none"

\* checkForSelectorExpr: a chain of selectors that ends in an identifier.
checkForSelectorExpr[t \in Trees] ==
    \/ t.kind = "Ident"
    \/ t.kind = "Selector" /\ checkForSelectorExpr[t.kids[1]]

\* identifierWalker.Visit: a variable is copied, a selector chain kept as it
\* is, and nothing below a selector is looked at.
VisitIdentifier(t) ==
    CASE t.kind = "Ident" ->
            IF Name(t) = "_" \/ (Name(t) \in DOMAIN Info.names /\ ~Info.names[Name(t)].var)
            THEN <<>> ELSE <<[t EXCEPT !.id = New]>>
      [] t.kind = "Selector" -> IF checkForSelectorExpr[t] THEN <<t>> ELSE <<>>
      [] OTHER -> <<>>

Identifiers[t \in Trees] ==
    IF t.kind = "Selector" THEN VisitIdentifier(t)
    ELSE FoldLeft(LAMBDA ids, u : ids \o Identifiers[u], VisitIdentifier(t), t.kids)
IdentifiersInStatements(ts) == FoldLeft(LAMBDA ids, s : ids \o Identifiers[s], <<>>, ts)

CreateNoopOfStatements(stmts) == Node("Noop", New, <<>>, IdentifiersInStatements(stmts))
CreateNoopOfStatement(stmt) == CreateNoopOfStatements(<<stmt>>)

\* isConditionalErrorHandling: one side an error, the other untyped nil.
isConditionalErrorHandling(c) ==
    {TypeOf(c.kids[1]), TypeOf(c.kids[2])} = {"error", "nil"}

\* IsErrorHandlingCode: the error handling block of an if statement, or Nil.
IsErrorHandlingCode[n \in Trees] ==
    IF n.kind = "If" /\ n.kids[1].kind = "Binary" /\ isConditionalErrorHandling(n.kids[1])
    THEN CASE Name(n.kids[1]) = "!=" -> n.kids[2]
           [] Name(n.kids[1]) = "==" /\ Len(n.kids) = 3 ->
                 IF n.kids[3].kind = "If" THEN IsErrorHandlingCode[n.kids[3]] ELSE n.kids[3]
           [] OTHER -> Nil
    ELSE Nil

\* A call of selector sel on an operand (Fun is a SelectorExpr).
CallsSelector(t, sels) ==
    t.kind = "Call" /\ t.kids[1].kind = "Selector" /\ Name(t.kids[1]) \in sels

IsTimeoutCall(t) ==
    /\ CallsSelector(t, {"Sleep", "sleep"})
    /\ t.kids[1].kids[1].kind = "Ident"
    /\ Name(t.kids[1].kids[1]) = Info.time

isReadOperation(t) == CallsSelector(t, {"Read", "read"})

\* createZeroAssignment: `v = 0` for the first variable on the left that is
\* resolved and not an error, or Nil.
CreateReadZeroAssignment(s) ==
    LET lhs == Front(s.kids)
        ok  == {i \in DOMAIN lhs : TypeOf(lhs[i]) \notin {"none", "error"}}
        i   == CHOOSE i \in ok : \A j \in ok : i <= j
    IN  IF s.kind = "Assign" /\ isReadOperation(Last(s.kids)) /\ ok # {}
        THEN Node("Assign", New, <<"=">>, <<lhs[i], Node("Lit", New, <<"0">>, <<>>)>>)
        ELSE Nil

-----------------------------------------------------------------------------
(* The mutators: the mutations offered for node n, as the node after Change *)
(* and the node after the Reset that follows.                               *)

Mutated(new, old) == [Change |-> new, Reset |-> old]

\* Change assigns new to the children of n, Reset the value captured before.
SetKids(n, new) ==
    LET changed == [n EXCEPT !.kids = new]
    IN  Mutated(changed, [changed EXCEPT !.kids = n.kids])

MutatorCase(n) ==
    IF n.kind = "Case" THEN <<SetKids(n, <<CreateNoopOfStatements(n.kids)>>)>> ELSE <<>>

\* Change and Reset assign n.Body.List: the children of the second child.
MutatorIf(n) ==
    IF n.kind = "If"
    THEN LET changed == [n EXCEPT !.kids[2].kids = <<CreateNoopOfStatement(n.kids[2])>>]
         IN  <<Mutated(changed, [changed EXCEPT !.kids[2].kids = n.kids[2].kids])>>
    ELSE <<>>

MutatorElse(n) ==
    IF n.kind = "If" /\ Len(n.kids) = 3 /\ n.kids[3].kind # "If"
    THEN LET changed == [n EXCEPT !.kids[3] = CreateNoopOfStatement(n.kids[3])]
         IN  <<Mutated(changed, [changed EXCEPT !.kids[3] = n.kids[3]])>>
    ELSE <<>>

\* One mutation per term: true makes a term of && irrelevant, false one of ||.
MutatorRemoveTerm(n) ==
    IF n.kind = "Binary" /\ Name(n) \in {"&&", "||"}
    THEN LET r == Node("Ident", New, <<IF Name(n) = "&&" THEN "true" ELSE "false">>, <<>>)
         IN  [i \in 1..2 |->
                LET changed == [n EXCEPT !.kids[i] = r]
                IN  Mutated(changed, [changed EXCEPT !.kids[i] = n.kids[i]])]
    ELSE <<>>

checkRemoveStatement(s) ==
    \/ s.kind = "Assign" /\ Name(s) # ":="
    \/ s.kind \in {"Expr", "IncDec"}

\* One mutation per removable statement of a block or a case body, written
\* into and restored in the element of the statement list.
MutatorRemoveStatement(n) ==
    IF n.kind \in {"Block", "Case"}
    THEN LET removable == SelectSeq([i \in DOMAIN n.kids |-> i],
                                    LAMBDA i : checkRemoveStatement(n.kids[i]))
         IN  [k \in DOMAIN removable |->
                LET i       == removable[k]
                    changed == [n EXCEPT !.kids[i] = CreateNoopOfStatement(n.kids[i])]
                IN  Mutated(changed, [changed EXCEPT !.kids[i] = n.kids[i]])]
    ELSE <<>>

\* The statements of the error handling block below n are removed one by one:
\* the mutations belong to the node of that block.
MutatorRemoveBlock(n) ==
    LET block == IsErrorHandlingCode[n]
    IN  IF block = Nil THEN <<>>
        ELSE LET m == MutatorRemoveStatement(block)
             IN  [k \in DOMAIN m |-> Mutated(Replace(n, block.id, m[k].Change),
                                             Replace(n, block.id, m[k].Reset))]

MutatorTimeout(n) ==
    IF IsTimeoutCall(n)
    THEN <<SetKids(n, <<n.kids[1], Node("Lit", New, <<"0">>, <<>>)>>)>>
    ELSE <<>>

\* After every assignment that reads, a zero assignment is inserted.
MutatorReadZero(n) ==
    IF n.kind = "Block"
    THEN LET reads == SelectSeq([i \in DOMAIN n.kids |-> i],
                                LAMBDA i : CreateReadZeroAssignment(n.kids[i]) # Nil)
         IN  [k \in DOMAIN reads |->
                SetKids(n, InsertAt(n.kids, reads[k] + 1,
                                    CreateReadZeroAssignment(n.kids[reads[k]])))]
    ELSE <<>>

\* MutatorSwap wraps whatever SwapProtocolVersion returns: nil closures for
\* every node but a listentcp or listenudp call.  For such a call Change does
\* nothing: swapNetworkVersion only looks at an identifier, and the greedy
\* first part of getNetworkVersion's pattern takes the digit as well, so that
\* strconv.Atoi always gets "" and fails.  The network argument is there (a
\* call without arguments would panic in SwapProtocolVersion).
MutatorSwap(n) ==
    IF CallsSelector(n, {"ListenTCP", "ListenUDP"})
    THEN <<Mutated(n, n)>>
    ELSE <<Mutated(Nil, Nil)>>

-----------------------------------------------------------------------------
\* The names in mutatorLookup after every init function has run.
mutatorLookup ==
    {"branch/case", "branch/else", "branch/if", "expression/remove",
     "statement/remove", "statement/removeblock", "statement/timeout",
     "distributed/readzero", "distributed/protocols"}

\* The path separator in an operator name becomes a dash (buildMutantName).
safeMutationName(o) ==
    CASE o = "branch/case"           -> "branch-case"
      [] o = "branch/else"           -> "branch-else"
      [] o = "branch/if"             -> "branch-if"
      [] o = "expression/remove"     -> "expression-remove"
      [] o = "statement/remove"      -> "statement-remove"
      [] o = "statement/removeblock" -> "statement-removeblock"
      [] o = "statement/timeout"     -> "statement-timeout"
      [] o = "distributed/readzero"  -> "distributed-readzero"
      [] o = "distributed/protocols" -> "distributed-protocols"

\* The mutations the mutator registered as o offers for a node.
Lookup(o, n) ==
    CASE o = "branch/case"           -> MutatorCase(n)
      [] o = "branch/else"           -> MutatorElse(n)
      [] o = "branch/if"             -> MutatorIf(n)
      [] o = "expression/remove"     -> MutatorRemoveTerm(n)
      [] o = "statement/remove"      -> MutatorRemoveStatement(n)
      [] o = "statement/removeblock" -> MutatorRemoveBlock(n)
      [] o = "statement/timeout"     -> MutatorTimeout(n)
      [] o = "distributed/readzero"  -> MutatorReadZero(n)
      [] o = "distributed/protocols" -> MutatorSwap(n)

-----------------------------------------------------------------------------
\* ast.Walk: the identities of the nodes in visiting order.
WalkOrder(a) == LET visited == Preorder[a] IN [i \in DOMAIN visited |-> visited[i].id]

NodeOf(a, id) == CHOOSE t \in NodesIn[a] : t.id = id

\* The mutations of node id as the whole AST after Change and after Reset.
MutationsOf(o, a, id) ==
    LET ms == Lookup(o, NodeOf(a, id))
    IN  [k \in DOMAIN ms |->
            IF ms[k].Change = Nil THEN ms[k]
            ELSE Mutated(Replace(a, id, ms[k].Change), Replace(a, id, ms[k].Reset))]

\* CountWalk: how many mutations a walk with o will announce.
CountWalk(o, a) ==
    LET order == WalkOrder(a)
    IN  FoldLeft(LAMBDA n, id : n + Len(MutationsOf(o, a, id)), 0, order)
=============================================================================
