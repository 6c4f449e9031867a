----------------------------- MODULE MutateWalk -----------------------------
(***************************************************************************)
(* The two goroutines that produce the mutants of one file: the walker of  *)
(* MutateWalk (walk.go) applies and resets one mutation after the other on *)
(* the shared AST, and mutate (cmd/mutation-framework/mutate.go) saves the *)
(* AST in between.  They share one unbuffered channel, `changed`, which    *)
(* both send on and both receive from: a send and a receive of the two     *)
(* parties happen together, whichever statements they belong to.           *)
(*                                                                         *)
(* The AST is an opaque value here.  What a mutator does to it is the      *)
(* parameter Mutator; module Mutators gives the repository's mutators.     *)
(***************************************************************************)
EXTENDS Integers, Sequences

CONSTANTS
    Registered,         \* names in mutatorLookup (mutator/mutator.go)
    SafeName(_),        \* an operator name with "/" replaced by "-"
    Operators,          \* config.Mutate.Operators: a sequence of names
    Nodes,              \* AST nodes
    Asts,               \* states of the AST
    Source,             \* the AST returned by ParseAndTypeCheckFile
    Nil,                \* Go's nil function
    Walk(_),            \* the nodes of an AST in the order of ast.Walk
    Mutator(_, _, _)    \* Mutator(o, a, n): mutations operator o offers for
                        \* node n of AST a, as the ASTs its closures leave

\* mutator.Mutation: the AST after Change and the AST after the Reset that
\* follows it.
Mutation == [Change : Asts, Reset : Asts]
NilMutation == [Change |-> Nil, Reset |-> Nil]

\* mutator.New rejects a name that is not registered, and Register a name
\* that already is; no two registered names differ in "/" and "-" only.
ASSUME OperatorsAssumption ==
    /\ Operators \in Seq(Registered)
    /\ \A o, p \in Registered : SafeName(o) = SafeName(p) => o = p

ASSUME AstAssumption ==
    /\ Source \in Asts
    /\ Nil \notin Asts
    /\ Walk(Source) \in Seq(Nodes)

\* The contract of mutator.Mutation (mutator/mutation.go) on the unmutated
\* file: Reset undoes Change.  A mutation may have no closures at all.
ASSUME MutatorAssumption ==
    \A o \in Registered, n \in Nodes :
        /\ Mutator(o, Source, n) \in Seq(Mutation \cup {NilMutation})
        /\ \A k \in 1..Len(Mutator(o, Source, n)) :
              \/ Mutator(o, Source, n)[k] = NilMutation
              \/ Mutator(o, Source, n)[k].Reset = Source

VARIABLES
    ast,         \* the AST both goroutines work on
    wpc,         \* where the walker is; "closed" before its start and after
                 \* its end, "panicked" once it brought the process down
    vi,          \* index in Walk(ast) of the node being visited
    muts,        \* what the mutator returned for that node
    mi,          \* index in muts
    mpc,         \* where mutate is
    opi,         \* index in Operators
    mutationID,
    infos        \* the []MutantInfo: operator, number and saved AST

vars == <<ast, wpc, vi, muts, mi, mpc, opi, mutationID, infos>>

-----------------------------------------------------------------------------
(* The channel.                                                            *)

\* The walker does not wait for the mutant to be saved before it resets.
WalkThenNoWait == [sendChanged  |-> "reset",   recvSaved    |-> "reset",
                   sendReset    |-> "recvRestored", recvRestored |-> "nextMutation"]

\* Where each party continues after a channel operation.
WalkThen == [sendChanged  |-> "recvSaved",   recvSaved    |-> "reset",
             sendReset    |-> "recvRestored", recvRestored |-> "nextMutation"]
MainThen == [recvChanged  |-> "save",        sendSaved    |-> "recvReset",
             recvReset    |-> "sendRestored", sendRestored |-> "nextID"]

\* The walker's pending send meets mutate's pending receive.
WalkerSends ==
    /\ wpc \in {"sendChanged", "sendReset"}
    /\ mpc \in {"recvChanged", "recvReset"}
    /\ wpc' = WalkThen[wpc]
    /\ mpc' = MainThen[mpc]
    /\ UNCHANGED <<ast, vi, muts, mi, opi, mutationID, infos>>

\* mutate's pending send meets the walker's pending receive.
MainSends ==
    /\ mpc \in {"sendSaved", "sendRestored"}
    /\ wpc \in {"recvSaved", "recvRestored"}
    /\ wpc' = WalkThen[wpc]
    /\ mpc' = MainThen[mpc]
    /\ UNCHANGED <<ast, vi, muts, mi, opi, mutationID, infos>>

-----------------------------------------------------------------------------
(* The walker goroutine.                                                   *)

\* Visit: ask the mutator for the mutations of the next node.
Visit ==
    /\ wpc = "visit"
    /\ vi <= Len(Walk(ast))
    /\ muts' = Mutator(Operators[opi], ast, Walk(ast)[vi])
    /\ mi' = 1
    /\ wpc' = "change"
    /\ UNCHANGED <<ast, vi, mpc, opi, mutationID, infos>>

\* ast.Walk returned: close(w.changed), the goroutine ends.
CloseChanged ==
    /\ wpc = "visit"
    /\ vi > Len(Walk(ast))
    /\ wpc' = "closed"
    /\ UNCHANGED <<ast, vi, muts, mi, mpc, opi, mutationID, infos>>

Change ==
    /\ wpc = "change"
    /\ mi <= Len(muts)
    /\ muts[mi].Change # Nil
    /\ ast' = muts[mi].Change
    /\ wpc' = "sendChanged"
    /\ UNCHANGED <<vi, muts, mi, mpc, opi, mutationID, infos>>

\* Calling a nil Change panics, and a panicking goroutine ends the process.
ChangePanics ==
    /\ wpc = "change"
    /\ mi <= Len(muts)
    /\ muts[mi].Change = Nil
    /\ wpc' = "panicked"
    /\ UNCHANGED <<ast, vi, muts, mi, mpc, opi, mutationID, infos>>

\* The closure captured nothing to restore.
ResetForgets ==
    /\ wpc = "reset"
    /\ wpc' = "sendReset"
    /\ UNCHANGED <<ast, vi, muts, mi, mpc, opi, mutationID, infos>>

Reset ==
    /\ wpc = "reset"
    /\ ast' = muts[mi].Reset
    /\ wpc' = "sendReset"
    /\ UNCHANGED <<vi, muts, mi, mpc, opi, mutationID, infos>>

NextMutation ==
    /\ wpc = "nextMutation"
    /\ mi' = mi + 1
    /\ wpc' = "change"
    /\ UNCHANGED <<ast, vi, muts, mpc, opi, mutationID, infos>>

\* The walk stays at a node.
NextNodeStays ==
    /\ wpc = "change"
    /\ mi > Len(muts)
    /\ wpc' = "visit"
    /\ UNCHANGED <<ast, vi, muts, mi, mpc, opi, mutationID, infos>>

\* Visit returns and ast.Walk goes on to the next node.
NextNode ==
    /\ wpc = "change"
    /\ mi > Len(muts)
    /\ vi' = vi + 1
    /\ wpc' = "visit"
    /\ UNCHANGED <<ast, muts, mi, mpc, opi, mutationID, infos>>

-----------------------------------------------------------------------------
(* mutate.                                                                 *)

Running == wpc # "panicked"

\* The numbers go on from the operator before.
StartOperatorKeepsID ==
    /\ mpc = "operator"
    /\ opi <= Len(Operators)
    /\ vi' = 1
    /\ wpc' = "visit"
    /\ mpc' = "recvChanged"
    /\ UNCHANGED <<ast, muts, mi, opi, mutationID, infos>>

\* The first number of an operator is one too low.
StartOperatorLow ==
    /\ mpc = "operator"
    /\ opi <= Len(Operators)
    /\ mutationID' = -1
    /\ vi' = 1
    /\ wpc' = "visit"
    /\ mpc' = "recvChanged"
    /\ UNCHANGED <<ast, muts, mi, opi, infos>>

\* Head of the loop over the operators: MutateWalk starts the goroutine.
StartOperator ==
    /\ mpc = "operator"
    /\ opi <= Len(Operators)
    /\ mutationID' = 0
    /\ vi' = 1
    /\ wpc' = "visit"
    /\ mpc' = "recvChanged"
    /\ UNCHANGED <<ast, muts, mi, opi, infos>>

AllOperatorsDone ==
    /\ mpc = "operator"
    /\ opi > Len(Operators)
    /\ mpc' = "done"
    /\ UNCHANGED <<ast, wpc, vi, muts, mi, opi, mutationID, infos>>

\* `_, ok := <-changed` on the closed channel: on to the next operator.
SeesClosed ==
    /\ mpc = "recvChanged"
    /\ wpc = "closed"
    /\ opi' = opi + 1
    /\ mpc' = "operator"
    /\ UNCHANGED <<ast, wpc, vi, muts, mi, mutationID, infos>>

\* saveAST prints the AST as it is now; the MutantInfo is recorded.  The
\* duplicate branch is never taken: mutationBlackList is made anew for every
\* mutant.  A failed copyProject is only logged and changes nothing here.
Save ==
    /\ mpc = "save"
    /\ infos' = Append(infos, [op |-> opi, id |-> mutationID, ast |-> ast])
    /\ mpc' = "sendSaved"
    /\ UNCHANGED <<ast, wpc, vi, muts, mi, opi, mutationID>>

\* saveAST failed (printing, formatting or writing): only logged.
SaveFails ==
    /\ mpc = "save"
    /\ mpc' = "sendSaved"
    /\ UNCHANGED <<ast, wpc, vi, muts, mi, opi, mutationID, infos>>

\* Every mutant of an operator has the same number.
NextIDStays ==
    /\ mpc = "nextID"
    /\ mpc' = "recvChanged"
    /\ UNCHANGED <<ast, wpc, vi, muts, mi, opi, mutationID, infos>>

NextID ==
    /\ mpc = "nextID"
    /\ mutationID' = mutationID + 1
    /\ mpc' = "recvChanged"
    /\ UNCHANGED <<ast, wpc, vi, muts, mi, opi, infos>>

\* buildMutantName: what names the directory of a mutant, up to the file.
buildMutantName(o, id) == <<SafeName(Operators[o]), id>>

-----------------------------------------------------------------------------
Init ==
    /\ ast = Source
    /\ wpc = "closed"
    /\ vi = 1
    /\ muts = <<>>
    /\ mi = 1
    /\ mpc = "operator"
    /\ opi = 1
    /\ mutationID = 0
    /\ infos = <<>>

Walker ==
    \/ Visit \/ CloseChanged \/ Change \/ ChangePanics \/ Reset
    \/ NextMutation \/ NextNode

Main ==
    /\ Running
    /\ \/ StartOperator \/ AllOperatorsDone \/ SeesClosed
       \/ Save \/ SaveFails \/ NextID

Channel == WalkerSends \/ MainSends

\* mutate has returned, or the process is gone.
Halted ==
    /\ mpc = "done" \/ ~Running
    /\ UNCHANGED vars

Next == Walker \/ Main \/ Channel \/ Halted

Spec == Init /\ [][Next]_vars

\* The Go scheduler runs every goroutine that can proceed, and completes a
\* channel operation once both parties are at it.
FairSpec ==
    Spec /\ WF_vars(Walker) /\ WF_vars(Main) /\ WF_vars(Channel)
-----------------------------------------------------------------------------
(* Properties.                                                             *)

TypeOK ==
    /\ ast \in Asts
    /\ wpc \in DOMAIN WalkThen \cup {"visit", "change", "reset", "nextMutation",
                                     "closed", "panicked"}
    /\ vi \in Nat \ {0}
    /\ muts \in Seq(Mutation \cup {NilMutation})
    /\ mi \in Nat \ {0}
    /\ mpc \in DOMAIN MainThen \cup {"operator", "save", "nextID", "done"}
    /\ opi \in 1..(Len(Operators) + 1)
    /\ mutationID \in Nat
    /\ infos \in Seq([op : 1..Len(Operators), id : Nat, ast : Asts])

\* The mutations an operator offers on the file as it was parsed.
MutationsAt(o, v) == Mutator(Operators[o], Source, Walk(Source)[v])

\* Every mutant that mutate reports was saved with exactly one mutation of its
\* own operator applied to the parsed file: never the unmutated file, a half
\* reset one, or two mutations at once, however the two goroutines interleave
\* (walk.go Visit against the loop in mutate.go mutate).
OneMutationPerMutant ==
    \A i \in 1..Len(infos) :
        \E v \in 1..Len(Walk(Source)) :
            \E k \in 1..Len(MutationsAt(infos[i].op, v)) :
                infos[i].ast = MutationsAt(infos[i].op, v)[k].Change

\* Whenever the walker calls a mutator, goes on to a node, or is gone, the AST
\* is the parsed file again: ast.Walk never descends into a mutated tree and no
\* mutator captures a mutated value to restore later (walk.go Visit).
SourceIntactBetweenMutations ==
    wpc \in {"visit", "closed", "nextMutation"} => ast = Source

\* Two mutants reported for a file share a directory only if the configuration
\* lists the same operator twice (mutate.go buildMutantName, mutationID).
MutantNamesDistinct ==
    \A i, j \in 1..Len(infos) :
        (i # j /\ buildMutantName(infos[i].op, infos[i].id)
                    = buildMutantName(infos[j].op, infos[j].id))
            => /\ infos[i].op # infos[j].op
               /\ Operators[infos[i].op] = Operators[infos[j].op]

\* The AST is never written while saveAST prints it: the walker waits for the
\* answer on the channel (the doc comment of mutate in mutate.go).
NoWriteWhileSaving == [][mpc = "save" => ast' = ast]_vars

\* mutate returns, unless a nil Change ended the process: the two parties never
\* wait for each other forever on the channel they share.
MutateReturns == <>(mpc = "done" \/ ~Running)

\* No mutator offers a mutation without closures (test/mutator.go expects nil
\* for a node that is not relevant), so no walk ends in a panic.
NoPanic == Running
=============================================================================
