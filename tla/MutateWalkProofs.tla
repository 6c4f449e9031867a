-------------------------- MODULE MutateWalkProofs --------------------------
(***************************************************************************)
(* Proofs about the walker and mutate for every file, every list of        *)
(* operators and every mutator whose Reset undoes its Change.              *)
(***************************************************************************)
EXTENDS MutateWalkStream, TLAPS

N == Len(Walk(Source))

\* The walker runs on its own, or is gone.
Roaming == {"visit", "change", "nextMutation", "sendChanged", "closed", "panicked"}

\* The two parties are in step: one channel, used in both directions, never
\* lets a message meet the wrong receive.
InStep ==
    \/ mpc \in {"operator", "done"} /\ wpc = "closed"
    \/ mpc \in {"recvChanged", "nextID"} /\ wpc \in Roaming
    \/ mpc \in {"save", "sendSaved"} /\ wpc = "recvSaved"
    \/ mpc = "recvReset" /\ wpc \in {"reset", "sendReset"}
    \/ mpc = "sendRestored" /\ wpc = "recvRestored"

AtNode == {"change", "sendChanged", "recvSaved", "reset", "sendReset",
           "recvRestored", "nextMutation"}
Applied == {"sendChanged", "recvSaved", "reset"}

\* What the walker holds and what it left of the AST.
WalkInv ==
    /\ mpc \notin {"operator", "done"} => opi \in 1..Len(Operators)
    /\ wpc = "visit" => vi \in 1..(N + 1)
    /\ wpc = "closed" /\ mpc \notin {"operator", "done"} => vi = N + 1
    /\ wpc \in AtNode =>
          /\ vi \in 1..N
          /\ muts = MutationsAt(opi, vi)
          /\ mi \in 1..(Len(muts) + 1)
    /\ wpc \in AtNode \ {"change"} => mi \in 1..Len(muts)
    /\ wpc \in Applied => muts[mi].Change # Nil /\ ast = muts[mi].Change
    /\ wpc \notin Applied => ast = Source

IInv == TypeOK /\ InStep /\ WalkInv

-----------------------------------------------------------------------------
\* What MutatorAssumption says of a position of the walk: the mutations have
\* the type of a Mutation, and the ones with closures undo themselves.
LEMMA MutationsAtFacts ==
    ASSUME NEW o \in 1..Len(Operators), NEW v \in 1..N
    PROVE  /\ MutationsAt(o, v) \in Seq(Mutation \cup {NilMutation})
           /\ \A k \in 1..Len(MutationsAt(o, v)) :
                 MutationsAt(o, v)[k].Change # Nil =>
                    /\ MutationsAt(o, v)[k].Change \in Asts
                    /\ MutationsAt(o, v)[k].Reset = Source
<1>1. Operators[o] \in Registered
    BY OperatorsAssumption
<1>2. Walk(Source)[v] \in Nodes
    BY AstAssumption DEF N
<1>. DEFINE ms == MutationsAt(o, v)
<1>3. ms \in Seq(Mutation \cup {NilMutation})
    BY <1>1, <1>2, MutatorAssumption DEF MutationsAt
<1>4. ASSUME NEW k \in 1..Len(ms), ms[k].Change # Nil
      PROVE  ms[k].Change \in Asts /\ ms[k].Reset = Source
    <2>1. ms[k] \in Mutation \cup {NilMutation}
        BY <1>3
    <2>2. ms[k] # NilMutation
        BY <1>4 DEF NilMutation
    <2>3. ms[k].Reset = Source
        BY <1>1, <1>2, <2>2, MutatorAssumption DEF MutationsAt
    <2>4. QED
        BY <2>1, <2>2, <2>3 DEF Mutation
<1>5. QED
    BY <1>3, <1>4

\* A mutant is only ever at one place of the two programs: IInv is inductive.
LEMMA IInvInit == Init => IInv
BY AstAssumption, OperatorsAssumption
   DEF Init, IInv, TypeOK, InStep, WalkInv, AtNode, Applied, WalkThen, MainThen

LEMMA IInvNext == IInv /\ [Next]_vars => IInv'
<1>. SUFFICES ASSUME IInv, [Next]_vars PROVE IInv'
    OBVIOUS
<1>. USE DEF IInv, InStep, Roaming, WalkInv, AtNode, Applied
<1>1. CASE Visit
    <2>1. ast = Source /\ vi \in 1..N /\ opi \in 1..Len(Operators)
        BY <1>1 DEF Visit, N, TypeOK
    <2>2. muts' = MutationsAt(opi, vi)
        BY <1>1, <2>1 DEF Visit, MutationsAt
    <2>3. muts' \in Seq(Mutation \cup {NilMutation})
        BY <2>1, <2>2, MutationsAtFacts
    <2>4. TypeOK'
        BY <1>1, <2>3 DEF Visit, TypeOK
    <2>5. WalkInv'
        BY <1>1, <2>1, <2>2, <2>3 DEF Visit, TypeOK, MutationsAt, N
    <2>6. QED
        BY <1>1, <2>4, <2>5 DEF Visit
<1>2. CASE CloseChanged
    BY <1>2, AstAssumption DEF CloseChanged, TypeOK, N
<1>3. CASE Change
    <2>1. muts[mi].Change \in Asts
        BY <1>3, MutationsAtFacts DEF Change, TypeOK
    <2>2. TypeOK'
        BY <1>3, <2>1 DEF Change, TypeOK, WalkThen
    <2>3. WalkInv'
        BY <1>3, <2>1 DEF Change, TypeOK, MutationsAt, N
    <2>4. QED
        BY <1>3, <2>2, <2>3 DEF Change
<1>4. CASE ChangePanics
    BY <1>4 DEF ChangePanics, TypeOK, MutationsAt, N
<1>5. CASE Reset
    <2>1. muts[mi].Reset = Source
        BY <1>5, MutationsAtFacts DEF Reset, TypeOK
    <2>2. TypeOK'
        BY <1>5, <2>1, AstAssumption DEF Reset, TypeOK, WalkThen
    <2>3. WalkInv'
        BY <1>5, <2>1 DEF Reset, TypeOK, MutationsAt, N
    <2>4. QED
        BY <1>5, <2>2, <2>3 DEF Reset
<1>6. CASE NextMutation
    BY <1>6 DEF NextMutation, TypeOK, MutationsAt, N
<1>7. CASE NextNode
    BY <1>7, AstAssumption DEF NextNode, TypeOK, MutationsAt, N
<1>8. CASE StartOperator
    BY <1>8, AstAssumption, OperatorsAssumption DEF StartOperator, TypeOK, MainThen, N
<1>9. CASE AllOperatorsDone
    BY <1>9 DEF AllOperatorsDone, TypeOK, N
<1>10. CASE SeesClosed
    BY <1>10, OperatorsAssumption DEF SeesClosed, TypeOK, N
<1>11. CASE Save
    <2>1. infos' \in Seq([op : 1..Len(Operators), id : Nat, ast : Asts])
        BY <1>11 DEF Save, TypeOK
    <2>2. TypeOK'
        BY <1>11, <2>1 DEF Save, TypeOK, MainThen
    <2>3. QED
        BY <1>11, <2>2 DEF Save, TypeOK, MutationsAt, N
<1>12. CASE SaveFails
    BY <1>12 DEF SaveFails, TypeOK, MainThen, MutationsAt, N
<1>13. CASE NextID
    BY <1>13 DEF NextID, TypeOK, MainThen, MutationsAt, N
<1>14. CASE WalkerSends
    BY <1>14 DEF WalkerSends, TypeOK, WalkThen, MainThen, MutationsAt, N
<1>15. CASE MainSends
    BY <1>15 DEF MainSends, TypeOK, WalkThen, MainThen, MutationsAt, N
<1>16. CASE UNCHANGED vars
    BY <1>16 DEF vars, TypeOK, MutationsAt, N
<1>17. QED
    BY <1>1, <1>2, <1>3, <1>4, <1>5, <1>6, <1>7, <1>8, <1>9, <1>10, <1>11, <1>12,
       <1>13, <1>14, <1>15, <1>16
       DEF Next, Walker, Main, Channel, Halted

LEMMA IInvAlways == Spec => []IInv
BY IInvInit, IInvNext, PTL DEF Spec

\* The state keeps its type for every file and every operator list.
THEOREM TypeCorrect == Spec => []TypeOK
BY IInvAlways, PTL DEF IInv

\* Every node is visited, and every mutator called, on the parsed file.
THEOREM SourceIntact == Spec => []SourceIntactBetweenMutations
<1>1. IInv => SourceIntactBetweenMutations
    BY DEF IInv, WalkInv, Applied, SourceIntactBetweenMutations
<1>2. QED
    BY IInvAlways, <1>1, PTL

\* saveAST never prints an AST that is being written: the goroutines are free
\* of that race for every interleaving.
THEOREM SavedUndisturbed == Spec => NoWriteWhileSaving
<1>1. IInv /\ [Next]_vars => [mpc = "save" => ast' = ast]_vars
    <2>. SUFFICES ASSUME IInv, Next, mpc = "save" PROVE ast' = ast
        OBVIOUS
    <2>1. wpc = "recvSaved"
        BY DEF IInv, InStep
    <2>2. QED
        BY <2>1 DEF Next, Walker, Main, Channel, Halted, vars, Visit, CloseChanged,
           Change, ChangePanics, Reset, NextMutation, NextNode, StartOperator,
           AllOperatorsDone, SeesClosed, Save, SaveFails, NextID, WalkerSends, MainSends
<1>2. QED
    BY IInvAlways, <1>1, PTL DEF Spec, NoWriteWhileSaving

-----------------------------------------------------------------------------
\* The reported mutants: each is a mutation of its operator, and the numbers
\* used so far lie below the next one.
IdsBelow ==
    \A i \in 1..Len(infos) :
        infos[i].op < opi \/ (infos[i].op = opi /\ infos[i].id < StreamID)
IdsDistinct ==
    \A i, j \in 1..Len(infos) :
        i # j => infos[i].op # infos[j].op \/ infos[i].id # infos[j].id
InfosInv == OneMutationPerMutant /\ IdsBelow /\ IdsDistinct

LEMMA InfosInvInit == Init => InfosInv
BY DEF Init, InfosInv, OneMutationPerMutant, IdsBelow, IdsDistinct

\* The number of the stream: what a step leaves of it.
LEMMA StreamIDStep ==
    ASSUME IInv, [Next]_vars
    PROVE  /\ StreamID \in Nat
           /\ Save \/ SaveFails => StreamID = mutationID /\ StreamID' = StreamID + 1
           /\ SeesClosed => StreamID' = 0
           /\ ~(Save \/ SaveFails \/ SeesClosed) => StreamID' = StreamID
<1>. USE DEF IInv, TypeOK, InStep, StreamID
<1>1. StreamID \in Nat
    OBVIOUS
<1>2. CASE Save \/ SaveFails
    BY <1>2 DEF Save, SaveFails, SeesClosed
<1>3. CASE SeesClosed
    BY <1>3 DEF Save, SaveFails, SeesClosed
<1>4. CASE ~(Save \/ SaveFails \/ SeesClosed)
    <2>1. CASE Walker
        BY <2>1, <1>1, <1>4 DEF Walker, Visit, CloseChanged, Change, ChangePanics, Reset, NextMutation,
           NextNode
    <2>2. CASE StartOperator
        BY <2>2, <1>1, <1>4 DEF StartOperator
    <2>3. CASE AllOperatorsDone
        BY <2>3, <1>1, <1>4 DEF AllOperatorsDone
    <2>4. CASE NextID
        BY <2>4, <1>1, <1>4 DEF NextID
    <2>5. CASE WalkerSends
        BY <2>5, <1>1, <1>4 DEF WalkerSends, MainThen, Roaming
    <2>6. CASE MainSends
        BY <2>6, <1>1, <1>4 DEF MainSends, MainThen, Roaming
    <2>7. CASE UNCHANGED vars
        BY <2>7, <1>1, <1>4 DEF vars
    <2>8. QED
        BY <1>1, <1>4, <2>1, <2>2, <2>3, <2>4, <2>5, <2>6, <2>7 DEF Next, Main, Channel, Halted
<1>5. QED
    BY <1>1, <1>2, <1>3, <1>4

\* Only Save adds to the result, and only SeesClosed leaves an operator.
LEMMA InfosStep ==
    ASSUME [Next]_vars
    PROVE  /\ ~Save => infos' = infos
           /\ ~SeesClosed => opi' = opi
BY DEF Next, Walker, Main, Channel, Halted, vars, Visit, CloseChanged,
   Change, ChangePanics, Reset, NextMutation, NextNode, StartOperator,
   AllOperatorsDone, SeesClosed, Save, SaveFails, NextID, WalkerSends, MainSends

LEMMA InfosTypes ==
    ASSUME IInv
    PROVE  \A i \in 1..Len(infos) :
              /\ infos[i].op \in 1..Len(Operators) /\ infos[i].op \in Nat
              /\ infos[i].id \in Nat
<1>. DEFINE R == [op : 1..Len(Operators), id : Nat, ast : Asts]
<1>1. infos \in Seq(R)
    BY DEF IInv, TypeOK
<1>2. \A i \in 1..Len(infos) : infos[i] \in R
    <2>. HIDE DEF R
    <2>. QED  BY <1>1
<1>3. QED
    BY <1>2

\* Save appends one record and leaves the others.
LEMMA SaveAppends ==
    ASSUME IInv, Save
    PROVE  /\ Len(infos') = Len(infos) + 1 /\ Len(infos) \in Nat
           /\ infos'[Len(infos) + 1].op = opi
           /\ infos'[Len(infos) + 1].id = mutationID
           /\ infos'[Len(infos) + 1].ast = ast
           /\ \A i \in 1..Len(infos) : infos'[i] = infos[i]
<1>. DEFINE R == [op : 1..Len(Operators), id : Nat, ast : Asts]
            new == [op |-> opi, id |-> mutationID, ast |-> ast]
<1>1. infos \in Seq(R) /\ infos' = Append(infos, new)
    BY DEF IInv, TypeOK, Save
<1>2. new.op = opi /\ new.id = mutationID /\ new.ast = ast
    OBVIOUS
<1>. HIDE DEF R, new
<1>3. QED
    BY <1>1, <1>2

LEMMA InfosInvNext == IInv /\ InfosInv /\ [Next]_vars => InfosInv'
<1>. SUFFICES ASSUME IInv, InfosInv, [Next]_vars PROVE InfosInv'
    OBVIOUS
<1>0. opi \in Nat /\ StreamID \in Nat
    BY StreamIDStep DEF IInv, TypeOK
<1>1. CASE Save
    <2>1. opi' = opi /\ StreamID = mutationID /\ StreamID' = StreamID + 1
        BY <1>1, StreamIDStep DEF Save
    <2>2. /\ opi \in 1..Len(Operators)
          /\ vi \in 1..N
          /\ mi \in 1..Len(MutationsAt(opi, vi))
          /\ ast = MutationsAt(opi, vi)[mi].Change
        BY <1>1 DEF Save, IInv, InStep, WalkInv, AtNode, Applied
    <2>3. OneMutationPerMutant'
        <3>. SUFFICES ASSUME NEW i \in 1..(Len(infos) + 1)
                      PROVE  \E v \in 1..N : \E k \in 1..Len(MutationsAt(infos'[i].op, v)) :
                                infos'[i].ast = MutationsAt(infos'[i].op, v)[k].Change
            BY <1>1, SaveAppends DEF OneMutationPerMutant, N, MutationsAt
        <3>1. CASE i = Len(infos) + 1
            BY <3>1, <1>1, <2>2, SaveAppends
        <3>2. CASE i \in 1..Len(infos)
            BY <3>2, <1>1, SaveAppends DEF InfosInv, OneMutationPerMutant, N
        <3>3. QED
            BY <3>1, <3>2, <1>1, SaveAppends
    <2>4. \A i \in 1..Len(infos) :
             infos'[i].op < opi \/ (infos'[i].op = opi /\ infos'[i].id < StreamID)
        BY <1>1, SaveAppends DEF InfosInv, IdsBelow
    <2>5. IdsBelow'
        <3>. SUFFICES ASSUME NEW i \in 1..(Len(infos) + 1)
                      PROVE  infos'[i].op < opi'
                                \/ (infos'[i].op = opi' /\ infos'[i].id < StreamID')
            BY <1>1, SaveAppends DEF IdsBelow
        <3>1. CASE i = Len(infos) + 1
            BY <3>1, <1>0, <1>1, <2>1, SaveAppends
        <3>2. CASE i \in 1..Len(infos)
            <4>1. infos'[i].op \in Nat /\ infos'[i].id \in Nat
                BY <3>2, <1>1, SaveAppends, InfosTypes
            <4>2. QED
                BY <3>2, <4>1, <1>0, <2>1, <2>4
        <3>3. QED
            BY <3>1, <3>2, <1>1, SaveAppends
    <2>6. \A i \in 1..Len(infos) : infos'[i].op # opi \/ infos'[i].id # mutationID
        <3>. SUFFICES ASSUME NEW i \in 1..Len(infos)
                      PROVE  infos'[i].op # opi \/ infos'[i].id # mutationID
            OBVIOUS
        <3>1. infos'[i].op \in Nat /\ infos'[i].id \in Nat
            BY <1>1, SaveAppends, InfosTypes
        <3>2. QED
            BY <3>1, <1>0, <2>1, <2>4
    <2>7. IdsDistinct'
        BY <1>1, <2>6, SaveAppends DEF InfosInv, IdsDistinct
    <2>8. QED
        BY <2>3, <2>5, <2>7 DEF InfosInv
<1>2. CASE ~Save
    <2>1. infos' = infos
        BY <1>2, InfosStep
    <2>2. OneMutationPerMutant' /\ IdsDistinct'
        BY <2>1 DEF MutationsAt, InfosInv, OneMutationPerMutant, IdsDistinct
    <2>3. \/ opi' = opi + 1
          \/ opi' = opi /\ StreamID' \in {StreamID, StreamID + 1}
        BY <1>2, StreamIDStep, InfosStep DEF SeesClosed
    <2>4. IdsBelow'
        <3>. SUFFICES ASSUME NEW i \in 1..Len(infos)
                      PROVE  infos[i].op < opi' \/ (infos[i].op = opi' /\ infos[i].id < StreamID')
            BY <2>1 DEF IdsBelow
        <3>1. infos[i].op \in Nat /\ infos[i].id \in Nat
            BY InfosTypes
        <3>2. infos[i].op < opi \/ (infos[i].op = opi /\ infos[i].id < StreamID)
            BY DEF InfosInv, IdsBelow
        <3>3. QED
            BY <1>0, <2>3, <3>1, <3>2
    <2>5. QED
        BY <2>2, <2>4 DEF InfosInv
<1>3. QED
    BY <1>1, <1>2

LEMMA InfosInvAlways == Spec => []InfosInv
BY IInvAlways, InfosInvInit, InfosInvNext, PTL DEF Spec

\* No interleaving lets mutate report an unmutated, half reset or doubly
\* mutated file.
THEOREM OneMutation == Spec => []OneMutationPerMutant
BY InfosInvAlways, PTL DEF InfosInv

\* Mutants of one file get distinct directories, unless the configuration
\* names an operator twice.
THEOREM NamesDistinct == Spec => []MutantNamesDistinct
<1>1. IInv /\ InfosInv => MutantNamesDistinct
    <2>. SUFFICES ASSUME IInv, InfosInv,
                         NEW i \in 1..Len(infos), NEW j \in 1..Len(infos), i # j,
                         buildMutantName(infos[i].op, infos[i].id)
                            = buildMutantName(infos[j].op, infos[j].id)
                  PROVE  /\ infos[i].op # infos[j].op
                         /\ Operators[infos[i].op] = Operators[infos[j].op]
        BY DEF MutantNamesDistinct
    <2>1. /\ infos[i].id = infos[j].id
          /\ SafeName(Operators[infos[i].op]) = SafeName(Operators[infos[j].op])
        BY DEF buildMutantName
    <2>2. infos[i].op \in 1..Len(Operators) /\ infos[j].op \in 1..Len(Operators)
        BY InfosTypes
    <2>3. Operators[infos[i].op] \in Registered /\ Operators[infos[j].op] \in Registered
        BY <2>2, OperatorsAssumption
    <2>4. QED
        BY <2>1, <2>3, OperatorsAssumption DEF InfosInv, IdsDistinct
<1>2. QED
    BY IInvAlways, InfosInvAlways, <1>1, PTL

-----------------------------------------------------------------------------
\* The number of the next mutant is the number of mutations the walk has left
\* behind.
NumberInv ==
    /\ wpc = "visit" => StreamID = Offset[opi][vi]
    /\ wpc \in {"change", "sendChanged"} => StreamID = Offset[opi][vi] + mi - 1
    /\ wpc = "recvSaved" =>
          StreamID = Offset[opi][vi] + mi - (IF mpc = "save" THEN 1 ELSE 0)
    /\ wpc \in {"reset", "sendReset", "recvRestored", "nextMutation"} =>
          StreamID = Offset[opi][vi] + mi
    /\ wpc = "closed" /\ mpc \notin {"operator", "done"} => StreamID = Offset[opi][N + 1]

LEMMA NumberInvInit == Init => NumberInv
BY DEF Init, NumberInv

LEMMA NumberInvNext == IInv /\ NumberInv /\ [Next]_vars => NumberInv'
<1>. SUFFICES ASSUME IInv, NumberInv, [Next]_vars PROVE NumberInv'
    OBVIOUS
<1>0. /\ mpc \notin {"operator", "done"} => opi \in 1..Len(Operators)
      /\ vi \in Nat /\ mi \in Nat /\ StreamID \in Nat /\ N \in Nat
      /\ wpc = "visit" => vi \in 1..(N + 1)
      /\ wpc \in AtNode => vi \in 1..N /\ Len(muts) = Len(MutationsAt(opi, vi))
                                      /\ mi \in 1..(Len(muts) + 1) /\ Len(muts) \in Nat
    BY StreamIDStep, AstAssumption DEF IInv, TypeOK, WalkInv, N
<1>. USE DEF NumberInv
<1>1. CASE Visit
    BY <1>1, <1>0, StreamAssumption, StreamIDStep DEF Visit, IInv, InStep, Roaming, N, Save, SaveFails, SeesClosed
<1>2. CASE CloseChanged
    <2>1. vi = N + 1
        BY <1>2, <1>0 DEF CloseChanged, IInv, WalkInv, Applied, N
    <2>2. QED
        BY <1>2, <2>1, StreamIDStep DEF CloseChanged, IInv, InStep, N, Save, SaveFails, SeesClosed
<1>3. CASE Change
    BY <1>3, StreamIDStep DEF Change, IInv, InStep, Save, SaveFails, SeesClosed
<1>4. CASE ChangePanics
    BY <1>4 DEF ChangePanics
<1>5. CASE Reset
    BY <1>5, StreamIDStep DEF Reset, IInv, InStep, Save, SaveFails, SeesClosed
<1>6. CASE NextMutation
    BY <1>6, <1>0, StreamIDStep DEF NextMutation, IInv, InStep, Save, SaveFails, SeesClosed
<1>7. CASE NextNode
    <2>1. opi \in 1..Len(Operators) /\ vi \in 1..N /\ mi = Len(MutationsAt(opi, vi)) + 1
        BY <1>7, <1>0 DEF NextNode, AtNode, IInv, InStep
    <2>2. Offset[opi][vi + 1] = Offset[opi][vi] + Len(MutationsAt(opi, vi))
        BY <2>1, StreamAssumption DEF N
    <2>3. Offset[opi][vi] \in Nat /\ Len(MutationsAt(opi, vi)) \in Nat
        BY <2>1, <1>7, <1>0, StreamAssumption DEF N, NextNode, AtNode
    <2>4. StreamID' = StreamID
        BY <1>7, StreamIDStep DEF NextNode, IInv, InStep, Save, SaveFails, SeesClosed
    <2>5. QED
        BY <1>7, <2>1, <2>2, <2>3, <2>4 DEF NextNode
<1>8. CASE StartOperator
    <2>1. opi \in 1..Len(Operators)
        BY <1>8, OperatorsAssumption DEF StartOperator, IInv, TypeOK
    <2>2. QED
        BY <1>8, <2>1, StreamAssumption DEF StartOperator, StreamID
<1>9. CASE AllOperatorsDone
    BY <1>9 DEF AllOperatorsDone, IInv, InStep
<1>10. CASE SeesClosed
    BY <1>10 DEF SeesClosed, IInv, InStep
<1>11. CASE Save \/ SaveFails
    <2>1. /\ wpc = "recvSaved" /\ wpc' = "recvSaved" /\ mpc = "save" /\ mpc' = "sendSaved"
          /\ opi \in 1..Len(Operators) /\ vi \in 1..N
          /\ opi' = opi /\ vi' = vi /\ mi' = mi
        BY <1>11, <1>0 DEF Save, SaveFails, IInv, InStep, AtNode
    <2>2. Offset[opi][vi] \in Nat
        BY <2>1, <1>0, StreamAssumption DEF N
    <2>3. StreamID' = StreamID + 1
        BY <1>11, StreamIDStep
    <2>4. QED
        BY <2>1, <2>2, <2>3, <1>0
<1>12. CASE NextID
    BY <1>12, StreamIDStep DEF NextID, IInv, InStep, Roaming, N, Save, SaveFails, SeesClosed
<1>13. CASE WalkerSends
    BY <1>13, StreamIDStep DEF WalkerSends, IInv, InStep, WalkThen, MainThen, Roaming, Save, SaveFails, SeesClosed
<1>14. CASE MainSends
    <2>1. /\ opi' = opi /\ vi' = vi /\ mi' = mi
          /\ \/ wpc = "recvSaved" /\ mpc = "sendSaved" /\ wpc' = "reset"
             \/ wpc = "recvRestored" /\ wpc' = "nextMutation"
        BY <1>14 DEF MainSends, IInv, InStep, WalkThen, MainThen, Roaming
    <2>2. StreamID' = StreamID
        BY <1>14, StreamIDStep DEF MainSends, Save, SaveFails, SeesClosed
    <2>3. wpc \in {"recvSaved", "recvRestored"} => Offset[opi][vi] \in Nat
        BY <1>0, StreamAssumption DEF N, AtNode, IInv, InStep, Roaming
    <2>4. QED
        BY <2>1, <2>2, <2>3, <1>0
<1>15. CASE UNCHANGED vars
    BY <1>15 DEF vars, StreamID, N
<1>16. QED
    BY <1>1, <1>2, <1>3, <1>4, <1>5, <1>6, <1>7, <1>8, <1>9, <1>10, <1>11, <1>12,
       <1>13, <1>14, <1>15
       DEF Next, Walker, Main, Channel, Halted

LEMMA NumberInvAlways == Spec => []NumberInv
BY IInvAlways, NumberInvInit, NumberInvNext, PTL DEF Spec

\* When the walker has a mutant saved, it is the next one of the stream.
LEMMA NextMutant ==
    ASSUME IInv, NumberInv, mpc = "save"
    PROVE  /\ opi \in 1..Len(Operators)
           /\ StreamID \in Nat
           /\ StreamID < Len(Mutants[opi])
           /\ ast = Mutants[opi][StreamID + 1]
<1>1. /\ opi \in 1..Len(Operators) /\ vi \in 1..N
      /\ mi \in 1..Len(MutationsAt(opi, vi)) /\ wpc = "recvSaved"
      /\ ast = MutationsAt(opi, vi)[mi].Change
    BY DEF IInv, InStep, WalkInv, AtNode, Applied
<1>2. N \in Nat
    BY AstAssumption DEF N
<1>3. Offset[opi][vi] \in Nat /\ Offset[opi][N + 1] \in Nat /\ Offset[opi][vi + 1] \in Nat
    BY <1>1, <1>2, StreamAssumption DEF N
<1>4. StreamID = Offset[opi][vi] + mi - 1
    BY <1>1 DEF NumberInv
<1>5. Len(MutationsAt(opi, vi)) \in Nat
    BY <1>1, MutationsAtFacts
<1>6. /\ Offset[opi][vi + 1] = Offset[opi][vi] + Len(MutationsAt(opi, vi))
      /\ Offset[opi][vi + 1] <= Offset[opi][N + 1]
      /\ Len(Mutants[opi]) = Offset[opi][N + 1]
      /\ Mutants[opi][Offset[opi][vi] + mi] = MutationsAt(opi, vi)[mi].Change
    BY <1>1, StreamAssumption DEF N
<1>7. StreamID + 1 = Offset[opi][vi] + mi
    BY <1>1, <1>3, <1>4
<1>8. ast = Mutants[opi][StreamID + 1]
    BY <1>1, <1>6, <1>7
<1>9. StreamID \in Nat /\ StreamID < Len(Mutants[opi])
    <2>1. mi \in Nat /\ 1 <= mi /\ mi <= Len(MutationsAt(opi, vi))
        BY <1>1, <1>5
    <2>2. StreamID \in Nat /\ StreamID < Offset[opi][vi] + Len(MutationsAt(opi, vi))
        BY <1>3, <1>4, <1>5, <2>1
    <2>3. StreamID < Offset[opi][vi + 1]
        BY <1>6, <2>2
    <2>4. QED
        BY <1>3, <1>6, <2>2, <2>3
<1>10. QED
    BY <1>1, <1>8, <1>9

\* The walk and the save loop together implement the plain stream of mutants:
\* every mutation of every operator in the order of the walk, once each, under
\* consecutive numbers, and no operator left before its walk is exhausted.
THEOREM Refinement == Spec => RefinesStream
<1>1. Init => Stream!Init
    BY DEF Init, Stream!Init, StreamID
<1>2. IInv /\ NumberInv /\ [Next]_vars => [Stream!Next]_(Stream!vars)
    <2>. SUFFICES ASSUME IInv, NumberInv, [Next]_vars
                  PROVE  Stream!Next \/ UNCHANGED Stream!vars
        OBVIOUS
    <2>1. CASE Save
        <3>1. /\ infos' = Append(infos, [op |-> opi, id |-> StreamID, ast |-> Mutants[opi][StreamID + 1]])
              /\ StreamID' = StreamID + 1 /\ opi' = opi
            BY <2>1, NextMutant, StreamIDStep DEF Save
        <3>2. Stream!Emit
            BY <2>1, <3>1, NextMutant DEF Save, Stream!Emit
        <3>3. QED
            BY <3>2 DEF Stream!Next
    <2>2. CASE SaveFails
        <3>1. Stream!Drop
            BY <2>2, NextMutant, StreamIDStep DEF SaveFails, Stream!Drop
        <3>2. QED
            BY <3>1 DEF Stream!Next
    <2>3. CASE SeesClosed
        <3>1. opi \in 1..Len(Operators) /\ StreamID = Len(Mutants[opi])
            BY <2>3, StreamAssumption DEF SeesClosed, IInv, WalkInv, NumberInv, N
        <3>2. Stream!NextOperator
            BY <2>3, <3>1, StreamIDStep DEF SeesClosed, Stream!NextOperator
        <3>3. QED
            BY <3>2 DEF Stream!Next
    <2>4. CASE ~(Save \/ SaveFails \/ SeesClosed)
        BY <2>4, StreamIDStep, InfosStep DEF Stream!vars
    <2>5. QED
        BY <2>1, <2>2, <2>3, <2>4
<1>3. QED
    BY IInvAlways, NumberInvAlways, <1>1, <1>2, PTL DEF Spec, RefinesStream, Stream!Spec

=============================================================================
