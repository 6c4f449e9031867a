-------------------------- MODULE MutateWalkStream --------------------------
(***************************************************************************)
(* The two goroutines of MutateWalk implement MutantStream.  The mutants   *)
(* of an operator are the mutations its mutator offers node by node, put   *)
(* end to end; Offset[o][v] is the number of them before the v-th node.    *)
(***************************************************************************)
EXTENDS MutateWalk

CONSTANTS Offset, Mutants

\* Offset and Mutants describe the walk of the parsed file.
ASSUME StreamAssumption ==
    \A o \in 1..Len(Operators) :
        /\ \A v \in 1..(Len(Walk(Source)) + 1) : Offset[o][v] \in Nat
        /\ Offset[o][1] = 0
        /\ \A v \in 1..Len(Walk(Source)) :
              /\ Offset[o][v + 1] = Offset[o][v] + Len(MutationsAt(o, v))
              /\ Offset[o][v + 1] <= Offset[o][Len(Walk(Source)) + 1]
              /\ \A k \in 1..Len(MutationsAt(o, v)) :
                    Mutants[o][Offset[o][v] + k] = MutationsAt(o, v)[k].Change
        /\ Len(Mutants[o]) = Offset[o][Len(Walk(Source)) + 1]

\* mutationID counts a mutant only after both exchanges on the channel, and
\* the count of the last operator stays until the next one starts.
StreamID ==
    IF mpc \in {"operator", "done"} THEN 0
    ELSE IF mpc \in {"sendSaved", "recvReset", "sendRestored", "nextID"} THEN mutationID + 1
    ELSE mutationID

Stream == INSTANCE MutantStream WITH id <- StreamID

\* mutate reports the mutants of the walk in order, each once and under its
\* own number, and leaves an operator only when its walk is exhausted
\* (mutate.go mutate with walk.go MutateWalk, against MutantStream).
RefinesStream == Stream!Spec
=============================================================================
