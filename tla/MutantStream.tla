---------------------------- MODULE MutantStream ----------------------------
(***************************************************************************)
(* What mutate() (cmd/mutation-framework/mutate.go) promises the rest of   *)
(* the program, with the goroutine, the channel and the AST hidden: the    *)
(* operators are taken in the order of the configuration, the mutants of   *)
(* an operator in the order of the walk, each exactly once and under the   *)
(* next free number.  A mutant that cannot be saved is left out of the     *)
(* result and still uses up its number.                                    *)
(***************************************************************************)
EXTENDS Integers, Sequences

CONSTANTS Operators,  \* config.Mutate.Operators, a sequence of names
          Mutants     \* Mutants[o]: the mutants of the o-th operator in order

VARIABLES opi,    \* position in Operators
          id,     \* mutants of this operator already dealt with
          infos   \* the []MutantInfo built so far

vars == <<opi, id, infos>>

Init ==
    /\ opi = 1
    /\ id = 0
    /\ infos = <<>>

\* The next mutant of the current operator is saved and reported.
Emit ==
    /\ opi \in 1..Len(Operators)
    /\ id < Len(Mutants[opi])
    /\ infos' = Append(infos, [op |-> opi, id |-> id, ast |-> Mutants[opi][id + 1]])
    /\ id' = id + 1
    /\ UNCHANGED opi

\* The next mutant could not be saved: nothing is reported for its number.
Drop ==
    /\ opi \in 1..Len(Operators)
    /\ id < Len(Mutants[opi])
    /\ id' = id + 1
    /\ UNCHANGED <<opi, infos>>

\* Only an operator whose mutants have all been dealt with is left.
NextOperator ==
    /\ opi \in 1..Len(Operators)
    /\ id = Len(Mutants[opi])
    /\ opi' = opi + 1
    /\ id' = 0
    /\ UNCHANGED infos

Next == Emit \/ Drop \/ NextOperator

Spec == Init /\ [][Next]_vars
=============================================================================
