---------------------------- MODULE MCTestRunner ----------------------------
(***************************************************************************)
(* TestRunner on a project with one file at the top and one in a           *)
(* subdirectory, where a failed copy is noticed and where it is not.       *)
(***************************************************************************)
EXTENDS TestRunner

CONSTANTS main, sub

MutantsNested == <<[file |-> main, pkg |-> TRUE], [file |-> sub, pkg |-> TRUE]>>
MutantsOne == <<[file |-> main, pkg |-> TRUE]>>
=============================================================================
