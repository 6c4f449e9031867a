---------------------------- MODULE MCMutantFiles ----------------------------
(***************************************************************************)
(* MutantFiles on a project with a Go file in the root, one in a package,  *)
(* one in a directory called like the mutant folder or .git, and one in a  *)
(* directory with a name like cargo_v2.                                    *)
(***************************************************************************)
EXTENDS MutantFiles

CONSTANTS main, sub, lib, gen, pkg, cargo, nested

DirOf == [f \in Files |-> CASE f = main -> Top [] f = sub -> pkg
                               [] f = lib -> cargo [] f = gen -> nested]
WalkOf == <<Top, cargo, lib, main, nested, gen, pkg, sub>>
AboveOf == [d \in Dirs |-> {Top, d}]
Plain(fs) == {[file |-> f, slash |-> FALSE] : f \in fs}
ConfigsOf ==
    {Plain({main}), Plain({main, sub}), Plain({sub, lib}), Plain({main, gen}),
     Plain({sub}), Plain({main}) \cup {[file |-> main, slash |-> TRUE]}}
MutationsIn ==
    [f \in GoFiles |-> IF f \in {main, sub} THEN <<<<"branch/if", 0>>, <<"branch/if", 1>>>>
                       ELSE <<<<"branch/if", 0>>>>]
=============================================================================
