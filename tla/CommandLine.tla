----------------------------- MODULE CommandLine -----------------------------
(***************************************************************************)
(* mainCmd (cmd/mutation-framework/main.go): the arguments are checked,    *)
(* the configuration is read (config.go) and consolidated with them, and   *)
(* the mutants are generated or searched for, and tested.                  *)
(*                                                                         *)
(* Left out are the options that only change the log, --overwrite and      *)
(* --composition, handled like the others but of no account here, and      *)
(* --custom-test, whose tag the parser does not know: an unknown flag.     *)
(***************************************************************************)
EXTENDS Wildcards

CONSTANTS
    Arguments,      \* what the user may ask for: records with
                    \* asked   which of "help", "list", "completion" is, and
                    \*         "bad" if there is something wrong
                    \* noMutate, noExec   the flags
                    \* timeout   of --exec-timeout, or NotGiven
    Configurations, \* what --config may name: Unreadable, or records with
                    \* root    is project_root set?  slash   does it end in one?
                    \* noMutate, noExec, timeout
                    \* include, exclude   the lists of paths
    NotGiven, Unreadable,
    NoConfig        \* a nil *MutationConfig

returnOk == 0
returnHelp == 1
returnBashCompletion == 2
returnError == 3
Panicked == 2
ExitCodes == 0..3   \* executeAllMutants returns any code of a test; 3 stands for the others

DefaultTimeout == 10

ASSUME InputsAssumption ==
    /\ Arguments \subseteq
           [asked : SUBSET {"help", "list", "completion", "bad"}, noMutate : BOOLEAN,
            noExec : BOOLEAN, timeout : Nat \cup {NotGiven}]
    /\ Configurations \subseteq
           {Unreadable} \cup [root : BOOLEAN, slash : BOOLEAN, noMutate : BOOLEAN, noExec : BOOLEAN,
                             timeout : Nat, include : Seq(Seq(Pieces)), exclude : Seq(Seq(Pieces))]
    /\ \A c \in Configurations \ {Unreadable} :
          \A path \in Range(c.include) \cup Range(c.exclude) :
             path # <<>> /\ \A i \in 2..Len(path) : path[i] # EmptyPiece

VARIABLES
    args,       \* the arguments
    given,      \* what is in the configuration file
    config,     \* the *MutationConfig
    files,      \* keys of the map of files
    pc,         \* "args", "config", "consolidate", "files", "phase", "test", "done"
    exitCode,
    performed   \* history: which of "mutate", "search", "test" were begun

vars == <<args, given, config, files, pc, exitCode, performed>>

\* Does parsing the configuration file make a configuration?
Usable == given # Unreadable /\ given.root

Exit(code) ==
    /\ pc' = "done"
    /\ exitCode' = code

\* Help comes before the list, that before errors, and that before completion.
checkArguments ==
    LET asks(what) == what \in args.asked
        shows == (asks("help") /\ ~asks("completion")) \/ asks("list")
    IN  /\ pc = "args"
        /\ \/ shows /\ Exit(returnHelp)
           \/ ~shows /\ asks("bad") /\ Exit(returnError)
           \/ ~shows /\ ~asks("bad") /\ asks("completion") /\ Exit(returnBashCompletion)
           \/ args.asked = {} /\ pc' = "config" /\ UNCHANGED exitCode
        /\ UNCHANGED <<args, given, config, files, performed>>

\* The patterns are expanded before the root gets its slash.
Parsed ==
    [given EXCEPT !.include = expandWildCards(given.slash, @),
                  !.exclude = expandWildCards(given.slash, @),
                  !.slash = TRUE]

\* An error is logged only.
getConfig ==
    /\ pc = "config"
    /\ config' = IF Usable THEN Parsed ELSE NoConfig
    /\ pc' = "consolidate"
    /\ UNCHANGED <<args, given, files, exitCode, performed>>

\* A bug: a timeout that is not given is none.
TimeoutOrNone == IF args.timeout = NotGiven THEN 0 ELSE args.timeout

\* The parser puts in its default.
Timeout == IF args.timeout = NotGiven THEN DefaultTimeout ELSE args.timeout

\* A bug: with nothing to consolidate the nil configuration is passed on.
NilConfigPassed ==
    /\ pc = "consolidate"
    /\ config = NoConfig
    /\ pc' = "files"
    /\ UNCHANGED <<args, given, config, files, exitCode, performed>>

\* Without a configuration this, or the set-up of the log after it, panics.
NilConfig ==
    /\ pc = "consolidate"
    /\ config = NoConfig
    /\ Exit(Panicked)
    /\ UNCHANGED <<args, given, config, files, performed>>

\* A flag can only be switched on, and a timeout of zero changes nothing.
consolidateArgsIntoConfig ==
    /\ pc = "consolidate"
    /\ config # NoConfig
    /\ config' = [config EXCEPT !.noMutate = @ \/ args.noMutate,
                                !.noExec = @ \/ args.noExec,
                                !.timeout = IF Timeout # 0 THEN Timeout ELSE @]
    /\ pc' = "files"
    /\ UNCHANGED <<args, given, files, exitCode, performed>>

getRelativeAndAbsoluteFiles ==
    /\ pc = "files"
    /\ files' = getIncludedFiles(config.include, config.exclude)
    /\ pc' = "phase"
    /\ UNCHANGED <<args, given, config, exitCode, performed>>

\* The absolute path is the root, its slash and the path.
IsFile(path) == Resolve(TRUE, path) \in RegularFiles

\* A bug: the error of the first phase is passed over.
GoOn(failed) ==
    /\ pc' = "test"
    /\ exitCode' = IF failed THEN returnError ELSE returnOk

Proceed(failed) ==
    IF failed THEN Exit(returnError) ELSE pc' = "test" /\ UNCHANGED exitCode

\* mutateFiles fails if one file does not compile, and so if it is none.  The
\* walk over one that exists may panic before: without an AST (a file that is
\* not in the package), or in a mutator.
MutatePhase ==
    /\ pc = "phase"
    /\ ~config.noMutate
    /\ performed' = performed \cup {"mutate"}
    /\ \/ \E failed \in BOOLEAN :
             /\ (\E path \in files : ~IsFile(path)) => failed
             /\ Proceed(failed)
       \/ /\ \E path \in files : IsFile(path)
          /\ Exit(Panicked)
    /\ UNCHANGED <<args, given, config, files>>

SearchPhase ==
    /\ pc = "phase"
    /\ config.noMutate
    /\ performed' = performed \cup {"search"}
    /\ \E failed \in BOOLEAN : Proceed(failed)
    /\ UNCHANGED <<args, given, config, files>>

\* executeAllMutants returns the exit code of the last mutant, and may panic.
TestPhase ==
    /\ pc = "test"
    /\ ~config.noExec
    /\ performed' = performed \cup {"test"}
    /\ \E code \in ExitCodes : Exit(code)
    /\ UNCHANGED <<args, given, config, files>>

NoTestPhase ==
    /\ pc = "test"
    /\ config.noExec
    /\ Exit(returnOk)
    /\ UNCHANGED <<args, given, config, files, performed>>

Halted == pc = "done" /\ UNCHANGED vars

Init ==
    /\ args \in Arguments
    /\ given \in Configurations
    /\ config = NoConfig
    /\ files = {}
    /\ pc = "args"
    /\ exitCode = returnOk
    /\ performed = {}

performMutationTesting == MutatePhase \/ SearchPhase \/ TestPhase \/ NoTestPhase

Next ==
    \/ checkArguments \/ getConfig \/ NilConfig \/ consolidateArgsIntoConfig
    \/ getRelativeAndAbsoluteFiles \/ performMutationTesting \/ Halted

Spec == Init /\ [][Next]_vars
\* Once there are files there is a configuration file that was read.
HasFiles == pc \in {"phase", "test"} \/ (pc = "done" /\ performed # {})

-----------------------------------------------------------------------------
(* Properties.                                                             *)

TypeOK ==
    /\ args \in Arguments /\ given \in Configurations
    /\ config = NoConfig \/ DOMAIN config = DOMAIN given
    /\ pc \in {"files", "phase", "test"} => Usable /\ DOMAIN config = DOMAIN given
    /\ pc \in {"args", "config", "consolidate", "files", "phase", "test", "done"}
    /\ exitCode \in ExitCodes
    /\ performed \subseteq {"mutate", "search", "test"}

\* What patterns put on the list of files is a file of the project, and comes
\* from a pattern whose first pieces it matches: the slice shared by the
\* recursion loses files but makes none up (expandWildCardRecursive).
NothingMadeUp ==
    HasFiles => \A path \in files :
        \/ \E i \in DOMAIN given.include : given.include[i] = path
        \/ /\ IsFile(path)
           /\ \E pattern \in Range(given.include) :
                 Len(path) <= Len(pattern) /\ Matches(path, SubSeq(pattern, 1, Len(path)))

\* A pattern with one star that the file system can be asked for puts all its
\* files on the list, and none is lost but those that are excluded, or that an
\* excluded pattern goes on below; an excluded file is out whatever pattern, in
\* its own spelling, put it in (expandWildCards, getIncludedFiles).
SimplePatternsExact ==
    HasFiles =>
        LET exact(list) == Meant({p \in Range(list) : Simple(given.slash, p)})
        IN  /\ exact(given.include) \subseteq
                   files \cup Range(given.exclude) \cup Meant(Beginnings(Starred(given.exclude)))
            /\ files \cap (exact(given.exclude) \cup Range(given.exclude)) = {}

\* The tests run without a limit only if both the command line and the
\* configuration say so; the fairness of the default test command rests on it
\* (checkArguments, consolidateArgsIntoConfig).
TestsBounded ==
    ("test" \in performed /\ config.timeout = 0) =>
        args.timeout = 0 /\ given.timeout = 0

\* Nothing is tested, or reported as success, after a phase that failed or a
\* configuration that could not be read or names files that do not exist
\* (initializeExecution, performMutationTesting).
ErrorsStopTheRun ==
    LET goesOn == pc = "test" \/ "test" \in performed \/ (pc = "done" /\ exitCode = returnOk)
    IN  /\ ~Usable => performed = {}
        /\ ("mutate" \in performed /\ goesOn) => \A path \in files : IsFile(path)
        /\ (pc = "done" /\ exitCode = returnOk) => performed # {}

\* All files that a pattern stands for are mutated, unless they are excluded
\* (config.go: "replaces wildcards with array of actual file paths that are
\* found using the glob patterns").
WildcardsReplaced ==
    (HasFiles /\ given.slash) =>
        Meant(Starred(given.include)) \subseteq
            files \cup Meant(Starred(given.exclude)) \cup Range(given.exclude)
=============================================================================
