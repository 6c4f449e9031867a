----------------------------- MODULE TestRunner -----------------------------
(***************************************************************************)
(* executeAllMutants (cmd/mutation-framework/test_runner.go): the project  *)
(* in the working directory is copied to <mutant folder>/original, the     *)
(* build, test and clean-up commands run once per mutant, and a deferred   *)
(* function copies the project back and removes the copy, also while a     *)
(* panic unwinds.                                                          *)
(*                                                                         *)
(* A file is one path below the working directory and its content a model  *)
(* value.  The commands are the user's: each may overwrite or remove a     *)
(* file of the project, and none touches the mutant folder.  Copying can   *)
(* fail at any file, and the process can be killed at any point and run    *)
(* again on what it left behind.                                           *)
(***************************************************************************)
EXTENDS Integers, Sequences, FiniteSets

CONSTANTS
    Files,          \* paths of the project
    Nested,         \* the ones below its subdirectory
    Clashing,       \* the ones the predicate on names keeps out of the copy
    Mutants,        \* the []MutantInfo: records with file and pkg (is it set?)
    Custom,         \* is config.Test.Commands.Test given?
    Build, CleanUp, \* are the other two commands given?
    Tests,          \* keys getTestKey makes of the failed tests in an output
    Absent, Source, Dirty, Truncated, Mutated,  \* contents of a file
    MaxRuns,        \* how often the program is started
    MaxFaults,      \* how many copies of a file fail
    Killable        \* may the process be killed?

Contents == {Absent, Source, Dirty, Truncated, Mutated}

ASSUME FilesAssumption ==
    /\ Nested \subseteq Files
    /\ Clashing \subseteq Files
    /\ Mutants \in Seq([file : Files, pkg : BOOLEAN])

ASSUME ContentsAssumption ==
    /\ Absent \notin {Source, Dirty, Truncated, Mutated}
    /\ Source \notin {Dirty, Truncated, Mutated}
    /\ Mutated \notin {Dirty, Truncated}

ASSUME BoundsAssumption ==
    /\ MaxRuns \in Nat /\ MaxFaults \in Nat
    /\ {Custom, Build, CleanUp, Killable} \subseteq BOOLEAN

execPassed == 0
execFailed == 1
execSkipped == 2
returnOk == 0
returnError == 3
Panicked == 2     \* the exit status of a Go program that panics
Killed == -9
ExitCodes == {0, 1, 2, 3}   \* of the test command; 3 stands for any other
NoTest == "no failed test"

VARIABLES
    cwd,        \* the working directory
    original,   \* the folder `original` in the mutant folder
    pc,         \* the statement executeAllMutants is at; "idle": not running
    todo,       \* files the copy in progress has not reached yet
    cur,        \* index in Mutants
    verdict,    \* execExitCode of the current mutant
    exitCode,
    panicking,
    stats,      \* allStats: the counts of every file
    testsToMutants,
    status,     \* with what the process ended
    project,    \* history: the working directory when the run began
    raw,        \* history: exit codes of the test command in this run
    runs, faults

vars == <<cwd, original, pc, todo, cur, verdict, exitCode, panicking, stats,
          testsToMutants, status, project, raw, runs, faults>>
tally == <<cur, verdict, exitCode, stats, testsToMutants, raw>>
tree == <<cwd, original>>
run == <<project, runs>>

-----------------------------------------------------------------------------
(* Copying (copy_utils.go).                                                *)

\* The files a copy goes through.  The names' order is left open.
Listing(dir) == {f \in Files \ Clashing : dir[f] # Absent}

\* AferoCopyFile creates (truncates) the destination before it copies, and
\* can fail before, in between or at the final chmod.
CopyFailures(from, to, f) ==
    {[to EXCEPT ![f] = c] : c \in {to[f], Truncated, from[f]}}

\* copyFolderContents drops the error of a subdirectory: the rest of that
\* directory is left out and the copy goes on.
SkipSubdir == todo \ Nested

\* os.RemoveAll, whose error is dropped, may leave any part behind.
Removals(dir) == {[f \in Files |-> IF f \in kept THEN dir[f] ELSE Absent] : kept \in SUBSET Files}

-----------------------------------------------------------------------------
(* Start, and the copy of the working directory.                           *)

NoCounts == [passed |-> 0, failed |-> 0, skipped |-> 0]

Start ==
    /\ pc = "idle"
    /\ runs < MaxRuns
    /\ runs' = runs + 1
    /\ project' = cwd
    /\ todo' = Listing(cwd)
    /\ pc' = "backup"
    /\ cur' = 1
    /\ verdict' = returnOk
    /\ exitCode' = returnOk
    /\ panicking' = FALSE
    /\ stats' = [f \in Files |-> NoCounts]
    /\ testsToMutants' = [t \in {} |-> <<>>]
    /\ raw' = <<>>
    /\ UNCHANGED <<tree, status, faults>>

BackupFile ==
    /\ pc = "backup"
    /\ \E f \in todo :
          /\ original' = [original EXCEPT ![f] = cwd[f]]
          /\ todo' = todo \ {f}
    /\ UNCHANGED <<cwd, pc, panicking, tally, status, run, faults>>

\* The error of a file at the top ends executeAllMutants, before anything is
\* deferred.
BackupFails ==
    /\ pc = "backup"
    /\ faults < MaxFaults
    /\ faults' = faults + 1
    /\ \E f \in todo \ Nested : original' \in CopyFailures(cwd, original, f)
    /\ pc' = "idle"
    /\ status' = returnError
    /\ UNCHANGED <<cwd, todo, panicking, tally, run>>

BackupSubdirFails ==
    /\ pc = "backup"
    /\ faults < MaxFaults
    /\ faults' = faults + 1
    /\ \E f \in todo \cap Nested : original' \in CopyFailures(cwd, original, f)
    /\ todo' = SkipSubdir
    /\ UNCHANGED <<cwd, pc, panicking, tally, status, run>>

\* The commands may start while the copy is still going on.
BackupDoneEarly ==
    /\ pc = "backup"
    /\ pc' = "next"
    /\ UNCHANGED <<tree, todo, panicking, tally, status, run, faults>>

BackupDone ==
    /\ pc = "backup"
    /\ todo = {}
    /\ pc' = "next"
    /\ UNCHANGED <<tree, todo, panicking, tally, status, run, faults>>

-----------------------------------------------------------------------------
(* One round for every mutant.                                             *)

\* The deferred function lists the wrong folder, or removes before it copies.
UnwindNothing ==
    /\ pc' = "restore"
    /\ todo' = {}
UnwindRemoves ==
    /\ pc' = "remove"
    /\ todo' = {}

\* Leaving the function by return or panic runs the deferred restore.
Unwind ==
    /\ pc' = "restore"
    /\ todo' = Listing(original)

\* os.Symlink(".", mutantDir): the directory of the mutant exists, so the call
\* fails, and the error is dropped.  The working directory keeps its files.
NextMutant ==
    /\ pc = "next"
    /\ cur <= Len(Mutants)
    /\ pc' = "build"
    /\ UNCHANGED <<tree, todo, panicking, tally, status, run, faults>>

AllExecuted ==
    /\ pc = "next"
    /\ cur > Len(Mutants)
    /\ Unwind
    /\ UNCHANGED <<tree, panicking, tally, status, run, faults>>

\* What a command may leave of the working directory.
Touched == {cwd} \cup {[cwd EXCEPT ![f] = c] : f \in Files, c \in {Dirty, Absent}}

runBuildCommand ==
    /\ pc = "build"
    /\ cwd' \in IF Build THEN Touched ELSE {cwd}
    /\ pc' = "diff"
    /\ UNCHANGED <<original, todo, panicking, tally, status, run, faults>>

\* The clean-up is deferred only after the build.
BuildPanics ==
    /\ pc = "build"
    /\ Build
    /\ cwd' \in Touched
    /\ panicking' = TRUE
    /\ Unwind
    /\ UNCHANGED <<original, tally, status, run, faults>>

\* When diff (or the step before it) fails.  The custom command compares the
\* original with the mutated file.  The default one needs the package, and
\* compares the mutant's directory with the mutated file in it: that is the
\* file itself at the top of the project, and trouble below a subdirectory.
DiffTrouble ==
    LET m == Mutants[cur]
    IN  IF Custom THEN cwd[m.file] = Absent ELSE ~m.pkg \/ m.file \in Nested

showDiff ==
    /\ pc = "diff"
    /\ ~DiffTrouble
    /\ pc' = "test"
    /\ UNCHANGED <<tree, todo, panicking, tally, status, run, faults>>

DiffPanics ==
    /\ pc = "diff"
    /\ DiffTrouble
    /\ panicking' = TRUE
    /\ pc' = "cleanup"
    /\ UNCHANGED <<tree, todo, tally, status, run, faults>>

\* The verdict is the exit code of the test command.
determineExitCode(code) == code

\* The tests failed for a mutant that passed, and passed for one that failed.
determinePassOrFail(code) ==
    CASE code = 0 -> execFailed
      [] code = 1 -> execPassed
      [] code = 2 -> execSkipped
      [] OTHER    -> code

\* Output without a failed test gets an entry of its own.
putFailedTestsAlways(m, t) ==
    [k \in DOMAIN testsToMutants \cup {t} |->
        IF k # t THEN testsToMutants[k]
        ELSE IF t \in DOMAIN testsToMutants THEN Append(testsToMutants[t], m) ELSE <<>>]

\* The first mutant of a key creates the entry, and is not put in it.
putFailedTestsInMap(m, t) ==
    IF t = NoTest THEN testsToMutants
    ELSE [k \in DOMAIN testsToMutants \cup {t} |->
             IF k # t THEN testsToMutants[k]
             ELSE IF t \in DOMAIN testsToMutants THEN Append(testsToMutants[t], m)
             ELSE <<>>]

executeTestCommand ==
    /\ pc = "test"
    /\ cwd' \in Touched
    /\ \E code \in ExitCodes :
          /\ raw' = Append(raw, code)
          /\ verdict' = determinePassOrFail(code)
    /\ \E t \in Tests \cup {NoTest} : testsToMutants' = putFailedTestsInMap(cur, t)
    /\ pc' = "cleanup"
    /\ UNCHANGED <<original, todo, cur, exitCode, stats, panicking, status, run, faults>>

\* The command cannot be started.
TestPanics ==
    /\ pc = "test"
    /\ panicking' = TRUE
    /\ pc' = "cleanup"
    /\ UNCHANGED <<tree, todo, tally, status, run, faults>>

\* Deferred: also while a panic unwinds, which then goes on to the restore.
runCleanUpCommand ==
    /\ pc = "cleanup"
    /\ cwd' \in IF CleanUp THEN Touched ELSE {cwd}
    /\ IF panicking THEN Unwind ELSE pc' = "count" /\ UNCHANGED todo
    /\ UNCHANGED <<original, panicking, tally, status, run, faults>>

CleanUpPanics ==
    /\ pc = "cleanup"
    /\ CleanUp
    /\ cwd' \in Touched
    /\ panicking' = TRUE
    /\ Unwind
    /\ UNCHANGED <<original, tally, status, run, faults>>

\* The switch on the exit code: another code than the three counts nowhere.
Counted(counts, v) ==
    [passed  |-> counts.passed  + (IF v = execPassed THEN 1 ELSE 0),
     failed  |-> counts.failed  + (IF v = execFailed THEN 1 ELSE 0),
     skipped |-> counts.skipped + (IF v = execSkipped THEN 1 ELSE 0)]

executeForMutant ==
    /\ pc = "count"
    /\ stats' = [stats EXCEPT ![Mutants[cur].file] = Counted(@, verdict)]
    /\ exitCode' = verdict
    /\ cur' = cur + 1
    /\ pc' = "next"
    /\ UNCHANGED <<tree, todo, verdict, panicking, testsToMutants, raw, status, run, faults>>

-----------------------------------------------------------------------------
(* The deferred function, and the end.                                     *)

\* A restored file stays on the list.
RestoreFileAgain ==
    /\ pc = "restore"
    /\ \E f \in todo : cwd' = [cwd EXCEPT ![f] = original[f]]
    /\ UNCHANGED <<original, pc, todo, panicking, tally, status, run, faults>>

RestoreFile ==
    /\ pc = "restore"
    /\ \E f \in todo :
          /\ cwd' = [cwd EXCEPT ![f] = original[f]]
          /\ todo' = todo \ {f}
    /\ UNCHANGED <<original, pc, panicking, tally, status, run, faults>>

\* The result of the copy is not looked at: err is still the nil of before.
RestoreFails ==
    /\ pc = "restore"
    /\ faults < MaxFaults
    /\ faults' = faults + 1
    /\ \E f \in todo \ Nested : cwd' \in CopyFailures(original, cwd, f)
    /\ pc' = "remove"
    /\ UNCHANGED <<original, todo, panicking, tally, status, run>>

RestoreSubdirFails ==
    /\ pc = "restore"
    /\ faults < MaxFaults
    /\ faults' = faults + 1
    /\ \E f \in todo \cap Nested : cwd' \in CopyFailures(original, cwd, f)
    /\ todo' = SkipSubdir
    /\ UNCHANGED <<original, pc, panicking, tally, status, run>>

RestoreDone ==
    /\ pc = "restore"
    /\ todo = {}
    /\ pc' = "remove"
    /\ UNCHANGED <<tree, todo, panicking, tally, status, run, faults>>

RemoveOriginal ==
    /\ pc = "remove"
    /\ original' \in Removals(original)
    /\ pc' = "idle"
    /\ status' = IF panicking THEN Panicked ELSE exitCode
    /\ UNCHANGED <<cwd, todo, panicking, tally, run, faults>>

\* What an interrupted copy, removal or command may leave.
Interrupted(from, to) == {to} \cup UNION {CopyFailures(from, to, f) : f \in todo}

\* SIGKILL, a power failure: nothing deferred runs, and what was being written
\* is written in part.
Kill ==
    /\ Killable
    /\ pc # "idle"
    /\ original' \in IF pc = "backup" THEN Interrupted(cwd, original)
                     ELSE IF pc = "remove" THEN Removals(original) ELSE {original}
    /\ cwd' \in IF pc = "restore" THEN Interrupted(original, cwd)
                ELSE IF pc \in {"build", "test", "cleanup"} THEN Touched ELSE {cwd}
    /\ pc' = "idle"
    /\ status' = Killed
    /\ UNCHANGED <<todo, panicking, tally, run, faults>>

Halted ==
    /\ pc = "idle"
    /\ runs = MaxRuns
    /\ UNCHANGED vars

-----------------------------------------------------------------------------
Init ==
    /\ cwd \in [Files -> {Source, Absent}]
    /\ \A i \in 1..Len(Mutants) : cwd[Mutants[i].file] = Source
    /\ original = [f \in Files |-> Absent]
    /\ pc = "idle"
    /\ todo = {}
    /\ cur = 1
    /\ verdict = returnOk
    /\ exitCode = returnOk
    /\ panicking = FALSE
    /\ stats = [f \in Files |-> NoCounts]
    /\ testsToMutants = [t \in {} |-> <<>>]
    /\ status = returnOk
    /\ project = cwd
    /\ raw = <<>>
    /\ runs = 0
    /\ faults = 0

Backup == BackupFile \/ BackupFails \/ BackupSubdirFails \/ BackupDone
Loop == NextMutant \/ AllExecuted \/ showDiff \/ DiffPanics \/ executeForMutant
BuildStep == runBuildCommand \/ BuildPanics
TestStep == executeTestCommand \/ TestPanics
CleanUpStep == runCleanUpCommand \/ CleanUpPanics
Restore == RestoreFile \/ RestoreFails \/ RestoreSubdirFails \/ RestoreDone \/ RemoveOriginal

Next ==
    \/ Start \/ Backup \/ Loop \/ BuildStep \/ TestStep \/ CleanUpStep \/ Restore
    \/ Kill \/ Halted

Spec == Init /\ [][Next]_vars

\* The program's own steps are taken.  A command of the user need not end; the
\* default test command does, since it has a -timeout.
FairSpec ==
    /\ Spec
    /\ WF_vars(Backup) /\ WF_vars(Loop) /\ WF_vars(Restore)
    /\ WF_vars(~Build /\ BuildStep) /\ WF_vars(~Custom /\ TestStep)
    /\ WF_vars(~CleanUp /\ CleanUpStep)

-----------------------------------------------------------------------------
(* Properties.                                                             *)

\* Where the loop over the mutants is.
Executing == {"next", "build", "diff", "test", "cleanup", "count"}

TypeOK ==
    /\ cwd \in [Files -> Contents]
    /\ original \in [Files -> Contents]
    /\ pc \in Executing \cup {"idle", "backup", "restore", "remove"}
    /\ todo \subseteq Files \ Clashing
    /\ cur \in 1..(Len(Mutants) + 1)
    /\ verdict \in ExitCodes
    /\ exitCode \in ExitCodes
    /\ panicking \in BOOLEAN
    /\ stats \in [Files -> [passed : Nat, failed : Nat, skipped : Nat]]
    /\ DOMAIN testsToMutants \subseteq Tests
    /\ \A t \in DOMAIN testsToMutants : testsToMutants[t] \in Seq(1..Len(Mutants))
    /\ status \in ExitCodes \cup {Killed}
    /\ project \in [Files -> Contents]
    /\ raw \in Seq(ExitCodes)
    /\ runs \in 0..MaxRuns
    /\ faults \in 0..MaxFaults

\* The files at the top that the predicate lets through.
Kept == Files \ (Nested \cup Clashing)

\* From the moment commands run, `original` holds what the run found of every
\* file at the top, whatever the commands did since, and also after runs that
\* were killed or failed (executeAllMutants, copyFolderContents).
BackupIntact ==
    pc \in Executing =>
        \A f \in Kept : project[f] # Absent => original[f] = project[f]

\* However a run leaves the loop (end, panic of a command, failed diff, panic
\* in the clean-up), once nothing is left to restore the working directory has
\* every file at the top again, whatever failed in a subdirectory, and the
\* files of the subdirectories as well if no copy failed (the deferred function
\* of executeAllMutants, copyFolderContents).
RestoredAtEnd ==
    (pc = "remove" /\ todo = {}) =>
        \A f \in IF faults = 0 THEN Files \ Clashing ELSE Kept :
            project[f] # Absent => cwd[f] = project[f]

\* In every state some intact copy of each file of the project is left, in the
\* working directory or in `original` (README.md, on handling fatal failures).
SourceRecoverable ==
    \A f \in Kept : project[f] # Absent =>
        project[f] \in {cwd[f], original[f]}

\* As long as no copy failed, no kill at any point of any run costs a file its
\* last intact copy (the order of copy, commands, restore and removal in
\* executeAllMutants).
KillsLoseNothing == faults = 0 => SourceRecoverable

\* The counts of a file are those of the exit codes of the tests of its mutants
\* (1 is passed, 0 failed, 2 skipped), mutant by mutant and with none counted
\* twice or for another file, also when the run panics later.  An unknown code
\* is neither a pass nor a failure; whether it is a skip, as a comment has it,
\* is left open: the code counts it nowhere (executeForMutant,
\* determinePassOrFail).
CountsMatch ==
    \A f \in Files :
        LET of(code) == Cardinality({i \in 1..(cur - 1) : Mutants[i].file = f /\ raw[i] = code})
        IN  /\ stats[f].passed = of(1) /\ stats[f].failed = of(0)
            /\ stats[f].skipped \in of(2)..(of(2) + of(3))

\* Unless a command of the user's goes on for ever, once the copy is being made
\* the deferred restore comes, whatever panics or fails, and the run ends
\* (executeAllMutants: only the default test command has a timeout).
RunEnds ==
    []<>(pc \notin {"build", "test", "cleanup"}) => ((pc = "backup") ~> (pc = "idle"))

\* The default test command runs against the mutant (README.md: "each mutant is
\* executed against a set of tests"; a custom command may set it up itself).
TestsSeeMutant == (pc = "test" /\ ~Custom) => cwd[Mutants[cur].file] = Mutated

\* A custom command that exits with 0 says that the mutant was killed, and only
\* then is it counted as killed (README.md, the table of exit codes).
KilledOnZero ==
    (Custom /\ pc = "count") => (verdict = execPassed <=> raw[cur] = 0)
=============================================================================
