-------------------------- MODULE TestRunnerProofs --------------------------
(***************************************************************************)
(* Proofs that the backup, the restore and the removal of the backup keep  *)
(* the project safe, for every project, every list of mutants and any      *)
(* number of runs, kills and failed copies.                                *)
(***************************************************************************)
EXTENDS TestRunner, FiniteSetTheorems, TLAPS

\* The part of TypeOK the copies depend on.
TreeTypeOK ==
    /\ cwd \in [Files -> Contents]
    /\ original \in [Files -> Contents]
    /\ project \in [Files -> Contents]
    /\ todo \subseteq Files \ Clashing
    /\ pc \in Executing \cup {"idle", "backup", "restore", "remove"}
    /\ faults \in Nat

\* What a copy that is under way, or was completed, has brought over: all files
\* of a run without a failed copy, the files at the top of any run.
Covered == IF faults = 0 THEN Files \ Clashing ELSE Kept

BackupInv ==
    pc = "backup" =>
        /\ cwd = project
        /\ \A f \in Covered :
              project[f] # Absent => f \in todo \/ original[f] = project[f]
LoopInv ==
    pc \in Executing \cup {"restore"} =>
        \A f \in Covered : project[f] # Absent => original[f] = project[f]
RestoreInv ==
    pc = "restore" =>
        \A f \in Covered : project[f] # Absent => f \in todo \/ cwd[f] = project[f]
RemoveInv ==
    (pc = "remove" /\ (todo = {} \/ faults = 0)) =>
        \A f \in Covered : project[f] # Absent => cwd[f] = project[f]
IdleInv ==
    (pc = "idle" /\ faults = 0) =>
        \A f \in Covered : project[f] # Absent => project[f] \in {cwd[f], original[f]}

SafeInv == TreeTypeOK /\ BackupInv /\ LoopInv /\ RestoreInv /\ RemoveInv /\ IdleInv

-----------------------------------------------------------------------------
\* Copying or interrupting the copy of one file changes that file only, and
\* what a command, a copy or a removal leaves is a directory again.
LEMMA Directories ==
    ASSUME NEW a \in [Files -> Contents], NEW b \in [Files -> Contents]
    PROVE  /\ \A f \in Files : \A d \in CopyFailures(a, b, f) :
                 /\ d \in [Files -> Contents]
                 /\ \A g \in Files : g # f => d[g] = b[g]
                 /\ d[f] \in {a[f], b[f], Truncated}
           /\ Removals(a) \subseteq [Files -> Contents]
BY DEF CopyFailures, Removals, Contents

LEMMA TouchedType == cwd \in [Files -> Contents] => Touched \subseteq [Files -> Contents]
BY DEF Touched, Contents

LEMMA SafeInvInit == Init => SafeInv
BY FilesAssumption DEF Init, SafeInv, TreeTypeOK, BackupInv, LoopInv, RestoreInv, RemoveInv, IdleInv,
   Contents, Executing

LEMMA SafeInvNext == SafeInv /\ [Next]_vars => SafeInv'
<1>. SUFFICES ASSUME SafeInv, [Next]_vars PROVE SafeInv'
    OBVIOUS
<1>. USE FilesAssumption
     DEF SafeInv, TreeTypeOK, BackupInv, LoopInv, RestoreInv, RemoveInv, IdleInv,
         Covered, Kept, Executing, tree, tally, run
<1>1. CASE Start
    BY <1>1 DEF Start, Listing
<1>2. CASE BackupFile
    BY <1>2 DEF BackupFile
<1>3. CASE BackupFails
    BY <1>3, Directories DEF BackupFails
<1>4. CASE BackupSubdirFails
    BY <1>4, Directories DEF BackupSubdirFails, SkipSubdir
<1>5. CASE BackupDone
    BY <1>5 DEF BackupDone
<1>6. CASE NextMutant \/ showDiff \/ DiffPanics \/ executeForMutant \/ TestPanics
    BY <1>6 DEF NextMutant, showDiff, DiffPanics, executeForMutant, TestPanics
<1>7. CASE AllExecuted
    BY <1>7 DEF AllExecuted, Unwind, Listing
<1>8. CASE runBuildCommand
    BY <1>8, TouchedType DEF runBuildCommand
<1>9. CASE BuildPanics
    BY <1>9, TouchedType DEF BuildPanics, Unwind, Listing
<1>10. CASE executeTestCommand
    BY <1>10, TouchedType DEF executeTestCommand
<1>11. CASE runCleanUpCommand
    BY <1>11, TouchedType DEF runCleanUpCommand, Unwind, Listing
<1>12. CASE CleanUpPanics
    BY <1>12, TouchedType DEF CleanUpPanics, Unwind, Listing
<1>13. CASE RestoreFile
    BY <1>13 DEF RestoreFile
<1>14. CASE RestoreFails
    BY <1>14, Directories DEF RestoreFails
<1>15. CASE RestoreSubdirFails
    BY <1>15, Directories DEF RestoreSubdirFails, SkipSubdir
<1>16. CASE RestoreDone
    BY <1>16 DEF RestoreDone
<1>17. CASE RemoveOriginal
    BY <1>17, Directories DEF RemoveOriginal
<1>18. CASE Kill
    BY <1>18, Directories, TouchedType DEF Kill, Interrupted
<1>19. CASE UNCHANGED vars
    BY <1>19 DEF vars
<1>20. QED
    BY <1>1, <1>2, <1>3, <1>4, <1>5, <1>6, <1>7, <1>8, <1>9, <1>10, <1>11, <1>12,
       <1>13, <1>14, <1>15, <1>16, <1>17, <1>18, <1>19
       DEF Next, Backup, Loop, BuildStep, TestStep, CleanUpStep, Restore, Halted

LEMMA SafeInvAlways == Spec => []SafeInv
BY SafeInvInit, SafeInvNext, PTL DEF Spec

\* The copy in `original` is what the run found, from the first command to the
\* restore, for any number of mutants, killed runs and failed copies.
THEOREM BackupKept == Spec => []BackupIntact
<1>1. SafeInv => BackupIntact
    BY FilesAssumption DEF SafeInv, LoopInv, Covered, Kept, BackupIntact
<1>2. QED
    BY SafeInvAlways, <1>1, PTL

\* Whatever ends the loop, the deferred function leaves the project as it was.
THEOREM ProjectRestored == Spec => []RestoredAtEnd
<1>1. SafeInv => RestoredAtEnd
    BY DEF SafeInv, RemoveInv, Covered, RestoredAtEnd
<1>2. QED
    BY SafeInvAlways, <1>1, PTL

\* Unless a copy of a file failed, a kill never costs a file of the project: some
\* intact copy is left, in every state of every run.
THEOREM KillLosesNothing == Spec => []KillsLoseNothing
<1>1. SafeInv => KillsLoseNothing
    BY FilesAssumption DEF SafeInv, TreeTypeOK, BackupInv, LoopInv, RestoreInv, RemoveInv,
       IdleInv, Covered, Kept, Executing, SourceRecoverable, KillsLoseNothing
<1>2. QED
    BY SafeInvAlways, <1>1, PTL

-----------------------------------------------------------------------------
\* TypeOK, without the part the copies depend on.
TallyOK ==
    /\ verdict \in ExitCodes
    /\ exitCode \in ExitCodes
    /\ stats \in [Files -> [passed : Nat, failed : Nat, skipped : Nat]]
    /\ DOMAIN testsToMutants \subseteq Tests
    /\ \A t \in DOMAIN testsToMutants : testsToMutants[t] \in Seq(1..Len(Mutants))
    /\ raw \in Seq(ExitCodes)
RunOK ==
    /\ cur \in 1..(Len(Mutants) + 1)
    /\ pc \in Executing \ {"next"} => cur \in 1..Len(Mutants)
    /\ status \in ExitCodes \cup {Killed}
    /\ runs \in 0..MaxRuns
    /\ faults \in 0..MaxFaults
PanicOK == panicking \in BOOLEAN

LEMMA VerdictOf ==
    /\ determinePassOrFail(0) = 1 /\ determinePassOrFail(1) = 0
    /\ determinePassOrFail(2) = 2 /\ determinePassOrFail(3) = 3
BY DEF determinePassOrFail, execFailed, execPassed, execSkipped

LEMMA CodesClosed == \A c \in ExitCodes : determinePassOrFail(c) \in ExitCodes
BY DEF ExitCodes, determinePassOrFail, execFailed, execPassed, execSkipped

LEMMA CountsType ==
    ASSUME NEW c \in [passed : Nat, failed : Nat, skipped : Nat], NEW v
    PROVE  Counted(c, v) \in [passed : Nat, failed : Nat, skipped : Nat]
BY DEF Counted

\* A mutant is filed under one key, and the map keeps its type.
LEMMA MapType ==
    ASSUME NEW m \in 1..Len(Mutants), NEW t \in Tests \cup {NoTest},
           DOMAIN testsToMutants \subseteq Tests,
           \A k \in DOMAIN testsToMutants : testsToMutants[k] \in Seq(1..Len(Mutants))
    PROVE  LET new == putFailedTestsInMap(m, t)
           IN  /\ DOMAIN new \subseteq Tests
               /\ \A k \in DOMAIN new : new[k] \in Seq(1..Len(Mutants))
<1>1. CASE t = NoTest
    BY <1>1 DEF putFailedTestsInMap
<1>2. CASE t # NoTest
    <2>. DEFINE new == putFailedTestsInMap(m, t)
    <2>1. DOMAIN new = DOMAIN testsToMutants \cup {t}
        BY <1>2 DEF putFailedTestsInMap
    <2>2. ASSUME NEW k \in DOMAIN testsToMutants \cup {t}
          PROVE  new[k] \in Seq(1..Len(Mutants))
        <3>1. CASE k # t
            BY <1>2, <2>2, <3>1 DEF putFailedTestsInMap
        <3>2. CASE k = t /\ t \in DOMAIN testsToMutants
            <4>1. new[k] = Append(testsToMutants[t], m)
                BY <1>2, <3>2 DEF putFailedTestsInMap
            <4>2. testsToMutants[t] \in Seq(1..Len(Mutants))
                BY <3>2
            <4>. HIDE DEF new
            <4>3. QED
                BY <4>1, <4>2
        <3>3. CASE k = t /\ t \notin DOMAIN testsToMutants
            <4>1. new[k] = <<>>
                BY <1>2, <3>3 DEF putFailedTestsInMap
            <4>. HIDE DEF new
            <4>2. QED
                BY <4>1
        <3>4. QED
            BY <2>2, <3>1, <3>2, <3>3
    <2>3. QED
        BY <1>2, <2>1, <2>2
<1>3. QED
    BY <1>1, <1>2

LEMMA TypeInvInit == Init => TallyOK /\ RunOK /\ PanicOK
<1>. SUFFICES ASSUME Init PROVE TallyOK /\ RunOK /\ PanicOK
    OBVIOUS
<1>1. TallyOK
    BY DEF Init, TallyOK, NoCounts, ExitCodes, returnOk
<1>2. RunOK
    BY FilesAssumption, BoundsAssumption DEF Init, RunOK, ExitCodes, Executing, returnOk
<1>3. PanicOK
    BY DEF Init, PanicOK
<1>4. QED
    BY <1>1, <1>2, <1>3

LEMMA TallyUnchanged == TallyOK /\ UNCHANGED tally => TallyOK'
BY DEF TallyOK, tally

\* What the program counts changes in three actions only.
LEMMA TallySteps ==
    ASSUME [Next]_vars
    PROVE  Start \/ executeTestCommand \/ executeForMutant \/ UNCHANGED tally
BY DEF Next, Backup, Loop, BuildStep, TestStep, CleanUpStep, Restore, Halted, Kill,
   BackupFile, BackupFails, BackupSubdirFails, BackupDone, NextMutant, AllExecuted,
   showDiff, DiffPanics, runBuildCommand, BuildPanics, TestPanics,
   runCleanUpCommand, CleanUpPanics, RestoreFile, RestoreFails, RestoreSubdirFails,
   RestoreDone, RemoveOriginal, vars, tally

LEMMA TallyNext == TallyOK /\ RunOK /\ [Next]_vars => TallyOK'
<1>. SUFFICES ASSUME TallyOK, RunOK, [Next]_vars PROVE TallyOK'
    OBVIOUS
<1>1. CASE Start
    BY <1>1 DEF Start, TallyOK, NoCounts, ExitCodes, returnOk
<1>2. CASE executeTestCommand
    <2>1. cur \in 1..Len(Mutants)
        BY <1>2 DEF executeTestCommand, RunOK, Executing
    <2>2. /\ DOMAIN testsToMutants' \subseteq Tests
          /\ \A t \in DOMAIN testsToMutants' : testsToMutants'[t] \in Seq(1..Len(Mutants))
        BY <1>2, <2>1, MapType DEF executeTestCommand, TallyOK
    <2>3. raw' \in Seq(ExitCodes) /\ verdict' \in ExitCodes
        BY <1>2, CodesClosed DEF executeTestCommand, TallyOK
    <2>4. QED
        BY <1>2, <2>2, <2>3 DEF executeTestCommand, TallyOK
<1>3. CASE executeForMutant
    <2>0. cur \in 1..Len(Mutants)
        BY <1>3 DEF executeForMutant, RunOK, Executing
    <2>1. Mutants[cur].file \in Files
        <3>. DEFINE M == [file : Files, pkg : BOOLEAN]
        <3>1. Mutants \in Seq(M)
            BY FilesAssumption
        <3>2. Mutants[cur] \in M
            <4>. HIDE DEF M
            <4>. QED  BY <2>0, <3>1
        <3>3. QED
            BY <3>2
    <2>2. stats' \in [Files -> [passed : Nat, failed : Nat, skipped : Nat]]
        <3>. DEFINE R == [passed : Nat, failed : Nat, skipped : Nat]
                    f == Mutants[cur].file
        <3>1. stats \in [Files -> R]
            BY DEF TallyOK
        <3>2. Counted(stats[f], verdict) \in R
            BY <2>1, <3>1, CountsType
        <3>3. stats' = [stats EXCEPT ![f] = Counted(stats[f], verdict)]
            BY <1>3 DEF executeForMutant
        <3>4. f \in Files
            BY <2>1
        <3>5. stats' \in [Files -> R]
            <4>. HIDE DEF R, f
            <4>. QED  BY <3>1, <3>2, <3>3, <3>4
        <3>6. QED
            BY <3>5
    <2>3. QED
        BY <1>3, <2>2 DEF executeForMutant, TallyOK
<1>4. CASE UNCHANGED tally
    BY <1>4, TallyUnchanged
<1>5. QED
    BY <1>1, <1>2, <1>3, <1>4, TallySteps

LEMMA RunNext == TallyOK /\ RunOK /\ [Next]_vars => RunOK'
<1>. SUFFICES ASSUME TallyOK, RunOK, [Next]_vars PROVE RunOK'
    OBVIOUS
<1>0. exitCode \in ExitCodes
    BY DEF TallyOK
<1>. USE FilesAssumption, BoundsAssumption DEF RunOK, ExitCodes, Executing, tally, run
<1>1. CASE Start
    BY <1>1 DEF Start
<1>2. CASE Backup
    BY <1>2 DEF Backup, BackupFile, BackupFails, BackupSubdirFails, BackupDone, returnError
<1>3. CASE NextMutant \/ AllExecuted
    BY <1>3 DEF NextMutant, AllExecuted, Unwind
<1>4. CASE BuildStep
    BY <1>4 DEF BuildStep, runBuildCommand, BuildPanics, Unwind
<1>5. CASE showDiff \/ DiffPanics \/ TestPanics
    BY <1>5 DEF showDiff, DiffPanics, TestPanics
<1>6. CASE executeTestCommand
    BY <1>6 DEF executeTestCommand
<1>7. CASE CleanUpStep
    BY <1>7 DEF CleanUpStep, runCleanUpCommand, CleanUpPanics, Unwind
<1>8. CASE executeForMutant
    BY <1>8 DEF executeForMutant
<1>9. CASE Restore
    BY <1>0, <1>9 DEF Restore, RestoreFile, RestoreFails, RestoreSubdirFails, RestoreDone,
       RemoveOriginal, Panicked
<1>10. CASE Kill
    BY <1>10 DEF Kill
<1>11. CASE UNCHANGED vars
    BY <1>11 DEF vars
<1>12. QED
    BY <1>1, <1>2, <1>3, <1>4, <1>5, <1>6, <1>7, <1>8, <1>9, <1>10, <1>11
       DEF Next, Loop, TestStep, Halted

LEMMA PanicNext == PanicOK /\ [Next]_vars => PanicOK'
<1>. SUFFICES ASSUME PanicOK, [Next]_vars PROVE PanicOK'
    OBVIOUS
<1>1. panicking' = panicking \/ panicking' = TRUE \/ panicking' = FALSE
    BY Zenon DEF Next, Start, Backup, Loop, BuildStep, TestStep, CleanUpStep, Restore, Halted,
       Kill, BackupFile, BackupFails, BackupSubdirFails, BackupDone, NextMutant, AllExecuted,
       showDiff, DiffPanics, executeForMutant, runBuildCommand, BuildPanics,
       executeTestCommand, TestPanics, runCleanUpCommand, CleanUpPanics, RestoreFile,
       RestoreFails, RestoreSubdirFails, RestoreDone, RemoveOriginal, vars
<1>2. QED
    BY <1>1, Zenon DEF PanicOK

\* The state of the runner keeps its type through any number of runs.
THEOREM TypeCorrect == Spec => []TypeOK
<1>1. SafeInv /\ TallyOK /\ RunOK /\ PanicOK => TypeOK
    BY DEF SafeInv, TreeTypeOK, TallyOK, RunOK, PanicOK, TypeOK
<1>2. QED
    BY SafeInvAlways, TypeInvInit, TallyNext, RunNext, PanicNext, <1>1, PTL DEF Spec

-----------------------------------------------------------------------------
(* The counts.                                                             *)

\* Where the test of the current mutant has run and nothing has gone wrong.
Judged == pc = "count" \/ (pc = "cleanup" /\ ~panicking)

\* The counts are behind the recorded exit codes by the verdict of the current
\* mutant, if it has been judged.
VerdictInv ==
    /\ Len(raw) >= cur - 1
    /\ pc \in Executing \ {"cleanup"} => ~panicking
    /\ pc \in {"next", "build", "diff", "test"} => Len(raw) = cur - 1
    /\ pc = "backup" => Len(raw) = cur - 1 /\ ~panicking
    /\ Judged => Len(raw) = cur /\ verdict = determinePassOrFail(raw[cur])

LEMMA VerdictInvInit == Init => VerdictInv
BY DEF Init, VerdictInv, Judged, Executing

LEMMA VerdictInvNext == TallyOK /\ RunOK /\ VerdictInv /\ [Next]_vars => VerdictInv'
<1>. SUFFICES ASSUME TallyOK, RunOK, VerdictInv, [Next]_vars PROVE VerdictInv'
    OBVIOUS
<1>0. raw \in Seq(ExitCodes) /\ cur \in Int
    BY FilesAssumption DEF TallyOK, RunOK
<1>. USE <1>0 DEF VerdictInv, Judged, Executing, tally
<1>1. CASE Start
    BY <1>1 DEF Start
<1>2. CASE Backup
    BY <1>2 DEF Backup, BackupFile, BackupFails, BackupSubdirFails, BackupDone
<1>3. CASE NextMutant \/ AllExecuted
    BY <1>3 DEF NextMutant, AllExecuted, Unwind
<1>4. CASE BuildStep
    BY <1>4 DEF BuildStep, runBuildCommand, BuildPanics, Unwind
<1>5. CASE showDiff \/ DiffPanics \/ TestPanics
    BY <1>5 DEF showDiff, DiffPanics, TestPanics
<1>6. CASE executeTestCommand
    <2>1. PICK code \in ExitCodes : raw' = Append(raw, code) /\ verdict' = determinePassOrFail(code)
        BY <1>6 DEF executeTestCommand
    <2>2. cur' = cur /\ Len(raw) = cur - 1 /\ pc' = "cleanup" /\ panicking' = panicking
        BY <1>6 DEF executeTestCommand
    <2>3. Len(raw') = cur' /\ raw'[cur'] = code
        BY <2>1, <2>2
    <2>4. QED
        BY <2>1, <2>2, <2>3
<1>7. CASE CleanUpStep
    BY <1>7 DEF CleanUpStep, runCleanUpCommand, CleanUpPanics, Unwind
<1>8. CASE executeForMutant
    BY <1>8 DEF executeForMutant
<1>9. CASE Restore \/ Kill
    BY <1>9 DEF Restore, RestoreFile, RestoreFails, RestoreSubdirFails, RestoreDone,
       RemoveOriginal, Kill
<1>10. CASE UNCHANGED vars
    BY <1>10 DEF vars
<1>11. QED
    BY <1>1, <1>2, <1>3, <1>4, <1>5, <1>6, <1>7, <1>8, <1>9, <1>10
       DEF Next, Loop, TestStep, Halted

\* The mutants of f among the first n whose test had the exit code.
Judgements(f, n, codes, code) == {i \in 1..n : Mutants[i].file = f /\ codes[i] = code}

LEMMA JudgementsFinite ==
    ASSUME NEW f, NEW n \in Nat, NEW codes, NEW code
    PROVE  /\ IsFiniteSet(Judgements(f, n, codes, code))
           /\ Cardinality(Judgements(f, n, codes, code)) \in Nat
<1>1. IsFiniteSet(1..n)
    BY FS_Interval
<1>2. IsFiniteSet(Judgements(f, n, codes, code))
    BY <1>1, FS_Subset, Judgements(f, n, codes, code) \subseteq 1..n DEF Judgements
<1>3. QED
    BY <1>2, FS_CardinalityType

\* One more mutant adds one to the number of its own code and file, and nothing
\* to any other.
LEMMA OneMoreJudged ==
    ASSUME NEW f, NEW n \in Nat, NEW codes, NEW code
    PROVE  Cardinality(Judgements(f, n + 1, codes, code)) =
               Cardinality(Judgements(f, n, codes, code))
               + (IF Mutants[n + 1].file = f /\ codes[n + 1] = code THEN 1 ELSE 0)
<1>. DEFINE S == Judgements(f, n, codes, code)
            T == Judgements(f, n + 1, codes, code)
<1>1. IsFiniteSet(S) /\ Cardinality(S) \in Nat
    BY JudgementsFinite
<1>2. CASE Mutants[n + 1].file = f /\ codes[n + 1] = code
    <2>1. T = S \cup {n + 1} /\ n + 1 \notin S
        BY <1>2 DEF Judgements
    <2>2. Cardinality(S \cup {n + 1}) = Cardinality(S) + 1
        BY <1>1, <2>1, FS_AddElement
    <2>3. QED
        BY <1>2, <2>1, <2>2
<1>3. CASE ~(Mutants[n + 1].file = f /\ codes[n + 1] = code)
    <2>1. T = S
        BY <1>3 DEF Judgements
    <2>2. QED
        BY <1>1, <1>3, <2>1
<1>4. QED
    BY <1>2, <1>3

CountsInv ==
    \A f \in Files : stats[f] = [passed  |-> Cardinality(Judgements(f, cur - 1, raw, 1)),
                                 failed  |-> Cardinality(Judgements(f, cur - 1, raw, 0)),
                                 skipped |-> Cardinality(Judgements(f, cur - 1, raw, 2))]

\* Without mutants judged there is nothing to count.
LEMMA NothingJudged ==
    ASSUME NEW f, NEW codes, NEW code
    PROVE  Cardinality(Judgements(f, 0, codes, code)) = 0
BY FS_EmptySet, Judgements(f, 0, codes, code) = {} DEF Judgements

LEMMA CountsInvInit == Init => CountsInv
BY NothingJudged DEF Init, CountsInv, NoCounts

LEMMA CountsInvNext ==
    TallyOK /\ RunOK /\ VerdictInv /\ CountsInv /\ [Next]_vars => CountsInv'
<1>. SUFFICES ASSUME TallyOK, RunOK, VerdictInv, CountsInv, [Next]_vars PROVE CountsInv'
    OBVIOUS
<1>0. raw \in Seq(ExitCodes) /\ cur \in Nat \ {0} /\ stats \in [Files -> [passed : Nat, failed : Nat, skipped : Nat]]
    BY FilesAssumption DEF TallyOK, RunOK
<1>1. CASE Start
    BY <1>1, NothingJudged DEF Start, CountsInv, NoCounts
<1>2. CASE executeTestCommand
    <2>1. PICK code \in ExitCodes : raw' = Append(raw, code)
        BY <1>2 DEF executeTestCommand
    <2>2. cur' = cur /\ stats' = stats /\ Len(raw) = cur - 1
        BY <1>2 DEF executeTestCommand, VerdictInv
    <2>3. \A i \in 1..(cur - 1) : raw'[i] = raw[i]
        BY <1>0, <2>1, <2>2
    <2>4. \A f, c : Judgements(f, cur - 1, raw', c) = Judgements(f, cur - 1, raw, c)
        BY <2>3 DEF Judgements
    <2>5. QED
        BY <2>2, <2>4 DEF CountsInv
<1>3. CASE executeForMutant
    <2>. DEFINE n == cur - 1
                g == Mutants[cur].file
    <2>1. n \in Nat /\ n + 1 = cur /\ cur' - 1 = n + 1 /\ raw' = raw
        BY <1>0, <1>3 DEF executeForMutant
    <2>2. Len(raw) = cur /\ verdict = determinePassOrFail(raw[cur]) /\ raw[cur] \in ExitCodes
        BY <1>0, <1>3 DEF executeForMutant, VerdictInv, Judged
    <2>3. stats' = [stats EXCEPT ![g] = Counted(stats[g], verdict)]
        BY <1>3 DEF executeForMutant
    <2>4. \A f \in Files : stats'[f] = IF f = g THEN Counted(stats[f], verdict) ELSE stats[f]
        BY <1>0, <2>3
    <2>5. /\ verdict = execPassed <=> raw[cur] = 1
          /\ verdict = execFailed <=> raw[cur] = 0
          /\ verdict = execSkipped <=> raw[cur] = 2
        <3>1. raw[cur] \in {0, 1, 2, 3}
            BY <2>2 DEF ExitCodes
        <3>2. /\ raw[cur] = 0 => verdict = 1
              /\ raw[cur] = 1 => verdict = 0
              /\ raw[cur] = 2 => verdict = 2
              /\ raw[cur] = 3 => verdict = 3
            BY <2>2, VerdictOf
        <3>3. QED
            BY <3>1, <3>2 DEF execPassed, execFailed, execSkipped
    <2>6. ASSUME NEW f \in Files
          PROVE  stats'[f] = [passed  |-> Cardinality(Judgements(f, n + 1, raw, 1)),
                              failed  |-> Cardinality(Judgements(f, n + 1, raw, 0)),
                              skipped |-> Cardinality(Judgements(f, n + 1, raw, 2))]
        <3>. DEFINE N(c) == Cardinality(Judgements(f, n, raw, c))
                    One(c) == IF Mutants[n + 1].file = f /\ raw[n + 1] = c THEN 1 ELSE 0
        <3>1. stats[f] = [passed |-> N(1), failed |-> N(0), skipped |-> N(2)]
            BY DEF CountsInv
        <3>2. N(0) \in Nat /\ N(1) \in Nat /\ N(2) \in Nat
            BY <2>1, JudgementsFinite
        <3>3. \A c : Cardinality(Judgements(f, n + 1, raw, c)) = N(c) + One(c)
            BY <2>1, OneMoreJudged
        <3>4. stats'[f] = [passed |-> N(1) + One(1), failed |-> N(0) + One(0), skipped |-> N(2) + One(2)]
            <4>. HIDE DEF N
            <4>1. CASE f = g
                <5>1. /\ One(1) = IF verdict = execPassed THEN 1 ELSE 0
                      /\ One(0) = IF verdict = execFailed THEN 1 ELSE 0
                      /\ One(2) = IF verdict = execSkipped THEN 1 ELSE 0
                    BY <2>1, <2>5, <4>1
                <5>2. stats'[f] = Counted(stats[f], verdict)
                    BY <2>4, <4>1
                <5>. HIDE DEF One
                <5>3. QED
                    BY <3>1, <5>1, <5>2 DEF Counted
            <4>2. CASE f # g
                <5>1. One(0) = 0 /\ One(1) = 0 /\ One(2) = 0
                    BY <2>1, <4>2
                <5>. HIDE DEF One
                <5>2. QED
                    BY <2>4, <3>1, <3>2, <4>2, <5>1
            <4>3. QED
                BY <4>1, <4>2
        <3>5. QED
            BY <3>3, <3>4
    <2>7. QED
        BY <2>1, <2>6 DEF CountsInv
<1>4. CASE UNCHANGED tally
    BY <1>4 DEF tally, CountsInv
<1>5. QED
    BY <1>1, <1>2, <1>3, <1>4, TallySteps

\* However many mutants and runs, the counts are those of the exit codes, and
\* no unknown code is taken for a pass or a failure.
THEOREM CountsRight == Spec => []CountsMatch
<1>1. RunOK /\ CountsInv => CountsMatch
    <2>. SUFFICES ASSUME RunOK, CountsInv, NEW f \in Files
                  PROVE  LET of(code) == Cardinality(Judgements(f, cur - 1, raw, code))
                         IN  /\ stats[f].passed = of(1) /\ stats[f].failed = of(0)
                             /\ stats[f].skipped \in of(2)..(of(2) + of(3))
        BY DEF CountsMatch, Judgements
    <2>. DEFINE N(c) == Cardinality(Judgements(f, cur - 1, raw, c))
    <2>1. cur - 1 \in Nat
        BY FilesAssumption DEF RunOK
    <2>2. N(2) \in Nat /\ N(3) \in Nat
        BY <2>1, JudgementsFinite
    <2>3. stats[f] = [passed |-> N(1), failed |-> N(0), skipped |-> N(2)]
        BY DEF CountsInv
    <2>. HIDE DEF N
    <2>4. N(2) \in N(2)..(N(2) + N(3))
        BY <2>2
    <2>5. /\ stats[f].passed = N(1) /\ stats[f].failed = N(0)
          /\ stats[f].skipped \in N(2)..(N(2) + N(3))
        BY <2>3, <2>4
    <2>6. QED
        BY <2>5 DEF N
<1>2. QED
    BY TypeInvInit, TallyNext, RunNext, VerdictInvInit, VerdictInvNext, CountsInvInit,
       CountsInvNext, <1>1, PTL DEF Spec

=============================================================================
