# A TLA+ model of the mutation framework

The repository is a mutation testing tool for Go: it parses a file, applies
mutation operators to the syntax tree one at a time, writes a copy of the project
for every mutant, and runs the tests. A second, separate program captures network
traffic and counts packets per node. This directory holds TLA+ modules of both,
TLC configurations that check them on small instances, and proofs, checked by
TLAPS, of what holds for every instance.

`PROJECT.json` lists the components, the runs, the source lines behind every
definition, the hazards, the disagreements found and the theorems.

## Inventory

| Component | Source | State | Operations |
| :-- | :-- | :-- | :-- |
| Mutation walk | `walk.go`, `mutate.go` (`mutate`) | the AST, position of the walk, the channel `changed`, operator and `mutationID`, `mutantInfos` | `MutateWalk`, `Visit`, `mutate`, `saveAST`, `buildMutantName`, `CountWalk` |
| Mutators | `mutator/**` | `mutatorLookup` | nine functions from a node to mutations (`Change`, `Reset`) |
| AST helpers | `astutil` | none | no-op statements, error blocks, sleeps, reads, protocol versions |
| Mutant files | `mutate.go` (`mutateFiles`, `mutate`, `saveAST`) | the mutant folder, `mutantInfos`, statistics per file | make, overwrite, write a mutant |
| Test runner | `test_runner.go` (from line 156) | working directory, `original`, statistics, `testsToMutants` | `executeAllMutants`, `executeForMutant`, the three commands, verdicts, restore |
| Project copy | `copy_utils.go`, `osutil/copy.go` | file system | `copyProject`, `copyRecursive`, `moveAllContentsExceptMutantFolder`, `copyFolderContents`, `AferoCopyFile` |
| Mutant discovery | `test_runner.go` (to line 154) | statistics per file | `findAllMutantsInFolder` (`--no-mutate`) |
| Configuration | `config.go` | file lists | decoding, wildcards, inclusion and exclusion |
| Command line | `main.go` | options | argument precedence, the two phases, exit codes |
| Parsing | `parse.go` | none | front end of `go/parser` and the loader |
| Packet capture | `compositions.go`, `netcapture.go` | handle, packet channel, stop channel, `Stats` | initialize, start, stop, process packets |
| Node roles | `compositions.go`, `netcapture.go` | none | counting of files, lines, calls |

How they interact: `main` reads the configuration and calls `mutateFiles`, which
calls `mutate` for every file; `mutate` starts the walker goroutine once per
operator and talks to it over one unbuffered channel, in both directions. Mutators
are callbacks of the walker and hand back closures that write to the AST `mutate`
prints. The list of mutants goes to `executeAllMutants`, which works on the
current directory and on a folder inside the mutant folder. The packet capture is
a program of its own: a main goroutine, the goroutine of `ProcessPackets`, and the
reader goroutine of gopacket.

What is hard here, and what makes each part correct:

- *Mutation walk.* Two goroutines share the AST with nothing but the order of
  messages between them. Correct means: each mutant is saved with exactly one
  mutation, the AST is restored before the walk goes on, nothing writes while it
  is printed, mutants come out once and in order, and neither side gets stuck.
- *Test runner.* Commands of the user change the project in place; any of them,
  `diff`, and any copy can fail, panics unwind through two deferred functions, and
  the process may be killed. Correct means: the project is put back, an intact
  copy exists at all times, and counts agree with the exit codes.
- *Packet capture.* Statistics without a lock, read after a message on a channel.
  Correct means: they are final once the message was taken, and exact.
- *Mutant files and discovery.* Sequential, but the mutant folder outlives the run:
  what one run leaves, complete or not, the next finds, after edits of the project.
  Copies that are refused or fail are only logged. Correct means: a mutant on the
  list holds its mutation of today's file and nothing else, what was made is found,
  and nothing is overwritten unasked.
- *Configuration and command line.* Errors that are dropped, defaults that
  win over settings, name patterns, and a slice shared by a recursion. Correct
  means: the files mutated are the ones configured, and no failure passes for success.
- *Node roles.* Roles are looked up by name, files are counted per piece, and a file
  or a whole list that cannot be read is passed over.

## Modules

| Module | Models |
| :-- | :-- |
| `MutantStream` | what `mutate` promises: the operators in order, their mutants in order, each once and under its number; a mutant that cannot be saved is left out |
| `MutateWalk` | walker and `mutate`, statement by statement, with rendezvous on `changed` |
| `MutateWalkStream` | the refinement mapping from `MutateWalk` to `MutantStream` |
| `Mutators` | the nine mutators and their helpers over a small AST |
| `MutatorsProofs` | the contract of `Mutation`, proved of these mutators |
| `MCMutateWalk` | `MutateWalk` with these mutators on two Go files |
| `MutateWalkProofs` | theorems about `MutateWalk` and the refinement |
| `TestRunner` | `executeAllMutants` and everything it calls |
| `MCTestRunner` | small projects and lists of mutants |
| `TestRunnerProofs` | theorems about `TestRunner` |
| `NetCapture` | `netcapture.go`: the printing of the roles, then the packet capture |
| `NodeRoles` | the figures of a role: files, lines, addresses, calls; used by `NetCapture` |
| `MCNetCapture` | four roles and three files, one of which cannot be parsed |
| `NetCaptureProofs` | theorems about `NetCapture` and `NodeRoles` |
| `MutantFiles` | the mutant folder over several runs: `mutateFiles` and `mutate` on one side, `findAllMutantsInFolder` on the other |
| `MCMutantFiles` | a project of four files in four directories |
| `MutantFilesProofs` | theorems about `MutantFiles` |
| `Wildcards` | the lists of files of a configuration: expansion, inclusion, exclusion |
| `CommandLine` | `mainCmd`: arguments, configuration, the two phases, the exit code; extends `Wildcards` |
| `MCCommandLine` | a tree of two packages, arguments and configurations |
| `WildcardsProofs` | theorems about the expansion of patterns |
| `CommandLineProofs` | theorems about `CommandLine` |
| `InductionLemmas` | induction over numbers in a form that proofs can cite |

### MutateWalk

`wpc` and `mpc` are the statements the walker and `mutate` are at. `Visit`,
`Change`, `Reset`, `NextMutation`, `NextNode` and `CloseChanged` are the walker's,
`StartOperator`, `SeesClosed`, `Save`, `SaveFails`, `NextID` and
`AllOperatorsDone` are `mutate`'s. A channel operation is one step of both:
`WalkerSends` and `MainSends` ask only that one party stands at *some* send and the
other at *some* receive of the channel, because that is all an unbuffered channel
does; where each goes on is `WalkThen` and `MainThen`. That a message is
never taken for another is therefore a result, not an assumption.

A mutation is the pair of the AST after `Change` and after the `Reset` that
follows. `Reset` writes this second AST back whatever happened in between. That
restoring undoes the change is the contract of `mutator.Mutation`
(`MutatorAssumption`), which TLC evaluates for the repository's mutators on both files
of `MCMutateWalk`. The duplicate branch of `mutate` is not modelled because it
cannot be reached: `mutationBlackList` is a new map for every mutant.

`Mutators` has nodes with a kind, an identity, attributes and children, and
`types.Info` as a function from names. What is left out: positions, comments,
imports, composite literals for selectors of composite type, keywords. `MaxDepth`
bounds the depth of a tree; a file is one of the trees up to it (`Parsed`). The
function `CountWalk`, used by the test helper, is checked to foretell the number
of mutants (`CountAssumption`).

### TestRunner

A file is one path, its content a model value: `Source` (what the project had),
`Dirty` (what a command wrote), `Truncated` (a copy that broke off), `Mutated`,
`Absent`. `cwd` and `original` are the two trees. One copy of a file is one step;
`AferoCopyFile` truncates first, so a failing one leaves the old, an empty or the
new content. A failure at the top ends the copy, one in the subdirectory only
skips the rest of that subdirectory, as `copyFolderContents` does. `Clashing` are the
files whose name the predicate on substrings keeps out of the copy. A command may
overwrite or remove any one file each time it runs. A panic sets `panicking` and goes
through the deferred functions: before the build is done only the restore, after
it the clean-up and then the restore. `Kill` stops everything at any
point, in the middle of a write too, and `Start` runs the program again on what is
there, up to `MaxRuns` times. `MaxFaults` bounds the failing copies.

History variables, not in the code: `project` (the tree a run found) and
`raw` (the exit codes of its test commands).

### MutantFiles

`project` is the version of every file and `removed` the files that are not there; between
two runs `Edit` changes a file or adds it again (`Write`), or takes it away (`Remove`).
`disk` has a directory of subdirectories and files for every name of a mutant, or `NoDir`; both live on from
run to run, everything else is lost when the process ends (`End`). A run begins
with any configuration, with or without `--overwrite`, to mutate or to search.

Mutating: `MutateFile` takes a file from the map (in any order) and makes the list of
its mutations; for each one `copyProject`, `CopyRefused` or `CopyFails`, then
`saveAST`, `NotWritable` or `SaveFails`. A copy goes through the directories in the
order of `Walk`; one that fails or is killed has reached any of its entries and may have
cut off the last file. It deletes nothing, so that an overwritten mutant keeps what the
project no longer has; `OneFileDiffers` is about the files it does have. `FileDoesNotCompile` and `FileIsOutside` are the two other
results of `ParseAndTypeCheckFile`. That each mutation is written once, under its own
number, is what `MutateWalk` shows; here the mutations of a file are a given
sequence (`Mutations`) without repetitions (`OperatorsAssumption`).

Searching: `stack` holds the directories the recursion is in, with the entries
still to come. `createNewMutantInfo` takes a mutant, `Descend` and `FolderSearched` go
down and up, `SearchError` ends the run, and below the first level
`SearchErrorIgnored` leaves the rest of a directory out. The entries of a directory come
in any order, where `ReadDir` sorts them: the model has more behaviours, of which the
code's are some. `getMutatedFileRelativePath` gets the name of the file back as it went
in, which the regular expression does for names of the characters it knows.

One incomplete mutant at the first level thus makes the whole search end in an error, and
one further down hides others in silence. What holds in between is
`MissedOnlyBehindErrors`: a search that hands over had nothing unreadable in the mutant
folder itself, and each mutant it missed is in or below a directory with something
unreadable in it.

`Names` has no slash in front: `appendFolder` and the file system lose it, so that a file
configured in two spellings has two keys and one directory per mutation, which is made
twice. In between the second copy undoes the mutation (or, if it fails, for good), so
`ReportedHoldsMutation` is about such files when the mutants are handed over and nothing
failed (`OneSpelling` is the condition for the rest).

History variables: `before`, `faulty`, `orderly`, `reported`.

### Wildcards and CommandLine

A path is a sequence of pieces; a leading slash is an empty piece in front. Regular
expressions are constants: how many stars a piece has (`Stars`) and which names it lets
through (`Lets`), which includes directories and whatever else an unanchored pattern
matches. `Expand` is `expandWildCardRecursive`. In Go all levels of the recursion write
to one array; `Expand` returns the array with the paths it found, and each directory
visited starts from the array the one before it left.

`CommandLine` goes through `mainCmd` step by step: `checkArguments`, `getConfig`,
`NilConfig` or `consolidateArgsIntoConfig`, `getRelativeAndAbsoluteFiles`, one of the
first phases, one of the second. What a pattern stands for
(`Meant`) is defined piece by piece and without the recursion, and is what the
properties compare the lists with. The phases may fail for reasons of their own, and
`MutatePhase` must fail if a path on the list is no file, and may panic in the walk over
one that is. The exit code 3 stands for any other that the last test command may have had. Completion is modelled as
`checkArguments` reads, although the library may end the process before.

### NodeRoles and NetCapture

`NodeRoles` has the methods of a role as operators. A file is the sequence of its
calls, a ratio a pair, so that 0/0 is a value as in Go (NaN). The main goroutine
reads the roles, prints one per step, and goes on to the capture if asked to.

The capture has three goroutines: main, `ProcessPackets`, gopacket's reader. A packet
is its pair of node strings. `FinishCapture` is the rendezvous of `StopCapture` with
the first case of the `select`; the `default` case changes nothing and is a stuttering
step. `ReceiveNil` is the panic on a closed packet channel. `done` is a history
variable, `MaxPackets` a bound.

## Runs

| Run | Checks | Instance |
| :-- | :-- | :-- |
| `walk_read` | `TypeOK`, `OneMutationPerMutant`, `SourceIntactBetweenMutations`, `MutantNamesDistinct`, `NoWriteWhileSaving`, `MutateReturns`, `RefinesStream` | five operators on a file with a read, an error check with an else branch and a sleep |
| `walk_case` | `OneMutationPerMutant`, `MutateReturns`, `RefinesStream` | five operators on a case clause, a conjunction, an else-if chain |
| `walk_panic` | `NoPanic` is violated | the same file |
| `runner` | `TypeOK`, `BackupIntact`, `RestoredAtEnd`, `KillsLoseNothing`, `CountsMatch`, `RunEnds` | two runs, kills, panics, all three commands, a file at the top and one below, two mutants, one failing copy |
| `runner_mutant` | `TestsSeeMutant` is violated | default test command |
| `runner_lost` | `SourceRecoverable` is violated | one failing copy |
| `runner_verdict` | `KilledOnZero` is violated | custom test command |
| `capture` | `TypeOK`, `CountsExact`, `RolesRight`, `StatsFrozen`, `StopReturns` | four roles; two nodes, four packets, a channel of two |
| `folder` | `TypeOK`, `ReportedHoldsMutation`, `OneFileDiffers`, `FindsWhatWasReported`, `MissedOnlyBehindErrors`, `StatsForEveryMutant`, `RestIsKept` | two runs to mutate or to search, four files, six configurations, one edit or removal, one fault or kill |
| `folder_overwrite` | `ExistingMutantsKept` is violated | two runs to mutate |
| `config` | `TypeOK`, `NothingMadeUp`, `SimplePatternsExact`, `TestsBounded`, `ErrorsStopTheRun` | every combination of flags, twelve patterns and paths to include, nine to exclude, roots with and without a slash, no root, an unreadable file |
| `config_globs` | `WildcardsReplaced` is violated | one pattern with a star for each of two directories |

Why these bounds are enough: the walk has no bound but the file, and two goroutines
that synchronise twice per mutation show every interleaving within two mutations
of two nodes; both files have more, and every mutator offers a
mutation on at least one of them. In `TestRunner` what can go wrong needs one file
at the top, one below, two mutants (one before the panic or the fault and one
after) and two runs (one that leaves a mess and one that finds it). For the
capture, the packet being counted, a full channel and one arriving are four. For
`MutantFiles` two runs are the one that leaves something and the one that finds
it, with an edit in between; the files are one at the top with two mutations
(two names), one in a package, again with two (one mutant behind a half-copied one), one in a directory that is not copied, and one that
the loader leaves out, in a directory that looks like a mutant. `CommandLine` ends
after six steps; its tree has siblings at two levels, which is what the shared array
of the expansion needs to go wrong, and one excluded pattern goes on below a file. The
files of the walk are trees of depth eight at most (`MaxDepth`).

No run needs symmetry. Deadlock is checked in all of them: the steps `Halted`
stand for a program that has ended, and for nothing else.

## Fairness

- `MutateWalk`: weak fairness of the walker, of `mutate` and of the channel. The Go
  scheduler runs every runnable goroutine, and completes a channel operation once
  both parties wait at it. No strong fairness is needed: a party at the channel
  stays there.
- `TestRunner`: weak fairness of the program's own steps. A command of the user has
  none, it may hang; the default test command has, since `go test` gets `-timeout`.
  `RunEnds` says so in its premise: it is about behaviours that leave the commands
  again and again.
- `MutantFiles` and `CommandLine` are sequential and bounded by their input; they
  have safety properties only, and no fairness.
- `NetCapture`: weak fairness of main and of `ProcessPackets`, none of the device.
  `StopReturns` needs no strong fairness for a reason worth knowing: the number of
  packets is bounded in the model. In Go, `select` chooses at random between
  cases that are ready, so that a stop message also gets through an unbounded
  stream with probability one.

## Proofs

`MutateWalkProofs` assumes what `MutateWalk` and `MutateWalkStream` declare: the
operators are registered names that stay distinct after the slash is replaced,
`Reset` undoes `Change` on the parsed file, and `Offset` and `Mutants` describe its
walk. Nothing bounds the file, the operators or the mutations.

- `TypeCorrect`. `TypeOK` is not inductive: the index into `muts` is in range only
  where the walker stands, and `infos` gets its operator from `opi`. The inductive
  invariant `IInv` adds `InStep`, which pairs of `wpc` and `mpc` occur (who waits for
  whom), and `WalkInv`: what `muts` is for the node being visited, and what `ast` is
  at each place, the source between mutations and the change of `muts[mi]` from
  `Change` to `Reset`.
- `SourceIntact` and `SavedUndisturbed` follow from `IInv`; `InStep`
  excludes a write while `mpc = "save"`, and makes `ast` the change at that point.
- `NamesDistinct` adds `InfosInv`: the numbers recorded for the current operator are
  below the next one, no later operator has been recorded, and no operator has
  recorded a number twice. `OneMutation` is carried along in it.
- `Refinement` maps every step to a step of `MutantStream` or to a stutter. It adds
  `NumberInv`: the number of mutants dealt with is `Offset` of the current node plus the
  index of the mutation, which makes the saved mutant the next one of the stream
  and the end of the walk the end of the operator's mutants.

`TestRunnerProofs` assumes the types of the constants and that the contents are
distinct, for any set of files, nested and clashing ones, and any numbers of runs
and faults.

The inductive invariant is `SafeInv`, with one part for each phase of a run.

- `BackupKept`. During the backup, a file at the top that is no longer on the list
  equals what the run found, in `cwd` and in `original`; a failing copy in the
  subdirectory takes only nested files off the list; no command writes `original`.
- `ProjectRestored`. The same for the restore, from the moment `Unwind` puts every
  file that `original` has on the list.
- `KillLosesNothing`. While no copy has failed, a file that is being restored
  still has its copy in `original`, and the copy is removed only when the list is
  empty. With a failing copy the conclusion is false (`runner_lost`).
- `CountsRight`. The counts of a file are compared with `raw` mutant by mutant;
  between the end of a test and the count, the verdict is the one of the last exit code.
  The invariant has what the code does with an unknown code (nothing); the
  property leaves open whether it is a skip.
- `TypeCorrect`. The types, including the bounds on `runs` and `faults`.

`NetCaptureProofs` is about any nodes, channel, number of packets, list of roles and
files.

- `StatsStayFrozen` needs `PhaseInv`: `ProcessPackets` is over once main is past the
  stop message.
- `CountsRight`. `CountsInv` allows for the packet that is counted for its
  sender and not yet for its receiver; `OneMorePacket` is the counting, `Entries` what `Put`
  does to the other nodes.
- `RolesPrinted`. `PrintedInv`: what has been printed are the first roles, in order;
  `OwnInfo`: the search by name ends at the role itself if its name is new;
  `FilesBounded` and `RatioRight` bound the figures of one role.

`MutantFilesProofs` is about any project, tree, configurations, mutations without
repetitions, and any number of runs, edits and faults.

- `DiskStep` splits every step by what it does to the folder: nothing, a copy to the
  current mutant, or a write to its mutated file. `PhaseInv` says what the
  program has in memory in each phase. The theorems rest on these two.
- `MutationsHeld`. `ComingInv`: the mutants still to come are of a file that is off the
  map, and no name of theirs is one of a reported mutant; so nothing reported is
  written to again. Two spellings of a file break it; `AgainInv` then says that as long as
  nothing failed, a reported mutant holds its mutation or is still to be written again.
- `OthersUnmutated`. `FreshInv`: while nothing failed, every directory made in this run,
  and with `--overwrite` every one it was through with, has the project's files beside
  the mutated one.
- `RestKept`. `RestInv` adds that no existing mutant disappears: only then does the
  refusal of `copyRecursive` protect it.
- `StatsComplete`, `TypeCorrect`.

- `MissedExplained` is about any search, whatever the folder is like. `FrameInv`: what
  a frame of the stack has still to do is in its directory. `MissInv`: a mutant that is
  there and asked for has been taken, or is in the names of a frame, or below a directory that
  some frame has still to go to, or behind something unreadable below the first level.
  `Descend` keeps it because the way down from a directory to one in it has a first step
  (`ProjectAssumption`), and `SearchErrorIgnored` because all it leaves out is in or below
  the directory it gives up.
- `SearchComplete`. Between runs, `FolderInv` (the directories a mutant is in were
  made before it) and `OrderlyInv` (as long as all went well, every directory of a mutant
  is a reported mutant with its file); in a search, `SeenInv` (nothing is taken that is not
  there and asked for). With `OrderlyInv` nothing is unreadable, so `MissInv` leaves
  no mutant out.

`WildcardsProofs` is about any tree of directories, any patterns and any paths. It assumes
that the names in a listing are neither empty nor patterns (`TreeAssumption`): the code
takes every name with a star for a pattern. A recursive function says nothing until it is
known to exist, so the first part (`FilterKept`, `VisitsExist`, `Solvable`, `ExpandDef`)
shows that the recursion ends, by induction on the pieces still to come (`Rank`).

- `CallSound` follows the shared array through a call: every piece of it is the one of
  the pattern or a name that agrees with it, whatever the calls before have written. From
  it, `ExpandSound` and `ComesMatches`: a path that is found is a file that the beginning of the
  pattern matches.
- `SimpleComplete`: with one star there is nothing before the star for a call to spoil
  (`OneStar`), and what stands after it is the same for every directory visited
  (`VisitsAll`), so every file the pattern stands for is found. With two stars this
  is false (`config_globs`).

`CommandLineProofs` is about any arguments and configurations with paths of pieces
(`InputsAssumption`). Its invariant is `PhaseInv` (which phases are over), `ConfigInv` (where the
limit on the tests comes from), `PhasesInv` (what a failed mutation leads to) and
`FilesInv` (the lists are expanded exactly once).

- `MadeUp` and `Exact` combine `FilesInv` with the two results on patterns. `NoPatternLeft`:
  what is left of a list beside the files found has no simple pattern in it.
  `Exact` has an exception that the proof brought up: a pattern that goes on below a file,
  such as `main.go/*`, stands for nothing but finds `main.go`, and on the list of
  exclusions it takes this file out. Without the exception TLC finds
  the counterexample in `MCCommandLine`.
- `TypeCorrect`, `Bounded`, `ErrorsStop`.

`MutatorsProofs` proves of the repository's mutators what the walk assumes of its
parameter about `Reset`. `ResetBringsBackTheFile`:
for every parsed file of any depth, every registered mutator and every node, a mutation has
no closures or its `Reset` after its `Change` gives the very file. Trees are cut into
levels (`TreesToDef`), and what a mutator replaces, a list of statements, an
expression or arguments, is put back by induction on the level. Parsed files give each
node its own identity (`Parsed`, evaluated by TLC for both files); a node that occurs twice
would be restored in the wrong place too.

`InductionLemmas` states induction with a set in the place of the library's operator, which a
proof cannot supply.

Every safety property of the passing runs is thereby stated by a theorem. Model-checked
only: the liveness properties (`MutateReturns`, `RunEnds`, `StopReturns`), which need
fairness and `ENABLED`; that `Offset`, `Mutants` and `CountWalk` agree with the tree
(`CountAssumption` and the assumptions of `MCMutateWalk`), a computation TLC does on the two
files; and what becomes of patterns with two stars, beyond that they make up nothing.

## Where code and documentation disagree

Each is a run that ends in a counterexample.

1. `distributed/protocols` offers a mutation without closures for every node, so
   that the program panics at the first one (`walk_panic`).
2. The default test command runs on the unmodified project: the link that should
   put the mutant in place fails, unnoticed (`runner_mutant`).
3. A file that cannot be copied back is lost, because the backup is removed all the
   same (`runner_lost`).
4. The exit codes 0 and 1 of a custom command mean the opposite of what the README
   says (`runner_verdict`).
5. Without `--overwrite`, existing mutants are written to: the refusal is only
   logged (`folder_overwrite`).
6. Patterns with a star for each of two directories are expanded for the
   first directory only (`config_globs`).

Four more were met that no run is about: `exec-timeout` does not apply to a custom
command (`test_runner.go:285`, `main.go:53`), and files whose names overlap with the
mutant folder's are neither saved nor restored (`copy_utils.go:127`).

A mutant whose test command ends with an unknown exit code is a SKIP by the comment in
`determinePassOrFail` (`test_runner.go:358`) and "an unknown exit code" by the README
(`README.md:186`); the code counts it nowhere. `CountsMatch` takes no side: it allows such a
mutant to be counted as skipped or not at all, and never as passed or failed.

One half-copied mutant in the mutant folder itself makes `--no-mutate` end in an error, with
none of the others tested (`test_runner.go:61-64`, `84-86`), while below the first level the
same error is dropped (`test_runner.go:68-72`). No document says which is meant.

## Not modelled

- Decoding of JSON and YAML, the logging set-up, printing and the score: library
  code and output. The network database in `astutil` is called by nothing.
- `go/parser`, the loader and regular expressions are external: the models have
  what they return. The name of the mutated file is recovered from the mutant's by an
  unanchored pattern (`test_runner.go:138-143`); file names with characters it
  does not know are not covered.
- The program is started in the project's root, and the mutant folder is relative to
  it, as the README has it. From elsewhere, or with an absolute folder, other
  directories are copied (`copy_utils.go:15`, `copy_utils.go:72`).
- Failures to make a directory (`MkdirAll`) are panics, which stop the process as `Kill`
  does.
- `Clashing` is empty in the runs of `TestRunner`; the proofs are for any set.
- The counter of duplicates, which is always zero, and the report on tests that kill the
  same mutants (`testsToMutants` is modelled, its printing is not).
- `--custom-test` is an unknown flag, its tag being misspelled (`main.go:55`).
- The test helper, the scripts and the examples.
