----------------------------- MODULE MutantFiles -----------------------------
(***************************************************************************)
(* The mutant folder over several runs of the program: mutateFiles         *)
(* (cmd/mutation-framework/mutate.go) makes one directory per mutant, a    *)
(* copy of the project with one file replaced; with --no-mutate            *)
(* findAllMutantsInFolder (test_runner.go) looks for these directories.    *)
(* Either hands a list of mutants and a table of statistics to             *)
(* executeAllMutants.                                                      *)
(*                                                                         *)
(* The project and the folder live on from run to run. Between two runs    *)
(* the user may edit, remove or add a file; copies and writes may fail;    *)
(* the process may be killed. The program is started in the project's      *)
(* root, and the mutant folder is given relative to it.                    *)
(***************************************************************************)
EXTENDS Integers, Sequences, FiniteSets

CONSTANTS
    Files,        \* files the project may have
    GoFiles,      \* the ones a configuration may name
    Outside,      \* Go files that are not in the package loaded for them
    Dirs, Top,    \* the project's directories, and its root
    Above,        \* a directory and the ones it is in
    Dir,          \* the directory a file is in
    Walk,         \* all of them in the order a copy reaches them
    SkippedDirs,  \* the ones whose name doNotCopyDir refuses
    LikeMutant,   \* the ones whose name matches the pattern of isMutant
    Configs,      \* what the maps of files may be: the sets of their keys
    Mutations,    \* the mutations of a Go file, operator by operator
    Absent, Truncated, NoMutation, NoDir,
    MaxRuns, MaxEdits, MaxFaults  \* bounds; a kill counts as a fault

MutationsOf(f) == {Mutations[f][i] : i \in DOMAIN Mutations[f]}

ASSUME ProjectAssumption ==
    /\ GoFiles \subseteq Files /\ Outside \subseteq GoFiles
    /\ Top \in Dirs /\ SkippedDirs \cup LikeMutant \subseteq Dirs \ {Top}
    /\ Above \in [Dirs -> SUBSET Dirs]
    /\ \A d \in Dirs : {Top, d} \subseteq Above[d]
    \* The way down from a directory to one in it has a first step.
    /\ \A d \in Dirs : \A a \in Above[d] \ {d} : \E e \in Above[d] \ {a} : Above[e] = Above[a] \cup {e}
    /\ Dir \in [Files -> Dirs]
    /\ Walk \in Seq(Dirs \cup Files) /\ Walk[1] = Top
    /\ \A f \in Files : \E i \in DOMAIN Walk : Walk[i] = f
    /\ Configs \subseteq SUBSET [file : GoFiles, slash : BOOLEAN]
    /\ \A f \in GoFiles : Mutations[f] \in Seq(MutationsOf(f))

\* No operator is configured twice.
ASSUME OperatorsAssumption ==
    \A f \in GoFiles : \A i, j \in DOMAIN Mutations[f] :
        Mutations[f][i] = Mutations[f][j] => i = j

ASSUME BoundsAssumption ==
    {MaxRuns, MaxEdits, MaxFaults} \subseteq Nat

returnOk == 0
returnError == 3
Panicked == 2
Killed == -9

\* What a file holds: a version of the project's file, mutated or not.
Source(v) == [version |-> v, mutation |-> NoMutation]
Mutated(v, m) == [version |-> v, mutation |-> m]

\* Paths of Go files as a configuration spells them: with a slash in front?
Keys == [file : GoFiles, slash : BOOLEAN]

\* A directory of a mutant.  The slash in front of a path gets lost when it is
\* appended to the mutant folder.
Names == UNION {[file : {f}, mutation : MutationsOf(f)] : f \in GoFiles}

\* What may be in one.
Contents == [version : Nat, mutation : {NoMutation} \cup UNION {MutationsOf(f) : f \in GoFiles}]
Copies == [dirs : SUBSET Dirs, files : [Files -> Contents \cup {Absent, Truncated}]]

ASSUME NoDirAssumption == NoDir \notin Copies
ASSUME AbsentAssumption == Absent \notin Contents

\* A bug: every mutation gets the name of the first.
NameOfFirst(key, m) == [file |-> key.file, mutation |-> Mutations[key.file][1]]

buildMutantName(key, m) == [file |-> key.file, mutation |-> m]

VARIABLES
    project,    \* the version of every file of the project
    removed,    \* the ones it does not have at present
    broken,     \* the Go files that do not compile, or are not there
    disk,       \* the directories of mutants: subdirectories and files
    folders,    \* the directories made in the mutant folder, Top for itself
    pc,         \* "idle", "file", "copy", "save", "search", "handoff"
    mode,       \* "mutate", or "search" with --no-mutate
    overwrite,  \* config.Mutate.Overwrite
    files,      \* the keys of the map of files
    left,       \* the ones still to be mutated
    todo,       \* the mutations of the current one still to come
    stack,      \* the directories the search is in, with their entries to come
    infos,      \* the []MutantInfo
    stats,      \* the keys of allStats
    status,     \* with what the last run ended
    runs, edits, faults,
    before,     \* history: the directories of mutants as the run found them
    faulty,     \* history: did something fail in this run?
    orderly,    \* history: did every run so far go well?
    reported    \* history: the mutants ever handed over after mutating

user == <<project, removed, broken, edits>>
option == <<mode, overwrite, files, before, runs>>
result == <<infos, stats>>
trouble == <<faults, faulty>>
history == <<orderly, reported>>
vars == <<user, option, disk, folders, pc, left, todo, stack, result, status,
          trouble, history>>

-----------------------------------------------------------------------------
(* Between runs, and the start of one.                                     *)

\* The user changes a file, or adds it again; a Go file may break, or be mended.
Write(f) ==
    /\ project' = [project EXCEPT ![f] = @ + 1]
    /\ removed' = removed \ {f}
    /\ \/ broken' = broken \ {f}
       \/ f \in GoFiles /\ broken' = broken \cup {f}

Remove(f) ==
    /\ f \notin removed
    /\ removed' = removed \cup {f}
    /\ broken' = broken \cup ({f} \cap GoFiles)
    /\ UNCHANGED project

Edit ==
    /\ pc = "idle"
    /\ edits < MaxEdits
    /\ edits' = edits + 1
    /\ \E f \in Files : Write(f) \/ Remove(f)
    /\ UNCHANGED <<option, disk, folders, pc, left, todo, stack, result, status,
                   trouble, history>>

\* What is in a directory of the mutant folder: mutants, other directories.
Entries(d) ==
    [dir   |-> d,
     names |-> {n \in Names : Dir[n.file] = d /\ disk[n] # NoDir},
     dirs  |-> {e \in folders \ {d} : Above[e] = Above[d] \cup {e}}]

Begin(m) ==
    /\ pc = "idle"
    /\ runs < MaxRuns
    /\ runs' = runs + 1
    /\ mode' = m
    /\ overwrite' \in BOOLEAN
    /\ files' \in Configs
    /\ before' = disk
    /\ faulty' = FALSE
    /\ UNCHANGED <<user, disk, folders, todo, result, status, faults, history>>

StartMutating ==
    /\ Begin("mutate")
    /\ left' = files'
    /\ pc' = "file"
    /\ UNCHANGED stack

StartSearching ==
    /\ Begin("search")
    /\ stack' = <<Entries(Top)>>
    /\ pc' = "search"
    /\ UNCHANGED left

\* The process ends; what it had in memory is gone.
End(exit) ==
    /\ pc' = "idle"
    /\ status' = exit
    /\ mode' = "none" /\ overwrite' = FALSE /\ files' = {} /\ before' = disk'
    /\ left' = {} /\ todo' = <<>> /\ stack' = <<>>
    /\ infos' = {} /\ stats' = {}
    /\ faulty' = FALSE
    /\ UNCHANGED <<user, runs>>

-----------------------------------------------------------------------------
(* mutateFiles.                                                            *)

Mutation(k, m) == [key |-> k, mutation |-> m]

\* Bugs: the table has the file's name; there is a new table for every file.
statsByName(k) == stats \cup {k.file}
statsOfLast(k) == {k}

statsWith(k) == stats \cup {k}

createMutantFolderPath(f) == folders \cup Above[Dir[f]]

\* The iteration over the map of files, in any order.
MutateFile ==
    /\ pc = "file"
    /\ \E k \in left :
          /\ k.file \notin broken \cup Outside
          /\ left' = left \ {k}
          /\ todo' = [i \in DOMAIN Mutations[k.file] |-> Mutation(k, Mutations[k.file][i])]
          /\ stats' = statsWith(k)
          /\ folders' = createMutantFolderPath(k.file)
    /\ pc' = "copy"
    /\ UNCHANGED <<user, option, disk, stack, infos, status, trouble, history>>

\* One file that does not compile makes the call return nothing, with the
\* mutants of the files before it on the disk.
FileDoesNotCompile ==
    /\ pc = "file"
    /\ \E k \in left : k.file \in broken
    /\ orderly' = FALSE
    /\ UNCHANGED <<disk, folders, faults, reported>>
    /\ End(returnError)

\* A file the loader leaves out of the package (a test, for one) has no AST:
\* the walker dereferences a nil *ast.File.
FileIsOutside ==
    /\ pc = "file"
    /\ \E k \in left :
          /\ k.file \in Outside \ broken
          /\ folders' = createMutantFolderPath(k.file)
    /\ orderly' = FALSE
    /\ UNCHANGED <<disk, faults, reported>>
    /\ End(Panicked)

FileMutated ==
    /\ pc = "copy"
    /\ todo = <<>>
    /\ pc' = "file"
    /\ UNCHANGED <<user, option, disk, folders, left, todo, stack, result, status,
                   trouble, history>>

AllFilesMutated ==
    /\ pc = "file"
    /\ left = {}
    /\ pc' = "handoff"
    /\ reported' = reported \cup {i.name : i \in infos}
    /\ UNCHANGED <<user, option, disk, folders, left, todo, stack, result, status,
                   trouble, orderly>>

-----------------------------------------------------------------------------
(* mutate: for every mutation a copy of the project, and the mutated file. *)

Name == buildMutantName(Head(todo).key, Head(todo).mutation)

\* What copyRecursive goes through.
CopiedDirs == {d \in Dirs : Above[d] \cap SkippedDirs = {}}
CopiedFiles == {f \in Files \ removed : Dir[f] \in CopiedDirs}

Empty == [dirs |-> {}, files |-> [f \in Files |-> Absent]]
Old == IF disk[Name] = NoDir THEN Empty ELSE disk[Name]

\* A bug: a file that is there already is left alone.
CopyMissingFile(f) == IF Old.files[f] = Absent THEN Source(project[f]) ELSE Old.files[f]

AferoCopyFile(f) == Source(project[f])

\* The copy up to an entry, which may be cut off.  A directory is made before
\* what is in it; nothing that was there is removed.
Copy(n, cut) ==
    LET reached == {Walk[i] : i \in 1..n}
    IN  [dirs  |-> Old.dirs \cup (CopiedDirs \cap reached),
         files |-> [f \in Files |-> IF f \in cut THEN Truncated
                                    ELSE IF f \in CopiedFiles \cap reached THEN AferoCopyFile(f)
                                    ELSE Old.files[f]]]

PartialCopies ==
    UNION {{Copy(n, cut) : cut \in SUBSET (CopiedFiles \cap {Walk[n]})} : n \in 1..Len(Walk)}

\* A bug: the option is not asked for.
AlwaysAllowed == TRUE

Allowed == disk[Name] = NoDir \/ overwrite

\* Overwriting is refused, and the refusal logged.
CopyRefused ==
    /\ pc = "copy"
    /\ todo # <<>>
    /\ ~Allowed
    /\ pc' = "save"
    /\ UNCHANGED <<user, option, disk, folders, left, todo, stack, result, status,
                   trouble, history>>

Copying ==
    /\ pc = "copy"
    /\ todo # <<>>
    /\ Allowed

copyProject ==
    /\ Copying
    /\ disk' = [disk EXCEPT ![Name] = Copy(Len(Walk), {})]
    /\ pc' = "save"
    /\ UNCHANGED <<user, option, folders, left, todo, stack, result, status,
                   trouble, history>>

Fault ==
    /\ faults < MaxFaults
    /\ faults' = faults + 1
    /\ faulty' = TRUE
    /\ orderly' = FALSE

\* An error in the middle of the copy is logged as well.
CopyFails ==
    /\ Copying
    /\ Fault
    /\ \E copy \in {disk[Name]} \cup PartialCopies : disk' = [disk EXCEPT ![Name] = copy]
    /\ pc' = "save"
    /\ UNCHANGED <<user, option, folders, left, todo, stack, result, status, reported>>

MutatedFile == Head(todo).key.file
Writable == disk[Name] # NoDir /\ Dir[MutatedFile] \in disk[Name].dirs

Written(content) == [disk EXCEPT ![Name].files[MutatedFile] = content]

NextMutation ==
    /\ todo' = Tail(todo)
    /\ pc' = "copy"
    /\ UNCHANGED <<user, option, folders, left, stack, stats, status, reported>>

\* The type-checked package comes along.
saveAST ==
    /\ pc = "save"
    /\ Writable
    /\ disk' = Written(Mutated(project[MutatedFile], Head(todo).mutation))
    /\ infos' = infos \cup {[name |-> Name, key |-> Head(todo).key, pkg |-> TRUE]}
    /\ UNCHANGED <<trouble, orderly>>
    /\ NextMutation

\* No directory to write to: not a mutant.
NotWritable ==
    /\ pc = "save"
    /\ ~Writable
    /\ orderly' = FALSE
    /\ UNCHANGED <<disk, infos, trouble>>
    /\ NextMutation

\* The printer, the formatter or the write failed: not a mutant either.
SaveFails ==
    /\ pc = "save"
    /\ Writable
    /\ Fault
    /\ disk' \in {disk, Written(Truncated)}
    /\ UNCHANGED infos
    /\ NextMutation

-----------------------------------------------------------------------------
(* findAllMutantsInFolder.                                                 *)

Here == stack[Len(stack)]
Rest == SubSeq(stack, 1, Len(stack) - 1)

\* isMutant, of an entry that is the directory of a mutant or another one.
isMutant(entry) == entry \in Here.names \cup LikeMutant

\* The key of the mutated file, which never has a slash in front.  The file's
\* name is taken to come out of the directory's name as it went in, as it does
\* if it is made of the characters the pattern (unanchored) knows.
getMutatedFileRelativePath(n) == [file |-> n.file, slash |-> FALSE]

\* getChecksum reads the mutated file, which is missing in an incomplete copy
\* and in a directory that only looks like a mutant.
Readable(entry) == entry \in Here.names /\ disk[entry].files[entry.file] # Absent

\* A bug: the files of the configuration are not looked at.
AcceptAll(k) == TRUE

Acceptable(k) == k \in files

\* The project's file is parsed again; what comes of it is not looked at.
createNewMutantInfo ==
    /\ pc = "search"
    /\ \E n \in Here.names :
          LET k == getMutatedFileRelativePath(n)
          IN  /\ isMutant(n) /\ Readable(n)
              /\ stack' = [stack EXCEPT ![Len(stack)].names = @ \ {n}]
              /\ IF Acceptable(k)
                 THEN /\ infos' = infos \cup {[name |-> n, key |-> k, pkg |-> n.file \notin broken]}
                      /\ stats' = statsWith(k)
                 ELSE UNCHANGED result
    /\ UNCHANGED <<user, option, disk, folders, pc, left, todo, status, trouble, history>>

\* Bugs: an error of the first level is lost as well.
NeverReturned == FALSE

\* Only the error of the first level is returned.
ErrorReturned == Len(stack) = 1

Leave ==
    /\ stack' = Rest
    /\ pc' = IF Rest = <<>> THEN "handoff" ELSE "search"

\* Otherwise the rest of the directory is left out.
SearchErrorIgnored ==
    /\ pc = "search"
    /\ ~ErrorReturned
    /\ \E e \in Here.names \cup Here.dirs : isMutant(e) /\ ~Readable(e)
    /\ Leave
    /\ UNCHANGED <<user, option, disk, folders, left, todo, result, status,
                   trouble, history>>

\* A mutant folder that is not there is an error, too.
SearchError ==
    /\ pc = "search"
    /\ ErrorReturned
    /\ \/ Here.dir \notin folders
       \/ \E e \in Here.names \cup Here.dirs : isMutant(e) /\ ~Readable(e)
    /\ UNCHANGED <<disk, folders, faults, history>>
    /\ End(returnError)

Descend ==
    /\ pc = "search"
    /\ \E d \in Here.dirs :
          /\ ~isMutant(d)
          /\ stack' = Append([stack EXCEPT ![Len(stack)].dirs = @ \ {d}], Entries(d))
    /\ UNCHANGED <<user, option, disk, folders, pc, left, todo, result, status,
                   trouble, history>>

FolderSearched ==
    /\ pc = "search"
    /\ Here.dir \in folders
    /\ Here.names \cup Here.dirs = {}
    /\ Leave
    /\ UNCHANGED <<user, option, disk, folders, left, todo, result, status,
                   trouble, history>>

-----------------------------------------------------------------------------
(* executeAllMutants works on what it was handed: module TestRunner.       *)

Execute ==
    /\ pc = "handoff"
    /\ UNCHANGED <<disk, folders, faults, history>>
    /\ End(returnOk)

\* A copy or a write is cut off.
Kill ==
    /\ pc # "idle"
    /\ faults < MaxFaults
    /\ faults' = faults + 1
    /\ \/ UNCHANGED disk
       \/ Copying /\ \E copy \in PartialCopies : disk' = [disk EXCEPT ![Name] = copy]
       \/ pc = "save" /\ Writable /\ disk' = Written(Truncated)
    /\ orderly' = FALSE
    /\ UNCHANGED <<folders, reported>>
    /\ End(Killed)

Halted ==
    /\ pc = "idle"
    /\ runs = MaxRuns
    /\ UNCHANGED vars

Init ==
    /\ project = [f \in Files |-> 0]
    /\ removed = {} /\ broken = {}
    /\ disk = [n \in Names |-> NoDir]
    /\ folders = {}
    /\ pc = "idle"
    /\ mode = "none" /\ overwrite = FALSE /\ files = {} /\ before = disk
    /\ left = {} /\ todo = <<>> /\ stack = <<>>
    /\ infos = {} /\ stats = {}
    /\ status = returnOk
    /\ runs = 0 /\ edits = 0 /\ faults = 0
    /\ faulty = FALSE /\ orderly = TRUE /\ reported = {}

Mutate ==
    \/ MutateFile \/ FileDoesNotCompile \/ FileIsOutside \/ FileMutated \/ AllFilesMutated
    \/ CopyRefused \/ copyProject \/ CopyFails
    \/ saveAST \/ NotWritable \/ SaveFails

Search ==
    \/ createNewMutantInfo \/ SearchErrorIgnored \/ SearchError
    \/ Descend \/ FolderSearched

Next ==
    \/ Edit \/ StartMutating \/ StartSearching
    \/ Mutate \/ Search \/ Execute \/ Kill \/ Halted

Spec == Init /\ [][Next]_vars
-----------------------------------------------------------------------------
(* Properties.                                                             *)

Frames == [dir : Dirs, names : SUBSET Names, dirs : SUBSET Dirs]
Infos == [name : Names, key : Keys, pkg : BOOLEAN]

TypeOK ==
    /\ project \in [Files -> Nat] /\ removed \subseteq Files /\ broken \subseteq GoFiles
    /\ disk \in [Names -> Copies \cup {NoDir}] /\ before \in [Names -> Copies \cup {NoDir}]
    /\ folders \subseteq Dirs
    /\ pc \in {"idle", "file", "copy", "save", "search", "handoff"}
    /\ mode \in {"none", "mutate", "search"} /\ overwrite \in BOOLEAN
    /\ files \subseteq Keys /\ left \subseteq Keys
    /\ \A i \in DOMAIN todo : todo[i].key \in Keys /\ todo[i].mutation \in MutationsOf(todo[i].key.file)
    /\ stack \in Seq(Frames)
    /\ infos \subseteq Infos /\ stats \subseteq Keys
    /\ status \in {returnOk, returnError, Panicked, Killed}
    /\ runs \in 0..MaxRuns /\ edits \in 0..MaxEdits /\ faults \in 0..MaxFaults
    /\ {faulty, orderly} \subseteq BOOLEAN /\ reported \subseteq Names

\* No file is configured under two spellings.
OneSpelling == \A j, k \in files : j.file = k.file => j = k

\* A mutant that was reported holds its own mutation of the file the project
\* has now, whatever earlier runs, failing copies or kills left in the mutant
\* folder and however many mutants came after it (mutate, buildMutantName).
\* A file configured under two spellings has its mutants made twice, and the
\* second copy undoes the mutation for a while: they are looked at when the
\* mutants are handed over, and if nothing failed.
ReportedHoldsMutation ==
    (mode = "mutate" /\ (OneSpelling \/ (pc = "handoff" /\ ~faulty))) =>
        \A i \in infos :
            disk[i.name].files[i.key.file] = Mutated(project[i.key.file], i.name.mutation)

\* In a run in which nothing failed, a mutant whose directory is new or may be
\* overwritten has all other files of the project as they are now, whatever
\* version of them was there before (copyProject, copyRecursive).  What the
\* project no longer has stays in an old mutant: the copy deletes nothing.
OneFileDiffers ==
    (mode = "mutate" /\ ~faulty) =>
        \A i \in infos : (overwrite \/ before[i.name] = NoDir) =>
            \A f \in CopiedFiles \ {i.key.file} :
                disk[i.name].files[f] = Source(project[f])

\* As long as all went well, the search finds the mutants reported by whatever
\* runs came before, and no others, of the files it is asked for
\* (buildMutantName, isMutant, getMutatedFileRelativePath).
FindsWhatWasReported ==
    (mode = "search" /\ pc = "handoff" /\ orderly /\ folders \cap LikeMutant = {}) =>
        {i.name : i \in infos} = {n \in reported : getMutatedFileRelativePath(n) \in files}

\* What makes the search give up a directory: a mutant whose file is missing,
\* or a directory that only looks like a mutant.
Unreadable(d) ==
    \/ \E n \in Entries(d).names : disk[n].files[n.file] = Absent
    \/ Entries(d).dirs \cap LikeMutant # {}

\* What becomes of the mutants on the disk after kills and failures: a search
\* does not get by anything it cannot read in the mutant folder itself (it ends
\* in an error and finds none of them); a search that hands over misses
\* a mutant only in or below another directory with something it cannot read
\* (findMutantsRecursive drops all errors but those of the first level).
MissedOnlyBehindErrors ==
    (mode = "search" /\ pc = "handoff") =>
        /\ ~Unreadable(Top)
        /\ \A n \in Names :
              (/\ disk[n] # NoDir
               /\ disk[n].files[n.file] # Absent
               /\ getMutatedFileRelativePath(n) \in files)
              => \/ \E i \in infos : i.name = n
                 \/ \E d \in Above[Dir[n.file]] : Unreadable(d)

\* Every mutant handed over has an entry in the table of statistics
\* (executeForMutant dereferences it), under the spelling it was mutated or
\* found with.
StatsForEveryMutant == \A i \in infos : i.key \in stats

\* Without --overwrite nothing in an existing mutant changes but its mutated
\* file, and a search changes nothing (copyRecursive).
RestIsKept ==
    \A n \in Names :
        (~overwrite /\ before[n] # NoDir) =>
            /\ disk[n].dirs = before[n].dirs
            /\ \A f \in Files \ {n.file} : disk[n].files[f] = before[n].files[f]
            /\ mode = "search" => disk[n] = before[n]

\* Existing mutants are overwritten only with --overwrite (main.go: "True if
\* want to overwrite existing mutants in name clash").
ExistingMutantsKept ==
    ~overwrite => \A n \in Names : before[n] # NoDir => disk[n] = before[n]
=============================================================================
