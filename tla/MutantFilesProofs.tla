-------------------------- MODULE MutantFilesProofs --------------------------
(***************************************************************************)
(* Proofs about the mutant folder, for any project, any mutations of its   *)
(* files, any configuration and any number of runs, edits, faults.         *)
(***************************************************************************)
EXTENDS MutantFiles, TLAPS

Items == UNION {[key : {k}, mutation : MutationsOf(k.file)] : k \in Keys}

\* TypeOK in two parts.
DiskOK ==
    /\ project \in [Files -> Nat]
    /\ disk \in [Names -> Copies \cup {NoDir}] /\ before \in [Names -> Copies \cup {NoDir}]
    /\ todo \in Seq(Items)
RunOK ==
    /\ removed \subseteq Files /\ broken \subseteq GoFiles /\ folders \subseteq Dirs
    /\ pc \in {"idle", "file", "copy", "save", "search", "handoff"}
    /\ mode \in {"none", "mutate", "search"} /\ overwrite \in BOOLEAN
    /\ files \subseteq Keys /\ left \subseteq Keys
    /\ stack \in Seq(Frames)
    /\ infos \subseteq Infos /\ stats \subseteq Keys
    /\ status \in {returnOk, returnError, Panicked, Killed}
    /\ runs \in 0..MaxRuns /\ edits \in 0..MaxEdits /\ faults \in 0..MaxFaults
    /\ {faulty, orderly} \subseteq BOOLEAN /\ reported \subseteq Names

\* What the program is doing, and what it has in memory then.
PhaseInv ==
    /\ pc = "idle" => /\ mode = "none" /\ ~overwrite /\ before = disk
                      /\ infos = {} /\ todo = <<>>
    /\ pc \in {"file", "copy", "save"} => mode = "mutate"
    /\ pc = "save" => todo # <<>>
    /\ pc = "search" => mode = "search" /\ stack # <<>>
    /\ mode = "search" => pc \in {"search", "handoff"} /\ before = disk
    /\ mode = "none" => pc = "idle"

-----------------------------------------------------------------------------
(* What happens to the directories of mutants.                             *)

LEMMA NameRight ==
    ASSUME todo \in Seq(Items), todo # <<>>
    PROVE  /\ Name \in Names /\ Name.file = MutatedFile /\ Name.mutation = Head(todo).mutation
           /\ MutatedFile \in GoFiles /\ MutatedFile \in Files
           /\ Head(todo).key \in Keys
<1>1. Head(todo) \in Items
    OBVIOUS
<1>2. PICK k \in Keys : Head(todo) \in [key : {k}, mutation : MutationsOf(k.file)]
    BY <1>1 DEF Items
<1>3. /\ Head(todo).key \in Keys /\ MutatedFile \in GoFiles
      /\ Head(todo).mutation \in MutationsOf(MutatedFile)
    BY <1>2 DEF MutatedFile, Keys
<1>4. Name = [file |-> MutatedFile, mutation |-> Head(todo).mutation]
    BY DEF Name, buildMutantName, MutatedFile
<1>5. Name \in Names
    BY <1>3, <1>4 DEF Names
<1>6. QED
    BY <1>3, <1>4, <1>5, ProjectAssumption

LEMMA CopyType ==
    ASSUME DiskOK, todo # <<>>, NEW n, NEW cut
    PROVE  Copy(n, cut) \in Copies
<1>1. disk[Name] \in Copies \cup {NoDir}
    BY NameRight DEF DiskOK
<1>2. Old \in Copies
    BY <1>1 DEF Old, Empty, Copies
<1>3. Old.dirs \subseteq Dirs /\ Old.files \in [Files -> Contents \cup {Absent, Truncated}]
    BY <1>2 DEF Copies
<1>4. \A f \in Files : AferoCopyFile(f) \in Contents
    BY DEF DiskOK, AferoCopyFile, Source, Contents
<1>5. QED
    BY <1>3, <1>4 DEF Copy, Copies, CopiedDirs

LEMMA WrittenType ==
    ASSUME DiskOK, todo # <<>>, Writable, NEW c \in Contents \cup {Truncated}
    PROVE  /\ Written(c) \in [Names -> Copies \cup {NoDir}]
           /\ \A n \in Names \ {Name} : Written(c)[n] = disk[n]
           /\ Written(c)[Name].dirs = disk[Name].dirs
           /\ \A f \in Files \ {MutatedFile} : Written(c)[Name].files[f] = disk[Name].files[f]
           /\ Written(c)[Name].files[MutatedFile] = c
           /\ Written(c)[Name] # NoDir
<1>1. Name \in Names /\ MutatedFile \in Files
    BY NameRight DEF DiskOK
<1>2. disk[Name] \in Copies
    BY <1>1 DEF DiskOK, Writable
<1>. DEFINE d == disk[Name]
            e == [d EXCEPT !.files[MutatedFile] = c]
<1>3. d \in Copies
    BY <1>2
<1>4. /\ e \in Copies /\ e.dirs = d.dirs /\ e.files[MutatedFile] = c
      /\ \A f \in Files \ {MutatedFile} : e.files[f] = d.files[f]
    <2>. HIDE DEF d
    <2>1. d.files \in [Files -> Contents \cup {Absent, Truncated}] /\ d.dirs \subseteq Dirs
        BY <1>3 DEF Copies
    <2>2. e = [dirs |-> d.dirs, files |-> [d.files EXCEPT ![MutatedFile] = c]]
        BY <1>3 DEF Copies
    <2>3. QED
        BY <1>1, <2>1, <2>2 DEF Copies
<1>5. Written(c) = [disk EXCEPT ![Name] = e]
    BY <1>1 DEF Written, DiskOK
<1>. HIDE DEF e
<1>6. QED
    BY <1>1, <1>4, <1>5, NoDirAssumption DEF DiskOK

\* The three ways in which a step leaves the directories.
Kept == disk' = disk
Copied == Copying /\ \E c \in Copies \cup {disk[Name]} : disk' = [disk EXCEPT ![Name] = c]
Saved ==
    /\ pc = "save" /\ Writable
    /\ \E c \in Contents \cup {Truncated} : disk' = Written(c)

LEMMA PartialCopyType ==
    ASSUME DiskOK, todo # <<>>
    PROVE  PartialCopies \subseteq Copies
<1>1. SUFFICES ASSUME NEW c \in PartialCopies PROVE c \in Copies
    OBVIOUS
<1>2. PICK n \in 1..Len(Walk) : c \in {Copy(n, cut) : cut \in SUBSET (CopiedFiles \cap {Walk[n]})}
    BY <1>1 DEF PartialCopies
<1>3. PICK cut \in SUBSET (CopiedFiles \cap {Walk[n]}) : c = Copy(n, cut)
    BY <1>2
<1>4. QED
    BY <1>3, CopyType

LEMMA MutationType ==
    ASSUME DiskOK, todo # <<>>
    PROVE  Mutated(project[MutatedFile], Head(todo).mutation) \in Contents
<1>1. Name \in Names /\ Name.mutation = Head(todo).mutation /\ MutatedFile \in Files
    BY NameRight DEF DiskOK
<1>2. PICK f \in GoFiles : Name \in [file : {f}, mutation : MutationsOf(f)]
    BY <1>1 DEF Names
<1>3. Head(todo).mutation \in UNION {MutationsOf(g) : g \in GoFiles}
    BY <1>1, <1>2
<1>4. project[MutatedFile] \in Nat
    BY <1>1 DEF DiskOK
<1>5. QED
    BY <1>3, <1>4 DEF Contents, Mutated

LEMMA DiskStep == DiskOK /\ PhaseInv /\ [Next]_vars => Kept \/ Copied \/ Saved
<1>. SUFFICES ASSUME DiskOK, PhaseInv, [Next]_vars PROVE Kept \/ Copied \/ Saved
    OBVIOUS
<1>1. CASE copyProject
    BY <1>1, CopyType DEF copyProject, Copying, Copied
<1>2. CASE CopyFails
    <2>1. Copying /\ PartialCopies \subseteq Copies
        BY <1>2, PartialCopyType DEF CopyFails, Copying
    <2>2. QED
        BY <1>2, <2>1 DEF CopyFails, Copied
<1>3. CASE saveAST
    <2>1. todo # <<>>
        BY <1>3 DEF saveAST, PhaseInv
    <2>2. QED
        BY <1>3, <2>1, MutationType DEF saveAST, Saved
<1>4. CASE SaveFails
    BY <1>4 DEF SaveFails, Saved, Kept
<1>5. CASE Kill
    <2>1. CASE UNCHANGED disk
        BY <2>1 DEF Kept
    <2>2. CASE Copying /\ \E copy \in PartialCopies : disk' = [disk EXCEPT ![Name] = copy]
        <3>1. PartialCopies \subseteq Copies
            BY <2>2, PartialCopyType DEF Copying
        <3>2. QED
            BY <2>2, <3>1 DEF Copied
    <2>3. CASE pc = "save" /\ Writable /\ disk' = Written(Truncated)
        BY <2>3 DEF Saved
    <2>4. QED
        BY <1>5, <2>1, <2>2, <2>3 DEF Kill
<1>6. CASE Edit \/ StartMutating \/ StartSearching
    BY <1>6 DEF Edit, StartMutating, StartSearching, Begin, Kept
<1>7. CASE \/ MutateFile \/ FileDoesNotCompile \/ FileIsOutside \/ FileMutated
           \/ AllFilesMutated \/ CopyRefused \/ NotWritable
    BY <1>7 DEF MutateFile, FileDoesNotCompile, FileIsOutside, FileMutated, AllFilesMutated,
       CopyRefused, NotWritable, Kept
<1>8. CASE Search \/ Execute
    BY <1>8 DEF Search, Execute, createNewMutantInfo, SearchErrorIgnored, SearchError, Descend,
       FolderSearched, Kept
<1>9. CASE UNCHANGED vars
    BY <1>9 DEF vars, Kept
<1>10. QED
    BY <1>1, <1>2, <1>3, <1>4, <1>5, <1>6, <1>7, <1>8, <1>9 DEF Next, Mutate, Halted

\* What the two changes do to one directory.
LEMMA CopiedOne ==
    ASSUME DiskOK, Copied
    PROVE  /\ Name \in Names
           /\ disk' \in [Names -> Copies \cup {NoDir}]
           /\ \A n \in Names \ {Name} : disk'[n] = disk[n]
<1>1. Name \in Names
    BY NameRight DEF Copied, Copying, DiskOK
<1>2. disk[Name] \in Copies \cup {NoDir}
    BY <1>1 DEF DiskOK
<1>3. QED
    BY <1>1, <1>2 DEF Copied, DiskOK

LEMMA SavedOne ==
    ASSUME DiskOK, PhaseInv, Saved
    PROVE  /\ Name \in Names /\ Name.file = MutatedFile
           /\ disk' \in [Names -> Copies \cup {NoDir}]
           /\ \A n \in Names \ {Name} : disk'[n] = disk[n]
           /\ disk[Name] # NoDir /\ disk'[Name] # NoDir
           /\ disk'[Name].dirs = disk[Name].dirs
           /\ \A f \in Files \ {MutatedFile} : disk'[Name].files[f] = disk[Name].files[f]
<1>1. todo # <<>> /\ Writable
    BY DEF Saved, PhaseInv
<1>2. PICK c \in Contents \cup {Truncated} : disk' = Written(c)
    BY DEF Saved
<1>3. QED
    BY <1>1, <1>2, WrittenType, NameRight DEF DiskOK, Writable

-----------------------------------------------------------------------------
(* Types.                                                                  *)

LEMMA FrameReplaced ==
    ASSUME NEW s \in Seq(Frames), s # <<>>, NEW x
    PROVE  /\ s[Len(s)] \in Frames
           /\ [s EXCEPT ![Len(s)].names = @ \ x] \in Seq(Frames)
           /\ [s EXCEPT ![Len(s)].dirs = @ \ x] \in Seq(Frames)
           /\ SubSeq(s, 1, Len(s) - 1) \in Seq(Frames)
           /\ [s EXCEPT ![Len(s)].names = @ \ x] # <<>>
<1>. DEFINE t == s[Len(s)]
            a == [t EXCEPT !.names = @ \ x]
            b == [t EXCEPT !.dirs = @ \ x]
<1>1. t \in Frames
    OBVIOUS
<1>2. a \in Frames /\ b \in Frames
    <2>. HIDE DEF t
    <2>. QED  BY <1>1 DEF Frames
<1>3. [s EXCEPT ![Len(s)].names = @ \ x] = [s EXCEPT ![Len(s)] = a]
      /\ [s EXCEPT ![Len(s)].dirs = @ \ x] = [s EXCEPT ![Len(s)] = b]
    OBVIOUS
<1>. HIDE DEF a, b
<1>4. /\ [s EXCEPT ![Len(s)] = a] \in Seq(Frames) /\ [s EXCEPT ![Len(s)] = b] \in Seq(Frames)
      /\ [s EXCEPT ![Len(s)] = a] # <<>>
    <2>. HIDE DEF t
    <2>. QED  BY <1>2
<1>5. SubSeq(s, 1, Len(s) - 1) \in Seq(Frames)
    <2>. HIDE DEF t
    <2>. QED  OBVIOUS
<1>6. QED
    BY <1>1, <1>3, <1>4, <1>5

LEMMA EntriesType ==
    ASSUME folders \subseteq Dirs, NEW d \in Dirs
    PROVE  Entries(d) \in Frames
BY DEF Entries, Frames

LEMMA DiskInit == Init => DiskOK /\ PhaseInv
BY DEF Init, DiskOK, PhaseInv

LEMMA RunInit == Init => RunOK
<1>. SUFFICES ASSUME Init PROVE RunOK
    OBVIOUS
<1>1. /\ removed = {} /\ broken = {} /\ folders = {} /\ files = {} /\ left = {} /\ stack = <<>>
      /\ pc = "idle" /\ mode = "none" /\ overwrite = FALSE
      /\ infos = {} /\ stats = {} /\ status = returnOk /\ runs = 0 /\ edits = 0 /\ faults = 0
      /\ faulty = FALSE /\ orderly = TRUE /\ reported = {}
    BY DEF Init
<1>2. runs \in 0..MaxRuns /\ edits \in 0..MaxEdits /\ faults \in 0..MaxFaults
    BY <1>1, BoundsAssumption
<1>3. stack \in Seq(Frames)
    BY <1>1
<1>4. QED
    BY <1>1, <1>2, <1>3 DEF RunOK

LEMMA PhaseNext == DiskOK /\ PhaseInv /\ [Next]_vars => PhaseInv'
<1>. SUFFICES ASSUME DiskOK, PhaseInv, [Next]_vars PROVE PhaseInv'
    OBVIOUS
<1>. USE DEF PhaseInv
<1>1. CASE Edit \/ StartMutating
    BY <1>1 DEF Edit, StartMutating, Begin, option, result
<1>2. CASE StartSearching
    <2>1. stack' = <<Entries(Top)>> /\ stack' # <<>>
        BY <1>2 DEF StartSearching
    <2>2. QED
        BY <1>2, <2>1 DEF StartSearching, Begin
<1>3. CASE MutateFile \/ FileMutated \/ AllFilesMutated
    BY <1>3 DEF MutateFile, FileMutated, AllFilesMutated, option
<1>4. CASE CopyRefused \/ copyProject \/ CopyFails
    BY <1>4 DEF CopyRefused, copyProject, CopyFails, Copying, option
<1>5. CASE saveAST \/ NotWritable \/ SaveFails
    BY <1>5 DEF saveAST, NotWritable, SaveFails, NextMutation, option
<1>6. CASE createNewMutantInfo
    <2>1. stack' # <<>>
        <3>1. DOMAIN stack' = DOMAIN stack
            BY <1>6 DEF createNewMutantInfo
        <3>2. stack # <<>>
            BY <1>6 DEF createNewMutantInfo
        <3>3. PICK n : stack' = [stack EXCEPT ![Len(stack)].names = @ \ {n}]
            BY <1>6 DEF createNewMutantInfo
        <3>4. QED
            BY <3>1, <3>2, <3>3
    <2>2. QED
        BY <1>6, <2>1 DEF createNewMutantInfo, option
<1>7. CASE SearchErrorIgnored \/ FolderSearched
    BY <1>7 DEF SearchErrorIgnored, FolderSearched, Leave, option
<1>8. CASE Descend
    <2>1. PICK d : stack' = Append([stack EXCEPT ![Len(stack)].dirs = @ \ {d}], Entries(d))
        BY <1>8 DEF Descend
    <2>2. stack' # <<>>
        BY <2>1
    <2>3. QED
        BY <1>8, <2>2 DEF Descend, option
<1>9. CASE FileDoesNotCompile \/ FileIsOutside \/ SearchError \/ Execute \/ Kill
    BY <1>9 DEF FileDoesNotCompile, FileIsOutside, SearchError, Execute, Kill, End
<1>10. CASE UNCHANGED vars
    BY <1>10 DEF vars, option, result
<1>11. QED
    BY <1>1, <1>2, <1>3, <1>4, <1>5, <1>6, <1>7, <1>8, <1>9, <1>10
       DEF Next, Mutate, Search, Halted

LEMMA ItemsRight ==
    ASSUME NEW k \in Keys
    PROVE  [i \in DOMAIN Mutations[k.file] |-> Mutation(k, Mutations[k.file][i])] \in Seq(Items)
<1>. DEFINE ms == Mutations[k.file]
<1>1. k.file \in GoFiles
    BY DEF Keys
<1>2. ms \in Seq(MutationsOf(k.file))
    BY <1>1, ProjectAssumption
<1>3. \A i \in DOMAIN ms : ms[i] \in MutationsOf(k.file)
    BY DEF MutationsOf
<1>4. \A i \in DOMAIN ms : Mutation(k, ms[i]) \in Items
    BY <1>3 DEF Items, Mutation
<1>. HIDE DEF ms
<1>5. Len(ms) \in Nat /\ DOMAIN ms = 1..Len(ms)
    BY <1>2
<1>6. [i \in DOMAIN ms |-> Mutation(k, ms[i])] \in Seq(Items)
    BY <1>4, <1>5
<1>7. QED
    BY <1>6 DEF ms

Ends == FileDoesNotCompile \/ FileIsOutside \/ SearchError \/ Execute \/ Kill

LEMMA Ended ==
    ASSUME Ends
    PROVE  /\ pc' = "idle" /\ status' \in {returnOk, returnError, Panicked, Killed}
           /\ mode' = "none" /\ overwrite' = FALSE /\ files' = {} /\ before' = disk'
           /\ left' = {} /\ todo' = <<>> /\ stack' = <<>> /\ infos' = {} /\ stats' = {}
           /\ faulty' = FALSE /\ orderly' \in {orderly, FALSE} /\ reported' = reported
           /\ UNCHANGED <<project, removed, broken, edits, runs>>
           /\ faults' = faults \/ (faults < MaxFaults /\ faults' = faults + 1)
<1>1. \E e \in {returnOk, returnError, Panicked, Killed} : End(e)
    BY DEF Ends, FileDoesNotCompile, FileIsOutside, SearchError, Execute, Kill
<1>2. /\ orderly' \in {orderly, FALSE} /\ reported' = reported
      /\ faults' = faults \/ (faults < MaxFaults /\ faults' = faults + 1)
    BY DEF Ends, FileDoesNotCompile, FileIsOutside, SearchError, Execute, Kill, history
<1>3. QED
    BY <1>1, <1>2 DEF End, user

LEMMA Counted ==
    ASSUME NEW max \in Nat, NEW n \in 0..max, n < max
    PROVE  n + 1 \in 0..max
OBVIOUS

LEMMA DiskNext == DiskOK /\ PhaseInv /\ RunOK /\ [Next]_vars => DiskOK'
<1>. SUFFICES ASSUME DiskOK, PhaseInv, RunOK, [Next]_vars PROVE DiskOK'
    OBVIOUS
<1>1. disk' \in [Names -> Copies \cup {NoDir}]
    <2>1. CASE Kept
        BY <2>1 DEF Kept, DiskOK
    <2>2. QED
        BY <2>1, DiskStep, CopiedOne, SavedOne
<1>2. before' \in {before, disk, disk'} /\ project' \in [Files -> Nat] /\ todo' \in Seq(Items)
    <2>1. CASE Edit
        <3>1. PICK f \in Files : project' \in {project, [project EXCEPT ![f] = @ + 1]}
            BY <2>1 DEF Edit, Write, Remove
        <3>2. QED
            BY <2>1, <3>1 DEF Edit, DiskOK, option
    <2>2. CASE StartMutating \/ StartSearching
        BY <2>2 DEF StartMutating, StartSearching, Begin, user, DiskOK
    <2>3. CASE MutateFile
        <3>1. PICK k \in left :
                 todo' = [i \in DOMAIN Mutations[k.file] |-> Mutation(k, Mutations[k.file][i])]
            BY <2>3 DEF MutateFile
        <3>2. todo' \in Seq(Items)
            BY <3>1, ItemsRight DEF RunOK
        <3>3. QED
            BY <2>3, <3>2 DEF MutateFile, DiskOK, user, option
    <2>4. CASE \/ FileMutated \/ AllFilesMutated \/ CopyRefused \/ copyProject \/ CopyFails
               \/ createNewMutantInfo \/ SearchErrorIgnored \/ Descend \/ FolderSearched
        BY <2>4 DEF FileMutated, AllFilesMutated, CopyRefused, copyProject, CopyFails,
           createNewMutantInfo, SearchErrorIgnored, Descend, FolderSearched, DiskOK, user, option
    <2>5. CASE saveAST \/ NotWritable \/ SaveFails
        <3>1. todo # <<>> /\ todo' = Tail(todo)
            BY <2>5 DEF saveAST, NotWritable, SaveFails, NextMutation, PhaseInv
        <3>2. todo' \in Seq(Items)
            BY <3>1 DEF DiskOK
        <3>3. QED
            BY <2>5, <3>2 DEF saveAST, NotWritable, SaveFails, NextMutation, DiskOK, user, option
    <2>6. CASE Ends
        <3>1. before' = disk' /\ todo' = <<>> /\ project' = project
            BY <2>6, Ended
        <3>2. QED
            BY <3>1 DEF DiskOK
    <2>7. CASE UNCHANGED vars
        BY <2>7 DEF vars, DiskOK, user, option
    <2>8. QED
        BY <2>1, <2>2, <2>3, <2>4, <2>5, <2>6, <2>7 DEF Next, Mutate, Search, Halted, Ends
<1>3. QED
    BY <1>1, <1>2 DEF DiskOK

LEMMA RunNext == DiskOK /\ PhaseInv /\ RunOK /\ [Next]_vars => RunOK'
<1>. SUFFICES ASSUME DiskOK, PhaseInv, RunOK, [Next]_vars PROVE RunOK'
    OBVIOUS
<1>0. {returnOk, returnError, Panicked, Killed} = {0, 3, 2, -9}
    BY DEF returnOk, returnError, Panicked, Killed
<1>1. CASE Edit
    <2>1. broken' \subseteq GoFiles /\ removed' \subseteq Files
        BY <1>1 DEF Edit, Write, Remove, RunOK
    <2>2. edits' \in 0..MaxEdits
        BY <1>1, Counted, BoundsAssumption DEF Edit, RunOK
    <2>3. QED
        BY <1>1, <2>1, <2>2 DEF Edit, RunOK, option, result, trouble, history
<1>2. CASE StartMutating \/ StartSearching
    <2>1. PICK m \in {"mutate", "search"} : Begin(m)
        BY <1>2 DEF StartMutating, StartSearching
    <2>2. runs' \in 0..MaxRuns
        BY <2>1, Counted, BoundsAssumption DEF Begin, RunOK
    <2>3. files' \subseteq Keys
        BY <2>1, ProjectAssumption DEF Begin, Keys
    <2>4. left' \subseteq Keys /\ pc' \in {"file", "search"}
        BY <1>2, <2>3 DEF StartMutating, StartSearching, RunOK
    <2>5. stack' \in Seq(Frames)
        <3>1. stack' = stack \/ (stack' = <<Entries(Top)>> /\ Entries(Top) \in Frames)
            BY <1>2, EntriesType, ProjectAssumption DEF StartMutating, StartSearching, RunOK
        <3>2. \A e \in Frames : <<e>> \in Seq(Frames)
            OBVIOUS
        <3>3. CASE stack' = stack
            BY <3>3 DEF RunOK
        <3>4. CASE stack' = <<Entries(Top)>> /\ Entries(Top) \in Frames
            BY <3>2, <3>4
        <3>5. QED
            BY <3>1, <3>3, <3>4
    <2>6. /\ overwrite' \in BOOLEAN /\ faulty' = FALSE /\ mode' = m
          /\ UNCHANGED <<removed, broken, edits, folders, infos, stats, status, faults, orderly, reported>>
        BY <2>1 DEF Begin, user, result, history
    <2>7. QED
        BY <2>2, <2>3, <2>4, <2>5, <2>6 DEF RunOK
<1>3. CASE MutateFile
    <2>1. PICK k \in left : /\ stats' = statsWith(k) /\ left' = left \ {k}
                            /\ folders' = folders \cup Above[Dir[k.file]]
        BY <1>3 DEF MutateFile, createMutantFolderPath
    <2>2. k \in Keys /\ Above[Dir[k.file]] \subseteq Dirs
        BY ProjectAssumption DEF RunOK, Keys
    <2>3. QED
        BY <1>3, <2>1, <2>2
           DEF MutateFile, statsWith, RunOK, user, option, trouble, history
<1>4. CASE FileMutated \/ CopyRefused \/ copyProject \/ SearchErrorIgnored
           \/ FolderSearched \/ NotWritable
    <2>1. Rest \in Seq(Frames) \/ pc # "search"
        BY FrameReplaced DEF Rest, RunOK, PhaseInv
    <2>2. CASE SearchErrorIgnored \/ FolderSearched
        BY <2>1, <2>2 DEF SearchErrorIgnored, FolderSearched, Leave, RunOK, user, option, result,
           trouble, history
    <2>3. QED
        BY <1>4, <2>2 DEF FileMutated, CopyRefused, copyProject, NotWritable,
           NextMutation, RunOK, user, option, result, trouble, history
<1>5. CASE AllFilesMutated
    <2>1. {i.name : i \in infos} \subseteq Names
        BY DEF RunOK, Infos
    <2>2. QED
        BY <1>5, <2>1 DEF AllFilesMutated, RunOK, user, option, result, trouble
<1>6. CASE CopyFails \/ SaveFails
    <2>1. faults' \in 0..MaxFaults /\ faulty' = TRUE /\ orderly' = FALSE
        BY <1>6, Counted, BoundsAssumption DEF CopyFails, SaveFails, Fault, RunOK
    <2>2. UNCHANGED <<user, option, folders, left, stack, infos, stats, status, reported>>
          /\ pc' \in {"copy", "save"}
        BY <1>6 DEF CopyFails, SaveFails, NextMutation, result
    <2>3. QED
        BY <2>1, <2>2 DEF RunOK, user, option
<1>7. CASE saveAST
    <2>1. Name \in Names /\ Head(todo).key \in Keys
        BY <1>7, NameRight DEF saveAST, DiskOK, PhaseInv
    <2>2. [name |-> Name, key |-> Head(todo).key, pkg |-> TRUE] \in Infos
        BY <2>1 DEF Infos
    <2>3. QED
        BY <1>7, <2>2 DEF saveAST, NextMutation, RunOK, user, option, trouble
<1>8. CASE createNewMutantInfo
    <2>1. PICK n \in Here.names :
             LET k == getMutatedFileRelativePath(n)
             IN  /\ stack' = [stack EXCEPT ![Len(stack)].names = @ \ {n}]
                 /\ IF Acceptable(k)
                    THEN /\ infos' = infos \cup {[name |-> n, key |-> k, pkg |-> n.file \notin broken]}
                         /\ stats' = statsWith(k)
                    ELSE UNCHANGED result
        BY <1>8 DEF createNewMutantInfo
    <2>. DEFINE k == getMutatedFileRelativePath(n)
    <2>2. stack # <<>> /\ stack \in Seq(Frames)
        BY <1>8 DEF createNewMutantInfo, PhaseInv, RunOK
    <2>3. Here \in Frames /\ stack' \in Seq(Frames)
        BY <2>1, <2>2, FrameReplaced DEF Here
    <2>4. n \in Names
        BY <2>1, <2>3 DEF Frames
    <2>5. k \in Keys
        BY <2>4 DEF Names, Keys, getMutatedFileRelativePath
    <2>6. [name |-> n, key |-> k, pkg |-> n.file \notin broken] \in Infos
        BY <2>4, <2>5 DEF Infos
    <2>7. infos' \subseteq Infos /\ stats' \subseteq Keys
        BY <2>1, <2>5, <2>6 DEF result, statsWith, RunOK
    <2>8. QED
        BY <1>8, <2>3, <2>7 DEF createNewMutantInfo, RunOK, user, option, trouble, history
<1>9. CASE Descend
    <2>1. PICK d \in Here.dirs :
             stack' = Append([stack EXCEPT ![Len(stack)].dirs = @ \ {d}], Entries(d))
        BY <1>9 DEF Descend
    <2>2. Here \in Frames /\ [stack EXCEPT ![Len(stack)].dirs = @ \ {d}] \in Seq(Frames)
        BY <1>9, FrameReplaced DEF Descend, PhaseInv, RunOK, Here
    <2>3. Entries(d) \in Frames
        BY <2>1, <2>2, EntriesType DEF Frames, RunOK
    <2>4. stack' \in Seq(Frames)
        BY <2>1, <2>2, <2>3
    <2>5. QED
        BY <1>9, <2>4 DEF Descend, RunOK, user, option, result, trouble, history
<1>10. CASE Ends
    <2>1. folders' \subseteq Dirs
        <3>1. CASE FileIsOutside
            <4>1. PICK k \in left : folders' = folders \cup Above[Dir[k.file]]
                BY <3>1 DEF FileIsOutside, createMutantFolderPath
            <4>2. Above[Dir[k.file]] \subseteq Dirs
                BY ProjectAssumption DEF RunOK, Keys
            <4>3. QED
                BY <4>1, <4>2 DEF RunOK
        <3>2. QED
            BY <1>10, <3>1 DEF Ends, FileDoesNotCompile, SearchError, Execute, Kill, RunOK
    <2>2. faults' \in 0..MaxFaults
        BY <1>10, Ended, Counted, BoundsAssumption DEF RunOK
    <2>3. stack' \in Seq(Frames) /\ infos' = {}
        BY <1>10, Ended
    <2>4. QED
        BY <1>10, Ended, <2>1, <2>2, <2>3 DEF RunOK
<1>11. CASE UNCHANGED vars
    BY <1>11 DEF vars, user, option, result, trouble, history, RunOK
<1>12. QED
    BY <1>1, <1>2, <1>3, <1>4, <1>5, <1>6, <1>7, <1>8, <1>9, <1>10, <1>11
       DEF Next, Mutate, Search, Halted, Ends

Always == DiskOK /\ PhaseInv /\ RunOK

LEMMA AlwaysSo == Spec => []Always
<1>1. Init => Always
    BY DiskInit, RunInit DEF Always
<1>2. Always /\ [Next]_vars => Always'
    BY PhaseNext, DiskNext, RunNext DEF Always
<1>3. QED
    BY <1>1, <1>2, PTL DEF Spec

\* The mutant folder and the state of a run keep their types.
THEOREM TypeCorrect == Spec => []TypeOK
<1>1. ASSUME Always, NEW i \in DOMAIN todo
      PROVE  todo[i].key \in Keys /\ todo[i].mutation \in MutationsOf(todo[i].key.file)
    <2>1. todo[i] \in Items
        BY <1>1 DEF Always, DiskOK
    <2>2. QED
        BY <2>1 DEF Items
<1>2. Always => TypeOK
    BY <1>1 DEF Always, DiskOK, RunOK, TypeOK
<1>3. QED
    BY AlwaysSo, <1>2, PTL

-----------------------------------------------------------------------------
(* The table of statistics.                                                *)

StatsInv ==
    /\ \A i \in DOMAIN todo : todo[i].key \in stats
    /\ \A i \in infos : i.key \in stats

\* Every mutant handed over has an entry in the table of statistics.
THEOREM StatsComplete == Spec => []StatsForEveryMutant
<1>1. Init => StatsInv
    BY DEF Init, StatsInv
<1>2. Always /\ StatsInv /\ [Next]_vars => StatsInv'
    <2>. SUFFICES ASSUME Always, StatsInv, [Next]_vars PROVE StatsInv'
        OBVIOUS
    <2>1. CASE MutateFile
        <3>1. PICK k \in left :
                 /\ todo' = [i \in DOMAIN Mutations[k.file] |-> Mutation(k, Mutations[k.file][i])]
                 /\ stats' = stats \cup {k}
            BY <2>1 DEF MutateFile, statsWith
        <3>2. infos' = infos
            BY <2>1 DEF MutateFile
        <3>3. QED
            BY <3>1, <3>2 DEF StatsInv, Mutation
    <2>2. CASE saveAST \/ NotWritable \/ SaveFails
        <3>1. todo # <<>> /\ todo \in Seq(Items) /\ todo' = Tail(todo) /\ stats' = stats
            BY <2>2 DEF saveAST, NotWritable, SaveFails, NextMutation, Always, PhaseInv, DiskOK
        <3>2. /\ Head(todo).key \in stats
              /\ \A i \in DOMAIN Tail(todo) : Tail(todo)[i].key \in stats
            BY <3>1 DEF StatsInv
        <3>3. \A i \in infos' : i \in infos \/ i.key = Head(todo).key
            BY <2>2 DEF saveAST, NotWritable, SaveFails
        <3>4. QED
            BY <3>1, <3>2, <3>3 DEF StatsInv
    <2>3. CASE createNewMutantInfo
        BY <2>3 DEF createNewMutantInfo, StatsInv, statsWith, result
    <2>4. CASE Ends
        BY <2>4, Ended DEF StatsInv
    <2>5. CASE Edit \/ StartMutating \/ StartSearching
        BY <2>5 DEF Edit, StartMutating, StartSearching, Begin, StatsInv, result
    <2>6. CASE UNCHANGED <<todo, infos, stats>>
        BY <2>6 DEF StatsInv
    <2>7. CASE \/ FileMutated \/ AllFilesMutated \/ CopyRefused \/ copyProject \/ CopyFails
               \/ SearchErrorIgnored \/ Descend \/ FolderSearched \/ UNCHANGED vars
        BY <2>6, <2>7 DEF FileMutated, AllFilesMutated, CopyRefused, copyProject, CopyFails,
           SearchErrorIgnored, Descend, FolderSearched, vars, result
    <2>8. QED
        BY <2>1, <2>2, <2>3, <2>4, <2>5, <2>7 DEF Next, Mutate, Search, Halted, Ends
<1>3. StatsInv => StatsForEveryMutant
    BY DEF StatsInv, StatsForEveryMutant
<1>4. QED
    BY AlwaysSo, <1>1, <1>2, <1>3, PTL DEF Spec

-----------------------------------------------------------------------------
(* What earlier runs left.                                                 *)

\* RestIsKept, and no existing mutant disappears.
RestInv ==
    \A n \in Names :
        (~overwrite /\ before[n] # NoDir) =>
            /\ disk[n] # NoDir
            /\ disk[n].dirs = before[n].dirs
            /\ \A f \in Files \ {n.file} : disk[n].files[f] = before[n].files[f]

\* A run without --overwrite changes nothing in an existing mutant but its
\* mutated file, whatever fails and wherever the run is killed.
THEOREM RestKept == Spec => []RestIsKept
<1>1. Init => RestInv
    BY DEF Init, RestInv
<1>2. Always /\ RestInv /\ [Next]_vars => RestInv'
    <2>. SUFFICES ASSUME Always, RestInv, [Next]_vars PROVE RestInv'
        OBVIOUS
    <2>0. DiskOK /\ PhaseInv
        BY DEF Always
    <2>1. CASE before' = disk'
        BY <2>1 DEF RestInv
    <2>2. CASE UNCHANGED <<before, overwrite>>
        <3>1. CASE Kept
            BY <2>2, <3>1 DEF RestInv, Kept
        <3>2. CASE Copied
            <4>1. disk[Name] = NoDir \/ overwrite
                BY <3>2 DEF Copied, Copying, Allowed
            <4>2. \A n \in Names : overwrite \/ disk[n] = NoDir \/ disk'[n] = disk[n]
                BY <2>0, <3>2, <4>1, CopiedOne
            <4>3. QED
                BY <2>2, <4>2 DEF RestInv
        <3>3. CASE Saved
            BY <2>0, <2>2, <3>3, SavedOne DEF RestInv
        <3>4. QED
            BY <2>0, <3>1, <3>2, <3>3, DiskStep
    <2>3. CASE Edit \/ StartMutating \/ StartSearching
        BY <2>1, <2>2, <2>3 DEF Edit, StartMutating, StartSearching, Begin, option
    <2>4. CASE Ends
        BY <2>1, <2>4, Ended
    <2>5. CASE Search \/ UNCHANGED vars \/ AllFilesMutated
        BY <2>2, <2>4, <2>5 DEF Search, Ends, createNewMutantInfo, SearchErrorIgnored, Descend,
           FolderSearched, AllFilesMutated, vars, option
    <2>6. CASE \/ MutateFile \/ FileMutated \/ CopyRefused \/ copyProject \/ CopyFails
               \/ saveAST \/ NotWritable \/ SaveFails
        BY <2>2, <2>6 DEF MutateFile, FileMutated, CopyRefused, copyProject, CopyFails, saveAST,
           NotWritable, SaveFails, NextMutation, option
    <2>7. QED
        BY <2>3, <2>4, <2>5, <2>6 DEF Next, Mutate, Ends, Halted
<1>3. Always /\ RestInv => RestIsKept
    BY DEF Always, PhaseInv, RestInv, RestIsKept
<1>4. QED
    BY AlwaysSo, <1>1, <1>2, <1>3, PTL DEF Spec

-----------------------------------------------------------------------------
(* What a reported mutant holds.                                           *)

Named(item) == buildMutantName(item.key, item.mutation)

\* The mutants to come are of one file, which is not among the files left, and
\* none has the name of a reported one.
ComingInv ==
    /\ left \subseteq files
    /\ \A i \in infos : i.name.file = i.key.file /\ i.key \in files \ left
    /\ \A j \in DOMAIN todo : todo[j].key \in files \ left
    /\ \A j, k \in DOMAIN todo : Named(todo[j]) = Named(todo[k]) => j = k
    /\ OneSpelling => \A i \in infos, j \in DOMAIN todo : i.name # Named(todo[j])

\* ReportedHoldsMutation for files with one spelling, at any time.
OwnMutation ==
    (mode = "mutate" /\ OneSpelling) =>
        \A i \in infos :
            disk[i.name].files[i.key.file] = Mutated(project[i.key.file], i.name.mutation)

HoldsInv ==
    (mode = "mutate" => ComingInv) /\ OwnMutation

LEMMA ComingNext ==
    ASSUME Always, mode = "mutate" => ComingInv, [Next]_vars
    PROVE  mode' = "mutate" => ComingInv'
<1>1. CASE MutateFile
    <2>1. PICK k \in left :
             /\ left' = left \ {k}
             /\ todo' = [i \in DOMAIN Mutations[k.file] |-> Mutation(k, Mutations[k.file][i])]
        BY <1>1 DEF MutateFile
    <2>2. ComingInv /\ infos' = infos /\ files' = files
        BY <1>1 DEF MutateFile, option, Always, PhaseInv
    <2>3. k.file \in GoFiles
        BY DEF Always, RunOK, Keys
    <2>4. DOMAIN todo' = DOMAIN Mutations[k.file]
          /\ \A j \in DOMAIN todo' : todo'[j] = Mutation(k, Mutations[k.file][j])
        BY <2>1
    <2>5. \A j \in DOMAIN todo' : /\ todo'[j].key = k
                                  /\ Named(todo'[j]) = [file |-> k.file, mutation |-> Mutations[k.file][j]]
        <3>1. \A j \in DOMAIN todo' : /\ todo'[j].key = k
                                      /\ todo'[j].mutation = Mutations[k.file][j]
            <4>1. SUFFICES ASSUME NEW j \in DOMAIN todo'
                           PROVE  todo'[j].key = k /\ todo'[j].mutation = Mutations[k.file][j]
                OBVIOUS
            <4>2. todo'[j] = Mutation(k, Mutations[k.file][j])
                BY <2>4
            <4>3. QED
                BY <4>2 DEF Mutation
        <3>2. QED
            BY <3>1 DEF Named, buildMutantName
    <2>6. \A j, l \in DOMAIN todo' : Named(todo'[j]) = Named(todo'[l]) => j = l
        <3>1. SUFFICES ASSUME NEW j \in DOMAIN todo', NEW l \in DOMAIN todo',
                              Named(todo'[j]) = Named(todo'[l])
                       PROVE  j = l
            OBVIOUS
        <3>2. Mutations[k.file][j] = Mutations[k.file][l]
            BY <2>5, <3>1
        <3>3. QED
            BY <2>3, <2>4, <3>1, <3>2, OperatorsAssumption
    <2>7. ASSUME OneSpelling, NEW i \in infos, NEW j \in DOMAIN todo'
          PROVE  i.name # Named(todo'[j])
        <3>1. i.key \in files /\ k \in files /\ i.key # k /\ i.name.file = i.key.file
            BY <2>2 DEF ComingInv
        <3>2. i.name.file # k.file
            BY <2>7, <3>1 DEF OneSpelling
        <3>3. Named(todo'[j]).file = k.file
            BY <2>5
        <3>4. QED
            BY <3>2, <3>3
    <2>8. OneSpelling' = OneSpelling
        BY <2>2 DEF OneSpelling
    <2>9. \A i \in infos : i.key \in files \ left'
        BY <2>1, <2>2 DEF ComingInv
    <2>10. \A j \in DOMAIN todo' : todo'[j].key \in files \ left'
        BY <2>1, <2>2, <2>5 DEF ComingInv
    <2>11. QED
        BY <2>1, <2>2, <2>6, <2>7, <2>8, <2>9, <2>10 DEF ComingInv, Named
<1>2. CASE saveAST \/ NotWritable \/ SaveFails
    <2>1. /\ todo # <<>> /\ todo \in Seq(Items) /\ todo' = Tail(todo)
          /\ ComingInv /\ left' = left /\ files' = files
        BY <1>2 DEF saveAST, NotWritable, SaveFails, NextMutation, option, Always, PhaseInv, DiskOK
    <2>2. \A j \in DOMAIN todo' : j + 1 \in DOMAIN todo /\ todo'[j] = todo[j + 1] /\ j \in Nat \ {0}
        BY <2>1
    <2>3. 1 \in DOMAIN todo /\ todo[1] = Head(todo) /\ Named(todo[1]) = Name
          /\ Name.file = Head(todo).key.file
        BY <2>1 DEF Named, Name, buildMutantName
    <2>4. \A j \in DOMAIN todo' : Named(todo'[j]) # Name
        <3>1. ASSUME NEW j \in DOMAIN todo' PROVE Named(todo[j + 1]) # Named(todo[1])
            BY <2>1, <2>2, <2>3 DEF ComingInv
        <3>2. QED
            BY <2>2, <2>3, <3>1
    <2>5. \A i \in infos' : i \in infos \/ (i.name = Name /\ i.key = Head(todo).key)
        BY <1>2 DEF saveAST, NotWritable, SaveFails
    <2>6. OneSpelling' = OneSpelling
        BY <2>1 DEF OneSpelling
    <2>7. \A i \in infos' : i.name.file = i.key.file /\ i.key \in files \ left
        BY <2>1, <2>3, <2>5 DEF ComingInv
    <2>8. \A j \in DOMAIN todo' : todo'[j].key \in files \ left
        BY <2>1, <2>2 DEF ComingInv
    <2>9. \A j, k \in DOMAIN todo' : Named(todo'[j]) = Named(todo'[k]) => j = k
        <3>1. SUFFICES ASSUME NEW j \in DOMAIN todo', NEW k \in DOMAIN todo',
                              Named(todo'[j]) = Named(todo'[k])
                       PROVE  j = k
            OBVIOUS
        <3>2. j + 1 = k + 1
            BY <2>1, <2>2, <3>1 DEF ComingInv
        <3>3. QED
            BY <2>2, <3>2
    <2>10. OneSpelling => \A i \in infos', j \in DOMAIN todo' : i.name # Named(todo'[j])
        BY <2>1, <2>2, <2>4, <2>5 DEF ComingInv
    <2>11. QED
        BY <2>1, <2>6, <2>7, <2>8, <2>9, <2>10 DEF ComingInv, Named
<1>3. CASE StartMutating
    BY <1>3 DEF StartMutating, Begin, result, Always, PhaseInv, ComingInv
<1>4. CASE UNCHANGED <<mode, files, left, infos, todo>>
    BY <1>4 DEF ComingInv, OneSpelling, Named
<1>5. CASE Ends \/ StartSearching \/ Search
    <2>1. mode' # "mutate"
        BY <1>5, Ended DEF StartSearching, Begin, Search, createNewMutantInfo, SearchErrorIgnored,
           Descend, FolderSearched, Ends, option, Always, PhaseInv
    <2>2. QED
        BY <2>1
<1>6. CASE \/ Edit \/ FileMutated \/ AllFilesMutated \/ CopyRefused \/ copyProject \/ CopyFails
           \/ UNCHANGED vars
    BY <1>4, <1>6 DEF Edit, FileMutated, AllFilesMutated, CopyRefused, copyProject, CopyFails,
       vars, option, result
<1>7. QED
    BY <1>1, <1>2, <1>3, <1>5, <1>6 DEF Next, Mutate, Ends, Halted

\* No name comes twice, so that later mutants are written elsewhere.
LEMMA OneSpellingHolds == Spec => []HoldsInv
<1>1. Init => HoldsInv
    BY DEF Init, HoldsInv, OwnMutation
<1>2. Always /\ HoldsInv /\ [Next]_vars => HoldsInv'
    <2>. SUFFICES ASSUME Always, HoldsInv, [Next]_vars PROVE HoldsInv'
        OBVIOUS
    <2>0. DiskOK /\ PhaseInv /\ (mode' = "mutate" => ComingInv')
        BY ComingNext DEF Always, HoldsInv
    <2>. SUFFICES ASSUME (mode = "mutate")', OneSpelling'
                  PROVE  \A i \in infos' : disk'[i.name].files[i.key.file]
                              = Mutated(project'[i.key.file], i.name.mutation)
        BY <2>0 DEF HoldsInv, OwnMutation
    <2>. DEFINE Held(i) == disk[i.name].files[i.key.file]
                              = Mutated(project[i.key.file], i.name.mutation)
    <2>1. CASE Edit \/ StartMutating \/ StartSearching \/ Ends
        <3>1. infos' = {}
            BY <2>0, <2>1, Ended DEF Edit, StartMutating, StartSearching, Begin, result, PhaseInv
        <3>2. QED
            BY <3>1
    <2>2. CASE Mutate /\ ~Ends
        <3>1. mode = "mutate" /\ files' = files /\ project' = project
            BY <2>0, <2>2 DEF Mutate, Ends, MutateFile, FileMutated, AllFilesMutated, CopyRefused,
               copyProject, CopyFails, Copying, saveAST, NotWritable, SaveFails, NextMutation,
               option, user, PhaseInv
        <3>2. ComingInv /\ OneSpelling /\ \A i \in infos : Held(i)
            BY <3>1 DEF HoldsInv, OwnMutation, OneSpelling
        <3>3. ASSUME NEW i \in infos PROVE Held(i)'
            <4>1. i.name \in Names /\ todo \in Seq(Items)
                BY <3>3, <2>0 DEF Always, RunOK, Infos, DiskOK
            <4>2. todo # <<>> => i.name # Name
                <5>1. todo # <<>> => 1 \in DOMAIN todo /\ Name = Named(todo[1])
                    BY <4>1 DEF Name, Named
                <5>2. QED
                    BY <5>1, <3>2 DEF ComingInv
            <4>3. disk'[i.name] = disk[i.name]
                <5>1. CASE Copied
                    BY <5>1, <2>0, <4>1, <4>2, CopiedOne DEF Copied, Copying
                <5>2. CASE Saved
                    BY <5>2, <2>0, <4>1, <4>2, SavedOne DEF Saved, PhaseInv
                <5>3. QED
                    BY <2>0, <5>1, <5>2, DiskStep DEF Kept
            <4>4. QED
                BY <3>1, <3>2, <4>3
        <3>4. CASE infos' = infos
            BY <3>3, <3>4
        <3>5. CASE saveAST
            <4>. DEFINE new == [name |-> Name, key |-> Head(todo).key, pkg |-> TRUE]
            <4>1. infos' = infos \cup {new}
                BY <3>5 DEF saveAST
            <4>2. /\ disk' = Written(Mutated(project[MutatedFile], Head(todo).mutation))
                  /\ todo # <<>> /\ Writable
                BY <2>0, <3>5 DEF saveAST, PhaseInv
            <4>3. disk'[Name].files[MutatedFile] = Mutated(project[MutatedFile], Head(todo).mutation)
                BY <2>0, <4>2, MutationType, WrittenType
            <4>4. Name.mutation = Head(todo).mutation /\ Head(todo).key.file = MutatedFile
                BY <2>0, <4>2, NameRight DEF DiskOK, MutatedFile
            <4>5. new.name = Name /\ new.key.file = MutatedFile
                BY <4>4
            <4>6. disk'[new.name].files[new.key.file]
                      = Mutated(project'[new.key.file], new.name.mutation)
                BY <3>1, <4>3, <4>4, <4>5
            <4>. HIDE DEF new
            <4>7. QED
                BY <3>3, <4>1, <4>6
        <3>6. QED
            BY <2>2, <3>4, <3>5 DEF Mutate, Ends, MutateFile, FileMutated, AllFilesMutated,
               CopyRefused, copyProject, CopyFails, NotWritable, SaveFails, NextMutation, result
    <2>3. CASE Search
        <3>1. mode' # "mutate"
            BY <2>0, <2>1, <2>3, Ended DEF Search, createNewMutantInfo, SearchErrorIgnored,
               Descend, FolderSearched, Ends, option, PhaseInv
        <3>2. QED
            BY <3>1
    <2>4. CASE UNCHANGED vars
        BY <2>4 DEF vars, user, option, result, HoldsInv, OwnMutation, OneSpelling
    <2>5. QED
        BY <2>1, <2>2, <2>3, <2>4 DEF Next, Ends, Halted
<1>3. QED
    BY AlwaysSo, <1>1, <1>2, PTL DEF Spec

\* With two spellings, and as long as nothing failed: a mutant that was made
\* before can be written again, and will be if the copy undid its mutation.
Holds(i) ==
    disk[i.name].files[i.key.file] = Mutated(project[i.key.file], i.name.mutation)

AgainInv ==
    (mode = "mutate" /\ ~faulty) =>
        \A i \in infos :
            /\ i.name.file = i.key.file
            /\ disk[i.name] # NoDir /\ Dir[i.key.file] \in disk[i.name].dirs
            /\ Holds(i) \/ (pc = "save" /\ i.name = Name)

LEMMA AgainNext == Always /\ AgainInv /\ [Next]_vars => AgainInv'
<1>. SUFFICES ASSUME Always, AgainInv, [Next]_vars, mode' = "mutate", ~faulty',
                     NEW i \in infos'
              PROVE  /\ i.name.file = i.key.file
                     /\ disk'[i.name] # NoDir /\ Dir[i.key.file] \in disk'[i.name].dirs
                     /\ Holds(i)' \/ (pc' = "save" /\ i.name = Name')
    BY DEF AgainInv
<1>0. DiskOK /\ PhaseInv /\ RunOK
    BY DEF Always
<1>1. CASE StartMutating \/ StartSearching
    BY <1>0, <1>1 DEF StartMutating, StartSearching, Begin, result, PhaseInv
<1>2. CASE MutateFile \/ FileMutated \/ AllFilesMutated
    BY <1>2 DEF MutateFile, FileMutated, AllFilesMutated, user, option, result, trouble,
       AgainInv, Holds
<1>3. CASE CopyRefused
    BY <1>3 DEF CopyRefused, user, option, result, trouble, AgainInv, Holds, Name
<1>4. CASE copyProject
    <2>1. /\ UNCHANGED <<mode, project, infos, faulty, todo>> /\ pc = "copy" /\ pc' = "save"
          /\ todo # <<>> /\ disk' = [disk EXCEPT ![Name] = Copy(Len(Walk), {})]
        BY <1>4 DEF copyProject, Copying, user, option, result, trouble
    <2>2. Name' = Name /\ Name \in Names
        BY <1>0, <2>1, NameRight DEF Name, DiskOK
    <2>3. disk'[Name] = Copy(Len(Walk), {}) /\ \A n \in Names \ {Name} : disk'[n] = disk[n]
        BY <1>0, <2>1, <2>2 DEF DiskOK
    <2>4. /\ i.name \in Names /\ i.name.file = i.key.file
          /\ disk[i.name] # NoDir /\ Dir[i.key.file] \in disk[i.name].dirs /\ Holds(i)
        BY <1>0, <2>1 DEF AgainInv, RunOK, Infos
    <2>5. CASE i.name = Name
        <3>1. Dir[i.key.file] \in Copy(Len(Walk), {}).dirs
            BY <2>4, <2>5 DEF Copy, Old
        <3>2. Copy(Len(Walk), {}) # NoDir
            BY <1>0, <2>1, CopyType, NoDirAssumption
        <3>3. QED
            BY <2>1, <2>2, <2>3, <2>4, <2>5, <3>1, <3>2
    <2>6. CASE i.name # Name
        BY <2>1, <2>3, <2>4, <2>6 DEF Holds
    <2>7. QED
        BY <2>5, <2>6
<1>5. CASE saveAST
    <2>. DEFINE content == Mutated(project[MutatedFile], Head(todo).mutation)
                new == [name |-> Name, key |-> Head(todo).key, pkg |-> TRUE]
    <2>1. /\ UNCHANGED <<mode, project, faulty>> /\ pc = "save" /\ pc' = "copy" /\ todo # <<>>
          /\ Writable /\ disk' = Written(content) /\ infos' = infos \cup {new}
        BY <1>0, <1>5 DEF saveAST, NextMutation, user, option, trouble, PhaseInv
    <2>2. /\ Name \in Names /\ Name.file = MutatedFile /\ Head(todo).key.file = MutatedFile
          /\ Name.mutation = Head(todo).mutation
        BY <1>0, <2>1, NameRight DEF DiskOK, MutatedFile
    <2>3. /\ \A n \in Names \ {Name} : disk'[n] = disk[n]
          /\ disk'[Name] # NoDir /\ disk'[Name].dirs = disk[Name].dirs
          /\ disk'[Name].files[MutatedFile] = content
        <3>1. content \in Contents
            BY <1>0, <2>1, MutationType
        <3>. HIDE DEF content
        <3>. QED  BY <1>0, <2>1, <3>1, WrittenType
    <2>4. new.name = Name /\ new.key.file = MutatedFile
        BY <2>2
    <2>5. i \in infos => /\ i.name \in Names /\ i.name.file = i.key.file
                         /\ disk[i.name] # NoDir /\ Dir[i.key.file] \in disk[i.name].dirs
                         /\ Holds(i) \/ i.name = Name
        BY <1>0, <2>1 DEF AgainInv, RunOK, Infos
    <2>6. i = new \/ i \in infos
        BY <2>1
    <2>. HIDE DEF new
    <2>7. CASE i.name = Name
        <3>1. i.key.file = MutatedFile /\ i.name.file = i.key.file
            BY <2>2, <2>4, <2>5, <2>6, <2>7
        <3>2. Dir[MutatedFile] \in disk[Name].dirs
            BY <2>1 DEF Writable
        <3>3. Holds(i)'
            BY <2>1, <2>2, <2>3, <2>7, <3>1 DEF Holds
        <3>4. QED
            BY <2>3, <2>7, <3>1, <3>2, <3>3
    <2>8. CASE i.name # Name
        <3>1. i \in infos
            BY <2>4, <2>6, <2>8
        <3>2. disk'[i.name] = disk[i.name]
            BY <2>3, <2>5, <2>8, <3>1
        <3>3. QED
            BY <2>1, <2>5, <2>8, <3>1, <3>2 DEF Holds
    <2>9. QED
        BY <2>7, <2>8
<1>6. CASE NotWritable
    <2>1. /\ UNCHANGED <<mode, project, infos, faulty, disk>> /\ pc = "save" /\ todo # <<>>
        BY <1>0, <1>6 DEF NotWritable, NextMutation, user, option, trouble, PhaseInv
    <2>2. Name.file = MutatedFile
        BY <1>0, <2>1, NameRight DEF DiskOK
    <2>3. i.name # Name
        BY <1>6, <2>1, <2>2 DEF NotWritable, Writable, AgainInv
    <2>4. QED
        BY <2>1, <2>3 DEF AgainInv, Holds
<1>7. CASE CopyFails \/ SaveFails
    BY <1>7 DEF CopyFails, SaveFails, Fault
<1>8. CASE Edit \/ Ends \/ Search
    BY <1>0, <1>8, Ended DEF Edit, Search, createNewMutantInfo, SearchErrorIgnored,
       Descend, FolderSearched, Ends, option, PhaseInv
<1>9. CASE UNCHANGED vars
    BY <1>9 DEF vars, user, option, result, trouble, AgainInv, Holds, Name
<1>10. QED
    BY <1>1, <1>2, <1>3, <1>4, <1>5, <1>6, <1>7, <1>8, <1>9 DEF Next, Mutate, Ends, Halted

\* A mutant that was reported holds its own mutation of the file the project
\* has now: at any time as long as no file is configured under two spellings,
\* and otherwise when the mutants are handed over, if nothing failed.
THEOREM MutationsHeld == Spec => []ReportedHoldsMutation
<1>1. Init => AgainInv
    BY DEF Init, AgainInv
<1>2. HoldsInv /\ AgainInv => ReportedHoldsMutation
    BY DEF HoldsInv, OwnMutation, AgainInv, Holds, ReportedHoldsMutation
<1>3. QED
    BY AlwaysSo, OneSpellingHolds, <1>1, AgainNext, <1>2, PTL DEF Spec

-----------------------------------------------------------------------------
(* The other files of a mutant.                                            *)

\* Every copied file but the mutated one is as in the project.
Fresh(n) == \A f \in CopiedFiles \ {n.file} : disk[n].files[f] = Source(project[f])

\* As long as nothing failed: what this run made is fresh, with --overwrite all
\* that it was through with.
FreshInv ==
    (mode = "mutate" /\ ~faulty) =>
        /\ \A n \in Names : (before[n] = NoDir /\ disk[n] # NoDir) => Fresh(n)
        /\ (pc = "save" /\ (overwrite \/ before[Name] = NoDir)) => Fresh(Name)
        /\ \A i \in infos : /\ i.name.file = i.key.file
                            /\ (overwrite \/ before[i.name] = NoDir) => Fresh(i.name)

LEMMA FullCopyFresh ==
    ASSUME DiskOK, todo # <<>>, NEW f \in CopiedFiles
    PROVE  Copy(Len(Walk), {}).files[f] = Source(project[f])
<1>1. f \in Files
    BY DEF CopiedFiles
<1>2. PICK i \in DOMAIN Walk : Walk[i] = f
    BY <1>1, ProjectAssumption
<1>3. DOMAIN Walk = 1..Len(Walk)
    BY ProjectAssumption
<1>4. f \in {Walk[j] : j \in 1..Len(Walk)}
    BY <1>2, <1>3
<1>5. QED
    BY <1>1, <1>4 DEF Copy, AferoCopyFile

LEMMA CopiedSubset == CopiedFiles \subseteq Files
BY DEF CopiedFiles

\* A save leaves every directory as fresh as it was.
LEMMA SaveKeepsFresh ==
    ASSUME DiskOK, PhaseInv, Saved, UNCHANGED <<project, removed>>, NEW n \in Names, Fresh(n)
    PROVE  Fresh(n)'
<1>0. CopiedFiles' = CopiedFiles
    BY DEF CopiedFiles, CopiedDirs
<1>1. ASSUME NEW f \in CopiedFiles \ {n.file} PROVE disk'[n].files[f] = disk[n].files[f]
    <2>1. CASE n = Name
        BY <2>1, <1>1, SavedOne, CopiedSubset
    <2>2. CASE n # Name
        BY <2>2, SavedOne
    <2>3. QED
        BY <2>1, <2>2
<1>2. QED
    BY <1>0, <1>1 DEF Fresh

\* In a run in which nothing failed, a mutant whose directory is new or may be
\* overwritten differs from the project in its mutated file only.
THEOREM OthersUnmutated == Spec => []OneFileDiffers
<1>1. Init => FreshInv
    BY DEF Init, FreshInv
<1>2. Always /\ FreshInv /\ [Next]_vars => FreshInv'
    <2>. SUFFICES ASSUME Always, FreshInv, [Next]_vars, mode' = "mutate", ~faulty'
                  PROVE  FreshInv'
        BY DEF FreshInv
    <2>0. DiskOK /\ PhaseInv
        BY DEF Always
    <2>1. CASE StartMutating \/ StartSearching
        <3>1. before' = disk' /\ infos' = {} /\ pc' # "save"
            BY <2>0, <2>1 DEF StartMutating, StartSearching, Begin, result, PhaseInv
        <3>2. QED
            BY <3>1 DEF FreshInv
    <2>2. CASE \/ MutateFile \/ FileMutated \/ AllFilesMutated
        <3>1. /\ UNCHANGED <<mode, disk, before, project, removed, infos, overwrite, faulty>>
              /\ pc' # "save"
            BY <2>2 DEF MutateFile, FileMutated, AllFilesMutated, user, option, result, trouble
        <3>2. QED
            BY <3>1 DEF FreshInv, Fresh, CopiedFiles, CopiedDirs
    <2>3. CASE CopyRefused
        <3>1. /\ UNCHANGED <<mode, disk, before, project, removed, infos, overwrite, faulty, todo>>
              /\ disk[Name] # NoDir /\ ~overwrite /\ Name \in Names
            BY <2>0, <2>3, NameRight
               DEF CopyRefused, Allowed, user, option, result, trouble, DiskOK
        <3>2. Name' = Name
            BY <3>1 DEF Name
        <3>3. QED
            BY <3>1, <3>2 DEF FreshInv, Fresh, CopiedFiles, CopiedDirs
    <2>4. CASE copyProject
        <3>1. /\ UNCHANGED <<mode, before, project, removed, infos, overwrite, faulty, todo>>
              /\ todo # <<>> /\ disk' = [disk EXCEPT ![Name] = Copy(Len(Walk), {})]
            BY <2>4 DEF copyProject, Copying, user, option, result, trouble
        <3>2. Name' = Name /\ Name \in Names
            BY <2>0, <3>1, NameRight DEF Name, DiskOK
        <3>3. disk'[Name] = Copy(Len(Walk), {}) /\ \A n \in Names \ {Name} : disk'[n] = disk[n]
            BY <2>0, <3>1, <3>2 DEF DiskOK
        <3>4. Fresh(Name)'
            BY <2>0, <3>1, <3>2, <3>3, FullCopyFresh DEF Fresh, CopiedFiles, CopiedDirs
        <3>5. \A n \in Names \ {Name} : Fresh(n) => Fresh(n)'
            BY <3>1, <3>3 DEF Fresh, CopiedFiles, CopiedDirs
        <3>6. \A i \in infos : i.name \in Names
            BY DEF Always, RunOK, Infos
        <3>7. QED
            BY <3>1, <3>2, <3>3, <3>4, <3>5, <3>6 DEF FreshInv
    <2>5. CASE saveAST \/ NotWritable
        <3>1. /\ UNCHANGED <<mode, before, project, removed, overwrite, faulty>>
              /\ pc = "save" /\ pc' = "copy" /\ todo # <<>>
            BY <2>0, <2>5 DEF saveAST, NotWritable, NextMutation, user, option, trouble, PhaseInv
        <3>2. Name \in Names /\ Name.file = Head(todo).key.file
            BY <2>0, <3>1, NameRight DEF DiskOK, MutatedFile
        <3>3. Kept \/ Saved
            BY <2>0, <2>5, <3>1, DiskStep DEF Copied, Copying
        <3>4. \A n \in Names : /\ Fresh(n) => Fresh(n)'
                               /\ disk[n] = NoDir => disk'[n] = NoDir
            <4>1. CASE Kept
                BY <3>1, <4>1 DEF Kept, Fresh, CopiedFiles, CopiedDirs
            <4>2. CASE Saved
                BY <2>0, <3>1, <4>2, SaveKeepsFresh, SavedOne
            <4>3. QED
                BY <3>3, <4>1, <4>2
        <3>5. \A i \in infos' : i \in infos \/ (i.name = Name /\ i.key = Head(todo).key)
            BY <2>5 DEF saveAST, NotWritable
        <3>6. \A i \in infos : i.name \in Names
            BY DEF Always, RunOK, Infos
        <3>7. QED
            BY <3>1, <3>2, <3>4, <3>5, <3>6 DEF FreshInv
    <2>6. CASE CopyFails \/ SaveFails
        BY <2>6 DEF CopyFails, SaveFails, Fault
    <2>7. CASE Edit \/ Ends \/ Search
        <3>1. mode' # "mutate"
            BY <2>0, <2>7, Ended DEF Edit, Search, createNewMutantInfo, SearchErrorIgnored,
               Descend, FolderSearched, Ends, option, PhaseInv
        <3>2. QED
            BY <3>1
    <2>8. CASE UNCHANGED vars
        BY <2>8 DEF vars, user, option, result, trouble, FreshInv, Fresh, CopiedFiles, CopiedDirs, Name
    <2>9. QED
        BY <2>1, <2>2, <2>3, <2>4, <2>5, <2>6, <2>7, <2>8 DEF Next, Mutate, Ends, Halted
<1>3. FreshInv => OneFileDiffers
    BY DEF FreshInv, Fresh, OneFileDiffers
<1>4. QED
    BY AlwaysSo, <1>1, <1>2, <1>3, PTL DEF Spec

-----------------------------------------------------------------------------
(* The search for mutants, over the runs that leave them: what it misses    *)
(* lies behind something it cannot read, and as long as all goes well there *)
(* is nothing of the kind.                                                  *)

InfoNames == {i.name : i \in infos}
Sought(n) == getMutatedFileRelativePath(n) \in files
OnDisk(n) == disk[n] # NoDir
HasFile(n) == disk[n].files[n.file] # Absent

-----------------------------------------------------------------------------
(* What runs leave in the mutant folder.                                   *)

\* The directories a mutant is in were made before the mutant.
FolderInv ==
    /\ \A n \in Names : OnDisk(n) => Above[Dir[n.file]] \subseteq folders
    /\ pc \in {"copy", "save"} => \A i \in DOMAIN todo : Above[Dir[todo[i].key.file]] \subseteq folders

\* As long as all went well, every directory of a mutant has been reported, or
\* will be at the end of this run, and has the mutated file.
OrderlyInv ==
    orderly => \A n \in Names :
        /\ OnDisk(n) => \/ n \in reported
                        \/ pc \in {"file", "copy", "save"} /\ n \in InfoNames
                        \/ pc = "save" /\ n = Name
        /\ n \in reported \cup InfoNames => OnDisk(n) /\ HasFile(n)

LEMMA FoldersGrow ==
    ASSUME [Next]_vars
    PROVE  folders \subseteq folders'
<1>1. CASE Edit \/ StartMutating \/ StartSearching
    BY <1>1 DEF Edit, StartMutating, StartSearching, Begin
<1>2. CASE MutateFile \/ FileIsOutside
    BY <1>2 DEF MutateFile, FileIsOutside, createMutantFolderPath
<1>3. CASE FileDoesNotCompile \/ FileMutated \/ AllFilesMutated \/ CopyRefused
           \/ copyProject \/ CopyFails \/ saveAST \/ NotWritable \/ SaveFails
    BY <1>3 DEF FileDoesNotCompile, FileMutated, AllFilesMutated, CopyRefused,
       copyProject, CopyFails, saveAST, NotWritable, SaveFails, NextMutation
<1>4. CASE Search \/ Execute \/ Kill \/ UNCHANGED vars
    BY <1>4 DEF Search, createNewMutantInfo, SearchErrorIgnored, SearchError, Descend,
       FolderSearched, Execute, Kill, vars
<1>5. QED
    BY <1>1, <1>2, <1>3, <1>4 DEF Next, Mutate, Halted

LEMMA FolderInit == Init => FolderInv
BY DEF Init, FolderInv, OnDisk

LEMMA FolderNext == Always /\ FolderInv /\ [Next]_vars => FolderInv'
<1>. SUFFICES ASSUME Always, FolderInv, [Next]_vars PROVE FolderInv'
    OBVIOUS
<1>0. DiskOK /\ PhaseInv /\ RunOK
    BY DEF Always
<1>1. ASSUME NEW n \in Names, OnDisk(n)'
      PROVE  Above[Dir[n.file]] \subseteq folders'
    <2>1. CASE OnDisk(n)
        BY <2>1, FoldersGrow DEF FolderInv
    <2>2. CASE ~OnDisk(n)
        <3>1. Copied /\ n = Name
            BY <1>0, <1>1, <2>2, DiskStep, CopiedOne, SavedOne DEF Kept, OnDisk
        <3>2. pc = "copy" /\ todo # <<>> /\ todo \in Seq(Items)
            BY <1>0, <3>1 DEF Copied, Copying, DiskOK
        <3>3. Name.file = todo[1].key.file /\ 1 \in DOMAIN todo
            BY <3>2, NameRight DEF MutatedFile
        <3>4. QED
            BY <3>1, <3>2, <3>3, FoldersGrow DEF FolderInv
    <2>3. QED
        BY <2>1, <2>2
<1>2. ASSUME pc' \in {"copy", "save"}, NEW i \in DOMAIN todo'
      PROVE  Above[Dir[todo'[i].key.file]] \subseteq folders'
    <2>1. CASE MutateFile
        <3>1. PICK k \in left :
                 /\ todo' = [j \in DOMAIN Mutations[k.file] |-> Mutation(k, Mutations[k.file][j])]
                 /\ folders' = createMutantFolderPath(k.file)
            BY <2>1 DEF MutateFile
        <3>2. todo'[i] = Mutation(k, Mutations[k.file][i])
            BY <1>2, <3>1
        <3>3. todo'[i].key = k
            BY <3>2 DEF Mutation
        <3>4. QED
            BY <3>1, <3>3 DEF createMutantFolderPath
    <2>2. CASE saveAST \/ NotWritable \/ SaveFails
        <3>1. pc = "save" /\ todo' = Tail(todo) /\ todo # <<>> /\ todo \in Seq(Items)
            BY <1>0, <2>2 DEF saveAST, NotWritable, SaveFails, NextMutation, PhaseInv, DiskOK
        <3>2. i + 1 \in DOMAIN todo /\ todo'[i] = todo[i + 1]
            BY <1>2, <3>1
        <3>3. QED
            BY <3>1, <3>2, FoldersGrow DEF FolderInv
    <2>3. CASE CopyRefused \/ copyProject \/ CopyFails \/ UNCHANGED vars
        <3>1. todo' = todo /\ pc \in {"copy", "save"}
            BY <1>2, <2>3 DEF CopyRefused, copyProject, CopyFails, Copying, vars
        <3>2. QED
            BY <1>2, <3>1, FoldersGrow DEF FolderInv
    <2>4. CASE \/ Edit \/ StartMutating \/ StartSearching \/ Search \/ Ends
               \/ FileMutated \/ AllFilesMutated
        <3>1. pc' \notin {"copy", "save"}
            BY <1>0, <2>4, Ended DEF Edit, StartMutating, StartSearching, Search,
               createNewMutantInfo, SearchErrorIgnored, Descend, FolderSearched, Leave, Ends,
               FileMutated, AllFilesMutated
        <3>2. QED
            BY <1>2, <3>1
    <2>5. QED
        BY <2>1, <2>2, <2>3, <2>4 DEF Next, Mutate, Ends, Halted
<1>3. QED
    BY <1>1, <1>2 DEF FolderInv

-----------------------------------------------------------------------------
(* What the search has still before it.                                    *)

\* The search has only seen what is there, and taken what it was asked for.
SeenInv ==
    mode = "search" =>
        /\ \A j \in DOMAIN stack : /\ \A n \in stack[j].names : OnDisk(n)
                                   /\ stack[j].dirs \subseteq folders
        /\ \A i \in infos : OnDisk(i.name) /\ Sought(i.name)

\* The search will come to the mutant: its way down to it goes through
\* a directory the search is in, and on from there.
Pending(n) ==
    \E j \in DOMAIN stack :
        /\ stack[j].dir \in Above[Dir[n.file]]
        /\ \/ n \in stack[j].names
           \/ \E d \in stack[j].dirs : d \in Above[Dir[n.file]]

\* The search knows no entries but those of the directories it is in.
FrameInv ==
    mode = "search" =>
        \A j \in DOMAIN stack : /\ stack[j].names \subseteq Entries(stack[j].dir).names
                                /\ stack[j].dirs \subseteq Entries(stack[j].dir).dirs

Behind(n) == \E d \in Above[Dir[n.file]] : Unreadable(d)

\* What cannot be read stays among the entries still to come.
Stuck(frame) ==
    \/ \E n \in frame.names : ~HasFile(n)
    \/ frame.dirs \cap LikeMutant # {}

\* The first level is on the stack to the end of the search.
MissInv ==
    mode = "search" =>
        /\ Unreadable(Top) => pc = "search" /\ Stuck(stack[1])
        /\ \A n \in Names : (OnDisk(n) /\ HasFile(n) /\ Sought(n)) =>
              n \in InfoNames \/ Behind(n) \/ (pc = "search" /\ Pending(n))

\* An entry of the directory the search is in is dealt with.
LEMMA EntryRemoved ==
    ASSUME NEW s \in Seq(Frames), s # <<>>, NEW x
    PROVE  LET a == [s EXCEPT ![Len(s)].names = @ \ x]
               b == [s EXCEPT ![Len(s)].dirs = @ \ x]
           IN  /\ a \in Seq(Frames) /\ DOMAIN a = DOMAIN s /\ Len(a) = Len(s)
               /\ b \in Seq(Frames) /\ DOMAIN b = DOMAIN s /\ Len(b) = Len(s)
               /\ \A j \in DOMAIN s :
                     /\ a[j].dir = s[j].dir /\ b[j].dir = s[j].dir
                     /\ a[j].dirs = s[j].dirs /\ b[j].names = s[j].names
                     /\ a[j].names = IF j = Len(s) THEN s[j].names \ x ELSE s[j].names
                     /\ b[j].dirs = IF j = Len(s) THEN s[j].dirs \ x ELSE s[j].dirs
<1>. DEFINE t == s[Len(s)]
            f == [t EXCEPT !.names = @ \ x]
            g == [t EXCEPT !.dirs = @ \ x]
            a == [s EXCEPT ![Len(s)].names = @ \ x]
            b == [s EXCEPT ![Len(s)].dirs = @ \ x]
<1>1. t \in Frames
    OBVIOUS
<1>2. /\ f.dir = t.dir /\ g.dir = t.dir
      /\ f.names = t.names \ x /\ f.dirs = t.dirs
      /\ g.names = t.names /\ g.dirs = t.dirs \ x
    <2>. HIDE DEF t
    <2>. QED  BY <1>1 DEF Frames
<1>3. a = [s EXCEPT ![Len(s)] = f] /\ b = [s EXCEPT ![Len(s)] = g]
    OBVIOUS
<1>4. Len(s) \in DOMAIN s /\ DOMAIN a = DOMAIN s /\ DOMAIN b = DOMAIN s
    OBVIOUS
<1>5. a \in Seq(Frames) /\ b \in Seq(Frames)
    BY FrameReplaced
<1>6. Len(a) = Len(s) /\ Len(b) = Len(s)
    <2>. HIDE DEF a, b
    <2>. QED  BY <1>4, <1>5
<1>7. ASSUME NEW j \in DOMAIN s
      PROVE  /\ a[j].dir = s[j].dir /\ b[j].dir = s[j].dir
             /\ a[j].dirs = s[j].dirs /\ b[j].names = s[j].names
             /\ a[j].names = IF j = Len(s) THEN s[j].names \ x ELSE s[j].names
             /\ b[j].dirs = IF j = Len(s) THEN s[j].dirs \ x ELSE s[j].dirs
    <2>1. CASE j = Len(s)
        <3>1. a[j] = f /\ b[j] = g /\ s[j] = t
            <4>. HIDE DEF f, g
            <4>. QED  BY <2>1, <1>3, <1>4
        <3>2. QED
            BY <2>1, <3>1, <1>2
    <2>2. CASE j # Len(s)
        <3>1. a[j] = s[j] /\ b[j] = s[j]
            <4>. HIDE DEF f, g
            <4>. QED  BY <1>7, <2>2, <1>3
        <3>2. QED
            BY <2>2, <3>1
    <2>3. QED
        BY <2>1, <2>2
<1>8. QED
    BY <1>4, <1>5, <1>6, <1>7

LEMMA DirRemoved ==
    ASSUME NEW s \in Seq(Frames), s # <<>>, NEW x
    PROVE  LET b == [s EXCEPT ![Len(s)].dirs = @ \ x]
           IN  /\ b \in Seq(Frames) /\ DOMAIN b = DOMAIN s
               /\ \A j \in DOMAIN s : b[j].dir = s[j].dir /\ b[j].names = s[j].names
               /\ \A j \in DOMAIN s : s[j].dirs \ x \subseteq b[j].dirs
               /\ \A j \in DOMAIN s : b[j].dirs \subseteq s[j].dirs
<1>. DEFINE b == [s EXCEPT ![Len(s)].dirs = @ \ x]
<1>1. /\ b \in Seq(Frames) /\ DOMAIN b = DOMAIN s
      /\ \A j \in DOMAIN s :
            /\ b[j].dir = s[j].dir /\ b[j].names = s[j].names
            /\ b[j].dirs = IF j = Len(s) THEN s[j].dirs \ x ELSE s[j].dirs
    BY EntryRemoved
<1>. HIDE DEF b
<1>2. /\ \A j \in DOMAIN s : s[j].dirs \ x \subseteq b[j].dirs
      /\ \A j \in DOMAIN s : b[j].dirs \subseteq s[j].dirs
    BY <1>1
<1>3. QED
    BY <1>1, <1>2 DEF b

\* The steps of a search, on its own state.
Taken(n) ==
    /\ n \in Here.names /\ Readable(n)
    /\ stack' = [stack EXCEPT ![Len(stack)].names = @ \ {n}]
    /\ pc' = "search"
    /\ IF Sought(n) THEN \E pkg \in BOOLEAN :
             infos' = infos \cup {[name |-> n, key |-> getMutatedFileRelativePath(n), pkg |-> pkg]}
       ELSE infos' = infos
Entered(d) ==
    /\ d \in Here.dirs /\ ~isMutant(d)
    /\ stack' = Append([stack EXCEPT ![Len(stack)].dirs = @ \ {d}], Entries(d))
    /\ pc' = "search" /\ infos' = infos
Left ==
    /\ \/ Here.names \cup Here.dirs = {}
       \/ ~ErrorReturned /\ \E e \in Here.names \cup Here.dirs : isMutant(e) /\ ~Readable(e)
    /\ stack' = Rest
    /\ pc' = IF Rest = <<>> THEN "handoff" ELSE "search"
    /\ infos' = infos

\* Whatever else happens, a search is begun, or over, or goes on.
LEMMA SearchStep ==
    ASSUME Always, [Next]_vars, mode' = "search"
    PROVE  \/ /\ StartSearching /\ stack' = <<Entries(Top)>> /\ infos' = {} /\ pc' = "search"
              /\ UNCHANGED <<disk, folders, orderly, reported>>
           \/ UNCHANGED vars
           \/ /\ pc = "search" /\ mode = "search" /\ stack # <<>> /\ stack \in Seq(Frames)
              /\ UNCHANGED <<disk, folders, orderly, reported, files>>
              /\ Left \/ (\E n \in Here.names : Taken(n)) \/ \E d \in Here.dirs : Entered(d)
<1>0. PhaseInv /\ RunOK
    BY DEF Always
<1>1. CASE StartSearching
    BY <1>0, <1>1 DEF StartSearching, Begin, result, history, PhaseInv
<1>2. CASE createNewMutantInfo
    <2>1. PICK n \in Here.names :
             LET k == getMutatedFileRelativePath(n)
             IN  /\ isMutant(n) /\ Readable(n)
                 /\ stack' = [stack EXCEPT ![Len(stack)].names = @ \ {n}]
                 /\ IF Acceptable(k)
                    THEN /\ infos' = infos \cup {[name |-> n, key |-> k, pkg |-> n.file \notin broken]}
                         /\ stats' = statsWith(k)
                    ELSE UNCHANGED result
        BY <1>2 DEF createNewMutantInfo
    <2>2. pc = "search" /\ pc' = "search" /\ UNCHANGED <<disk, folders, orderly, reported, files>>
        BY <1>2 DEF createNewMutantInfo, option, history
    <2>3. Taken(n)
        BY <2>1, <2>2 DEF Taken, Acceptable, Sought, result
    <2>4. QED
        BY <1>0, <2>1, <2>2, <2>3 DEF PhaseInv, RunOK
<1>3. CASE SearchErrorIgnored \/ FolderSearched
    <2>1. Left
        BY <1>3 DEF SearchErrorIgnored, FolderSearched, Leave, Left, result
    <2>2. pc = "search" /\ UNCHANGED <<disk, folders, orderly, reported, files>>
        BY <1>3 DEF SearchErrorIgnored, FolderSearched, option, history
    <2>3. QED
        BY <1>0, <2>1, <2>2 DEF PhaseInv, RunOK
<1>4. CASE Descend
    <2>1. \E d \in Here.dirs : Entered(d)
        BY <1>4 DEF Descend, Entered, result
    <2>2. pc = "search" /\ UNCHANGED <<disk, folders, orderly, reported, files>>
        BY <1>4 DEF Descend, option, history
    <2>3. QED
        BY <1>0, <2>1, <2>2 DEF PhaseInv, RunOK
<1>5. CASE Ends \/ Edit \/ StartMutating
    BY <1>0, <1>5, Ended DEF Edit, StartMutating, Begin, option, PhaseInv
<1>6. CASE Mutate /\ ~Ends
    BY <1>0, <1>6 DEF Mutate, Ends, MutateFile, FileMutated, AllFilesMutated, CopyRefused,
       copyProject, CopyFails, Copying, saveAST, NotWritable, SaveFails, NextMutation,
       option, PhaseInv
<1>7. CASE UNCHANGED vars
    BY <1>7
<1>8. QED
    BY <1>1, <1>2, <1>3, <1>4, <1>5, <1>6, <1>7 DEF Next, Search, Mutate, Ends, Halted

LEMMA EntriesThere ==
    ASSUME NEW d
    PROVE  /\ \A n \in Entries(d).names : OnDisk(n)
           /\ Entries(d).dirs \subseteq folders
BY DEF Entries, OnDisk

LEMMA SeenInit == Init => SeenInv
BY DEF Init, SeenInv

\* Of a stack of at least one frame the last one is left, or goes.
LEMMA LastFrame ==
    ASSUME NEW s \in Seq(Frames), s # <<>>
    PROVE  /\ Len(s) \in DOMAIN s /\ 1 \in DOMAIN s
           /\ \A j \in DOMAIN SubSeq(s, 1, Len(s) - 1) :
                 j \in DOMAIN s /\ SubSeq(s, 1, Len(s) - 1)[j] = s[j]
           /\ \A j \in DOMAIN s : j # Len(s) =>
                 j \in DOMAIN SubSeq(s, 1, Len(s) - 1) /\ SubSeq(s, 1, Len(s) - 1)[j] = s[j]
           /\ SubSeq(s, 1, Len(s) - 1) = <<>> <=> Len(s) = 1
<1>. DEFINE r == SubSeq(s, 1, Len(s) - 1)
<1>1. Len(s) \in Nat \ {0} /\ DOMAIN s = 1..Len(s)
    OBVIOUS
<1>2. /\ r \in Seq(Frames) /\ Len(r) = Len(s) - 1 /\ DOMAIN r = 1..(Len(s) - 1)
      /\ \A j \in 1..(Len(s) - 1) : r[j] = s[j]
    BY <1>1
<1>3. r = <<>> <=> Len(s) = 1
    <2>. HIDE DEF r
    <2>. QED  BY <1>1, <1>2
<1>4. QED
    BY <1>1, <1>2, <1>3

LEMMA FrameAppended ==
    ASSUME NEW s \in Seq(Frames), NEW e
    PROVE  /\ \A j \in DOMAIN Append(s, e) :
                 \/ j \in DOMAIN s /\ Append(s, e)[j] = s[j]
                 \/ j = Len(s) + 1 /\ Append(s, e)[j] = e
           /\ \A j \in DOMAIN s : j \in DOMAIN Append(s, e) /\ Append(s, e)[j] = s[j]
           /\ Len(s) + 1 \in DOMAIN Append(s, e) /\ Append(s, e)[Len(s) + 1] = e
<1>. DEFINE a == Append(s, e)
<1>1. Len(s) \in Nat /\ DOMAIN s = 1..Len(s) /\ DOMAIN a = 1..(Len(s) + 1)
    OBVIOUS
<1>2. (\A j \in 1..Len(s) : a[j] = s[j]) /\ a[Len(s) + 1] = e
    OBVIOUS
<1>. HIDE DEF a
<1>3. \A j \in DOMAIN a : (j \in DOMAIN s /\ a[j] = s[j]) \/ (j = Len(s) + 1 /\ a[j] = e)
    <2>1. \A n \in Nat : \A j \in 1..(n + 1) : j \in 1..n \/ j = n + 1
        OBVIOUS
    <2>2. QED
        BY <1>1, <1>2, <2>1
<1>4. /\ \A j \in DOMAIN s : j \in DOMAIN a /\ a[j] = s[j]
      /\ Len(s) + 1 \in DOMAIN a
    BY <1>1, <1>2
<1>5. QED
    BY <1>2, <1>3, <1>4 DEF a

LEMMA SeenNext == Always /\ SeenInv /\ [Next]_vars => SeenInv'
<1>. SUFFICES ASSUME Always, SeenInv, [Next]_vars, mode' = "search" PROVE SeenInv'
    BY DEF SeenInv
<1>. DEFINE Seen(frame) == (\A n \in frame.names : OnDisk(n)) /\ frame.dirs \subseteq folders
<1>1. CASE StartSearching /\ stack' = <<Entries(Top)>> /\ infos' = {}
           /\ UNCHANGED <<disk, folders>>
    <2>1. DOMAIN stack' = {1} /\ stack'[1] = Entries(Top)
        BY <1>1
    <2>2. \A j \in DOMAIN stack' : Seen(stack'[j])
        BY <2>1, EntriesThere
    <2>3. QED
        BY <1>1, <2>2 DEF SeenInv, OnDisk
<1>2. CASE UNCHANGED vars
    BY <1>2 DEF vars, option, result, SeenInv, OnDisk, Sought
<1>3. CASE /\ mode = "search" /\ stack # <<>> /\ stack \in Seq(Frames)
           /\ UNCHANGED <<disk, folders, files>>
           /\ Left \/ (\E n \in Here.names : Taken(n)) \/ \E d \in Here.dirs : Entered(d)
    <2>1. /\ \A j \in DOMAIN stack : Seen(stack[j])
          /\ \A i \in infos : OnDisk(i.name) /\ Sought(i.name)
        BY <1>3 DEF SeenInv
    <2>2. CASE Left
        <3>1. \A j \in DOMAIN stack' : Seen(stack'[j])
            BY <1>3, <2>1, <2>2, LastFrame DEF Left, Rest
        <3>2. QED
            BY <1>3, <2>1, <2>2, <3>1 DEF Left, SeenInv, OnDisk, Sought
    <2>3. ASSUME NEW n \in Here.names, Taken(n) PROVE SeenInv'
        <3>1. OnDisk(n)
            BY <1>3, <2>1, LastFrame DEF Here
        <3>2. \A j \in DOMAIN stack' : Seen(stack'[j])
            BY <1>3, <2>1, <2>3, EntryRemoved DEF Taken
        <3>3. \A i \in infos' : OnDisk(i.name) /\ Sought(i.name)
            BY <2>1, <2>3, <3>1 DEF Taken
        <3>4. QED
            BY <1>3, <3>2, <3>3 DEF SeenInv, OnDisk, Sought
    <2>4. ASSUME NEW d \in Here.dirs, Entered(d) PROVE SeenInv'
        <3>. DEFINE s == [stack EXCEPT ![Len(stack)].dirs = @ \ {d}]
        <3>1. /\ s \in Seq(Frames) /\ DOMAIN s = DOMAIN stack
              /\ \A j \in DOMAIN stack :
                    /\ s[j].names = stack[j].names
                    /\ s[j].dirs = IF j = Len(stack) THEN stack[j].dirs \ {d} ELSE stack[j].dirs
            BY <1>3, EntryRemoved
        <3>2. stack' = Append(s, Entries(d))
            BY <2>4 DEF Entered
        <3>3. \A j \in DOMAIN stack' : Seen(stack'[j])
            <4>. HIDE DEF s
            <4>1. \A j \in DOMAIN s : Seen(s[j])
                BY <2>1, <3>1
            <4>. QED  BY <3>1, <3>2, <4>1, EntriesThere, FrameAppended
        <3>4. QED
            BY <1>3, <2>1, <2>4, <3>3 DEF Entered, SeenInv, OnDisk, Sought
    <2>5. QED
        BY <1>3, <2>2, <2>3, <2>4
<1>4. QED
    BY <1>1, <1>2, <1>3, SearchStep

-----------------------------------------------------------------------------
(* As long as all goes well.                                               *)

LEMMA OrderlyInit == Init => OrderlyInv
BY DEF Init, OrderlyInv, OnDisk, InfoNames

LEMMA OrderlyNext == Always /\ SeenInv /\ OrderlyInv /\ [Next]_vars => OrderlyInv'
<1>. SUFFICES ASSUME Always, SeenInv, OrderlyInv, [Next]_vars, orderly' PROVE OrderlyInv'
    BY DEF OrderlyInv
<1>0. DiskOK /\ PhaseInv /\ RunOK
    BY DEF Always
<1>. DEFINE Accounted(n) == \/ n \in reported
                            \/ pc \in {"file", "copy", "save"} /\ n \in InfoNames
                            \/ pc = "save" /\ n = Name
            Whole(n) == OnDisk(n) /\ HasFile(n)
<1>1. CASE Edit \/ StartMutating \/ StartSearching
    <2>1. /\ orderly /\ pc = "idle" /\ infos = {} /\ infos' = {}
          /\ UNCHANGED <<disk, reported>>
        BY <1>0, <1>1 DEF Edit, StartMutating, StartSearching, Begin, result, history, PhaseInv
    <2>2. QED
        BY <2>1 DEF OrderlyInv, OnDisk, HasFile, InfoNames
<1>2. CASE MutateFile \/ FileMutated
    <2>1. /\ orderly /\ pc \in {"file", "copy"} /\ pc' \in {"file", "copy"}
          /\ UNCHANGED <<disk, reported, infos>>
        BY <1>2 DEF MutateFile, FileMutated, result, history
    <2>2. QED
        BY <2>1 DEF OrderlyInv, OnDisk, HasFile, InfoNames
<1>3. CASE AllFilesMutated
    <2>1. /\ orderly /\ pc = "file" /\ UNCHANGED <<disk, infos>>
          /\ reported' = reported \cup InfoNames
        BY <1>3 DEF AllFilesMutated, result, InfoNames
    <2>2. QED
        BY <2>1 DEF OrderlyInv, OnDisk, HasFile, InfoNames
<1>4. CASE CopyRefused
    <2>1. /\ orderly /\ pc = "copy" /\ pc' = "save" /\ UNCHANGED <<disk, infos, reported>>
        BY <1>4 DEF CopyRefused, result, history
    <2>2. QED
        BY <2>1 DEF OrderlyInv, OnDisk, HasFile, InfoNames
<1>5. CASE copyProject
    <2>. DEFINE new == Copy(Len(Walk), {})
    <2>1. /\ orderly /\ pc = "copy" /\ pc' = "save" /\ UNCHANGED <<infos, reported, todo>>
          /\ todo # <<>> /\ disk' = [disk EXCEPT ![Name] = new]
        BY <1>5 DEF copyProject, Copying, result, history
    <2>2. Name' = Name /\ Name \in Names /\ Name.file \in Files
        BY <1>0, <2>1, NameRight DEF Name, DiskOK
    <2>3. disk'[Name] = new /\ \A n \in Names \ {Name} : disk'[n] = disk[n]
        BY <1>0, <2>1, <2>2 DEF DiskOK
    <2>4. new # NoDir
        BY <1>0, <2>1, CopyType, NoDirAssumption
    <2>5. Whole(Name) => new.files[Name.file] # Absent
        <3>1. new.files[Name.file] \in {AferoCopyFile(Name.file), Old.files[Name.file]}
            BY <2>2 DEF Copy
        <3>2. AferoCopyFile(Name.file) # Absent
            BY <1>0, <2>2, AbsentAssumption DEF AferoCopyFile, Source, Contents, DiskOK
        <3>3. OnDisk(Name) => Old = disk[Name]
            BY DEF Old, OnDisk
        <3>4. QED
            BY <3>1, <3>2, <3>3 DEF HasFile
    <2>6. \A n \in Names : Accounted(n)' \/ ~OnDisk(n)'
        BY <2>1, <2>2, <2>3 DEF OrderlyInv, OnDisk, InfoNames
    <2>7. ASSUME NEW n \in Names, n \in reported \cup InfoNames PROVE Whole(n)'
        BY <2>1, <2>3, <2>4, <2>5, <2>7 DEF OrderlyInv, OnDisk, HasFile
    <2>8. InfoNames' = InfoNames
        BY <2>1 DEF InfoNames
    <2>9. QED
        BY <2>1, <2>6, <2>7, <2>8 DEF OrderlyInv
<1>6. CASE saveAST
    <2>. DEFINE content == Mutated(project[MutatedFile], Head(todo).mutation)
                new == [name |-> Name, key |-> Head(todo).key, pkg |-> TRUE]
    <2>1. /\ orderly /\ pc = "save" /\ pc' = "copy" /\ todo # <<>> /\ Writable
          /\ reported' = reported /\ infos' = infos \cup {new} /\ disk' = Written(content)
        BY <1>0, <1>6 DEF saveAST, NextMutation, PhaseInv
    <2>2. content \in Contents
        BY <1>0, <2>1, MutationType
    <2>3. Name \in Names /\ Name.file = MutatedFile
        BY <1>0, <2>1, NameRight DEF DiskOK
    <2>4. /\ \A n \in Names \ {Name} : disk'[n] = disk[n]
          /\ disk'[Name] # NoDir /\ disk'[Name].files[MutatedFile] = content
        <3>. HIDE DEF content
        <3>. QED  BY <1>0, <2>1, <2>2, WrittenType
    <2>5. InfoNames' = InfoNames \cup {Name}
        <3>1. new.name = Name
            OBVIOUS
        <3>. HIDE DEF new
        <3>. QED  BY <2>1, <3>1 DEF InfoNames
    <2>6. ASSUME NEW n \in Names, OnDisk(n)' PROVE n \in reported \/ n \in InfoNames'
        BY <2>1, <2>4, <2>5, <2>6 DEF OrderlyInv, OnDisk
    <2>7. content # Absent
        BY <2>2, AbsentAssumption
    <2>8. ASSUME NEW n \in Names, n \in reported \cup InfoNames' PROVE Whole(n)'
        <3>1. CASE n = Name
            BY <2>3, <2>4, <2>7, <3>1 DEF OnDisk, HasFile
        <3>2. CASE n # Name
            BY <2>1, <2>4, <2>5, <2>8, <3>2 DEF OrderlyInv, OnDisk, HasFile
        <3>3. QED
            BY <3>1, <3>2
    <2>9. QED
        BY <2>1, <2>6, <2>8 DEF OrderlyInv
<1>7. CASE CopyFails \/ NotWritable \/ SaveFails \/ Kill \/ FileDoesNotCompile \/ FileIsOutside
    BY <1>7 DEF CopyFails, NotWritable, SaveFails, Fault, Kill, FileDoesNotCompile, FileIsOutside
<1>8. CASE SearchError \/ Execute
    <2>1. /\ orderly /\ pc \in {"search", "handoff"} /\ infos' = {} /\ pc' = "idle"
          /\ UNCHANGED <<disk, reported>>
        BY <1>8, Ended DEF SearchError, Execute, Ends, history
    <2>2. QED
        BY <2>1 DEF OrderlyInv, OnDisk, HasFile, InfoNames
<1>9. CASE createNewMutantInfo \/ SearchErrorIgnored \/ Descend \/ FolderSearched
    <2>1. pc = "search" /\ mode = "search" /\ mode' = "search"
        BY <1>0, <1>9 DEF createNewMutantInfo, SearchErrorIgnored, Descend, FolderSearched,
           option, PhaseInv
    <2>2. orderly /\ UNCHANGED <<disk, reported>>
        BY <1>9 DEF createNewMutantInfo, SearchErrorIgnored, Descend, FolderSearched, history
    <2>3. \A n \in InfoNames' : Whole(n)
        <3>1. \A n \in InfoNames \cap Names : Whole(n)
            BY <2>2 DEF OrderlyInv
        <3>2. InfoNames \subseteq Names
            BY <1>0 DEF RunOK, Infos, InfoNames
        <3>3. CASE infos' = infos
            BY <3>1, <3>2, <3>3 DEF InfoNames
        <3>4. ASSUME NEW n \in Here.names, Taken(n) PROVE \A m \in InfoNames' : Whole(m)
            <4>1. OnDisk(n)
                BY <1>0, <2>1, <3>4, LastFrame DEF SeenInv, Here, PhaseInv, RunOK
            <4>2. HasFile(n)
                BY <3>4 DEF Taken, Readable, HasFile
            <4>3. InfoNames' \subseteq InfoNames \cup {n}
                BY <3>4 DEF Taken, InfoNames
            <4>4. QED
                BY <3>1, <3>2, <4>1, <4>2, <4>3
        <3>5. QED
            BY <2>1, <3>3, <3>4, SearchStep DEF Left, Entered, StartSearching, Begin, vars, result
    <2>4. \A n \in Names : OnDisk(n) => n \in reported
        BY <2>1, <2>2 DEF OrderlyInv
    <2>5. QED
        BY <2>2, <2>3, <2>4 DEF OrderlyInv, OnDisk, HasFile
<1>10. CASE UNCHANGED vars
    BY <1>10 DEF vars, result, history, OrderlyInv, OnDisk, HasFile, InfoNames, Name
<1>11. QED
    BY <1>1, <1>2, <1>3, <1>4, <1>5, <1>6, <1>7, <1>8, <1>9, <1>10
       DEF Next, Mutate, Search, Halted

-----------------------------------------------------------------------------
(* The search comes to all mutants.                                        *)

\* From a directory the search goes on towards every mutant below it.
LEMMA OnTheWay ==
    ASSUME NEW n \in Names, OnDisk(n), Above[Dir[n.file]] \subseteq folders,
           NEW d \in Above[Dir[n.file]]
    PROVE  \/ n \in Entries(d).names
           \/ \E e \in Entries(d).dirs : e \in Above[Dir[n.file]]
<1>1. n.file \in GoFiles
    BY DEF Names
<1>2. Dir[n.file] \in Dirs
    BY <1>1, ProjectAssumption
<1>3. CASE d = Dir[n.file]
    BY <1>3 DEF Entries, OnDisk
<1>4. CASE d # Dir[n.file]
    <2>1. PICK e \in Above[Dir[n.file]] \ {d} : Above[e] = Above[d] \cup {e}
        BY <1>2, <1>4, ProjectAssumption
    <2>2. e \in Entries(d).dirs
        BY <2>1 DEF Entries
    <2>3. QED
        BY <2>1, <2>2
<1>5. QED
    BY <1>3, <1>4

LEMMA FrameNext == Always /\ FrameInv /\ [Next]_vars => FrameInv'
<1>. SUFFICES ASSUME Always, FrameInv, [Next]_vars, mode' = "search" PROVE FrameInv'
    BY DEF FrameInv
<1>. DEFINE Part(frame) == /\ frame.names \subseteq Entries(frame.dir).names
                           /\ frame.dirs \subseteq Entries(frame.dir).dirs
<1>1. CASE StartSearching /\ stack' = <<Entries(Top)>> /\ UNCHANGED <<disk, folders>>
    <2>1. DOMAIN stack' = {1} /\ stack'[1] = Entries(Top) /\ Entries(Top).dir = Top
        BY <1>1 DEF Entries
    <2>2. \A j \in DOMAIN stack' : Part(stack'[j])
        BY <2>1
    <2>3. QED
        BY <1>1, <2>2 DEF FrameInv, Entries
<1>2. CASE UNCHANGED vars
    BY <1>2 DEF vars, option, FrameInv, Entries
<1>3. CASE /\ mode = "search" /\ stack # <<>> /\ stack \in Seq(Frames)
           /\ UNCHANGED <<disk, folders>>
           /\ Left \/ (\E n \in Here.names : Taken(n)) \/ \E d \in Here.dirs : Entered(d)
    <2>1. \A j \in DOMAIN stack : Part(stack[j])
        BY <1>3 DEF FrameInv
    <2>2. SUFFICES \A j \in DOMAIN stack' : Part(stack'[j])
        BY <1>3 DEF FrameInv, Entries
    <2>3. CASE Left
        BY <1>3, <2>1, <2>3, LastFrame DEF Left, Rest
    <2>4. ASSUME NEW n \in Here.names, Taken(n)
          PROVE  \A j \in DOMAIN stack' : Part(stack'[j])
        BY <1>3, <2>1, <2>4, EntryRemoved DEF Taken
    <2>5. ASSUME NEW d \in Here.dirs, Entered(d)
          PROVE  \A j \in DOMAIN stack' : Part(stack'[j])
        <3>. DEFINE s == [stack EXCEPT ![Len(stack)].dirs = @ \ {d}]
        <3>1. /\ s \in Seq(Frames) /\ DOMAIN s = DOMAIN stack
              /\ \A j \in DOMAIN stack : s[j].dir = stack[j].dir /\ s[j].names = stack[j].names
              /\ \A j \in DOMAIN stack : s[j].dirs \subseteq stack[j].dirs
            BY <1>3, DirRemoved
        <3>2. stack' = Append(s, Entries(d))
            BY <2>5 DEF Entered
        <3>. HIDE DEF s
        <3>3. \A j \in DOMAIN s : Part(s[j])
            BY <2>1, <3>1
        <3>4. Part(Entries(d))
            BY DEF Entries
        <3>5. QED
            BY <3>1, <3>2, <3>3, <3>4, FrameAppended
    <2>6. QED
        BY <1>3, <2>3, <2>4, <2>5
<1>4. QED
    BY <1>1, <1>2, <1>3, SearchStep

\* A directory that is left because of an error has something unreadable.
LEMMA LeftUnreadable ==
    ASSUME FrameInv, mode = "search", stack # <<>>, stack \in Seq(Frames),
           NEW e \in Here.names \cup Here.dirs, isMutant(e), ~Readable(e)
    PROVE  Unreadable(Here.dir)
<1>1. /\ Here.names \subseteq Entries(Here.dir).names
      /\ Here.dirs \subseteq Entries(Here.dir).dirs
    BY LastFrame DEF FrameInv, Here
<1>2. CASE e \in Here.names
    BY <1>1, <1>2 DEF Readable, Unreadable
<1>3. CASE e \in Here.dirs /\ e \notin Here.names
    BY <1>1, <1>3 DEF isMutant, Unreadable
<1>4. QED
    BY <1>2, <1>3

\* What is unreadable at the top is there to the end, and prevents it.
LEMMA StuckNext ==
    ASSUME Always, FrameInv, MissInv, [Next]_vars, mode' = "search", Unreadable(Top)'
    PROVE  pc' = "search" /\ Stuck(stack[1])'
<1>1. CASE /\ StartSearching /\ stack' = <<Entries(Top)>> /\ pc' = "search"
           /\ UNCHANGED <<disk, folders>>
    <2>1. stack'[1] = Entries(Top) /\ Unreadable(Top)
        BY <1>1 DEF Unreadable, Entries
    <2>2. Stuck(Entries(Top))
        BY <2>1 DEF Unreadable, Stuck, HasFile
    <2>3. QED
        BY <1>1, <2>1, <2>2 DEF Stuck, HasFile
<1>2. CASE UNCHANGED vars
    BY <1>2 DEF vars, option, MissInv, Unreadable, Entries, Stuck, HasFile
<1>3. CASE /\ pc = "search" /\ mode = "search" /\ stack # <<>> /\ stack \in Seq(Frames)
           /\ UNCHANGED <<disk, folders, orderly, reported, files>>
           /\ Left \/ (\E m \in Here.names : Taken(m)) \/ \E d \in Here.dirs : Entered(d)
    <2>1. Stuck(stack[1])
        BY <1>3 DEF MissInv, Unreadable, Entries
    <2>2. 1 \in DOMAIN stack
        BY <1>3
    <2>3. CASE Left
        <3>1. Len(stack) # 1
            BY <2>1, <2>3 DEF Left, ErrorReturned, Here, Stuck
        <3>2. stack'[1] = stack[1] /\ Rest # <<>>
            BY <1>3, <2>2, <2>3, <3>1, LastFrame DEF Left, Rest
        <3>3. QED
            BY <1>3, <2>1, <2>3, <3>2 DEF Left, Stuck, HasFile
    <2>4. ASSUME NEW m \in Here.names, Taken(m) PROVE pc' = "search" /\ Stuck(stack[1])'
        <3>1. HasFile(m)
            BY <2>4 DEF Taken, Readable, HasFile
        <3>2. /\ stack'[1].dirs = stack[1].dirs
              /\ \A n \in stack[1].names : n # m => n \in stack'[1].names
            BY <1>3, <2>2, <2>4, EntryRemoved DEF Taken
        <3>3. QED
            BY <1>3, <2>1, <2>4, <3>1, <3>2 DEF Taken, Stuck, HasFile
    <2>5. ASSUME NEW d \in Here.dirs, Entered(d) PROVE pc' = "search" /\ Stuck(stack[1])'
        <3>. DEFINE s == [stack EXCEPT ![Len(stack)].dirs = @ \ {d}]
        <3>1. /\ s \in Seq(Frames) /\ DOMAIN s = DOMAIN stack
              /\ s[1].names = stack[1].names /\ stack[1].dirs \ {d} \subseteq s[1].dirs
            BY <1>3, <2>2, DirRemoved
        <3>2. stack' = Append(s, Entries(d)) /\ pc' = "search" /\ d \notin LikeMutant
            BY <2>5 DEF Entered, isMutant
        <3>. HIDE DEF s
        <3>3. stack'[1] = s[1]
            BY <2>2, <3>1, <3>2, FrameAppended
        <3>4. QED
            BY <1>3, <2>1, <3>1, <3>2, <3>3 DEF Stuck, HasFile
    <2>6. QED
        BY <1>3, <2>3, <2>4, <2>5
<1>4. QED
    BY <1>1, <1>2, <1>3, SearchStep

\* A mutant is found, or behind something unreadable, or still to come.
LEMMA FoundNext ==
    ASSUME Always, FolderInv, FrameInv, MissInv, [Next]_vars, mode' = "search",
           NEW n \in Names, OnDisk(n)', HasFile(n)', Sought(n)'
    PROVE  n \in InfoNames' \/ Behind(n)' \/ (pc' = "search" /\ Pending(n)')
<1>1. CASE /\ StartSearching /\ stack' = <<Entries(Top)>> /\ pc' = "search"
           /\ UNCHANGED <<disk, folders>>
    <2>1. OnDisk(n) /\ Above[Dir[n.file]] \subseteq folders /\ Top \in Above[Dir[n.file]]
        <3>1. n.file \in GoFiles
            BY DEF Names
        <3>2. QED
            BY <1>1, <3>1, ProjectAssumption DEF OnDisk, FolderInv
    <2>2. 1 \in DOMAIN stack' /\ stack'[1] = Entries(Top) /\ Entries(Top).dir = Top
        BY <1>1 DEF Entries
    <2>3. Pending(n)'
        BY <2>1, <2>2, OnTheWay DEF Pending
    <2>4. QED
        BY <1>1, <2>3
<1>2. CASE UNCHANGED vars
    BY <1>2 DEF vars, option, result, MissInv, OnDisk, HasFile, Sought, InfoNames, Pending,
       Behind, Unreadable, Entries
<1>3. CASE /\ pc = "search" /\ mode = "search" /\ stack # <<>> /\ stack \in Seq(Frames)
           /\ UNCHANGED <<disk, folders, orderly, reported, files>>
           /\ Left \/ (\E m \in Here.names : Taken(m)) \/ \E d \in Here.dirs : Entered(d)
    <2>1. OnDisk(n) /\ Sought(n) /\ (n \in InfoNames \/ Behind(n) \/ Pending(n))
        BY <1>3 DEF OnDisk, HasFile, Sought, MissInv
    <2>2. InfoNames \subseteq InfoNames' /\ (Behind(n) => Behind(n)')
        BY <1>3 DEF Left, Taken, Entered, InfoNames, Behind, Unreadable, Entries
    <2>3. SUFFICES ASSUME Pending(n), n \notin InfoNames', ~Behind(n)
                   PROVE  pc' = "search" /\ Pending(n)'
        BY <2>1, <2>2
    <2>4. PICK j \in DOMAIN stack :
             /\ stack[j].dir \in Above[Dir[n.file]]
             /\ \/ n \in stack[j].names
                \/ \E e \in stack[j].dirs : e \in Above[Dir[n.file]]
        BY <2>3 DEF Pending
    <2>5. CASE Left
        <3>1. j # Len(stack)
            <4>1. CASE Here.names \cup Here.dirs = {}
                BY <2>4, <4>1 DEF Here
            <4>2. CASE \E e \in Here.names \cup Here.dirs : isMutant(e) /\ ~Readable(e)
                BY <1>3, <2>3, <2>4, <4>2, LeftUnreadable DEF Here, Behind
            <4>3. QED
                BY <2>5, <4>1, <4>2 DEF Left
        <3>2. j \in DOMAIN stack' /\ stack'[j] = stack[j]
            BY <1>3, <2>5, <3>1, LastFrame DEF Left, Rest
        <3>3. Rest # <<>>
            BY <2>5, <3>2 DEF Left
        <3>4. QED
            BY <2>4, <2>5, <3>2, <3>3 DEF Left, Pending
    <2>6. ASSUME NEW m \in Here.names, Taken(m) PROVE pc' = "search" /\ Pending(n)'
        <3>1. m # n
            <4>1. Sought(m) => m \in InfoNames'
                BY <2>6 DEF Taken, InfoNames
            <4>2. QED
                BY <2>1, <2>3, <4>1
        <3>2. /\ j \in DOMAIN stack' /\ stack'[j].dirs = stack[j].dirs
              /\ stack'[j].dir = stack[j].dir
              /\ n \in stack[j].names => n \in stack'[j].names
            BY <1>3, <2>6, <3>1, EntryRemoved DEF Taken
        <3>3. QED
            BY <2>4, <2>6, <3>2 DEF Taken, Pending
    <2>7. ASSUME NEW d \in Here.dirs, Entered(d) PROVE pc' = "search" /\ Pending(n)'
        <3>. DEFINE s == [stack EXCEPT ![Len(stack)].dirs = @ \ {d}]
        <3>1. /\ s \in Seq(Frames) /\ DOMAIN s = DOMAIN stack
              /\ \A i \in DOMAIN stack : s[i].dir = stack[i].dir /\ s[i].names = stack[i].names
              /\ \A i \in DOMAIN stack : stack[i].dirs \ {d} \subseteq s[i].dirs
            BY <1>3, DirRemoved
        <3>2. stack' = Append(s, Entries(d)) /\ pc' = "search"
            BY <2>7 DEF Entered
        <3>. HIDE DEF s
        <3>3. j \in DOMAIN stack' /\ stack'[j] = s[j]
            BY <3>1, <3>2, FrameAppended
        <3>4. CASE n \in stack[j].names
            <4>1. stack'[j].dir = stack[j].dir /\ n \in stack'[j].names
                BY <3>1, <3>3, <3>4
            <4>2. QED
                BY <2>4, <3>2, <3>3, <4>1 DEF Pending
        <3>5. ASSUME NEW e \in stack[j].dirs, e \in Above[Dir[n.file]], e # d
              PROVE  pc' = "search" /\ Pending(n)'
            <4>1. stack'[j].dir = stack[j].dir /\ e \in stack'[j].dirs
                BY <3>1, <3>3, <3>5
            <4>2. QED
                BY <2>4, <3>2, <3>3, <3>5, <4>1 DEF Pending
        <3>6. CASE d \in Above[Dir[n.file]]
            <4>1. \/ n \in Entries(d).names
                  \/ \E e \in Entries(d).dirs : e \in Above[Dir[n.file]]
                BY <2>1, <3>6, OnTheWay DEF FolderInv
            <4>2. /\ Len(s) + 1 \in DOMAIN stack' /\ stack'[Len(s) + 1] = Entries(d)
                  /\ Entries(d).dir = d
                BY <3>1, <3>2, FrameAppended DEF Entries
            <4>3. Pending(n)'
                BY <3>6, <4>1, <4>2 DEF Pending
            <4>4. QED
                BY <3>2, <4>3
        <3>7. QED
            BY <2>4, <3>4, <3>5, <3>6
    <2>8. QED
        BY <1>3, <2>5, <2>6, <2>7
<1>4. QED
    BY <1>1, <1>2, <1>3, SearchStep

LEMMA MissNext == Always /\ FolderInv /\ FrameInv /\ MissInv /\ [Next]_vars => MissInv'
<1>. SUFFICES ASSUME Always, FolderInv, FrameInv, MissInv, [Next]_vars, mode' = "search"
              PROVE  MissInv'
    BY DEF MissInv
<1>1. Unreadable(Top)' => pc' = "search" /\ Stuck(stack[1])'
    BY StuckNext
<1>2. \A n \in Names : (OnDisk(n)' /\ HasFile(n)' /\ Sought(n)') =>
          n \in InfoNames' \/ Behind(n)' \/ (pc' = "search" /\ Pending(n)')
    BY FoundNext
<1>3. QED
    BY <1>1, <1>2 DEF MissInv

LEMMA MissInit == Init => FrameInv /\ MissInv
BY DEF Init, FrameInv, MissInv

\* Whatever failed before and wherever runs were killed: a search that hands
\* over had nothing unreadable in the mutant folder itself, and a mutant it
\* missed lies behind something unreadable further down.
THEOREM MissedExplained == Spec => []MissedOnlyBehindErrors
<1>. DEFINE I == FolderInv /\ FrameInv /\ MissInv
<1>1. Init => I
    BY FolderInit, MissInit
<1>2. Always /\ I /\ [Next]_vars => I'
    BY FolderNext, FrameNext, MissNext
<1>3. I => MissedOnlyBehindErrors
    BY DEF MissInv, MissedOnlyBehindErrors, OnDisk, HasFile, Sought, InfoNames, Behind
<1>. HIDE DEF I
<1>4. QED
    BY AlwaysSo, <1>1, <1>2, <1>3, PTL DEF Spec

\* As long as all went well, the search finds the mutants reported by whatever
\* runs came before, and no others, of the files it is asked for.
THEOREM SearchComplete == Spec => []FindsWhatWasReported
<1>. DEFINE I == FolderInv /\ SeenInv /\ OrderlyInv /\ FrameInv /\ MissInv
<1>1. Init => I
    BY FolderInit, SeenInit, OrderlyInit, MissInit
<1>2. Always /\ I /\ [Next]_vars => I'
    BY FolderNext, SeenNext, OrderlyNext, FrameNext, MissNext
<1>3. Always /\ I => FindsWhatWasReported
    <2>. SUFFICES ASSUME Always, I, mode = "search", pc = "handoff", orderly,
                         folders \cap LikeMutant = {}
                  PROVE  InfoNames = {n \in reported : Sought(n)}
        BY DEF FindsWhatWasReported, InfoNames, Sought
    <2>1. InfoNames \subseteq Names /\ reported \subseteq Names
        BY DEF Always, RunOK, Infos, InfoNames
    <2>2. \A n \in InfoNames : OnDisk(n) /\ Sought(n)
        BY DEF SeenInv, InfoNames
    <2>3. \A n \in Names : OnDisk(n) => n \in reported /\ HasFile(n)
        BY DEF OrderlyInv
    <2>4. \A d \in Dirs : ~Unreadable(d)
        BY <2>3 DEF Unreadable, Entries, OnDisk, HasFile
    <2>5. ASSUME NEW n \in reported, Sought(n) PROVE n \in InfoNames
        <3>1. n \in Names /\ OnDisk(n) /\ HasFile(n)
            BY <2>1 DEF OrderlyInv
        <3>2. Above[Dir[n.file]] \subseteq Dirs
            BY <3>1, ProjectAssumption DEF Names
        <3>3. QED
            BY <2>4, <2>5, <3>1, <3>2 DEF MissInv, Behind
    <2>6. QED
        BY <2>1, <2>2, <2>3, <2>5
<1>. HIDE DEF I
<1>4. QED
    BY AlwaysSo, <1>1, <1>2, <1>3, PTL DEF Spec
=============================================================================
