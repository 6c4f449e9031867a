-------------------------- MODULE CommandLineProofs --------------------------
(***************************************************************************)
(* Proofs about the command line, for any arguments, any configuration     *)
(* file and any tree.                                                      *)
(***************************************************************************)
EXTENDS CommandLine, WildcardsProofs

\* How far the process is, and what it has by then.
PhaseInv ==
    /\ args \in Arguments /\ given \in Configurations
    /\ pc \in {"args", "config", "consolidate", "files", "phase", "test", "done"}
    /\ exitCode \in ExitCodes
    /\ performed \subseteq {"mutate", "search", "test"}
    /\ pc \in {"args", "config", "consolidate", "files", "phase"} => performed = {}
    /\ pc \in {"args", "config"} => config = NoConfig
    /\ pc = "consolidate" => config = IF Usable THEN Parsed ELSE NoConfig
    /\ pc \in {"files", "phase", "test"} => Usable
    /\ pc = "test" => performed # {} /\ "test" \notin performed
    /\ pc = "done" /\ exitCode = returnOk => performed # {}
    /\ ~Usable => performed = {}

\* The configuration that the phases work with has the fields of the one that
\* was read, and no limit on the tests only if neither source sets one.
ConfigInv ==
    /\ config = NoConfig \/ DOMAIN config = DOMAIN given
    /\ pc \in {"files", "phase", "test"} \/ performed # {} =>
          /\ DOMAIN config = DOMAIN given
          /\ config.timeout = IF Timeout # 0 THEN Timeout ELSE given.timeout

\* What came of the files of the configuration.
PhasesInv ==
    /\ ("mutate" \in performed /\ \E path \in files : ~IsFile(path)) =>
          pc = "done" /\ exitCode # returnOk /\ "test" \notin performed

\* The lists are expanded once, and the files come from them.
FilesInv ==
    /\ pc = "files" => config.include = Parsed.include /\ config.exclude = Parsed.exclude
    /\ pc \in {"phase", "test"} \/ performed # {} =>
          files = getIncludedFiles(Parsed.include, Parsed.exclude)

LEMMA Codes ==
    /\ {returnOk, returnHelp, returnBashCompletion, returnError, Panicked} \subseteq ExitCodes
    /\ returnOk \notin {returnHelp, returnBashCompletion, returnError, Panicked}
BY DEF returnOk, returnHelp, returnBashCompletion, returnError, Panicked, ExitCodes

LEMMA PhaseInit == Init => PhaseInv
BY Codes DEF Init, PhaseInv

LEMMA PhaseNext == PhaseInv /\ [Next]_vars => PhaseInv'
<1>. SUFFICES ASSUME PhaseInv, [Next]_vars PROVE PhaseInv'
    OBVIOUS
<1>. USE DEF PhaseInv, Usable
<1>1. CASE checkArguments
    BY <1>1, Codes DEF checkArguments, Exit
<1>2. CASE getConfig
    BY <1>2 DEF getConfig, Parsed
<1>3. CASE NilConfig
    BY <1>3, Codes DEF NilConfig, Exit
<1>4. CASE consolidateArgsIntoConfig
    BY <1>4 DEF consolidateArgsIntoConfig
<1>5. CASE getRelativeAndAbsoluteFiles
    BY <1>5 DEF getRelativeAndAbsoluteFiles
<1>6. CASE MutatePhase \/ SearchPhase
    BY <1>6, Codes DEF MutatePhase, SearchPhase, Proceed, Exit
<1>7. CASE TestPhase
    BY <1>7 DEF TestPhase, Exit
<1>8. CASE NoTestPhase
    BY <1>8, Codes DEF NoTestPhase, Exit
<1>9. CASE UNCHANGED vars
    BY <1>9 DEF vars, Parsed
<1>10. QED
    BY <1>1, <1>2, <1>3, <1>4, <1>5, <1>6, <1>7, <1>8, <1>9
       DEF Next, performMutationTesting, Halted

LEMMA ConfigInit == Init => ConfigInv
BY DEF Init, ConfigInv

LEMMA ConfigNext == PhaseInv /\ ConfigInv /\ [Next]_vars => ConfigInv'
<1>. SUFFICES ASSUME PhaseInv, ConfigInv, [Next]_vars PROVE ConfigInv'
    OBVIOUS
<1>1. CASE getConfig
    <2>1. DOMAIN Parsed = DOMAIN given
        BY DEF Parsed
    <2>2. pc' = "consolidate" /\ performed' = {} /\ given' = given
          /\ config' \in {Parsed, NoConfig}
        BY <1>1 DEF getConfig, PhaseInv
    <2>3. QED
        BY <2>1, <2>2 DEF ConfigInv
<1>2. CASE consolidateArgsIntoConfig
    <2>. DEFINE t == IF Timeout # 0 THEN Timeout ELSE given.timeout
    <2>1. Usable /\ config = Parsed
        BY <1>2 DEF consolidateArgsIntoConfig, PhaseInv
    <2>2. "timeout" \in DOMAIN given
        BY <2>1, InputsAssumption DEF PhaseInv, Usable
    <2>3. DOMAIN config = DOMAIN given /\ config.timeout = given.timeout
        BY <2>1, <2>2 DEF Parsed
    <2>4. config' = [config EXCEPT !.noMutate = @ \/ args.noMutate,
                                   !.noExec = @ \/ args.noExec,
                                   !.timeout = IF Timeout # 0 THEN Timeout ELSE @]
        BY <1>2 DEF consolidateArgsIntoConfig
    <2>5. DOMAIN config' = DOMAIN given /\ config'.timeout = t
        BY <2>2, <2>3, <2>4
    <2>6. UNCHANGED <<args, given>>
        BY <1>2 DEF consolidateArgsIntoConfig
    <2>7. QED
        BY <2>5, <2>6 DEF ConfigInv, Timeout
<1>3. CASE checkArguments \/ NilConfig
    BY <1>3 DEF checkArguments, NilConfig, Exit, PhaseInv, ConfigInv
<1>4. CASE getRelativeAndAbsoluteFiles
    BY <1>4 DEF getRelativeAndAbsoluteFiles, ConfigInv, Timeout
<1>5. CASE performMutationTesting
    <2>1. pc \in {"phase", "test"} /\ UNCHANGED <<args, given, config>>
        BY <1>5 DEF performMutationTesting, MutatePhase, SearchPhase, TestPhase, NoTestPhase
    <2>2. QED
        BY <2>1 DEF ConfigInv, Timeout
<1>6. CASE UNCHANGED vars
    BY <1>6 DEF vars, ConfigInv, Timeout
<1>7. QED
    BY <1>1, <1>2, <1>3, <1>4, <1>5, <1>6 DEF Next, Halted

LEMMA PhasesInit == Init => PhasesInv
BY DEF Init, PhasesInv

LEMMA PhasesNext == PhaseInv /\ PhasesInv /\ [Next]_vars => PhasesInv'
<1>. SUFFICES ASSUME PhaseInv, PhasesInv, [Next]_vars PROVE PhasesInv'
    OBVIOUS
<1>1. CASE MutatePhase
    <2>1. \/ \E failed \in BOOLEAN : /\ (\E path \in files : ~IsFile(path)) => failed
                                      /\ Proceed(failed)
          \/ Exit(Panicked)
        BY <1>1 DEF MutatePhase
    <2>2. pc = "phase" /\ performed' = {"mutate"} /\ files' = files
        BY <1>1 DEF MutatePhase, PhaseInv
    <2>3. QED
        BY <2>1, <2>2, Codes DEF PhasesInv, Proceed, Exit
<1>2. CASE checkArguments \/ getConfig \/ NilConfig \/ consolidateArgsIntoConfig
           \/ getRelativeAndAbsoluteFiles
    <2>1. performed' = {}
        BY <1>2 DEF checkArguments, getConfig, NilConfig, consolidateArgsIntoConfig,
           getRelativeAndAbsoluteFiles, PhaseInv
    <2>2. QED
        BY <2>1 DEF PhasesInv
<1>3. CASE SearchPhase
    BY <1>3 DEF SearchPhase, PhaseInv, PhasesInv
<1>4. CASE TestPhase \/ NoTestPhase
    BY <1>4 DEF TestPhase, NoTestPhase, PhasesInv
<1>5. CASE UNCHANGED vars
    BY <1>5 DEF vars, PhasesInv
<1>6. QED
    BY <1>1, <1>2, <1>3, <1>4, <1>5 DEF Next, performMutationTesting, Halted

\* The lists of a configuration that can be used, and what parsing makes of
\* them.
LEMMA ParsedLists ==
    ASSUME given \in Configurations, Usable
    PROVE  /\ given.slash \in BOOLEAN
           /\ given.include \in Seq(Seq(Pieces)) /\ given.exclude \in Seq(Seq(Pieces))
           /\ \A p \in Range(given.include) \cup Range(given.exclude) : FormedPath(p) /\ p # <<>>
           /\ {"include", "exclude", "slash", "noMutate", "noExec", "timeout"} \subseteq DOMAIN given
           /\ Parsed.include = expandWildCards(given.slash, given.include)
           /\ Parsed.exclude = expandWildCards(given.slash, given.exclude)
<1>1. /\ given.slash \in BOOLEAN
      /\ given.include \in Seq(Seq(Pieces)) /\ given.exclude \in Seq(Seq(Pieces))
      /\ {"include", "exclude", "slash", "noMutate", "noExec", "timeout"} \subseteq DOMAIN given
    BY InputsAssumption DEF Usable
<1>2. \A p \in Range(given.include) \cup Range(given.exclude) :
          p # <<>> /\ \A i \in 2..Len(p) : p[i] # EmptyPiece
    BY InputsAssumption DEF Usable
<1>3. \A p \in Range(given.include) \cup Range(given.exclude) : p \in Seq(Pieces)
    BY <1>1, RangeIndexed
<1>4. \A p \in Range(given.include) \cup Range(given.exclude) : FormedPath(p) /\ p # <<>>
    BY <1>2, <1>3 DEF FormedPath
<1>5. /\ Parsed.include = expandWildCards(given.slash, given.include)
      /\ Parsed.exclude = expandWildCards(given.slash, given.exclude)
    BY <1>1 DEF Parsed
<1>. QED
    BY <1>1, <1>4, <1>5

LEMMA FilesInit == Init => FilesInv
BY DEF Init, FilesInv

LEMMA FilesNext == PhaseInv /\ FilesInv /\ [Next]_vars => FilesInv'
<1>. SUFFICES ASSUME PhaseInv, FilesInv, [Next]_vars PROVE FilesInv'
    OBVIOUS
<1>1. CASE checkArguments \/ getConfig \/ NilConfig
    <2>1. performed' = {} /\ pc' \notin {"files", "phase", "test"}
        BY <1>1 DEF checkArguments, getConfig, NilConfig, Exit, PhaseInv
    <2>2. QED
        BY <2>1 DEF FilesInv
<1>2. CASE consolidateArgsIntoConfig
    <2>1. Usable /\ config = Parsed /\ given \in Configurations /\ performed' = {} /\ pc' = "files"
        BY <1>2 DEF consolidateArgsIntoConfig, PhaseInv
    <2>2. config'.include = config.include /\ config'.exclude = config.exclude
        <3>1. {"include", "exclude", "noMutate", "noExec", "timeout"} \subseteq DOMAIN config
            BY <2>1, ParsedLists DEF Parsed
        <3>2. config' = [config EXCEPT !.noMutate = @ \/ args.noMutate,
                                       !.noExec = @ \/ args.noExec,
                                       !.timeout = IF Timeout # 0 THEN Timeout ELSE @]
            BY <1>2 DEF consolidateArgsIntoConfig
        <3>3. QED
            BY <3>1, <3>2
    <2>3. Parsed' = Parsed
        BY <1>2 DEF consolidateArgsIntoConfig, Parsed
    <2>4. QED
        BY <2>1, <2>2, <2>3 DEF FilesInv
<1>3. CASE getRelativeAndAbsoluteFiles
    <2>1. /\ pc = "files" /\ pc' = "phase" /\ Parsed' = Parsed
          /\ files' = getIncludedFiles(config.include, config.exclude)
        BY <1>3 DEF getRelativeAndAbsoluteFiles, Parsed
    <2>2. files' = getIncludedFiles(Parsed.include, Parsed.exclude)
        BY <2>1 DEF FilesInv
    <2>3. QED
        BY <2>1, <2>2 DEF FilesInv
<1>4. CASE performMutationTesting
    <2>1. /\ pc \in {"phase", "test"} /\ pc' \in {"test", "done"} /\ files' = files
          /\ Parsed' = Parsed
        BY <1>4 DEF performMutationTesting, MutatePhase, SearchPhase, TestPhase, NoTestPhase, Proceed,
           Exit, Parsed
    <2>2. files = getIncludedFiles(Parsed.include, Parsed.exclude)
        BY <2>1 DEF FilesInv
    <2>3. QED
        BY <2>1, <2>2 DEF FilesInv
<1>5. CASE UNCHANGED vars
    BY <1>5 DEF vars, FilesInv, Parsed
<1>6. QED
    BY <1>1, <1>2, <1>3, <1>4, <1>5 DEF Next, Halted

Inv == PhaseInv /\ ConfigInv /\ PhasesInv /\ FilesInv

LEMMA InvSo == Spec => []Inv
<1>1. Init => Inv
    BY PhaseInit, ConfigInit, PhasesInit, FilesInit DEF Inv
<1>2. Inv /\ [Next]_vars => Inv'
    BY PhaseNext, ConfigNext, PhasesNext, FilesNext DEF Inv
<1>3. QED
    BY <1>1, <1>2, PTL DEF Spec

-----------------------------------------------------------------------------
(* The properties.                                                         *)

\* A process keeps its types, and has a configuration from the consolidation
\* to the tests.
THEOREM TypeCorrect == Spec => []TypeOK
<1>1. Inv => TypeOK
    BY DEF Inv, PhaseInv, ConfigInv, TypeOK
<1>2. QED
    BY InvSo, <1>1, PTL

\* Tests without a limit were asked for on the command line and in the
\* configuration.
THEOREM Bounded == Spec => []TestsBounded
<1>1. Inv => TestsBounded
    <2>. SUFFICES ASSUME Inv, "test" \in performed, config.timeout = 0
                  PROVE  args.timeout = 0 /\ given.timeout = 0
        BY DEF TestsBounded
    <2>1. config.timeout = IF Timeout # 0 THEN Timeout ELSE given.timeout
        BY DEF Inv, ConfigInv
    <2>2. Timeout = 0 /\ given.timeout = 0
        BY <2>1
    <2>3. QED
        BY <2>2 DEF Timeout, DefaultTimeout
<1>2. QED
    BY InvSo, <1>1, PTL

\* Nothing is tested, or reported as success, after a phase that failed or a
\* configuration that could not be read or names files that do not exist.
THEOREM ErrorsStop == Spec => []ErrorsStopTheRun
<1>1. Inv => ErrorsStopTheRun
    <2>1. returnOk # returnError
        BY DEF returnOk, returnError
    <2>2. QED
        BY <2>1 DEF Inv, PhaseInv, PhasesInv, ErrorsStopTheRun
<1>2. QED
    BY InvSo, <1>1, PTL

\* Once there are files, they are those of the lists.
LEMMA FilesListed ==
    ASSUME Inv, HasFiles
    PROVE  /\ given \in Configurations /\ Usable
           /\ files = Range(expandWildCards(given.slash, given.include))
                      \ Range(expandWildCards(given.slash, given.exclude))
<1>1. given \in Configurations /\ Usable /\ (pc \in {"phase", "test"} \/ performed # {})
    BY DEF Inv, PhaseInv, HasFiles
<1>2. files = getIncludedFiles(Parsed.include, Parsed.exclude)
    BY <1>1 DEF Inv, FilesInv
<1>. QED
    BY <1>1, <1>2, ParsedLists DEF getIncludedFiles

\* What patterns put on the list of files is a file of the project, and comes
\* from a pattern whose first pieces it matches.
THEOREM MadeUp == Spec => []NothingMadeUp
<1>1. Inv => NothingMadeUp
    <2>. SUFFICES ASSUME Inv, HasFiles, NEW path \in files
                  PROVE  \/ \E i \in DOMAIN given.include : given.include[i] = path
                         \/ /\ IsFile(path)
                            /\ \E pattern \in Range(given.include) :
                                  /\ Len(path) <= Len(pattern)
                                  /\ Matches(path, SubSeq(pattern, 1, Len(path)))
        BY Zenon DEF NothingMadeUp
    <2>1. /\ given \in Configurations /\ Usable
          /\ path \in Range(expandWildCards(given.slash, given.include))
        BY FilesListed
    <2>2. /\ given.slash \in BOOLEAN /\ given.include \in Seq(Seq(Pieces))
          /\ \A p \in Range(given.include) : FormedPath(p)
        BY <2>1, ParsedLists
    <2>3. /\ \/ path \in Range(given.include)
             \/ \E p \in Range(given.include) : path \in Range(expandWildCard(given.slash, p))
          /\ \A p \in Range(given.include) :
                \A x \in Range(expandWildCard(given.slash, p)) : Comes(x, p)
        BY <2>1, <2>2, ListsExpanded
    <2>4. CASE path \in Range(given.include)
        BY <2>4 DEF Range
    <2>5. CASE \E p \in Range(given.include) : path \in Range(expandWildCard(given.slash, p))
        <3>1. PICK p \in Range(given.include) : path \in Range(expandWildCard(given.slash, p))
            BY <2>5
        <3>2. FormedPath(p) /\ Comes(path, p)
            BY <2>2, <2>3, <3>1
        <3>3. /\ Resolve(TRUE, path) \in RegularFiles /\ Len(path) <= Len(p)
              /\ Matches(path, SubSeq(p, 1, Len(path)))
            BY <3>2, ComesMatches
        <3>4. QED
            BY <3>1, <3>3, Zenon DEF IsFile
    <2>6. QED
        BY <2>3, <2>4, <2>5
<1>2. QED
    BY InvSo, <1>1, PTL

\* A pattern with one star that the file system can be asked for puts all its
\* files on the list, and none is lost but those that are excluded, or that an
\* excluded pattern goes on below; an excluded file is not on it.
THEOREM Exact == Spec => []SimplePatternsExact
<1>1. Inv => SimplePatternsExact
    <2>. DEFINE simple(list) == {p \in Range(list) : Simple(given.slash, p)}
                exact(list) == Meant(simple(list))
                include == expandWildCards(given.slash, given.include)
                exclude == expandWildCards(given.slash, given.exclude)
    <2>. SUFFICES ASSUME Inv, HasFiles
                  PROVE  /\ exact(given.include) \subseteq
                                files \cup Range(given.exclude) \cup Meant(Beginnings(Starred(given.exclude)))
                         /\ files \cap (exact(given.exclude) \cup Range(given.exclude)) = {}
        BY Zenon DEF SimplePatternsExact
    <2>1. given \in Configurations /\ Usable /\ files = Range(include) \ Range(exclude)
        BY FilesListed
    <2>2. /\ given.slash \in BOOLEAN
          /\ given.include \in Seq(Seq(Pieces)) /\ given.exclude \in Seq(Seq(Pieces))
          /\ \A p \in Range(given.include) \cup Range(given.exclude) : FormedPath(p) /\ p # <<>>
        BY <2>1, ParsedLists
    <2>3. /\ \A path : path \in Range(include) <=>
                \/ path \in Range(given.include) /\ StarsIn(path) # 1
                \/ \E p \in Range(given.include) :
                      StarsIn(p) > 0 /\ path \in Range(expandWildCard(given.slash, p))
          /\ \A p \in Range(given.include) :
                \A x \in Range(expandWildCard(given.slash, p)) : Comes(x, p)
        BY <2>2, ListsExpanded
    <2>4. /\ \A path : path \in Range(exclude) <=>
                \/ path \in Range(given.exclude) /\ StarsIn(path) # 1
                \/ \E p \in Range(given.exclude) :
                      StarsIn(p) > 0 /\ path \in Range(expandWildCard(given.slash, p))
          /\ \A p \in Range(given.exclude) :
                \A x \in Range(expandWildCard(given.slash, p)) : Comes(x, p)
        BY <2>2, ListsExpanded
    <2>. HIDE DEF include, exclude
    \* All that simple patterns mean is listed.
    <2>5. ASSUME NEW list \in {given.include, given.exclude}, NEW path \in exact(list)
          PROVE  \E p \in Range(list) : StarsIn(p) > 0 /\ path \in Range(expandWildCard(given.slash, p))
        <3>1. PICK p \in simple(list) : Matches(path, p)
            BY <2>5 DEF Meant
        <3>2. path \in Meant({p})
            BY <2>5, <3>1 DEF Meant
        <3>3. FormedPath(p) /\ p # <<>> /\ Simple(given.slash, p) /\ p \in Range(list)
            BY <2>2, <2>5, <3>1
        <3>4. path \in Range(expandWildCard(given.slash, p))
            BY <2>2, <3>2, <3>3, SimpleComplete
        <3>5. StarsIn(p) > 0
            BY <3>3 DEF Simple
        <3>6. QED
            BY <3>3, <3>4, <3>5
    <2>6. exact(given.include) \subseteq Range(include) /\ exact(given.exclude) \subseteq Range(exclude)
        <3>. HIDE DEF exact
        <3>. QED
            BY <2>3, <2>4, <2>5
    <2>7. ASSUME NEW path \in exact(given.include), path \notin files
          PROVE  path \in Range(given.exclude) \cup Meant(Beginnings(Starred(given.exclude)))
        <3>1. path \in Range(exclude)
            BY <2>1, <2>6, <2>7
        <3>2. ASSUME NEW p \in Range(given.exclude), StarsIn(p) > 0,
                     path \in Range(expandWildCard(given.slash, p))
              PROVE  path \in Meant(Beginnings(Starred(given.exclude)))
            <4>. DEFINE q == SubSeq(p, 1, Len(path))
            <4>1. FormedPath(p) /\ Comes(path, p)
                BY <2>2, <2>4, <3>2
            <4>2. Matches(path, q) /\ Len(path) \in 1..Len(p)
                BY <4>1, ComesMatches DEF Comes
            <4>3. q \in Beginnings(Starred(given.exclude))
                BY <3>2, <4>2 DEF Beginnings, Starred
            <4>4. path \in RegularFiles \cup {<<EmptyPiece>> \o f : f \in RegularFiles}
                BY <2>7 DEF Meant
            <4>. HIDE DEF q
            <4>5. QED
                BY <4>2, <4>3, <4>4 DEF Meant
        <3>3. QED
            BY <2>4, <3>1, <3>2
    \* A pattern on the list of exclusions is no file of the list.
    <2>8. ASSUME NEW path \in Range(given.exclude) PROVE path \notin files
        <3>1. CASE StarsIn(path) # 1
            BY <2>1, <2>4, <2>8, <3>1
        <3>2. CASE StarsIn(path) = 1
            <4>1. SUFFICES ASSUME path \in files PROVE FALSE
                OBVIOUS
            <4>2. PICK p \in Range(given.include) : path \in Range(expandWildCard(given.slash, p))
                BY <2>1, <2>3, <3>2, <4>1
            <4>3. QED
                BY <2>2, <2>3, <3>2, <4>2, NoPatternLeft
        <3>3. QED
            BY <3>1, <3>2
    <2>9. QED
        <3>. HIDE DEF exact
        <3>. QED
            BY <2>1, <2>6, <2>7, <2>8
<1>2. QED
    BY InvSo, <1>1, PTL
=============================================================================
