SPECIFICATION FairSpec
CONSTANTS
    main = main  sub = sub
    Absent = Absent  Source = Source  Dirty = Dirty  Truncated = Truncated  Mutated = Mutated
    Files = {main, sub}
    Nested = {sub}
    Clashing = {}
    Mutants <- MutantsNested
    Custom = TRUE
    Build = TRUE
    CleanUp = TRUE
    Tests = {"t"}
    MaxRuns = 2
    MaxFaults = 1
    Killable = TRUE
INVARIANTS TypeOK BackupIntact RestoredAtEnd KillsLoseNothing CountsMatch
PROPERTY RunEnds
