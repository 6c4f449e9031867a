SPECIFICATION Spec
CONSTANTS
    main = main  sub = sub
    Absent = Absent  Source = Source  Dirty = Dirty  Truncated = Truncated  Mutated = Mutated
    Files = {main, sub}
    Nested = {sub}
    Clashing = {}
    Mutants <- MutantsOne
    Custom = FALSE
    Build = FALSE
    CleanUp = FALSE
    Tests = {"t"}
    MaxRuns = 1
    MaxFaults = 0
    Killable = FALSE
INVARIANT TestsSeeMutant
