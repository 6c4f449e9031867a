SPECIFICATION Spec
CONSTANTS
    main = main  sub = sub  lib = lib  gen = gen
    pkg = pkg  cargo = cargo  nested = nested  Top = Top
    Absent = Absent  Truncated = Truncated  NoMutation = NoMutation  NoDir = NoDir
    Files = {main, sub, lib, gen}
    GoFiles = {main, sub, lib, gen}
    Outside = {lib}
    Dirs = {Top, pkg, cargo, nested}
    Above <- AboveOf
    Dir <- DirOf
    Walk <- WalkOf
    SkippedDirs = {nested}
    LikeMutant = {cargo}
    Configs <- ConfigsOf
    Mutations <- MutationsIn
    MaxRuns = 2
    MaxEdits = 1
    MaxFaults = 1
INVARIANTS TypeOK ReportedHoldsMutation OneFileDiffers 
    MissedOnlyBehindErrors StatsForEveryMutant RestIsKept
