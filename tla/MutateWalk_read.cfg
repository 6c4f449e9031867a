SPECIFICATION FairSpec
CONSTANTS
    Nil = Nil
    Registered <- MCRegistered
    SafeName <- MCSafeName
    Operators <- OperatorsRead
    Nodes <- MCNodes
    Asts <- MCAsts
    Source <- FileRead
    Walk <- MCWalk
    Mutator <- MCMutator
    Offset <- MCOffset
    Mutants <- MCMutants
INVARIANTS TypeOK OneMutationPerMutant SourceIntactBetweenMutations MutantNamesDistinct
PROPERTIES NoWriteWhileSaving MutateReturns RefinesStream
