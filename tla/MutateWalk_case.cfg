SPECIFICATION FairSpec
CONSTANTS
    Nil = Nil
    Registered <- MCRegistered
    SafeName <- MCSafeName
    Operators <- OperatorsCase
    Nodes <- MCNodes
    Asts <- MCAsts
    Source <- FileCase
    Walk <- MCWalk
    Mutator <- MCMutator
    Offset <- MCOffset
    Mutants <- MCMutants
INVARIANTS OneMutationPerMutant
PROPERTIES MutateReturns RefinesStream
