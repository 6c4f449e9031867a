SPECIFICATION Spec
CONSTANTS
    NotGiven = NotGiven  Unreadable = Unreadable  NoConfig = NoConfig
    Listing <- Tree
    Stars <- StarsOfPatterns
    Lets <- LetsOfPatterns
    Arguments <- AllArguments
    Configurations <- AllConfigurations
INVARIANTS TypeOK NothingMadeUp SimplePatternsExact  ErrorsStopTheRun
