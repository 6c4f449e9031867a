SPECIFICATION Spec
CONSTANTS
    NotGiven = NotGiven  Unreadable = Unreadable  NoConfig = NoConfig
    Listing <- Tree
    Stars <- StarsOfPatterns
    Lets <- LetsOfPatterns
    Arguments <- PlainRun
    Configurations <- DeepPatterns
INVARIANT WildcardsReplaced
