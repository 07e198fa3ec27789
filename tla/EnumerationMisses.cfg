\* One thread adds and removes, another enumerates
CONSTANTS
    MaxTries = 2
    InitSize = 2
    MaxSize = 4
    Mutators = {"m"}
    Finders = {}
    Enumerators = {"e"}
SPECIFICATION Spec
INVARIANT VisitsAll
CHECK_DEADLOCK FALSE
