SPECIFICATION Spec
CONSTANTS
    b1 = b1
    b2 = b2
    set1 = set1
    set2 = set2
    prep = prep
    None = None
    Backends = {b1, b2}
    Sets = {set1, set2}
    Prepares = {prep}
    Variable <- OneVariable
    Limits <- Short
    MaxCommands = 3
    RepeatPrepares = FALSE
SYMMETRY Alike
INVARIANTS
    TypeOK
    MismatchNeverKept
    StateRecovered
    
CHECK_DEADLOCK FALSE
