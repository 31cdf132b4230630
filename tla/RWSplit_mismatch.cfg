SPECIFICATION Spec
CONSTANTS
    b1 = b1
    b2 = b2
    None = None
    Order <- Two
    InitStatus <- First2
    Chosen = {"mismatch"}
    Service <- ChosenServices
    Environment <- ChosenEnvironments
INVARIANT
    CommittedWhole
