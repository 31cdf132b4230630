SPECIFICATION Spec
CONSTANTS
    b1 = b1
    b2 = b2
    None = None
    Order <- Two
    InitStatus <- First2
    Chosen = {"replay", "errors", "otrx_loss", "trx_sescmd"}
    Service <- ChosenServices
    Environment <- ChosenEnvironments
INVARIANTS
    
    
    
    CommittedWhole
    CommittedOnce
    ReplayedAsSeen
