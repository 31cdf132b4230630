SPECIFICATION Spec
CONSTANTS
    b1 = b1
    b2 = b2
    None = None
    Order <- Two
    InitStatus <- First2
    Chosen = {"pipe", "sescmd", "full_history", "error_on_write", "lazy", "causal_local", "causal_fast", "causal_universal", "causal_fast_universal"}
    Service <- ChosenServices
    Environment <- ChosenEnvironments
INVARIANTS
    
    CausalReadSees
