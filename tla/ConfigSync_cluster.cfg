SPECIFICATION Spec
CONSTANTS
    Nodes = {n1, n2}
    Objects = {o1, o2}
    None = None
    MaxFaults = 1
 
PROPERTY NoChangeLost
 
 
