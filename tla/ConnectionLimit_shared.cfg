CONSTANTS
    w1 = w1
    w2 = w2
    e1 = e1
    e2 = e2
    e3 = e3
    plain = plain
    other = other
    NoEndpoint = NoEndpoint
    Workers = {w1, w2}
    Endpoints = {e1, e2, e3}
    Kinds = {plain, other}
    home <- Homes
    Sharing = {e1, e2}
    KindChoices <- SomeKinds
    max_routing_connections = 1
    capacity = 1
    Reopen = FALSE
    MaxQueries = 2
    MaxOpens = 1
    MaxFaults = 1
SPECIFICATION LiveSpec
INVARIANTS TypeOK LimitHolds CountsRight QueueRight PacketsInOrder NoWakeupMissed
PROPERTY NoStarvation
CHECK_DEADLOCK FALSE
