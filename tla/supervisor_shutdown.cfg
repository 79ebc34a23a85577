SPECIFICATION FairSpec
CONSTANTS
    Conn = {c1, c2}
    None = None
    max_children = 2
    Forking = TRUE
    Backlog = 2
    AcceptMayFail = TRUE
    ForkMayFail = TRUE

PROPERTY ShutdownStops
