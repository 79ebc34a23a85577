SPECIFICATION FairSpec
CONSTANTS
    Conn = {c1, c2, c3, c4}
    None = None
    max_children = 2
    Forking = TRUE
    Backlog = 2
    AcceptMayFail = TRUE
    ForkMayFail = TRUE
INVARIANTS TypeOK CountExact CapRespected NoZombieForgotten
PROPERTIES PoolSpec ZombiesReaped QueueMoves ShutdownHonoured
