CONSTANTS
    n1 = n1
    n2 = n2
    health = health
    api = api
    None = None
    Node = {n1}
    HealthLoop = health
    Poller = {api}
    Interval = 2
    SuspectedMisses = 3
    DeadMisses = 5
SPECIFICATION FairSpec
PROPERTIES DeathIsHandled
