SPECIFICATION FairSpec
CONSTANTS
    e1 = e1
    e2 = e2
    e3 = e3
    e4 = e4
    e5 = e5
    None = None
    Workers = {w1, w2}
    Clients = {}
    Events = {e1, e2, e4, e5}
    Ids = {i1, i2}
    Services <- MCServices
    Environments <- MCEnvironments
    Graph <- MCGraph
    Signal <- MCSignal
    Window = 300
    LinkWindow = 200
    MaxAttempts = 2
    MayCrash = FALSE
    SendOutcomes = {TRUE}
PROPERTY HandlersFinish
