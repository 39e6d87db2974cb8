SPECIFICATION FairSpec
CONSTANTS
    Clients = {c1, c2}
    None = None
    MaxVfd = 2
    MaxPosts = 6
    MaxPaks = 2
INVARIANTS TablesAgree NoErrorBeforeStop AppOrder ClosedIsGone
PROPERTIES CloseReported
