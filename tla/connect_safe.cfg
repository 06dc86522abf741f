SPECIFICATION Spec
CONSTANTS
    Nodes = {n1, n2}
    n1 = n1
    n2 = n2
    Conns = {c1, c2}
    Probe = probe
    None = None
    Installed = {"zlib", "snappy"}
    Offers <- MCOffers
    Programs <- MCPrograms
    Names <- MCNames
    Replies <- MCReplies
    InitialUsers <- MCUsers
    Edits <- MCEdits
    MaxChanges = 2
INVARIANTS
    TypeOK
    HandshakeSettles
    GoodCredentialsConnect
    FromUriFindsPrimary
    CompressionAgreed
    CodesKept
SYMMETRY Symmetry
CHECK_DEADLOCK FALSE
