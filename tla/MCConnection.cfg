SPECIFICATION ConnectionSpec
CONSTANTS
    i1 = i1
    i2 = i2
    t1 = t1
    t2 = t2
    Missing = Missing
    Empty = Empty
    Bad = Bad
    Issues <- MCIssues
    Tokens <- MCTokens
    Tcp = {tcp1}
    Ssl = {ssl1}
    Base = Base
    MaxFd = 2
    Fields = {"path"}
    Messages <- Payloads
    AppLen = 2
    MaxWire = 2
INVARIANTS
    TypeOK
    FilesOfOneIssue
    ClientOfOneIssue
    TransportSound
    WebSocketSound
PROPERTIES
    CredentialsKept
    ClientComes
