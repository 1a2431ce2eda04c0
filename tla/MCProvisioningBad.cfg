SPECIFICATION Spec
CONSTANTS
    i1 = i1
    i2 = i2
    t1 = t1
    t2 = t2
    Missing = Missing
    Empty = Empty
    Bad = Bad
    Issues <- MCIssues
    Tokens <- OneToken
INVARIANT CertificateCorrect
