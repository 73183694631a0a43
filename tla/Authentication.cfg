SPECIFICATION Spec
CONSTANTS
    k1 = k1
    rsa = rsa
    idp = idp
    jwksUrl = jwksUrl
    ours = ours
    ann = ann
    malformed = malformed
    novalue = novalue
    wrong = wrong
    dev = dev
    own = own
    Environments <- MCEnvironments
    Files <- MCFiles
    Unreadable = unreadable
    Malformed = malformed
    WrongType = wrong
    NoValue = novalue
    Blank = blank
    DefaultTtl = 2
    DefaultSkew = 1
    BuiltIn <- MCBuiltIn
    Keys = {k1, rsa}
    KeyAlg <- MCKeyAlg
    Symmetric = {k1}
    ForSigning = {k1, rsa}
    Tokens <- MCTokens
    RequiredRoles = {{}, {"data_steward", "platform_admin"}}
    Down = down
    NoEntry = noentry
    MaxClock = 3
    MaxMoves = 2
INVARIANTS
    TypeOK
    AcceptedKeyWasPublished
    RefusalHasCause
    HeaderTrustedOnlyIfTold
    BuiltInOnlyByDefault
