SPECIFICATION Spec
CONSTANTS
    ann = ann
    bot = bot
    eu = eu
    us = us
    d1 = d1
    d2 = d2
    d3 = d3
    Claims <- MCClaims
    Nobody = nobody
    NoRegion = noregion
    Texts = {t1}
    NoText = notext
    Foreign <- MCForeign
    DocRegion <- MCDocRegion
    Manifests <- MCManifests
    Builds = {b1, b2}
    NoBuild = nobuild
    Torn = torn
    Packs = {p0, p1}
    NoPack = p0
    MaxConcurrent = 2
    MaxRequests = 2
    MaxEntries = 1
    Ttl = 1
    MaxClock = 1
    MaxMoves = 3
INVARIANTS
    TypeOK
    SlotsAccounted
    AnswersAsAudited
    EntriesOfTheirBuild
PROPERTIES
    LockedOutUntilRestart
    StaleAtMostTtl
