SPECIFICATION FairSpec
CONSTANTS
    old = old
    new = new
    None = None
    Tasks = {t1, t2}
    Keys <- MCKeys
    InitialKeys <- MCInitialKeys
    Tokens <- MCTokens
    TTL = 2
    Timeout = 1
INVARIANTS TypeOK CachedKeysRecent
PROPERTIES WithdrawnKeyRefused Answered RotatedKeyAdmitted
