SPECIFICATION FairSpec
CONSTANTS
    plain = plain
    slashed = slashed
    other = other
    ann = ann
    x = x
    y = y
    NULL = NULL
    Blank = Blank
    Workers = {w1, w2}
    Issuers <- MCIssuers
    Subjects <- MCSubjects
    Texts <- MCTexts
    Trim <- MCTrim
    Patches <- MCPatches
    Tokens <- MCTokens
INVARIANTS TypeOK ServedAsHolder RaceIsResolved
PROPERTIES Answered OnlyNamedFields ImplementsMap
