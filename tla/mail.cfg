SPECIFICATION FairSpec
CONSTANTS
    plain = plain
    broken = broken
    twice = twice
    Mails = {plain, broken, twice}
    Unparsable = {broken}
    Repeated = {twice}
    MaxTries = 2
    Grace = 2
INVARIANTS TypeOK AcceptedWasTaken
PROPERTIES ImplementsRelay ShutdownEnds AnswersWhenProviderDoes
