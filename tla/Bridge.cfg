CONSTANTS
    Replies = {first, second, theirs}
    Foreign = {theirs}
    MaxErrors = 2
    MaxDeaths = 1
SPECIFICATION FairSpec
INVARIANTS TypeOK HeldOnce TwicePaidFor
PROPERTIES KeepsPromise EveryReplyEnds
