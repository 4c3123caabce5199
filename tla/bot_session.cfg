SPECIFICATION FairSpec
CONSTANTS
    Me = 1
    MaxUp = 4
    MaxDown = 5
INVARIANTS
    TypeOK
    NoGhost
    OneJoinAtATime
PROPERTIES
    BotReturns
