SPECIFICATION FairFeedSpec
CONSTANTS
    Width = 3
    Height = 2
    Clients = {1}
    SpawnMargin = 0
    MinFood = 1
    MovementFrequency = 2
    BoostedMovementFrequency = 1
    BoostDuration = 2
    MaxElapsed = 2
    MaxLength = 12
INVARIANTS
    TypeOK
    BodiesInArena
    NecksBehind
    ClocksAgree
PROPERTIES
    NoReversal
    FoodIsShown
    EverySnakeMoves
