SPECIFICATION EndingFeedSpec
CONSTANTS
    Width = 2
    Height = 2
    Clients = {1, 2}
    SpawnMargin = 0
    MinFood = 1
    MovementFrequency = 2
    BoostedMovementFrequency = 1
    BoostDuration = 1
    MaxElapsed = 1
    MaxLength = 12
INVARIANTS
    HighScoreCovers
    FeedIsCurrent
PROPERTIES
    HeadOnLeavesOne
    NoOverlapButGrowth
    FoodFeedsOne
    ImplementsScoreboard
