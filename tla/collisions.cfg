SPECIFICATION LoopSpec
CONSTANTS
    Width = 2
    Height = 2
    Clients = {1, 2}
    SpawnMargin = 0
    MinFood = 1
    MovementFrequency = 2
    BoostedMovementFrequency = 1
    BoostDuration = 1
    MaxElapsed = 1
    MaxLength = 4
PROPERTIES
    ImplementsEngine
