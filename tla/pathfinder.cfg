SPECIFICATION Spec
CONSTANTS
    Width = 3
    Height = 3
    MaxGoals = 2
INVARIANTS
    MapIsDistance
    AvoidsBodies
    TakesShortestWay
CHECK_DEADLOCK FALSE
