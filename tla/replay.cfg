SPECIFICATION Spec
CONSTANTS
    Width = 2
    Height = 3
    MinFood = 1
    MovementFrequency = 2
    BoostedMovementFrequency = 1
    BoostDuration = 1
    Outcomes = {0, 1}
    Period = 4
    MaxElapsed = 2
    MaxTime = 8
    MaxMessages = 2
INVARIANTS
    ReproducesRecording
PROPERTIES
    ReplayAdvances
CHECK_DEADLOCK FALSE
