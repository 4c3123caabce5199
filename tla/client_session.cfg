SPECIFICATION Spec
CONSTANTS
    Me = 1
    MaxUp = 4
    MaxDown = 5
INVARIANTS
    TypeOK
    NoGhost
CHECK_DEADLOCK FALSE
