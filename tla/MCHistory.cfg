SPECIFICATION Spec
CONSTANTS
    Lanes <- MCLanes
    Files <- MCFour
    ConfiguredOwner <- MCFourOwner
    Divisible <- MCDivisible
    Movable <- MCMovable
INVARIANTS
    TypeOK
    ExactlyOnce
    NeverTwice
    RecordsOwned
PROPERTIES
    RecordsWhole
