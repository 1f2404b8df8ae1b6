CONSTANTS
    Word = 4
    Scale = 3
    Milli = 2
    KB = 2
    MaxWindow = 2
    Levels <- MCLevels
    Files <- MCFiles
SPECIFICATION Spec
INVARIANTS
    NumbersTrue
PROPERTIES
    UsageOfWindow
