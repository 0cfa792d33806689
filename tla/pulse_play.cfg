\* A task kills the output; notes on both sides of the refill level, and beyond the cut.
SPECIFICATION FairSpec
CONSTANTS
    Capacity = 2
    LowWater = 2
    MaxNote = 4
    Killers = {k1}
    Shooters = {}
    MaxLength = 2
PROPERTIES KeepsPlaying
