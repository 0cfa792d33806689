\* Two voices.
SPECIFICATION LiveSpec
CONSTANTS
    N = 2
    Tones <- TwoTones
    Hypers <- TwoHypers
    Scales = {0, 1}
    MaxVol = 1
    Offtime = 1
    MaxNoise = 2
    Horizons = {3}
    Never = 99
INVARIANTS TypeOK HoldoffBeyondFirst
PROPERTIES InTune EveryNoteSounds
