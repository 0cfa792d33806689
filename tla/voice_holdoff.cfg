\* Three voices: the restart of the list passes over voice 0.
SPECIFICATION Spec
CONSTANTS
    N = 3
    Tones <- ThreeTones
    Hypers <- ThreeHypers
    Scales = {1}
    MaxVol = 1
    Offtime = 1
    MaxNoise = 0
    Horizons = {2}
    Never = 99
INVARIANTS HoldoffComplete
