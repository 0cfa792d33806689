SPECIFICATION ThermSpec
CONSTANTS
    NSensors = 2
    Limited = {1, 2}
    Rounds = 5
    MaxCalibrations = 1
PROPERTIES HotAlwaysTrips
CHECK_DEADLOCK FALSE
