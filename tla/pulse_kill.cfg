\* One task kills the output and another queues single pulses while notes come and go.
SPECIFICATION Spec
CONSTANTS
    Capacity = 2
    LowWater = 2
    MaxNote = 2
    Killers = {k1}
    Shooters = {s1}
    MaxLength = 1
INVARIANTS TypeOK BeliefNearTruth TimerServed AtMostOneStray
