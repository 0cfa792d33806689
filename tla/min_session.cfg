\* One end talks, sequence numbers wrap, either end resets once.
SPECIFICATION Spec
CONSTANTS
    Ends = {ud3, host}
    Talkers = {ud3}
    SeqSpace = 3
    MaxWindow = 2
    MaxFrames = 2
    LineSpace = 2
    Rooms = {TRUE, FALSE}
    MaxMsgs = 3
    MaxResets = 1
INVARIANTS TypeOK WindowInQueue
PROPERTIES ReliableInSession
