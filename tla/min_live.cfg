\* One session, one end talks.
SPECIFICATION FairSpec
CONSTANTS
    Ends = {ud3, host}
    Talkers = {ud3}
    SeqSpace = 3
    MaxWindow = 2
    MaxFrames = 2
    LineSpace = 2
    Rooms = {TRUE}
    MaxMsgs = 3
    MaxResets = 0

PROPERTIES EverythingArrives
