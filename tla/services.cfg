\* The services side by side.  Uploads, frames, saves and calibrations are bounded, so
\* a service may come to its end.
SPECIFICATION Spec
CONSTANTS
    RowSize = 3
    MapCells = 14
    BlockCells = 4
    Uploads <- HostUploads
    Programs = {0, 1, 2}
    MaxUploads = 2
    MaxRestarts = 2
    Capacity = 16
    StopBelow = 8
    StartAbove = 11
    RepeatAbove = 14
    Batch = 2
    Slack = 1
    Delays = {0, 1}
    Timeout = 3
    MaxWaiting = 2
    Shapes <- Tunes
    MaxFrames = 2
    RomSize = 9
    RowLength = 3
    Firmwares <- Releases
    Settings = {0, 1}
    Preset = 0
    MaxEvents = 5
    DataBytes = {0, 1}
    SysexSize = 3
    MaxRunning = 5
    NSensors = 2
    Limited = {1, 2}
    Rounds = 3
    MaxCalibrations = 1
INVARIANTS UploadLands NothingDropped DatasetKept ChannelMessagesArrive
PROPERTIES RowsAreKept StreamResumes EndedStreamFallsSilent EnvelopeFollowsGate HotTripsFault
CHECK_DEADLOCK FALSE
