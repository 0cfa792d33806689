\* With and without the hypervisor.
SPECIFICATION FairSpec
CONSTANTS
    Terminals = {usb}
    Latched = {}
    Transient = {"charge"}
    ResetTime = 2
    FbTime = 2
    WdTime = 2
    MaxFb = 1
INVARIANTS TypeOK OldErrorsForgiven
PROPERTIES FaultsHoldTheLine WatchdogReturns HypervisorRecovers
