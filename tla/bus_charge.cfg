SPECIFICATION FairSpec
CONSTANTS
    Window = 1
    TopV = 2
    Schemes = {"AC_PRECHARGE_BUS_SCHEME", "AC_PRECHARGE_FIXED_DELAY"}
INVARIANTS TypeOK BypassBehindBus TriggeredIsBacked ReadyIsBacked
PROPERTIES  OnBecomesReady
