\* One voice; a console kills, switches the mode and sets the pulse width twice.
SPECIFICATION VmsSpec
CONSTANTS
    low = low
    high = high
    NVoices = 1
    Notes = {low}
    UserBlocks <- Envelope
    Entries <- OneKey
    Consoles = {"usb"}
    CanTransient = TRUE
    MaxCommands = 2
    MaxWraps = 1
INVARIANTS HeardHasBlock KillSilences SwitchSilences
