\* Two voices, chords of two keys' worth of blocks: notes, pedal, volume, bends.
SPECIFICATION VmsFairSpec
CONSTANTS
    low = low
    high = high
    NVoices = 2
    Notes = {high}
    UserBlocks <- Envelope
    Entries <- Chord
    Consoles = {}
    CanTransient = FALSE
    MaxCommands = 0
    MaxWraps = 0
INVARIANTS VmsTypeOK OneBlockPerValue
PROPERTIES ReleasedFallsSilent HeldIsHeard
