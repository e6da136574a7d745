SPECIFICATION Spec
CONSTANTS
    CharHeight = 18
    Height = 40
    MsgLens = {0, 4}
    QueueLen = 2
    MaxMsgs = 4
    MaxErrors = 1
INVARIANTS
    ProgressTracksLine
    NoStaleGlyph
    ScreenMatchesText
    ThreadAlive
PROPERTIES
    SpinnerTurns
    MessagesShown
    ImplementsTerminal
CHECK_DEADLOCK FALSE
