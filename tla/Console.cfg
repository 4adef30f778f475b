SPECIFICATION Spec
CONSTANTS
    IntBits = 4
    LongBits = 8
    Width = 2
    Height = 1
    Prompt <- MCPrompt
    Commands <- MCCommands
    Keyboards <- MCKeyboards
    Legend <- MCLegend
    MaxBytes = 2
INVARIANTS
    ScreenShowsTheText
    KeysAreEchoed
    TextIsRight
PROPERTIES
    CursorComesBack
CHECK_DEADLOCK FALSE
