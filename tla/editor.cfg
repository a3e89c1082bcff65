SPECIFICATION EditorSpec
CONSTANTS
    a = a
    b = b
    Chars <- MCChars
    HistChar = b
    Nul = Nul
    Blank = Blank
    Size = 3
    HistMax = 3
    Depth = 4
    Commands <- MCCommands
INVARIANTS ScreenInv
PROPERTIES TabKeepsMatches Promised
CHECK_DEADLOCK FALSE
