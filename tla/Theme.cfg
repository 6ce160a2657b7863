CONSTANTS
    PageColours <- PageGrid
    UnreadColour = UnreadColour
    NoColour = NoColour
    NoTheme = NoTheme
    MaxChanges = 1
CHECK_DEADLOCK FALSE
SPECIFICATION Spec
INVARIANTS
    TypeOK
    HslNamesTheColour
    SettledThemeFits
PROPERTY ThemeSettles
