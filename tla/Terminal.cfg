SPECIFICATION FairSpec
CONSTANTS
    Char = {a, b}
    Nul = Nul
    Junk = Junk
    CommandLength = 3
    MaxLine = 2
    MaxPending = 2
INVARIANTS
    CountFitsBlock
    StdinIsTheLine
    LostOnlyWhenRushed
PROPERTIES
    LinesArePrinted
