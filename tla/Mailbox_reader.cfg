SPECIFICATION FairSpec
CONSTANTS
    short = short
    long = long
    longer = longer
    r1 = r1
    Readers = {r1}
    Messages = {short, long, longer}
    Pieces <- MCPieces
    Size = 2
    Nothing = Nothing
    MaxArrivals = 3
INVARIANTS
    ReadWholeInOrder
    NeverEmptyHanded
PROPERTY EveryMessageRead
