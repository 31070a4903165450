SPECIFICATION IOSpec
CONSTANTS
    FrameLen = 4
    SizeLimit = 16
    MaxErrors = 2
    MaxSends = 3
    HeadLen = 2
    MaxBody = 2
    BuffSize = 6
    MaxFrames = 3
    AuthAnswer = "any"
    RestComes = FALSE
INVARIANTS
    CleanIsWhole
    NothingLeftOut
    NoFrameBehindHalf
    WholeWithoutTrouble
    BytesOnceInOrder
    NothingLost
PROPERTIES
    ChannelUntilMarred
    SendReturns
    ChannelUntilTrouble
    CallReturns
    EveryMessageArrives
