SPECIFICATION SendSpec
CONSTANTS
    FrameLen = 4
    SizeLimit = 16
    MaxErrors = 1
    MaxSends = 1
INVARIANT SentIsWhole
