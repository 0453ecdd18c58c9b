SPECIFICATION FairFileSpec
CONSTANTS
    Files <- MCFiles
    Garbage <- MCGarbage
    Cut = 40
    MaxRewinds = 1
    MaxDepth = 2
    NsPerSec = 1000
    UsPerSec = 100
    Word = 1048576
    WordBits = 20
INVARIANTS
    FileTypeOK
    ReadsInsideFile
    PacketAsCaptured
    InterfaceKnown
    CursorAtBlock
    ReleasedWhenDestroyed
PROPERTIES
    NextPacketOrEnd
    StepReturns
CHECK_DEADLOCK FALSE
