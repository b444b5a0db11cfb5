SPECIFICATION MCSpec
CONSTANTS
    MAX_NBT_DEPTH = 4
    Samples = {1}
    Alphabet = {0, 1, 15, 16, 127, 128, 255}
    MaxRun = 5
    Surplus = 2
    MaxNumber = 800
    PacketSubjects <- MCPacketSubjects
    NbtSubjects <- MCNbtSubjects
    Numbers <- MCNumbers
    BuiltSubjects <- MCBuiltSubjects
    JsonSubjects <- MCJsonSubjects
    Conversations = {}
    Pieces = {1}
INVARIANT SkipStepsOverOneValue
CHECK_DEADLOCK FALSE
