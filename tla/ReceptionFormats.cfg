SPECIFICATION MCSpec
CONSTANTS
    MAX_NBT_DEPTH = 4
    Samples = {1, 2, 6}
    Alphabet = {0, 1, 15, 16, 127, 128, 255}
    MaxRun = 5
    Surplus = 2
    MaxNumber = 800
    PacketSubjects <- MCPacketSubjects
    NbtSubjects <- MCNbtSubjects
    Numbers <- MCNumbers
    BuiltSubjects <- MCBuiltSubjects
    JsonSubjects <- MCJsonSubjects
    Conversations <- MCConversations
    Pieces = {1, 200}
INVARIANTS
    DecodesExactlyWhenComplete
    TagsAreReadBack
    NumbersHaveOneEncoding
    IdsNameOnePacket
    LoginBodiesAreRead
    LimboShowsAWorld
    RespawnFitsJoinGame
    OneFormPerMessage
    ReadsStayAligned
CHECK_DEADLOCK FALSE
