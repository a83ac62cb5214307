SPECIFICATION FairSpec
CONSTANTS
    e1 = e1
    e2 = e2
    c1 = c1
    NoChat = NoChat
    Calls = {e1, e2}
    Chats = {c1}
    ChatOf <- ChatOfOne
    StoreFails = TRUE
    MaxId = 2
    MaxRestarts = 1
INVARIANTS
    OneLoopPerSchedule
    RepliesAreHonest
PROPERTIES
    ReturnsAfterRestart
CHECK_DEADLOCK FALSE
