SPECIFICATION Spec
CONSTANTS
    e1 = e1
    e2 = e2
    c1 = c1
    NoChat = NoChat
    Calls = {e1, e2}
    Chats = {c1}
    ChatOf <- ChatOfOne
    StoreFails = FALSE
    MaxId = 2
    MaxRestarts = 0
INVARIANT RepliesDelivered
CHECK_DEADLOCK FALSE
