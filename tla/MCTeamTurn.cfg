CONSTANTS
    Focuses = {"collaboration"}
    host = host
    guest = guest
    p1 = p1
    p2 = p2
    p3 = p3
    t1 = t1
    x1 = x1
    x2 = x2
    y1 = y1
    y2 = y2
    NoOwner = NoOwner
    NoRequest = NoRequest
    NoRecording = NoRecording
    Members = {host, guest}
    Patches = {p1, p2, p3}
    Terminals = {t1}
    Writer <- MCWriter
    Nodes = {host, guest}
    Host = host
    Requests = {x1, x2}
    Limit = 1
    MaxTurns = 2
    Recordings = {y1, y2}
    MaxReadings = 3
    MaxEvents = 3
    MaxSentences = 2
    Conversations = {host, guest}
    Pages = {y1, y2}
    ToolCalls = {x1, x2}
    CallOf <- MCCallOf
    Downloads = {d1}
    NoPage = NoPage
    NoConversation = NoConversation
    MaxTyped = 2
    MaxSubmits = 2
    Images = {y1, y2}
    MaxMounts = 2
    MaxQueueChanges = 3
    MaxLists = 3
    Chats = {x1, x2}
    NoChat = NoChat
    MaxRefreshes = 2
    MaxQueries = 3
    LastMessage = 4
SPECIFICATION Spec
SYMMETRY Symmetry
INVARIANTS
    OneTurn
CHECK_DEADLOCK FALSE
