CONSTANTS
    Focuses = {"conversation", "session", "models", "mcp", "skills", "team", "voices", "timeline", "tools"}
    x1 = x1
    x2 = x2
    k1 = k1
    k2 = k2
    MaxThreadTurns = 2
    Accounts = {x1, x2}
    NoAccount = NoAccount
    ModelIds = {x1, x2}
    NoModel = NoModel
    Jobs = {x1, x2}
    NoClient = NoClient
    MaxSaves = 1
    Tasks = {x1, x2}
    Files = {manifest, f2}
    Manifest = manifest
    MaxVersion = 3
    Teams = {x1, x2}
    TeamTasks = {k1, k2}
    Nothing = Nothing
    VoiceIds = {v1}
    Spaces = {"s1", "s2"}
    Languages = {"zh", "en"}
    MaxVoices = 1
    MaxExecutions = 2
    MaxWords = 2
    Servers = {x1, x2}
    Tools = {t1}
    MaxTurns = 2
    MaxCalls = 4
    MaxBatch = 2
SPECIFICATION Spec
SYMMETRY Symmetry
CONSTRAINT FewAsked
INVARIANTS
    
    SessionSafe
    
    TeamPageSafe
    TimelineSafe
    ToolsSafe
CHECK_DEADLOCK FALSE
