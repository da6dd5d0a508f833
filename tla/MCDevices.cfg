CONSTANTS
    Focuses = {"video", "operations", "automation", "install", "chats", "deletion", "mcp"}
    x1 = x1
    x2 = x2
    y1 = y1
    y2 = y2
    Owners = {x1, x2}
    Operations = {y1, y2}
    Viewers = {y1, y2}
    NoOwnerYet = NoOwnerYet
    NoViewer = NoViewer
    Scenes = {"list", "many", "turned"}
    Turned = {"turned"}
    Ambiguous = {"many"}
    MaxSeen = 3
    MaxActs = 2
    MaxTouches = 1
    Parts = 2
    MaxJobs = 3
    MaxCrashes = 2
    PhoneChats = {x1, x2}
    New = New
    MaxSends = 2
    MaxScreens = 3
    MaxDeletions = 1
    PhoneCalls = {k1, k2, k3}
SPECIFICATION Spec
SYMMETRY Symmetry
INVARIANTS
    DeviceSafe
    
    
    
PROPERTIES
    ForeignKept
CHECK_DEADLOCK FALSE
