CONSTANTS
    User = {u1}
    Group = {"members"}
    Key = {k1}
    Profile = {p1}
    Name = {n1, Blank}
    BindingId = {}
    Grant = {}
    Setting = {}
    None = None
    Folder = {inbox, f2}
    Inbox = inbox
    Operations = p1
    Uid = {1}
    Blank = Blank
    Socket = {k}
    QueueSize = 1
    MaxLines = 1
    Start <- TwoStarts
    Later <- Registry
    MaxClicks = 2
    MaxStops = 1
SPECIFICATION FairSpec
CHECK_DEADLOCK FALSE
INVARIANT TypeOK
INVARIANT ActsAsConfirmed
INVARIANT EventsInOrder
INVARIANT RegistrySound
PROPERTY VanishConfirmed
PROPERTY CallsSettle
PROPERTY LinesArrive
