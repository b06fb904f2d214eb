SPECIFICATION Spec
CONSTANTS
    a = a
    b = b
    desktop = desktop
    NoClient = NoClient
    Clients = {a, b, desktop}
    Kind <- KindDef
    KSlots = {0, 1}
    Keys = {"x"}
    RingCap = 1
    Fds = {5, 6}
    Slots = {1, 2}
    Cells = {1, 2}
    Places <- PlacesDef
    MaxIds = 2
    m1 = m1
    m2 = m2
    Server = server
    Mappers = {a, b, m1, m2}
    MaxMaps = 3
    MaxStale = 3
    wsd = wsd
    Pages = {1, 2}
    u = u
    v = v
    Urls = {u, v}
    Widths = {1, 2}
    HistCap = 2
    MaxReq = 2
    MaxClicks = 1
    Lockers = {a, b, desktop}
    MaxKids = 3
    MaxStages = 3
    Daemons = {wsd}
    MaxDeaths = 2
    Cap = 2
    PasteMax = 3
CHECK_DEADLOCK FALSE
SYMMETRY Symmetry
INVARIANTS ScreenIsCurrent StacksAgree WindowsAreOwn FocusSound FrameBuffersSound BrowserSound MutexSound JobsSound TerminalSound
