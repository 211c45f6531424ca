SPECIFICATION Spec
CONSTANTS
    Components = {"init", "shell", "readline", "protocol", "windows", "keys", "mouse", "timers", "desktop", "taskbar", "clock", "launcher", "notifications", "http", "browser", "page", "calculator", "malloc"}
    Inittabs <- MCInittabs
    OldDirs <- MCOldDirs
    MAX_SERVICES = 5
    MaxPid = 6
    ShellLines <- MCLines
    Programs <- MCPrograms
    NameChars = {"x", "y"}
    Directory <- MCDirectory
    MAX_ARGS = 3
    MAX_REDIRS = 2
    MAX_CMDS = 2
    MAX_JOBS = 2
    MAX_ALIASES = 2
    MaxLinesTyped = 2
    EditKeys = {"a", " "}
    HistoryFile <- MCHistory
    MAX_LINE = 4
    MAX_HISTORY = 3
    MaxKeys = 6
    Apps = {1, 2}
    Kinds <- MCKinds
    IPC_MAX_CLIENTS = 2
    IPC_RECV_BUF = 3
    MaxSent = 2
    NoApp = 0
    NV0_MAX_WINDOWS = 3
    MaxWindowId = 4
    Widths = {1, 2}
    NoSurface = 0
    ModifierKeys <- MCModifiers
    PlainKeys = {"a"}
    ScreenW = 3
    ScreenH = 2
    Deltas <- MCDeltas
    Intervals = {1, 2}
    MAX_TIMERS = 2
    MaxTime = 5
    DESKTOP_MAX_ICONS = 3
    DESKTOP_ICONS_PER_COL = 2
    DESKTOP_ICON_SIZE = 2
    DESKTOP_ICON_LABEL_H = 1
    DESKTOP_ICON_SPACING = 3
    DesktopW = 6
    DesktopH = 9
    CONTEXT_W = 4
    CONTEXT_ITEM_H = 1
    ContextBorder = 0
    DefaultIcons <- MCIcons
    DesktopPoints <- MCDesktopPoints
    Wallpapers = {"none"}
    MaxDeskEvents = 4
    TASKBAR_MAX_BTNS = 2
    BarWidth = 320
    BarWindows = {1, 2, 3}
    Titles = {"t"}
    BarPoints = {10, 70, 140, 200}
    LAUNCHER_MAX_VISIBLE = 2
    LauncherItems <- MCLauncher
    SearchLetters = {"a", "c"}
    MaxSearch = 2
    MinRows = 1
    Days <- MCDays
    MaxBarEvents = 4
    NOTIF_MAX = 2
    NOTIF_DURATION = 4
    NOTIF_ANIM = 2
    NotifPitch = 6
    ScreenBottom = 20
    FullAlpha = 5
    MaxPushed = 3
    StartUrls <- MCStartUrls
    SizeMod = 64
    NumericHosts <- MCNumericHosts
    SOCKET_MAX = 5
    OpenTables = {{}, {3}, {0, 2, 3}}
    MaxFetches = 5
    Pages <- MCPages
    MAX_REDIRECTS = 2
    MaxPiece = 3
    Sites <- MCSites
    NoDoc = NoDoc
    NoTitle = "no"
    StartUrl <- MCStartUrl
    BarChars = {"/"}
    MAX_URL_LEN = 6
    BROWSER_HISTORY = 3
    ViewHeight = 2
    ScrollStep = 2
    MaxVisits = 6
    Sources <- MCSources
    NoTree = NoTree
    ENTITY_MAX = 5
    Selectors <- MCSelectors
    ViewportW = 100
    BaseFont = 14
    DigitKeys = {"0", "1", "5"}
    OpKeys = {"+", "*", "/"}
    Scale = 1000
    MaxValue = 40000
    MAX_EXPR = 6
    CALC_HISTORY = 1
    MaxCalcKeys = 5
    Meta = 1
    Granule = 2
    AddrMod = 32
    FirstBreak = 1
    Sizes = {0, 1, 3, 13}
CHECK_DEADLOCK FALSE
INVARIANTS
    ConsoleSound
    ProtocolSound
    EventsFaithful
    ShellSurfacesSound
    BrowserExact
    CalculatorExact
PROPERTIES
    UserHeapIsAllocator
    UserlandGoesOn
