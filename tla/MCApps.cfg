SPECIFICATION Spec
CONSTANTS
    Components = {"keys", "engine", "bytes", "screen", "text", "mouse", "files", "textbox", "textarea", "list", "tree", "control", "menu", "syntax"}
    Junk = "junk"
    NoFile = "none"
    GapSize = 2
    MaxAlloc = 12
    UNDO_CAP = 2
    Typed = {"x"}
    TabText <- MCTab
    Names = {"f", "g"}
    FileTexts <- MCFileTexts
    Needles <- MCNeedles
    Rows = 1
    Points <- MCPoints
    MaxEvents = 4
    EngineTyped = {"(", ")", "q"}
    Config <- MCConfig
    Prefix <- MCPrefix
    EngineTexts <- MCEngineTexts
    TermCols = 2
    TermRows = 3
    NewSizes <- MCSizes
    ScrollbackCap = 2
    TabStop = 2
    MaxParams = 2
    MaxInterm = 1
    MaxOsc = 3
    MaxParam = 99
    Chunks <- MCChunks
    MaxFeeds = 7
    StartTree <- MCTree
    StartPath <- MCRoot
    NameOrder <- MCNameOrder
    HiddenNames = {"h"}
    NewNames = {"b", "m"}
    StartMarks <- MCMarks
    MAX_BOOKMARKS = 4
    MAX_NAV = 2
    ITEM_H = 2
    ViewH = 3
    FmRows = {0, 2}
    FmPlaces <- MCPlaces
    MaxDepth = 3
    MaxFmEvents = 4
    BoxLetters = {"a", "b"}
    BoxMaxLen = 3
    TEXTBOX_HISTORY = 2
    VisibleChars = 2
    NoText <- MCNoText
    MaxBoxEvents = 4
    TaChars = {"x", "{", "U+0178", "U+0100", "U+010A"}
    TEXTAREA_TAB_WIDTH = 2
    TEXTAREA_UNDO_DEPTH = 2
    TaRows = 2
    TaCols = 2
    TaGutter = 1
    TaTexts <- MCAreaTexts
    MaxTaLines = 4
    MaxTaLen = 4
    MaxTaEvents = 3
    ListItems = {"i"}
    LISTVIEW_MAX_ITEMS = 4
    ListRows = 2
    BarLen = 4
    MIN_THUMB = 2
    MaxListEvents = 3
    WidgetIds = {1, 2, 3}
    Root = 1
    WIDGET_MAX_CHILDREN = 2
    WidgetW = 2
    WidgetPos = {1, 2, 4}
    ControlKinds = {"button", "checkbox", "radio", "slider", "progress"}
    TrackLen = 8
    THUMB_D = 2
    Ranges <- MCRanges
    Steps = {1, 2}
    MouseAt <- MCMouseAt
    MenuItems <- MCMenu
    MENU_ITEM_H = 2
    SEPARATOR_H = 1
    MENU_PAD = 1
    MaxControlEvents = 4
    SyntaxTexts <- MCSyntaxTexts
    SyntaxPaths <- MCSyntaxPaths
    Keywords <- MCKeywords
    TypeNames = {}
    SyntaxRows = 1
    MaxDraws = 2
CHECK_DEADLOCK FALSE
INVARIANTS
    EditorExact
    TerminalExact
    FilesSafe
    TextWidgetsSound
    ToolkitSound
PROPERTIES
    RegionKept
