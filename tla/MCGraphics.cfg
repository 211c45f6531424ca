SPECIFICATION Spec
CONSTANTS
    Components = {"compositor", "windows", "clip", "damage", "cursor", "shapes"}
    FbW = 3
    FbH = 2
    MaxSurfaces = 3
    MaxDamage = 2
    Rects <- MCRects
    Layers = {"NORMAL"}
    Alphas = {128, 300}
    Depths = {99, 100, 101, 102}
    MaxSurfaceId = 3
    MaxCalls = 2
    ScreenW = 12
    ScreenH = 10
    TaskbarH = 2
    MinWidth = 4
    MinHeight = 4
    TitlebarH = 2
    BorderW = 1
    ResizeHandle = 1
    SnapThreshold = 1
    ButtonPitch = 1
    ButtonWidth = 1
    CascadeStart = 1
    CascadeStep = 3
    MaxWindows = 2
    NewWindows <- MCNewWindows
    WindowRects <- MCWindowRects
    Points <- MCPoints
    MaxWindowId = 3
    MaxEvents = 5
    CanvasW = 7
    CanvasH = 7
    ClipDepth = 3
    ClipRects <- MCClipRects
    MaxRects = 2
    Near = 2
    DamageRects <- MCDamageRects
    Sizes <- MCSizes
    CURSOR_SIZE = 2
    Pointed <- MCPointed
    Pictures = {"ARROW", "IBEAM", "HIDDEN"}
    DrawCalls <- MCDrawCalls
    NoCall = NoCall
    MaxSteps = 5
CHECK_DEADLOCK FALSE
INVARIANTS
    ScreenExact
    WindowsSound
PROPERTIES
    EdgeAnchored
