SPECIFICATION Spec
CONSTANTS
    None = None
    KEEP = 5
    CAP = 4
    FITS = 1
    MaxEvents = 7
    Frames = 4
    Still = 2
    Steps = 3
    MaxTasks = 4
    Shots <- TwoLooks
    GLIDE = 2
    Words <- ThreeLines
    Authored <- AtTheCuts
    Anchors <- TheLast
    Reads <- SomeReads
    GAP = 1
    VO_MAX = 4
    Outro = 14
    LCM = 2
    Arrivals <- FourSites
    LEAD = 1
    HOLD = 1
    RESET = 1
    OFFSET = 1
    CAPTION = 2
    TOAST = 1
    REVEAL = 1
    MaxCaptions = 2
    MaxToasts = 2
    Honest = {a}
    Sybils = {s}
    INJECT = 1
    CLEAR = 3
    LATE = 1
    HB = 2
    BEAT = 0
    SNAP = 2
    END = 6
    FROM = 2
    TO = 6
    STEP = 2
    SLACK = 2
    ACT <- AnAct
    RATE = 2
    Members = {m1, m2}
    SybilIds = {y}
    EclipseIds = {c}
    MaxBlows = 2
    Scripts <- SomeCuts
    HALF = 3
    FALL = 2
    LEVELS = 8
INVARIANTS
    FilmIsRight
    RestsOffScreen
    ReadersAgree
    AttackShown
PROPERTIES
    RailHolds
    ShowsStill
    EachHasItsTime
\* The log, the recording and the run have an end.
CHECK_DEADLOCK FALSE
