SPECIFICATION Spec
CONSTANTS
    Numbers <- MCNumbers
    CountMax = 65535
    Leads <- MCLeads
    Continuations <- MCContinuations
    SecondBytes <- MCSecondBytes
    NeverBytes <- MCNeverBytes
    Replacement <- MCReplacement
    StandIn <- MCStandIn
    VS16 <- MCVS16
    Wide <- MCWide
    Widened <- MCWidened
    Glyphs <- MCGlyphs
    Base64Text <- MCBase64Text
    SixelBits <- MCSixelBits
    TabInterval = 2
    HardTab = 2
    OscMax = 12
    LinkHistory = 2
    LabelMax = 6
    ShapeMax = 6
    HeadMax = 32
    CaptureMax = 40
    GraphicsHistory = 2
    ImageSupport = "Kitty"
    CellSize <- MCCellSize
    MaxUnsupported = 2
    Scrollback = 2
    Respond = TRUE
    Capabilities = {}
    HexNames = {}
    Rows = 2
    Cols = 5
    Sizes <- MCSizes
    Suites <- ResetOnAlternate
    ReadSizes = {1, 3}
    ScriptMax = 2
    CommandMax = 3
    ResizeMax = 1
INVARIANTS
    HistoryIsComplete
CHECK_DEADLOCK FALSE
