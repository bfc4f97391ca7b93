SPECIFICATION Spec
CONSTANTS
    WideChars = {"W"}
    Marks = {"m", "vs"}
    Selector = "vs"
    Emoji = {"h"}
    ControlChars = {"ctl"}
    Spaces = {" ", "nbsp"}
    NonAscii = {"W", "m", "vs", "h", "e_acute", "nbsp"}
    Composed <- MCComposed
    PlainStyle <- MCPlain
    MaxDimension = 1000
    Sessions <- MCSessions
INVARIANT
    InputIsUnderstood
    JsonReadsBack
PROPERTIES
    SearchesAgree
    MasksCoverTheMatches
    SavedScreensReadBack
\* A session ends.
CHECK_DEADLOCK FALSE
