SPECIFICATION MCSpec
CONSTANTS
    x1 = x1
    x2 = x2
    x3 = x3
    Ampersand = "&"
    Nothing = Nothing
    Widget = {x1, x2, x3}
    MaxMessages = 2
    ChunkSize = 1
    HeaderHeight = 1
    Padding = 1
    SnapSlack = 1
    BottomSlack = 1
    LoadMargin = 1
    WheelStep = 2
    Text <- Texts
    Size <- Sizes
    Utf16 = TRUE
    High = {"H"}
    Low = {"L"}
    Blank = " "
    Newline = "|"
    Alphanumeric <- Letters
    WidthOf <- Width
    MaxSample = 5
    MaxField = 3
SYMMETRY Symmetry
INVARIANTS
    WhatIsSeenIsTrue
    ButtonShowsTheWay
    WrappingLosesOnlyBlanks
    NamesAreAcceptable
PROPERTIES
    AnchorStays
CHECK_DEADLOCK FALSE
