SPECIFICATION ChoiceSpec
CONSTANTS
    None = None
    s1 = s1
    s2 = s2
    other = other
    client = client
    h1 = h1
    h2 = h2
    Conn = {s1, s2, other, client}
    Host = {h1, h2}
    HostOf <- MCHostOf
    Aggregator = aggregator
    Outdated = {h2}
    MaxChoices = 2
INVARIANTS
    ListedAreConnected
    OnlyNamesakesUnlist
    PanelFitsServer
CHECK_DEADLOCK FALSE
