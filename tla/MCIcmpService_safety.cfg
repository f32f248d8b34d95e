SPECIFICATION Spec
CONSTANTS
    c1 = c1
    c2 = c2
    c3 = c3
    ls = ls
    cat = cat
    top = top
    at = at
    big = big
    pl = pl
    Commands = {ls, cat}
    Entries = {pl}
    PrefixOf <- MCPrefixOf
    Containers = {"dom0", "dom1"}
    Clients = {c1, c2, c3}
    NoClient = NoClient
    Echo = Echo
    NoRequest = NoRequest
    Channel = "dom0"
    Endless = {}
    Lingering = {}
    Oversized = {}
    Policies <- MCPolicies
    MaxCopies = 1
SYMMETRY Symmetry
INVARIANTS
    OwnResult
    RunsOnlyGranted
    RepeatNeedsResend
    MaskNeedsOtherDenial
PROPERTY KeepsPromise
