SPECIFICATION FairSpec
CONSTANTS
    c1 = c1
    c2 = c2
    c3 = c3
    ls = ls
    cat = cat
    top = top
    at = at
    big = big
    pl = pl
    Commands = {ls, cat, top, at, big}
    Entries = {pl}
    PrefixOf <- MCLivePrefixOf
    Containers = {"dom0", "dom1"}
    Clients = {c1, c2}
    NoClient = NoClient
    Echo = Echo
    NoRequest = NoRequest
    Channel = "dom0"
    Endless = {top}
    Lingering = {at}
    Oversized = {big}
    Policies <- MCLivePolicies
    MaxCopies = 1
PROPERTIES
    GrantedAnswered
    WorkerComesBack
