CONSTANTS
    c1 = c1
    c2 = c2
    Clients <- MCOneClient
    Devs = {0, 1}
    ReadOnly = {}
    MaxInits = 3
    MaxRef = 3
SPECIFICATION Spec
INVARIANT RefcountMatchesHolders
