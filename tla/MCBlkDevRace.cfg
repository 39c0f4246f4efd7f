CONSTANTS
    c1 = c1
    c2 = c2
    Clients <- MCTwoClients
    Devs = {0}
    ReadOnly = {}
    MaxInits = 3
    MaxRef = 3
SPECIFICATION Spec
INVARIANT HeldHasFrontend
