\* Two wallets sign in, refresh (with a token of either in the header and the body) and
\* call the catalogue while a role is edited.
CONSTANTS
    w1 = w1
    w2 = w2
    c1 = c1
    c2 = c2
    c3 = c3
    NoToken = NoToken
    Wallets = {w1, w2}
    Calls = {c1, c2, c3}
    AccessTtl = 1
    RefreshTtl = 2
    Horizon = 4
    MaxEdits = 1
SPECIFICATION Spec
INVARIANTS
    RoleIsLostInTime
    RefreshFromLiveToken
SYMMETRY Symmetry
\* Calls are made once and the clock is bounded.
CHECK_DEADLOCK FALSE
