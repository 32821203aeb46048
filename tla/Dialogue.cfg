SPECIFICATION Spec
CONSTANTS
    Writers = {w1, w2}
    Calls = {c1, c2}
    m1 = m1
    m2 = m2
    m3 = m3
    m4 = m4
    m5 = m5
    k1 = k1
    k2 = k2
    k3 = k3
    MsgIds = {m1, m2, m3, m4, m5}
    Keys = {k1, k2, k3}
    Inbox <- MCInbox
    None = None
    Half = Half
    Limit = 2
    MAX_DEDUPE_ENTRIES = 2
    Changes <- MCChanges
    Bounds <- MCBounds
    MaxCalls = 3
    MaxDeaths = 1
SYMMETRY Symmetry
INVARIANT TypeOK
INVARIANT ProposalsTakenOnce
INVARIANT HumanIsCalled
INVARIANT DeliveredWasAccepted
CHECK_DEADLOCK FALSE
