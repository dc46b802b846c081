SPECIFICATION Spec
CONSTANTS
    d1 = d1
    d2 = d2
    d3 = d3
    i1 = i1
    i2 = i2
    m1 = m1
    m2 = m2
    m3 = m3
    new = new
    old = old
    NoOp = NoOp
    Devices = {d1, d2}
    Items = {i1, i2}
    Ops = {m1, m2, m3}
    DeviceOf <- MCDeviceOf
    ItemOf <- Contended
    Values = {new, old}
    Writes <- MCWrites
    Untouched = old
    Refusable = {m2}
    Handlers = {h1, h2}
    PageSize = 2
    MaxFaults = 1
CONSTRAINT InTurn
SYMMETRY HandlerSymmetry
INVARIANTS
    NothingLost
    DeviceOrder
    EffectOnce
    RecordTellsEffect
    LaterWins
    ConvergesUnlessAdrift
    ToldUnlessOverlapped
PROPERTIES
    IsLedger
CHECK_DEADLOCK FALSE
