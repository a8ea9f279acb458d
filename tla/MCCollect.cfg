SPECIFICATION FairSpec
CONSTANTS
    v1 = v1
    v2 = v2
    sa = sa
    sc = sc
    rs = rs
    net = net
    c1 = c1
    c2 = c2
    e1 = e1
    e2 = e2
    Vars = {v1, v2}
    Slaves = {sa, sc}
    Devices = {rs, net}
    DeviceOf <- DeviceOfSlave
    Serial = {rs}
    SlaveCells = {c1, c2}
    ExtCells = {e1, e2}
    CollMax = 1
INVARIANTS
    TypeOK
    WalksLiveFrames
PROPERTIES EveryVariablePolled
