SPECIFICATION Spec
CONSTANTS
    v1 = v1
    v2 = v2
    v3 = v3
    Vars = {v1, v2, v3}
    Addrs = {7, 8, 9, 10, 11, 12}
    Sizes = {1, 2, 3}
    MaxSize = 4
    Word = 16
INVARIANTS
    TypeOK
    EveryVariableRead
    NoStrayRegister
    FramesFit
    NothingLeftToJoin
