SPECIFICATION ListSpec
CONSTANTS
    v1 = v1
    v2 = v2
    v3 = v3
    v4 = v4
    Names = {v1, v2, v3, v4}
    Addrs = {1, 2, 3, 4, 5}
SYMMETRY NameSymmetry
INVARIANTS
    CfgMirrorsNodes
    LinkedUntilMoved
    OrderedUnlessMoved
PROPERTY
    EntersInOrder
