SPECIFICATION Spec
CONSTANTS
    n1 = n1
    n2 = n2
    d1 = d1
    d2 = d2
    Names = {n1, n2}
    Devices = {d1, d2}
    Periods = 2
    MaxSamples = 2
INVARIANTS
    CountedOnce
    MeansOfOneSetting
