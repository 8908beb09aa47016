CONSTANTS
    k1 = k1
    k2 = k2
    k3 = k3
    k4 = k4
    k5 = k5
    NoKey = NoKey
    Key <- MCKey
    Hash <- MCHash
    InitSize = 1
    MaxSize = 8
SPECIFICATION Spec
INVARIANTS
    SearchExact
    UsedCounts
    VarianceIsDistance
    CalledOnce
