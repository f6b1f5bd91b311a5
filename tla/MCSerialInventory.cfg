SPECIFICATION Spec
CONSTANTS
    Gateways = {g1, g2}
    GwSerials = {a, b}
    DevSerials = {d1, d2}
    None = None
    Capacity = 1
    MaxOps = 3
SYMMETRY Symmetry
INVARIANT HardwareInOnePlace
INVARIANT RegisteredIsConsumed
INVARIANT ConsumedIsRegistered
CHECK_DEADLOCK FALSE
