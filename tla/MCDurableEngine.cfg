CONSTANTS
    Sessions = {s1, s2}
    Tags = {k1, k2, k3}
    MaxBatch = 2
    MaxSequence = 5

SPECIFICATION Spec
SYMMETRY Symmetry
INVARIANTS
    LogIsReplayable
PROPERTIES
    KeepsPromise
