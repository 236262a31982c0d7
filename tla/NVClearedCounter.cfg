SPECIFICATION Spec
CONSTANTS
    Indices = {i1, i2}
    Templates <- CounterTemplates
    Values = {0}
    RollOver = 2
    CountBound = 3
INVARIANTS
    MaxCountCoversDeleted
