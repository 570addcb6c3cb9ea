SPECIFICATION Spec
CONSTANTS
    Requests = {q1, q2, q3}
    Slots = 2
    Presets = {hour}
    Windows = {w1}
    FirstPreset = hour
    NoSnapshot = NoSnapshot
INVARIANT QueriesAreBounded
