SPECIFICATION Spec
CONSTANTS
    Child = {a, b, c, d}
    Starter = {s}
    NoOne = NoOne
    Expired = FALSE
    interval = 2
    MaxTicks = 3
    MaxTrouble = 1
SYMMETRY Alike
INVARIANTS WarnedOnce SomebodyWarns
