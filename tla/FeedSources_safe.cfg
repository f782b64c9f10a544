SPECIFICATION Spec
CONSTANTS
    Ids = {i1, i2}
    Urls = {u1, u2}
    Codes = {c1}
    Tools = {w1, w2}
    MaxVersion = 2
    NoSource = NoSource
    NoCode = NoCode
SYMMETRY NameSymmetry
INVARIANTS ActiveVersionExists
PROPERTIES ScriptResultIsCurrent
