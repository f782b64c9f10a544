SPECIFICATION Spec
CONSTANTS
    Ids = {i1, i2}
    Urls = {u1, u2}
    Codes = {c1, c2}
    Tools = {w1}
    MaxVersion = 2
    NoSource = NoSource
    NoCode = NoCode
SYMMETRY NameSymmetry
INVARIANT UnsubscribeErases
