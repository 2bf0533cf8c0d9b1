SPECIFICATION Spec
CONSTANTS
    Tokens = {t1}
    Users = {ua, ub}
    Calls = {c1, c2}
    NoOne = NoOne
SYMMETRY RegistrySymmetry
INVARIANT UndisturbedSucceeds
