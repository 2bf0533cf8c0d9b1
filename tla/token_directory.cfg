SPECIFICATION Spec
CONSTANTS
    Tokens = {t1, t2}
    Users = {ua, ub}
    Calls = {c1, c2}
    NoOne = NoOne

INVARIANTS
    TypeOK
    UndisturbedReplyIsRight
PROPERTY ImplementsDirectory
