SPECIFICATION Spec
CONSTANTS
    Ids = {i1, i2}
    Names = {na, nb}
    Abouts = {d1}
    Calls = {c1, c2}
    None = None
    Blank = Blank
SYMMETRY TopicSymmetry
INVARIANTS
    TypeOK
    UndisturbedAnswerIsRight
PROPERTY OnlyGivenFieldsChange
