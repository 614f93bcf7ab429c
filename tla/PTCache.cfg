CONSTANTS
    Obj = {o1, o2, o3}
    IdSpace = 4
SYMMETRY ObjSymmetry
SPECIFICATION Spec
INVARIANTS TypeOK HashConsed AnswerRight
PROPERTY IdsStable
