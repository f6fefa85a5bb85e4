SPECIFICATION Spec
CONSTANTS
    Size = 4
    Keys = {ka, kb}
    NoKey = NoKey
    Objs = {o1, o2, o3, o4, o5}
    NoObj = NoObj
SYMMETRY Interchangeable
INVARIANTS
    TypeOK
    HeapBalanced
    OldestEvicted
PROPERTY WindowRefined
