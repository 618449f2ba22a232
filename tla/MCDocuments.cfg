SPECIFICATION DocSpec
CONSTANTS
    a = a
    b = b
    s1 = s1
    s2 = s2
    t1 = t1
    k1 = k1
    Nil = Nil
    Id <- MCId
    ByHand <- MCByHand
SYMMETRY MCSymmetry
INVARIANTS
    CreatedReadsBack
    AllOrNothing
    SchoolsByHand
CHECK_DEADLOCK FALSE
