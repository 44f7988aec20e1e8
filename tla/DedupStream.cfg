CONSTANTS
    MaxGap = 2
    MaxSeq = 5
SPECIFICATION Spec
INVARIANTS
    TypeOK
    NeverForgets
    ExactAboveZero
