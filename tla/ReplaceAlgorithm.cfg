SPECIFICATION Spec
CONSTANTS
    a = a
    b = b
    Newline = nl
    Zero = zero
    Bytes = {nl, a, b}
    Sizes <- SmallSizes
    Lengths <- SmallLengths
    LineMax = 4
INVARIANTS
    LineReplaced
    NothingLost
PROPERTIES
    StepsBounded
