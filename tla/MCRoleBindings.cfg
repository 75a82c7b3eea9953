\* Two requests racing over two bindings.
SPECIFICATION Spec
CONSTANTS
    n1 = n1
    n2 = n2
    c1 = c1
    c2 = c2
    Names = {n1, n2}
    Clerks = {c1, c2}
SYMMETRY Symmetric
PROPERTIES
    LockoutNeedsARace
