CONSTANTS
    a1 = a1
    a2 = a2
    Addr = {a1, a2}
SPECIFICATION Spec
PROPERTY NewFlagsStay
