CONSTANTS
    n1 = n1
    n2 = n2
    Nodes = {n1, n2}
    Modulus = 256
    Heights = {100, 106}
    Blocks <- MCBlocks
    Depths = {0, 1, 2, 3, 5}
    TopHeight = 3
    Width = 32
    MaxPages = 3
SPECIFICATION Spec
INVARIANT RebootedWhenUnder
