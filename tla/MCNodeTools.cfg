CONSTANTS
    n1 = n1
    n2 = n2
    Nodes = {n1, n2}
    Modulus = 64
    Heights = {0, 1, 6, 7, 11, 12}
    Blocks <- MCBlocks
    Depths = {0, 1, 2, 3, 5}
    TopHeight = 3
    Width = 32
    MaxPages = 3
SPECIFICATION Spec
INVARIANTS
    TypeOK
    RestartJustified
    LeftAloneWhenClose
    EveryWinnerNamed
    AgainOnlyAtStart
