CONSTANTS
    start = start
    turned = turned
    other = other
    third = third
    Solutions <- MCSolutions
    Key <- MCKey
    Moves <- MCMoves
    Walks <- MCWalks
    Initial = start
    Scores = {0, 1, 2, 4}
    TopK = 2
    Tolerance = 1
    Strategies = {"annealing", "exhaustive"}
    Restarts = 2
    Iterations = 3
    CheckEvery = 2
    Draws = 1
SPECIFICATION Spec
CHECK_DEADLOCK FALSE
INVARIANTS
    ScoresAreDistinct
