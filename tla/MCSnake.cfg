SPECIFICATION Spec
CONSTANTS
    HEIGHT = 5
    WIDTH = 2
    MAX_SCORE = 4
INVARIANTS SnakeConnected BodyCounted
PROPERTIES BeheadedGameEnds
