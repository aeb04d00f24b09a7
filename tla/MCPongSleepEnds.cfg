SPECIFICATION FairSpec
CONSTANTS
    WIDTH = 4
    HEIGHT = 2
    PLAYER_WIDTH = 1
    N = 4
    Pongs = {0}
    Scoreboard <- NoScoreboard
    CANT_PONGS = 0
    SLEEP = 6
    WORD = 12
    BootTicks = {0}
    BootScores = {0}
    MAX_SCORE = 0
PROPERTIES SleepEnds
