SPECIFICATION FairSpec
CONSTANTS
    WIDTH = 4
    HEIGHT = 3
    PLAYER_WIDTH = 2
    N = 2
    Pongs = {1}
    Scoreboard = 0
    CANT_PONGS = 2
    SLEEP = 1
    WORD = 4
    BootTicks = {0}
    BootScores = {2}
    MAX_SCORE = 1
INVARIANTS BallOnScreen ServerHoldsBall RecordMatches
PROPERTIES RecordsOwned ScoreboardCatchesUp
