SPECIFICATION GridSpec
CONSTANTS
    Absent = Absent
    Columns = 3
    Sampled <- TwoAnswers
    MinWidth = 2
    MaxWidth = 6
    MinPane = 6
    MinGrid = 5
    DetailRows = 2
    PageLines = 3
    MinScreen <- SmallestScreen
    Sizes <- ScreenSizes
    AnswerSizes = {0, 3, 9}
    Points <- SomePlaces
    Keystrokes <- SomeMoves
    MaxBurst = 2
    MaxGestures = 3
INVARIANT DetailIsOfTheCell
CHECK_DEADLOCK FALSE
