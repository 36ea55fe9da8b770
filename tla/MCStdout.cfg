SPECIFICATION StdoutSpec
CONSTANTS
    Columns = 4
    Rows = 4
    Bytes = 5
    MessageChars = 6
    MessageLines = 2
    FarewellChars = 1
    FarewellLines = 1
    Minutes = 60
    Starts <- MCStarts
    Formats <- MCFormats
    MaxInt = 127
    QwordRange = 65536
    NumberSize = 8
    Tens <- MCTens
    Sixteens <- MCSixteens
INVARIANTS TypeOK OnScreen Wiped SameText Legible
PROPERTIES PoweredOff PrintsMeaning
CHECK_DEADLOCK FALSE
