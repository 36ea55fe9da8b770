SPECIFICATION Spec
CONSTANTS
    Size = 3
    Letters <- MCLetters
    Names <- MCNames
    Arguments <- MCArguments
    Starts <- MCStarts
    CURRENT_YEAR = 2023
    Quiet = 18
    Updates = 2
INVARIANT HourOfTheDay
CHECK_DEADLOCK FALSE
