SPECIFICATION WorkSpec
CONSTANTS
    N = 16
    eMax = 3
    Curves <- Generators
    Alphabets <- SomeAlphabets
    MaxLength = 6
    Times <- SomeTimes
    Bases = {2, 10, 16}
    Word = 256
    Bits = 4
    Scales = {0, 1, 2}
    Values <- FourBits
    Tables <- SomeTables
    Lines <- SomeLines
    Settings <- SomeSettings
    Starts <- SomeStarts
    Errors <- SomeErrors
    Limit = 12
CHECK_DEADLOCK FALSE
INVARIANTS
    PeakIsBracketed
    TextsComeBack
    NumbersAreExact
    CommandLineIsRead
    NoWindUp
