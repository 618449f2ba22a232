SPECIFICATION AccountSpec
CONSTANTS
    Anna = Anna
    Ben = Ben
    FirstName = FirstName
    Pw1 = Pw1
    Pw2 = Pw2
    Empty = Empty
    Nil = Nil
    NoEntry = NoEntry
    MaxTaps = 2
    Name <- MCName
    TextField <- MCTextField
    Text <- MCText
INVARIANTS
    ErrorCheckAndUpdate
CHECK_DEADLOCK FALSE
