SPECIFICATION Spec
CONSTANTS
    UserMax = 3
    NameMax = 6
    PassMax = 6
    Letters <- AllLetters
    Names <- TwoNames
    Passwords <- CutOrSepPassword
    MayFormat = TRUE
INVARIANTS
    TypeOK
    Recorded
    RootIsRoot
    CurrentIsActive
PROPERTIES
    NobodyLost
