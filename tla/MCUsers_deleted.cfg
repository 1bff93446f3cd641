SPECIFICATION Spec
CONSTANTS
    UserMax = 4
    NameMax = 6
    PassMax = 6
    Letters <- AllLetters
    Names <- OneName
    Passwords <- OnePassword
    MayFormat = FALSE
INVARIANTS
    DeletedStaysDeleted
