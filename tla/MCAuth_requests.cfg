SPECIFICATION Spec
CONSTANTS
    r1 = r1
    r2 = r2
    s1 = s1
    s2 = s2
    Requests <- Two
    Sessions <- TwoSess
    Users <- AnnBob
    Padded <- Blanks
    Bare <- NoBlanks
    Keys <- MineKeys
    Kids <- TwoKids
    KeySets <- Answers
    Tokens <- SomeTokens
    MaxTime = 3
SYMMETRY Symmetry
INVARIANTS
    SessionIsVouched
    HandlerSeesTokenUser
