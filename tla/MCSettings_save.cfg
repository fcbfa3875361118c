SPECIFICATION Spec
CONSTANTS
    a = a
    b = b
    Admins <- Two
    Limits <- LimitSet
    Cleanups <- CleanupSet
    Sizes <- SizeSet
    MaxChanges = 3
SYMMETRY Symmetry
INVARIANTS
    TypeOK
    QuietFileIsCurrent
    FileIsNoMix
