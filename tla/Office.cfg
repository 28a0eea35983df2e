CONSTANTS
    r1 = r1
    r2 = r2
    Separator = Separator
    Plus = Plus
    Nothing = Nothing
    Gone = Gone
SPECIFICATION Spec
SYMMETRY Symmetry
INVARIANTS
    FiguresAgree
    MessagesAndFilesAreKept
PROPERTY
    OfficeSteps
\* A component may have nothing left to do.
CHECK_DEADLOCK FALSE
