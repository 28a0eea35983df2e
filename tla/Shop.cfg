CONSTANTS
    c1 = c1
    c2 = c2
    x1 = x1
    x2 = x2
    Nothing = Nothing
SPECIFICATION Spec
SYMMETRY Symmetry
INVARIANTS
    OfferIsSound
    NotesAreTrue
PROPERTY
    ShopSteps
\* A component may have nothing left to do.
CHECK_DEADLOCK FALSE
