CONSTANTS
    c1 = c1
    c2 = c2
    Unset = Unset
SPECIFICATION Spec
SYMMETRY Symmetry
INVARIANTS
    PricesAreHonoured
    CheckoutIsSound
    StorefrontIsTrue
\* A component may have nothing left to do.
CHECK_DEADLOCK FALSE
