\* A refresh fails while the vault is open.
SPECIFICATION Spec
CONSTANTS
    NoOne = NoOne
    Nameless = Nameless
    alice = alice
    bob = bob
    Users = {alice, bob}
    Confirmed = {alice}
    p1 = p1
    p2 = p2
    Phrases = {p1, p2}
    Together <- MCTogether
    GoesOn = FALSE
    MaxKeys = 2
    MaxLogins = 3
PROPERTIES
    LogoutWipes
SYMMETRY MCSymmetry
CHECK_DEADLOCK FALSE
