\* Two accounts in one tab, with two flows at the same time.
SPECIFICATION Spec
CONSTANTS
    NoOne = NoOne
    Nameless = Nameless
    alice = alice
    bob = bob
    Users = {alice, bob}
    Confirmed = {alice}
    p1 = p1
    p2 = p2
    Phrases = {p1, p2}
    Together <- MCTogether
    GoesOn = FALSE
    MaxKeys = 2
    MaxLogins = 3
INVARIANTS
    TokenIsUsers
    UnlockedWithOwnKey
    FilesStayReadable
    SignedOutIsWiped
SYMMETRY MCSymmetry
CHECK_DEADLOCK FALSE
