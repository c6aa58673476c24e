SPECIFICATION Spec
CONSTANTS
    BootCheck = {"0", "1", "other"}
    Empties = {TRUE, FALSE}
    Fingers = {first, second}
    Ys = {0, 1, 3}
    MaxScroll = 3
SYMMETRY FingersAlike
INVARIANTS TypeOK SignedInAsOwn FollowsFinger
PROPERTY RestsWithoutFinger
