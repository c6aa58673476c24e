SPECIFICATION Spec
CONSTANTS
    Examples = 2
    Split = 1
    Window = 1
    Pitches <- NoPitchOrTwo
    Distances = {0, 8, 10}
    Files <- AllFiles
    Loudness = {20, 50}
    Acceleration = {0, 1}
    BootMoving = {TRUE, FALSE}
INVARIANT PitchIsOwn
