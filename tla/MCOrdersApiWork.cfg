SPECIFICATION ApiSpec
CONSTANTS
    Calls = {c1, c2, c3}
    MaxConcurrent = 2
INVARIANT
    WorkIsCapped
