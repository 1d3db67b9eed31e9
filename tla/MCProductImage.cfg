SPECIFICATION ImageSpec
CONSTANTS
    Paths = {a, b}
    Urls = {u, v}
    Placeholder = Placeholder
    Absent = Absent
    NullPath = NullPath
INVARIANT
    FailedIsFollowed
