\* Two requests at a time after one login.
CONSTANTS
    Requests = {r1, r2}
    Ids = {s1, s2}
    NoId = NoId
    Keys = {k1}
    External = TRUE
    Html = TRUE
    MaxLogins = 1
    MaxTokens = 3
SPECIFICATION Spec
INVARIANTS RefreshIsTransparent
