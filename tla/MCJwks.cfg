\* Two requests and the background task, two rotations, an issuer that comes
\* and goes.
CONSTANTS
    Requests = {r1, r2}
    Documents <- Rotation
    Tokens <- TokenSet
    Audiences = {"api"}
    MaxAttempts = 3
    Refresher = refresher
    NoKid = NoKid
    NoToken = NoToken
    NoAnswer = NoAnswer
SPECIFICATION FairSpec
INVARIANTS TypeOK NoFalseAlarm AcceptedForCause GivesUpForCause
PROPERTIES StartupEnds CacheCatchesUp
