\* Two logins and two answers of the token endpoint, a store that may fail, a change
\* of the signing key; page requests of a browser, which leave a return url.
CONSTANTS
    Requests = {r1, r2}
    Ids = {s1, s2}
    NoId = NoId
    Keys = {k1, k2}
    External = TRUE
    Html = TRUE
    MaxLogins = 2
    MaxTokens = 2
SPECIFICATION Spec
SYMMETRY Symmetry
CONSTRAINT FewEvents
INVARIANTS TypeOK LoginIsWhole OneGrant
PROPERTIES IdentityForCause FailedCallbackIsHarmless
