SPECIFICATION LoopSpec
CONSTANTS
    a0 = a0
    a1 = a1
    a2 = a2
    a3 = a3
    v0 = v0
    v1 = v1
    v2 = v2
    v3 = v3
    None = None
    Torn = Torn
    Down = Down
    Original = a0
    Artifacts = {a0, a1, a2, a3}
    Versions = {v0, v1, v2, v3}
    VersionOf <- Labels
    Signed <- SomeSigned
    KeyPinned = TRUE
    Directives <- MislabelledDirective
    Offers <- Mislabelled
    Callers = {p1}
INVARIANT
    VersionsAgree
