SPECIFICATION Spec
CONSTANTS
    a1 = a1
    a2 = a2
    a3 = a3
    a4 = a4
    a5 = a5
    v1 = v1
    v2 = v2
    f1 = f1
    f2 = f2
    p1 = p1
    p2 = p2
    Entrypoint = Entrypoint
    None = None
    Torn = Torn
    Artifacts = {a1, a2, a3, a4, a5}
    Versions = {v1, v2}
    Files = {Entrypoint, f1, f2}
    Contents <- Bundles
    Signed <- SignedBundles
    KeyPinned = TRUE
    Directives <- ManyReleases
    Installers = {p1, p2}
SYMMETRY InstallSymmetry
INVARIANTS
    EntryRunsWhole
    CurrentIsWhole
    InstallInv
    OnlyVerifiedFiles
