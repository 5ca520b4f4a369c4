SPECIFICATION GenSpec
CONSTANTS
    None = None
    setup = setup
    extra = extra
    regA = regA
    regB = regB
    api = api
    adm = adm
    grp = grp
    router = router
    group = group
    db = db
    Slashed = {"/api", "/v1", "/sub", "/admin", "/x", "/a", "/b", "/l"}
    RecvType = "Server"
    AdminNames = {"AdminMiddleware", "handleAdminList"}
    AuthNames = {"AuthMiddleware"}
    Funcs <- MCFuncs
    Programs <- MCPrograms
    Structs <- MCStructs
INVARIANTS
    Sound
    CompleteWhenCalledOnce
    NoRecursion
    AuthNotOverstated
    EndpointsAreHandlers
    FilesAgree
CHECK_DEADLOCK FALSE
