SPECIFICATION Spec
CONSTANTS
    Callers = {p1, p2}
    Names = {n1, n2}
    Contents = {c1, c2}
    MaxAssets = 4
INVARIANTS
    AssetInv
PROPERTIES
    UploadIsStored
    
SYMMETRY CallerSymmetry
