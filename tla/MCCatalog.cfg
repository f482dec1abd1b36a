SPECIFICATION Spec
CONSTANTS
    Packs = {p1}
    Versions <- SomeVersions
    Users = {u1}
    Recipes = {r1}
    None = None
    MaxRows = 2
    MaxTags = 2
    MaxLeaves = 1
    MaxReads = 1
SYMMETRY CatalogSymmetry
CHECK_DEADLOCK FALSE
INVARIANTS
    ServedWasVisible
    SurfacesAgree
    LatestIsHighest
