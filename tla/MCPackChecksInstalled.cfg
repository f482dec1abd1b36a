SPECIFICATION Spec
CONSTANTS
    Trees <- MCTrees
    RecipeIds = {"first", "second"}
    NoTree = NoTree
    MaxPublishes = 3
    MaxKills = 1
    MaxDrops = 1
    Scopes <- MCScopes
    Packs <- MCPacks
    Absent = Absent
    Runs = {r1, r2}
    Params = {p1}
    WorkerModels = {m1, Absent}
    MaxRuns = 2
    MaxChanges = 3
SYMMETRY RunSymmetry
CHECK_DEADLOCK FALSE
INVARIANT InstalledIsDiscovered
