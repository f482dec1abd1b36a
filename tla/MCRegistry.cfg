SPECIFICATION Spec
CONSTANTS
    p1 = p1  t1 = t1  t2 = t2  s1 = s1  s2 = s2  c1 = c1  c2 = c2
    h1 = h1  h2 = h2  r1 = r1  r2 = r2  w1 = w1
    None = None
    Packs = {p1}
    Tags = {t1}
    Sources = {s1}
    Commits = {c1, c2}
    Hashes = {h1, h2}
    HashOf <- DistinctHashes
    FirstCommit <- AllAtC1
    OfficialPacks = {}
    VerifiedPacks = {}
    Requests = {r1, r2}
    Workers = {w1}
    MaxSubmits = 3
    MaxTagMoves = 1
    MaxCrashes = 1
    MaxFaults = 0
SYMMETRY RequestSymmetry
INVARIANTS
    ReadyServable
    ArtifactsFromRecordedTrees
    PrivateNeverScreened
    IInv
