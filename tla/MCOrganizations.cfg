SPECIFICATION OrgSpec
CONSTANTS
    Packs = {a, b}
    Requests = {r1}
    Limit = 1
    MaxSubmits = 2
    None = None
    Orgs = {o1, o2}
    s1 = s1
    s2 = s2
    Slugs = {s1, s2}
    Scope = s1
    OfficialSlug = s1
    u1 = u1
    Publishers = {u1}
    Users = {u1, u2, u3}
    OrgRequests = {h1, h2}
    MemberLimit = 2
    MaxOrgRequests = 5
    MaxBoots = 1
SYMMETRY OrgSymmetry
CHECK_DEADLOCK FALSE
INVARIANTS
    
    MembersBounded
    PacksHaveOwner
PROPERTIES
    BootRestoresOfficial
