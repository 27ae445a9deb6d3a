SPECIFICATION Spec
CONSTANTS
    Scenes = {"supervisors", "index", "fuses", "sharp", "reranks", "augments", "gateway", "people",
              "admins", "queries", "tree", "syncs", "accounts", "keepers", "logins",
              "managed", "released", "connectors", "terms", "lodge", "newkey", "kept",
              "raced", "desktop", "marking", "figures", "crossing", "compares", "edits"}
    i1 = i1
    i2 = i2
    digest = digest
    upload = upload
    company = company
    sales = sales
    c1 = c1
    c2 = c2
    c3 = c3
    c4 = c4
    co = co
    east = east
    west = west
    none = none
    eve = eve
    adm = adm
    ai = ai
    k1 = k1
    o = o
    f = f
    g1 = g1
    root = root
    d1 = d1
    d2 = d2
    d3 = d3
    n1 = n1
    n2 = n2
    x1 = x1
    x2 = x2
    e1 = e1
    e2 = e2
    q1 = q1
    q2 = q2
    u1 = u1
    u2 = u2
    u3 = u3
    o1 = o1
    o2 = o2
    b1 = b1
    b2 = b2
    l1 = l1
    l2 = l2
    p1 = p1
    v1 = v1
    v2 = v2
    daily = daily
    reasoning = reasoning
    safe = safe
    inner = inner
    sec = sec
    k2 = k2
    k3 = k3
    j1 = j1
    j2 = j2
    q3 = q3
    s1 = s1
    s2 = s2
    s3 = s3
    ann = ann
    bob = bob
    old = old
    revised = revised
    finance = finance
    hall = hall
    budget = budget
INVARIANTS
    
    
    AccountsAreSafe
    ExpertsKeepTheirEdits
    ProvidersAreTold
    ShownIsTrue

    
CHECK_DEADLOCK FALSE
