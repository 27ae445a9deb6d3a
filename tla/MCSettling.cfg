SPECIFICATION Spec
CONSTANTS
    Scenes = {"join", "cards", "remote", "group", "index", "talk", "environment", "alarms", "calls",
              "quality"}
    t1 = t1
    t2 = t2
    s1 = s1
    s2 = s2
    s3 = s3
    s4 = s4
    q1 = q1
    q2 = q2
    c1 = c1
    c2 = c2
    p1 = p1
    p2 = p2
    w1 = w1
    ann = ann
    bob = bob
    hello = hello
    answer = answer
    l1 = l1
    i1 = i1
    digest = digest
    company = company
    sales = sales
    j1 = j1
    k1 = k1
    k2 = k2
    old = old
    revised = revised
    v1 = v1
    v2 = v2
    none = none
    parent = parent
PROPERTIES
    RunsSettle
    EventsTakeEffect
    RequestsEnd
CHECK_DEADLOCK FALSE
