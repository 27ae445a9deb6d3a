SPECIFICATION Spec
CONSTANTS
    Scenes = {"join"}
    t1 = t1
    t2 = t2
    s1 = s1
    s2 = s2
    s3 = s3
    q1 = q1
    q2 = q2
    a1 = a1
    a2 = a2
    a3 = a3
    c1 = c1
    c2 = c2
    c3 = c3
    p1 = p1
    p2 = p2
    m1 = m1
    m2 = m2
    m3 = m3
    w1 = w1
    w2 = w2
    e1 = e1
    e2 = e2
    e3 = e3
    k1 = k1
    k2 = k2
    report = report
    weekly = weekly
    none = none
INVARIANTS
    OutputsArrive
CHECK_DEADLOCK FALSE
