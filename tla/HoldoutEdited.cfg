CONSTANTS
    r1 = r1
    r2 = r2
    r3 = r3
    l1 = l1
    l2 = l2
    o1 = o1
    o2 = o2
    Runners = {r1, r2, r3}
    Locks = {l1, l2}
    Outputs = {o1, o2}
    LockOf <- MCLockOf
    OutputOf <- MCOutputOf
    Authorized = {r1, r2, r3}
    Nobody = Nobody
    MaxEdits = 1
SPECIFICATION Spec
INVARIANT ReportNamesEvaluated
CHECK_DEADLOCK FALSE
