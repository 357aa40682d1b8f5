SPECIFICATION Spec
CONSTANTS
    s1 = s1 s2 = s2 t1 = t1 t2 = t2 t3 = t3 sw = sw m1 = m1 m2 = m2
    Sandbox = {s1}
    Task = {sw, t1, t2}
    Sweeper = sw
    Ops = {"resume", "delete"}
    Faults = {"ready"}
    Builder = {}
    Mounted = {}
    DeleteOnTimeout = {}
    Mode = {m1}
    MaxPasses = 3
    Boot = Boot
    None = None
SYMMETRY Symmetry
INVARIANTS
    DeletedIsGone
CHECK_DEADLOCK FALSE
