SPECIFICATION Spec
CONSTANTS
    s1 = s1 s2 = s2 t1 = t1 t2 = t2 t3 = t3 sw = sw m1 = m1 m2 = m2
    Sandbox = {s1, s2}
    Task = {sw, t1, t2}
    Sweeper = sw
    Ops = {"create", "resume", "pause", "delete", "fork", "snapshot", "evict"}
    Faults = {"crash", "ready", "target", "snapshot", "stop"}
    Builder = {}
    Mounted = {}
    DeleteOnTimeout = {s1}
    Mode = {m1, m2}
    MaxPasses = 3
    Boot = Boot
    None = None
SYMMETRY Symmetry
PROPERTIES
    ImplementsLifecycle
CHECK_DEADLOCK FALSE
