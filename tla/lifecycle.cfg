SPECIFICATION Spec
CONSTANTS
    s1 = s1 s2 = s2 t1 = t1 t2 = t2 t3 = t3 sw = sw m1 = m1 m2 = m2
    Sandbox = {s1}
    Task = {sw, t1, t2, t3}
    Sweeper = sw
    Ops = {"create", "resume", "pause", "delete"}
    Faults = {"build", "start", "ready", "target", "mark", "forget", "stop", "pause", "persist", "thaw", "capture", "release", "purge"}
    Builder = {}
    Mounted = {s1}
    DeleteOnTimeout = {}
    Mode = {m1, m2}
    MaxPasses = 3
    Boot = Boot
    None = None
SYMMETRY Symmetry
INVARIANTS
    TypeOK
    OneClaimant
    Settled
    RouteFollowsHandle
    ResumeHasState
PROPERTIES
    ImplementsLifecycle
CHECK_DEADLOCK FALSE
