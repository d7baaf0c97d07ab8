SPECIFICATION Spec
CONSTANTS
    r1 = r1  r2 = r2  r3 = r3  src = src  log = log
    Repos = {r1, r2, r3}
    Capacity = 2
    WorkFiles = {}
    Tracked = {}
    RuleSets = {{}}
    Faults = {"open", "arm"}
    MaxEpoch = 5
    MaxTouch = 4
INVARIANTS Bounded DistinctVersions ArmedMeansOutstanding
PROPERTIES EvictsOldest VersionsAreFresh
SYMMETRY AnyRepo
VIEW WatcherOnly
