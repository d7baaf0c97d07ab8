SPECIFICATION Spec
CONSTANTS
    r1 = r1  r2 = r2  r3 = r3  src = src  log = log
    Repos = {r1}
    Capacity = 1
    WorkFiles = {log}
    Tracked = {}
    RuleSets = {{}, {log}}
    Faults = {"arm", "race", "overflow", "error"}
    MaxEpoch = 3
    MaxTouch = 2
INVARIANTS TypeOK NoSolidChangeMissed
PROPERTIES SolidChangeNoticed
