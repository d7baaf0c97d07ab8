SPECIFICATION MCSpec
CONSTANTS
    r1 = r1  log = log  top = top  sub = sub  home = home  far = far
    c1 = c1  c2 = c2  s1 = s1  s2 = s2
    Scenes = {"files", "requests"}
    Repos = {r1}
    Capacity = 1
    WorkFiles = {log}
    Tracked = {}
    RuleSets = {{}}
    Faults = {"arm"}
    MaxEpoch = 3
    MaxTouch = 2
    Shells = {s1}
    Cwds = {top, sub, home, far}
    Keymaps = {"vi"}
    Statuses = {0, 1}
    Asks = {"prompt", "timings"}
    Linkable = {r1}
    NoRepo = NoRepo
    ConfigFiles = {c1, c2}
    DefaultConfig = c1
    Dot = home
    Unset = Unset
    CacheFlags = {TRUE, FALSE}
    Fork = TRUE
    LruCapacity = 2
    FoundCapacity = 2
    World = {"disk", "head", "clock", "config", "env", "daemon"}
    Windows = {}
    MaxEdits = 1
    MaxMinute = 1
    RepoOf <- Everywhere
INVARIANTS DaemonTypeOK SolidCachesCoherent
PROPERTIES AnswersItsRequest ConfigCurrent
VIEW NoHistory
