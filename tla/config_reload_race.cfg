SPECIFICATION MCSpec
CONSTANTS
    r1 = r1  log = log  top = top  sub = sub  home = home  far = far
    c1 = c1  c2 = c2  s1 = s1  s2 = s2
    Scenes = {"any"}
    Repos = {r1}
    Capacity = 1
    WorkFiles = {}
    Tracked = {}
    RuleSets = {{}}
    Faults = {}
    MaxEpoch = 4
    MaxTouch = 3
    Shells = {s1}
    Cwds = {home}
    Keymaps = {"vi"}
    Statuses = {0}
    Asks = {"prompt"}
    Linkable = {}
    NoRepo = NoRepo
    ConfigFiles = {c1}
    DefaultConfig = c1
    Dot = home
    Unset = Unset
    CacheFlags = {FALSE}
    Fork = TRUE
    LruCapacity = 2
    FoundCapacity = 2
    World = {"config"}
    Windows = {"config"}
    MaxEdits = 2
    MaxMinute = 0
    RepoOf <- Home
PROPERTIES ConfigCurrent
VIEW NoHistory
