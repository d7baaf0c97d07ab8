------------------------------- MODULE Daemon -------------------------------
(***************************************************************************)
(* A request from the shell that asks to the answer it gets:               *)
(* DaemonState::handle (src/src/daemon.rs) with the configuration it       *)
(* reloads, the watcher it asks for a version, the prompt cache            *)
(* (src/src/render), the repository that it keeps open between renders,    *)
(* the git status scans that starship itself keeps per directory, and the  *)
(* report of src/src/timings.rs; what the shell module sends of its        *)
(* configuration; and the daemon's end and restart.                        *)
(*                                                                         *)
(* The daemon serves one request at a time.  A request is split where it   *)
(* reads something that another program may write, so that the write can   *)
(* come between any two of its steps.                                      *)
(***************************************************************************)
EXTENDS Watcher

Seqs == INSTANCE SequencesExt

CONSTANTS
    Shells, Cwds, Keymaps, Statuses,
    Asks,           \* what shells ask for: "prompt", "timings"
    RepoOf,         \* the repository a directory is in, or NoRepo
    Linkable,       \* repositories that may be linked work trees, whose .git
                    \* is a file
    NoRepo,
    ConfigFiles,    \* what $env:STARSHIP_CONFIG may name
    DefaultConfig,  \* what the daemon takes when it names none
    Dot,            \* the daemon's own directory, "."
    Unset,          \* the value of a variable that is not set
    CacheFlags,     \* what $env:STARSHIP_DAEMON_CACHE may ask: TRUE disables
    Fork,           \* whether the daemon is built with the fork of starship
    LruCapacity,    \* 256 in DaemonState::new
    FoundCapacity,  \* 64 in find_git_dir
    World,          \* which of "disk", "git", "config", "env", "clock" and
                    \* "daemon" change; "head" if git switches branches
    Windows,        \* what may also change between a read and the stamp that is
                    \* taken for it: "config" during a reload
    MaxEdits, MaxMinute  \* bounds of the state space

ASSUME DaemonAssumption ==
    /\ RepoOf \in [Cwds -> Repos \cup {NoRepo}] /\ NoRepo \notin Repos \cup Disk
    /\ Linkable \subseteq Repos
    /\ Linkable # {} => RuleSets = {{}}   \* no .gitignore where git keeps them
    /\ Asks \subseteq {"prompt", "timings"}
    /\ DefaultConfig \in ConfigFiles /\ Unset \notin ConfigFiles
    /\ Dot \in Cwds /\ "vi" \in Keymaps /\ 0 \in Statuses   \* what warm_up renders for
    /\ CacheFlags \subseteq BOOLEAN /\ Fork \in BOOLEAN
    /\ Windows \subseteq {"config"}
    /\ LruCapacity \in Nat \ {0} /\ FoundCapacity \in Nat \ {0}
    /\ MaxEdits \in Nat /\ MaxMinute \in Nat

VARIABLES
    file,    \* the state of each configuration file, 0 if there is none: it
             \* stands for the content and for the time stamp, which is 0 too
             \* when there is no file
    minute,  \* the wall clock, in minutes
    env,     \* $env:STARSHIP_CONFIG of each shell
    present, \* the repositories that there are
    linked,  \* those of them whose .git is a file
    head,    \* the branch that HEAD names, in each repository
    sent,    \* $script:LastStarshipConfig of each shell
    config_path, cached_config, last_cfg_mtime, lru,  \* of DaemonState
    found,   \* CACHE of find_git_dir, most recently used first
    context, \* REPO_CACHE: the repository that is kept open, the branch it
             \* was opened on, and whether its index is as it was when saved
    scans,   \* starship's git status by directory, of the bust directories
             \* that can come again
    pc, req, config_mtime, switched, bucket,  \* of the request being served
    made,    \* what it has rendered but not yet kept
    rounds,  \* of a timings request: the prompts it has still to time
    reply,   \* the last answer
    edited,  \* history: the configuration was saved during this request
    litter   \* history: where the daemon made a .git that was not there

configVars  == <<config_path, cached_config, last_cfg_mtime>>
requestVars == <<req, config_mtime, switched, bucket, made, rounds>>
gitVars     == <<present, linked, head>>
worldVars   == <<file, minute, env, gitVars>>
keptVars    == <<lru, found, context, scans>>
daemonVars  == <<worldVars, sent, configVars, keptVars, pc, requestVars, reply, edited, litter>>

----------------------------------------------------------------------------
(* The two caches of the code, most recently used first.                   *)

\* What is in place i, if `places` is {i}, gives way to what replaces it.
Dropped(cache, places) == IF places = {} THEN cache
                          ELSE Seqs!RemoveAt(cache, CHOOSE i \in places : TRUE)

\* The least recently used go when there is no more room.
Trimmed(cache, room) == SubSeq(cache, 1, IF Len(cache) > room THEN room ELSE Len(cache))

----------------------------------------------------------------------------
(* Which repository a directory is in.                                     *)

Repo == req.repo

\* What find_git_dir_uncached comes upon: any .git will do, even an empty one.
Discovered(cwd) == IF RepoOf[cwd] \in present \cup litter THEN RepoOf[cwd] ELSE NoRepo

\* find_git_dir: what was found once is found again.
FoundBefore(cwd) == {i \in DOMAIN found : found[i].dir = cwd}
Found(cwd)       == IF FoundBefore(cwd) = {} THEN Discovered(cwd)
                    ELSE found[CHOOSE i \in FoundBefore(cwd) : TRUE].repo
Noted(cwd)       == Trimmed(<<[dir |-> cwd, repo |-> Found(cwd)]>>
                                \o Dropped(found, FoundBefore(cwd)), FoundCapacity)

----------------------------------------------------------------------------
(* The cache: lru, most recently used first.                               *)

\* compute_cache_key.  The terminal width is to the key what the keymap is.
Key == [cwd |-> req.cwd, keymap |-> req.keymap, mtime |-> config_mtime,
        version |-> IF Repo = NoRepo THEN 0 ELSE Version(Repo)]

Places(k)  == {i \in DOMAIN lru : lru[i].key = k}
Cached(k)  == Places(k) # {}
Lookup(k)  == lru[CHOOSE i \in Places(k) : TRUE]
Without(k) == Dropped(lru, Places(k))
Get(k)     == IF Cached(k) THEN <<Lookup(k)>> \o Without(k) ELSE lru
\* Mutant: the cache is never trimmed.
PutUntrimmed(c) == <<c>> \o Without(c.key)

Put(c)     == Trimmed(<<c>> \o Without(c.key), LruCapacity)

\* Mutant: an entry of this minute is used whatever the exit status.
HitAnyStatus == Cached(Key) /\ Lookup(Key).bucket = minute

\* The entry is used if it is of this minute and of this exit status.
Hit == /\ Cached(Key)
       /\ Lookup(Key).bucket = minute /\ Lookup(Key).status = req.status

----------------------------------------------------------------------------
(* Rendering.                                                              *)

\* Mutant: one directory for all versions of a repository.
BustDirForAll == [repo |-> Repo, version |-> 1, mtime |-> config_mtime]

\* The directory starship is told it is in: .git/bust/<version>/<mtime>, or
\* one that no other render uses when there is no version to tell it by.
BustDir == [repo |-> Repo, version |-> Key.version, mtime |-> config_mtime]
Scanned == {s \in scans : s.dir = BustDir}

\* A repository as starship finds it, and its branch: an empty .git is none.
Now(r)    == IF r \in present THEN disk[r] ELSE NoRepo
Branch(r) == IF r \in present THEN head[r] ELSE NoRepo

\* Where it looks: in the bust directory, or in the directory of the shell if
\* find_git_dir knows of no repository there.
Here == RepoOf[req.cwd]

\* Mutant: any scan of the repository will do.
GitStatusOnce == IF \E s \in scans : s.dir.repo = Repo
                 THEN (CHOOSE s \in scans : s.dir.repo = Repo).seen
                 ELSE Now(Here)

\* git_status, which starship computes once for each directory.
GitStatus == IF Scanned # {} THEN (CHOOSE s \in Scanned : TRUE).seen ELSE Now(Here)

\* Mutant: the directory is where the watcher looks.
BustDirVisible == IF Repo = NoRepo THEN UNCHANGED entries ELSE Notify(Repo, "meta")

\* Creating and removing a bust directory is seen by the watcher.  In a linked
\* work tree it watches the parent of the directory that .git names, to which
\* a bust directory is a directory like any other.
BustDirWritten == IF Repo = NoRepo THEN UNCHANGED entries
                  ELSE Notify(Repo, IF Repo \in linked THEN "meta" ELSE "internal")

\* create_dir_all makes a .git too if there is none.
Littered == litter' = litter \cup ({Repo} \ (present \cup {NoRepo}))

\* get_or_create_ctx: the branch starship shows, that on which the repository
\* was opened, which is now if there is none open or its index has changed.
Opened == IF Repo \in present /\ context # Unset /\ context.repo = Repo /\ context.current
          THEN context.head ELSE Branch(Here)

Prompt(segments) ==
    [cwd |-> req.cwd, keymap |-> req.keymap, status |-> req.status, minute |-> minute,
     cfg |-> segments.cfg, seen |-> segments.seen, head |-> segments.head]

\* The shell module notes what it has sent of its configuration with a request
\* for a prompt, not for timings.
Informed == IF req.kind = "prompt" THEN [sent EXCEPT ![req.shell] = env[req.shell]] ELSE sent

\* handle() returns, and its locals are gone.
Answer(p) == /\ reply' = [shell |-> req.shell, prompt |-> p]
             /\ pc' = "idle"
             /\ sent' = Informed
             /\ req' = Unset /\ config_mtime' = 0 /\ switched' = FALSE /\ bucket' = 0
             /\ rounds' = 0

\* render_prompt returns: to handle(), or to build_report, which goes on.
Returned(p) ==
    \/ req.kind = "prompt" /\ Answer(p)
    \/ /\ req.kind = "timings"
       /\ rounds' = rounds - 1 /\ pc' = IF rounds = 1 THEN "report" ELSE "key"
       /\ UNCHANGED <<req, config_mtime, switched, bucket, reply, sent>>

----------------------------------------------------------------------------
(* handle().                                                               *)

\* With a request for a prompt the shell module names its configuration only
\* when it is not the one it named last, with one for timings always.
ConfigNamed(s, kind) == IF kind = "timings" \/ env[s] # sent[s] THEN env[s] ELSE Unset

\* find_git_dir comes first.
Ask(s, kind, cwd, keymap, status, nocache) ==
    /\ touch < MaxTouch     \* bound
    /\ nocache => kind = "prompt"
    /\ pc = "idle" /\ pc' = "sync"
    /\ found' = Noted(cwd)
    /\ req' = [shell |-> s, kind |-> kind, cwd |-> cwd, repo |-> Found(cwd), keymap |-> keymap,
               status |-> status, nocache |-> nocache,
               config |-> ConfigNamed(s, kind)]
    /\ rounds' = IF kind = "timings" THEN 3 ELSE 0
    /\ edited' = FALSE
    /\ UNCHANGED <<vars, worldVars, sent, configVars, lru, context, scans,
                   config_mtime, switched, bucket, made, reply, litter>>

\* sync_config: the request names another file, and there is such a file.
Switches == req.config \in ConfigFiles \ {config_path} /\ file[req.config] # 0

SwitchConfig ==
    /\ pc = "sync" /\ Switches
    /\ config_path' = req.config /\ switched' = TRUE
    /\ pc' = "read"
    /\ UNCHANGED <<vars, worldVars, sent, cached_config, last_cfg_mtime, keptVars,
                   req, config_mtime, bucket, made, rounds, reply, edited, litter>>

\* sync_config: otherwise, has the file's time stamp changed?
StatConfig ==
    /\ pc = "sync" /\ ~Switches
    /\ config_mtime' = file[config_path]
    /\ pc' = IF file[config_path] # last_cfg_mtime THEN "read" ELSE "key"
    /\ UNCHANGED <<vars, worldVars, sent, configVars, keptVars,
                   req, switched, bucket, made, rounds, reply, edited, litter>>

\* Mutant: the cache outlives the configuration it was filled under.
ReadConfigOnly ==
    /\ pc = "read" /\ pc' = "stamp"
    /\ cached_config' = [path |-> config_path, content |-> file[config_path]]
    /\ UNCHANGED <<vars, worldVars, sent, config_path, last_cfg_mtime, keptVars,
                   requestVars, reply, edited, litter>>

\* reload_config, and the same in DaemonState::new, first half: the file is
\* read, the cache emptied, the repository closed.
ReadConfig ==
    /\ pc = "read" /\ pc' = "stamp"
    /\ cached_config' = [path |-> config_path, content |-> file[config_path]]
    /\ lru' = <<>> /\ context' = Unset
    /\ UNCHANGED <<vars, worldVars, sent, config_path, last_cfg_mtime, found, scans,
                   requestVars, reply, edited, litter>>

\* Second half: its time stamp is taken.
StampConfig ==
    /\ pc = "stamp"
    /\ pc' = IF req = Unset THEN "boot" ELSE "key"
    /\ last_cfg_mtime' = file[config_path]
    /\ config_mtime' = IF switched THEN last_cfg_mtime' ELSE config_mtime
    /\ UNCHANGED <<vars, worldVars, sent, config_path, cached_config, keptVars,
                   req, switched, bucket, made, rounds, reply, edited, litter>>

\* render_prompt with the cache disabled: no watcher, no cache.
RenderUncached ==
    /\ pc = "key" /\ req.nocache /\ pc' = "uncached"
    /\ UNCHANGED <<vars, worldVars, sent, configVars, keptVars, requestVars,
                   reply, edited, litter>>

\* cache_key_with_watcher.
EnsureRepo ==
    /\ pc = "key" /\ ~req.nocache
    /\ IF Repo = NoRepo
       THEN pc' = "lookup" /\ UNCHANGED <<entries, epoch, touch, disk>>
       ELSE pc' = "flush" /\ Ensure(Repo)
    /\ UNCHANGED <<worldVars, sent, configVars, keptVars, requestVars, reply, edited, litter>>

FlushRepo ==
    /\ pc = "flush" /\ pc' = "lookup"
    /\ Flush
    /\ UNCHANGED <<worldVars, sent, configVars, keptVars, requestVars, reply, edited, litter>>

\* build_report first says whether there is a prompt in the cache, which
\* leaves the order of its entries alone, and closes the repository.
Sample ==
    /\ pc = "lookup" /\ rounds = 3
    /\ pc' = "cold" /\ rounds' = 2
    /\ context' = Unset
    /\ UNCHANGED <<vars, worldVars, sent, configVars, lru, found, scans,
                   req, config_mtime, switched, bucket, made, reply, edited, litter>>

\* render_cached: the minute is taken, then the cache looked up.
RenderCached ==
    /\ pc = "lookup" /\ rounds # 3
    /\ lru' = Get(Key)
    /\ IF Hit THEN Returned(Lookup(Key).prompt)
              ELSE /\ pc' = "render" /\ bucket' = minute
                   /\ UNCHANGED <<req, config_mtime, switched, rounds, reply, sent>>
    /\ UNCHANGED <<vars, worldVars, configVars, found, context, scans, made, edited, litter>>

\* render_miss of the stock build renders everything; that of the fork keeps
\* the segments of an entry that is only of another minute or status.
Reuses == pc = "render" /\ Fork /\ Cached(Key)

\* The directory starship is in is one that was never scanned, or one it will
\* be in again.  The report has its table of modules rendered where the shell
\* is; nothing is kept of what that shows.
Rendering == {"render", "uncached", "cold", "warm", "report"}
Scan == CASE pc = "render" -> GitStatus
          [] pc = "report" -> NoRepo
          [] OTHER         -> Now(Here)

\* Everything up to the call of starship.
Draw ==
    LET segments == IF Reuses THEN Lookup(Key).segments
                    ELSE [cfg |-> cached_config, seen |-> Scan, head |-> Opened]
    IN  /\ pc \in Rendering /\ made = Unset
        /\ made' = [segments |-> segments, prompt |-> Prompt(segments), head |-> Opened]
        /\ IF Reuses \/ pc = "report"
           THEN UNCHANGED <<entries, litter>> ELSE BustDirWritten /\ Littered
        /\ scans' = IF Reuses \/ pc # "render" \/ Key.version = 0 \/ Scanned # {} THEN scans
                    ELSE scans \cup {[dir |-> BustDir, seen |-> Scan]}
        /\ UNCHANGED <<epoch, touch, disk>>
        /\ UNCHANGED <<worldVars, sent, configVars, lru, found, context, pc,
                       req, config_mtime, switched, bucket, rounds, reply, edited>>

\* save_repo_cache, with the time stamp that the index has by now.
SaveRepo == context' = IF Repo \in Repos
                       THEN [repo |-> Repo, current |-> TRUE, head |-> made.head]
                       ELSE context

CacheEntry == [key |-> Key, prompt |-> made.prompt, segments |-> made.segments,
               bucket |-> bucket, status |-> req.status]

\* What follows: the repository and the prompt are kept, the bust directory
\* goes.
Keep ==
    /\ pc \in Rendering /\ made # Unset /\ made' = Unset
    /\ SaveRepo
    /\ lru' = IF pc = "render" THEN Put(CacheEntry) ELSE lru
    /\ IF Reuses \/ pc = "report" THEN UNCHANGED entries ELSE BustDirWritten
    /\ \/ pc = "render" /\ Returned(made.prompt)
       \/ pc \in {"uncached", "report"} /\ Answer(made.prompt)
       \/ /\ pc \in {"cold", "warm"}
          /\ pc' = IF pc = "cold" THEN "warm" ELSE "key"
          /\ UNCHANGED <<req, config_mtime, switched, bucket, rounds, reply, sent>>
    /\ UNCHANGED <<epoch, touch, disk>>
    /\ UNCHANGED <<worldVars, configVars, found, scans, edited, litter>>

----------------------------------------------------------------------------
(* The daemon's own life.                                                  *)

\* default_config_path, in the environment of the shell that starts it.
ConfigPath(s) == IF env[s] # Unset THEN env[s] ELSE DefaultConfig

\* main() exits if there is no such configuration.
Boots(s) == file[ConfigPath(s)] # 0

\* Start-StarshipDaemon starts one if there is none.
Start(s) ==
    /\ pc = "down" /\ Boots(s)
    /\ config_path' = ConfigPath(s) /\ pc' = "read"
    /\ UNCHANGED <<vars, worldVars, sent, cached_config, last_cfg_mtime, keptVars,
                   requestVars, reply, edited, litter>>

\* warm_up: a prompt for the directory the daemon is in, under a key without
\* versions.  The stock build looks for a repository there and keeps it open;
\* with the fork only starship itself does.
WarmUp ==
    LET repo == IF Fork THEN NoRepo ELSE Discovered(Dot)
        segments == [cfg |-> cached_config, seen |-> Now(RepoOf[Dot]),
                     head |-> Branch(RepoOf[Dot])]
    IN  /\ pc = "boot" /\ pc' = "idle"
        /\ lru' = <<[key |-> [cwd |-> Dot, keymap |-> "vi", mtime |-> 0, version |-> 0],
                     prompt |-> [cwd |-> Dot, keymap |-> "vi", status |-> 0, minute |-> minute,
                                 cfg |-> segments.cfg, seen |-> segments.seen,
                                 head |-> segments.head],
                     segments |-> segments, bucket |-> minute, status |-> 0]>>
        /\ found' = IF Fork THEN found ELSE Noted(Dot)
        /\ context' = IF repo = NoRepo THEN Unset
                      ELSE [repo |-> repo, current |-> TRUE, head |-> segments.head]
        /\ UNCHANGED <<vars, worldVars, sent, configVars, scans, requestVars, reply, edited, litter>>

\* A process that is not there: its memory, its handles and a request that it
\* was serving are gone.  What the shells remember is not.
Blank == /\ cached_config' = Unset /\ last_cfg_mtime' = 0 /\ config_path' = Unset
         /\ lru' = <<>> /\ found' = <<>> /\ context' = Unset /\ scans' = {}
         /\ req' = Unset /\ config_mtime' = 0 /\ switched' = FALSE /\ bucket' = 0
         /\ made' = Unset /\ rounds' = 0
         /\ entries' = <<>> /\ epoch' = 1 /\ touch' = 0

\* Stop-StarshipDaemon, or a crash, at any time.  A shell that waits reads the
\* end of the pipe, which is to it a reply without text.
Stop ==
    /\ "daemon" \in World
    /\ pc # "down" /\ pc' = "down"
    /\ Blank
    /\ sent' = IF req = Unset THEN sent ELSE Informed
    /\ UNCHANGED <<disk, worldVars, reply, edited, litter>>

----------------------------------------------------------------------------
(* Everything else.                                                        *)

\* Server::run sweeps the watcher between requests.
Sweep == /\ pc = "idle" /\ ProcessSignaled
         /\ UNCHANGED daemonVars

\* The watcher is in the wrong place for the files of a linked work tree, and
\* takes all that git writes there for a change.
WriteFile(r, p) ==
    /\ IF r \notin linked THEN Write(r, p)
       ELSE IF p = "internal"
            THEN Notify(r, "meta") /\ UNCHANGED <<epoch, touch, disk>>
            ELSE /\ disk' = [disk EXCEPT ![r].content[p] = 1 - @]
                 /\ UNCHANGED <<entries, epoch, touch>>
    /\ UNCHANGED daemonVars

\* A commit, a fetch, a switch: git writes its files one by one, the index, HEAD
\* or something else that the watcher sees.
GitWrites(r) ==
    /\ r \in present
    /\ Write(r, "meta")
    /\ \/ /\ context' = IF context # Unset /\ context.repo = r
                        THEN [context EXCEPT !.current = FALSE] ELSE context
          /\ UNCHANGED head
       \/ /\ "head" \in World
          /\ head' = [head EXCEPT ![r] = 1 - @]
          /\ UNCHANGED context
       \/ UNCHANGED <<head, context>>
    /\ UNCHANGED <<file, minute, env, present, linked, sent, configVars, lru, found, scans,
                   pc, requestVars, reply, edited, litter>>

\* git init, and its opposite.
GitComesAndGoes(r) ==
    /\ "git" \in World /\ r \notin linked
    /\ present' = IF r \in present THEN present \ {r} ELSE present \cup {r}
    /\ litter' = litter \ {r}
    /\ Write(r, "meta")
    /\ context' = IF context # Unset /\ context.repo = r
                  THEN [context EXCEPT !.current = FALSE] ELSE context
    /\ UNCHANGED <<file, minute, env, linked, head, sent, configVars, lru, found, scans,
                   pc, requestVars, reply, edited>>

DiskChanges ==
    /\ "disk" \in World
    /\ \/ \E r \in Repos, p \in Paths \ {".gitignore", "meta"} : WriteFile(r, p)
       \/ \E r \in Repos, rules \in RuleSets : EditGitignore(r, rules) /\ UNCHANGED daemonVars
       \/ \E r \in Repos : RequestFails(r) /\ UNCHANGED daemonVars
       \/ \E r \in Repos : GitWrites(r)

Tick == /\ "clock" \in World
        /\ minute < MaxMinute /\ minute' = minute + 1
        /\ UNCHANGED <<vars, file, env, gitVars, sent, configVars, keptVars, pc, requestVars,
                       reply, edited, litter>>

SaveConfig(f, to) ==
    /\ "config" \in World
    /\ to \in {0, file[f] + 1} \ {file[f]} /\ to <= MaxEdits
    /\ "config" \in Windows \/ pc # "stamp" \/ f # config_path
    /\ file' = [file EXCEPT ![f] = to]
    /\ edited' = (edited \/ pc # "idle")
    /\ UNCHANGED <<vars, minute, env, gitVars, sent, configVars, keptVars, pc, requestVars,
                   reply, litter>>

SetEnv(s, f) ==
    /\ "env" \in World
    /\ ~(req # Unset /\ req.shell = s)   \* a shell that waits runs no command
    /\ env' = [env EXCEPT ![s] = f]
    /\ UNCHANGED <<vars, file, minute, gitVars, sent, configVars, keptVars, pc, requestVars,
                   reply, edited, litter>>

DaemonInit ==
    /\ Init
    /\ file \in [ConfigFiles -> IF "config" \in World THEN 0 .. MaxEdits ELSE {MaxEdits}]
    /\ env \in [Shells -> IF "env" \in World THEN ConfigFiles \cup {Unset} ELSE {Unset}]
    /\ minute = 0
    /\ sent = [s \in Shells |-> Unset]
    /\ present \in (IF "git" \in World THEN SUBSET Repos ELSE {Repos})
    /\ linked \in SUBSET (Linkable \cap present) /\ head = [r \in Repos |-> 0]
    /\ config_path = Unset /\ cached_config = Unset /\ last_cfg_mtime = 0
    /\ lru = <<>> /\ found = <<>> /\ context = Unset /\ scans = {}
    /\ pc = "down" /\ req = Unset
    /\ config_mtime = 0 /\ switched = FALSE /\ bucket = 0 /\ made = Unset /\ rounds = 0
    /\ reply = Unset /\ edited = FALSE /\ litter = {}

Serve == \/ SwitchConfig \/ StatConfig \/ ReadConfig \/ StampConfig
         \/ RenderUncached \/ EnsureRepo \/ FlushRepo \/ Sample \/ RenderCached
         \/ Draw \/ Keep

DaemonNext ==
    /\ \/ \E s \in Shells, kind \in Asks, cwd \in Cwds, k \in Keymaps, st \in Statuses,
             nc \in CacheFlags : Ask(s, kind, cwd, k, st, nc)
       \/ Serve
       \/ \E s \in Shells : Start(s)
       \/ WarmUp
       \/ Stop
       \/ Sweep
       \/ DiskChanges
       \/ \E r \in Repos : GitComesAndGoes(r)
       \/ Tick
       \/ \E f \in ConfigFiles, to \in 0 .. MaxEdits : SaveConfig(f, to)
       \/ \E s \in Shells, f \in ConfigFiles \cup {Unset} : SetEnv(s, f)
    /\ History

allVars == <<vars, daemonVars>>

DaemonSpec == DaemonInit /\ [][DaemonNext]_allVars

----------------------------------------------------------------------------
(* Properties.                                                             *)

Snapshots == [path : ConfigFiles, content : 0 .. MaxEdits]
Views     == Disk \cup {NoRepo}
Branches  == {0, 1, NoRepo}
Keys      == [cwd : Cwds, keymap : Keymaps, mtime : 0 .. MaxEdits, version : Nat]
Segments  == [cfg : Snapshots, seen : Views, head : Branches]
Prompts   == [cwd : Cwds, keymap : Keymaps, status : Statuses, minute : 0 .. MaxMinute,
              cfg : Snapshots, seen : Views, head : Branches]
CacheEntries == [key : Keys, prompt : Prompts, bucket : 0 .. MaxMinute, status : Statuses,
                 segments : Segments]
FoundEntries == [dir : Cwds, repo : Repos \cup {NoRepo}]
Requests     == [shell : Shells, kind : Asks, cwd : Cwds, repo : Repos \cup {NoRepo},
                 keymap : Keymaps, status : Statuses, nocache : BOOLEAN,
                 config : ConfigFiles \cup {Unset}]

DaemonTypeOK ==
    /\ TypeOK
    /\ file \in [ConfigFiles -> 0 .. MaxEdits] /\ minute \in 0 .. MaxMinute
    /\ env \in [Shells -> ConfigFiles \cup {Unset}] /\ sent \in [Shells -> ConfigFiles \cup {Unset}]
    /\ pc = "down" \/ config_path \in ConfigFiles
    /\ pc \in {"down", "read"} \/ cached_config \in Snapshots
    /\ last_cfg_mtime \in 0 .. MaxEdits
    /\ Len(lru) <= LruCapacity /\ Len(found) <= FoundCapacity
    /\ \A i \in DOMAIN lru : lru[i] \in CacheEntries
    /\ \A i \in DOMAIN found : found[i] \in FoundEntries
    /\ context # Unset => context \in [repo : Repos, current : BOOLEAN, head : Branches]
    /\ pc \in Rendering \cup {"down", "boot", "idle", "sync", "read", "stamp", "key", "flush",
                              "lookup"}
    /\ req # Unset => req \in Requests
    /\ made # Unset => made \in [segments : Segments, prompt : Prompts, head : Branches]
    /\ rounds \in 0 .. 3
    /\ reply # Unset => reply \in [shell : Shells, prompt : Prompts]

Answers == req # Unset /\ pc' = "idle"

\* An answer is about the request it answers, whatever is cached: for its
\* directory, keymap and exit status, and never with the time of an earlier
\* minute than the one the request was looked up in.
AnswersItsRequest ==
    [][Answers =>
          LET p == reply'.prompt IN
          /\ reply'.shell = req.shell
          /\ p.cwd = req.cwd /\ p.keymap = req.keymap /\ p.status = req.status
          /\ p.minute >= IF pc = "lookup" THEN minute ELSE bucket]_allVars

Displayed(Show(_), seen) == IF seen = NoRepo THEN NoRepo ELSE Show(seen)

\* Is `version` the one that r has now, with no notification still to act on?
Current(version, r) == Watched(r) /\ version = Version(r) /\ ~Unsettled(EntryOf(r))

\* A view of a repository that is kept under its current version shows it as it
\* is now.
Coherent(Show(_), version, r, seen) ==
    Current(version, r) => Displayed(Show, seen) = Displayed(Show, Now(r))

AllCoherent(Show(_)) ==
    /\ \A i \in DOMAIN lru : LET c == lru[i] r == RepoOf[c.key.cwd] IN
          r # NoRepo => Coherent(Show, c.key.version, r, c.segments.seen)
    /\ \A s \in scans : Coherent(Show, s.dir.version, s.dir.repo, s.seen)

\* So do the prompts in the cache and the scans that the directories of one
\* repository share: all that outlives a request, a minute or an exit status.
\* What .gitignore could hide is stale at times when the kernel loses records.
CachesCoherent      == AllCoherent(View)
SolidCachesCoherent == AllCoherent(SolidView)

\* "repo A should change after branch switch" (src/tests/multi_instance.rs:263),
\* and "watcher version change must bust the cache key" (src/src/daemon.rs:504)
\* for it to do so: a prompt kept under the current version of a repository
\* names the branch that the repository is on.
ShowsItsBranch ==
    \A i \in DOMAIN lru : LET c == lru[i] r == RepoOf[c.key.cwd] IN
        r # NoRepo /\ Current(c.key.version, r) => c.segments.head = Branch(r)

\* "Hot reloading is supported" (src/README.md:34): an answer uses the daemon's
\* configuration file as it is, if nobody saved it during the request.  It may
\* come from the cache, of an entry made under an earlier configuration.
ConfigCurrent ==
    [][Answers /\ ~edited =>
          reply'.prompt.cfg = [path |-> config_path, content |-> file[config_path]]]_allVars

\* "watcher_version 0 must never pin stale git status across renders"
\* (src/tests/render_reuse_fresh.rs:55): without a version to tell it by, an
\* answer from the cache shows the repository as it is.
ZeroNeverPins ==
    [][Answers /\ pc = "lookup" /\ Repo # NoRepo /\ Key.version = 0 =>
          Displayed(View, reply'.prompt.seen) = Displayed(View, Now(Repo))]_allVars

\* The daemon makes no .git where there is none, as "no bust dir should be
\* created for non-git" (src/tests/bust_cleanup.rs:85) has it.
NothingLeftBehind == litter = {}
=============================================================================
