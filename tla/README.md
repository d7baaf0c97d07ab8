# A verification project for starship-daemon

starship-daemon keeps one background process that renders the
[starship](https://starship.rs) prompt for PowerShell on Windows. A shell sends
its directory, terminal width, exit status, keymap and so on through a named
pipe and gets its prompt back, most of the time from a cache. The daemon is
right if every answer is the one that a fresh `starship prompt` would have
given, and if no client can keep another from getting one. Both rest on details
of asynchronous Windows interfaces: change notifications that are lost or late,
and overlapped I/O on nine pipe instances served by one thread. This directory
holds TLA+ models of those parts, configurations that check them with TLC, and
proofs that TLAPS checks.

Paths below are relative to the repository's root, without the leading `src/`
under which `PROJECT.json` names them.

## 1. The system

One thread runs `Server::run` (`src/server.rs`): it waits for an event of a pipe
session or of a watched directory, lets the watcher handle its events, then
sweeps the sessions. A complete request goes to `DaemonState::handle`
(`src/daemon.rs`), which brings the configuration up to date, asks the watcher
for the version of the repository the directory is in, and answers from the
cache or renders. What runs beside that thread: the clients, the kernel, and
everybody who writes to the repositories and the configuration.

| Component | State | Operations | Hard behaviour | It is correct if |
|---|---|---|---|---|
| **Directory watcher** `src/watch.rs` | per repository: rules of `.gitignore`, `pending`, `armed`, `last_touch`, `version`, the outstanding `ReadDirectoryChangesW`; `epoch`, `touch` | `ensure`, `flush`, `version`, `process_signaled`, `evict_lru`, `handle_event`, `start_watch` | changes between two requests to the kernel, overflow, failed and refused requests, eviction at 16 entries, rules that change in the batch they filter | no change is forgotten; no version is used twice; builds and the daemon's own files cost nothing; an entry the kernel does not watch is known as such |
| **Request handling, configuration** `src/daemon.rs`, `src/cache/config.rs` | `config_path`, `cached_config`, `last_cfg_mtime`, `lru`, `watcher` | `new`, `warm_up`, `handle`, `sync_config`, `reload_config`, `render_prompt` | saves between a stat, a read and the second stat; several shells with one daemon; a daemon that is stopped at any point | an answer uses the configuration as it is |
| **Prompt cache, rendering** `src/render/`, `src/cache/mod.rs` | LRU of 256 prompts with minute and exit status; the repository that is kept open (`REPO_CACHE`); per-directory state inside starship | key, hit, miss, reuse of segments (fork build), bust directories, `$all` | what is cached outlives what it was made from; rendering writes where the watcher looks | an answer is to its request, and shows the repository as it is |
| **Pipe server** `src/server.rs` | 9 sessions: operation, buffer, stage, event, last activity; `connected` count | start-up, wake, sweep, read, write, disconnect, capacity eviction | frames in pieces and pipelined, clients that vanish, do not read or never stop; all instances taken | every request is answered, in order, to the one who asked; nobody is starved; there is always an instance to open |
| **PowerShell client** `starship-daemon.psm1` | its pipe, what it last sent of its configuration, `DaemonDown` | prompt, timings, start, stop, restart | time-outs, late answers, a daemon that dies, several shells | returns, falls back to a plain prompt, asks again after a start or a restart, never shows another request's answer |
| **Wire protocol** `src/lib.rs` | none | `encode_request`, `parse_request` | lengths that do not add up | parse inverts encode, and rejects the rest |
| **Git directory discovery** `src/lib.rs` | a cache of 64 results | `find_git_dir` | results that are never invalidated; worktrees, whose `.git` is a file | finds what git finds, and writes nothing where there is no repository |
| **Gitignore matcher** `src/gitignore.rs` | parsed rules | parse, match | anchors, negation, rules for directories, `**` | matches what git ignores, or less |
| **Timings report** `src/timings.rs` | none | asks the cache, renders cold, warm and as for a prompt, measures the modules | it renders into the caches that it measures | it leaves the caches right, and measures the modules that are shown |
| **Windows bindings, entry, statistics** `src/ffi.rs`, `src/main.rs`, part of `src/watch.rs` | none that matters | declarations, start-up, debug counters | | |

The components meet in four ways. The shell and the server exchange messages
over the pipe. The server calls `handle` and `process_signaled` in turn, never
both. `handle` and the watcher share `version(repo)`, which is a part of the
cache's key. Rendering, finally, acts on the watcher through the disk, since it
creates and removes directories in the `.git` it watches.

## 2. The plan

The most important behaviour first: the watcher, since everything that is
cached is only as good as its versions; then the request, which puts them to
use; then the server.

| | Module | Stands for | State |
|---|---|---|---|
| 1 | `Watcher` | `src/watch.rs`, the kernel's change notification, the disk | written |
| 2 | `VersionSource` | what the watcher promises of its versions | written |
| 3 | `WatcherProofs` | proofs about 1: that it implements 2, evicts the oldest, forgets no change, filters by the rules on disk, and that builds are free | written |
| 4 | `Daemon` (extends 1) | a request, from the shell to the answer; the daemon's end and restart | written |
| 5 | `PipeServer` | `src/server.rs`, its clients, the kernel's pipes | written |
| 6 | `Exchange` | what a client may count on; 5 implements it | written |
| 7 | `Gitignore` | `src/gitignore.rs` against gitignore(5) | written |
| 8 | `Wire` | the layout of requests and replies on both sides | written |
| 9 | `Formats` | which modules a format shows, are kept and are measured | written |
| 10 | `Shell` | `starship-daemon.psm1`: one pipe, time-outs, `DaemonDown`, start, stop and restart | written |
| 11 | `ShellProofs` (extends 10) | proofs about 10 | written |
| 12 | `PipeServerProofs` (extends 5) | proofs of every safety property of 5 | written |
| | `ExchangeProofs` (extends 12) | proof that 5 implements 6 | written |
| 13 | `DaemonProofs` (extends 3 and 4) | proofs about 4: answers, configurations, caches | written |
| 14 | `GitignoreProofs` (extends 7) | proofs of every safety property of 7 | written |
| 15 | `WireProofs` (extends 8) | proofs of every safety property of 8 | written |
| 16 | `FormatsProofs` (extends 9) | proofs of every safety property of 9 | written |

`MCWatcher`, `MCDaemon` and `MCPipeServer` hold the instances of the first three
for TLC, `MCParts` those of 7 to 10, which stand alone.

Every safety property that a passing run checks is a theorem.

## 3. The modules and the code

`PROJECT.json` gives for each definition the lines it stands for. Here is how
the larger things correspond.

An operator whose comment starts with `Mutant:` is no part of a specification.
It stands before the definition it is a wrong version of, a version a plausible
slip in the code would give; put in its place, it makes the property that
`PROJECT.json` names with it fail. It shows that the property can.

### Watcher

`entries` is `WatcherState.entries`, in the order of the vector, because
`swap_remove` and the order in which `flush` gives out versions depend on it. Each
entry has the code's fields and three of the kernel: `io`, how its outstanding
`ReadDirectoryChangesW` stands; `batch`, the records it completed with; and
`queue`, what was recorded since. `ensure` is `EnsureWatched`, `EnsureNew` or
`EnsureFails`, as its early returns go; `process_signaled` is `ProcessSignaled`,
all signaled entries in one step, as in the code. Those run on one thread;
`Write`, `EditGitignore` and `RequestFails` come between any two.

What is abstracted. Paths are ordinary files, `.gitignore`, one path `"meta"` for
the paths below `.git` that count (`HEAD`, `index`, refs) and one, `"internal"`,
for those that do not; the content of a file is one bit, since what matters is
that a write changes it. A `.gitignore` is the set of paths it matches (the
matcher is in `Gitignore`). Records are kept as a set: `handle_event` asks only
whether there is one of a kind. `Faults` says what the kernel does wrong in a run.

`base` and `altered` are history: what a repository was like when its version was
assigned, and which have changed in a way that should count since. No action
reads them.

### Daemon

`handle` is split into one action for each thing it reads that others write:
the file's existence and time stamp (`SwitchConfig`, `StatConfig`), its content
(`ReadConfig`), the second time stamp (`StampConfig`), the registration and flush
of the watcher (`EnsureRepo`, `FlushRepo`), the clock and the lookup
(`RenderCached`), the call of starship (`Draw`) and what is kept of it (`Keep`).
Commits, edits, saved configurations and the clock come in between. `lru` is the
cache, most recently used first. `scans` is what starship remembers by the
directory it is told it is in: `render_miss` passes it a fresh bust directory
whose name has the version and the configuration's time stamp, so one of an
earlier name finds the scan of then. `context` is `REPO_CACHE`: a repository, the
branch on which it was opened, and whether the index still has the time stamp
it was saved under. `GitWrites` is one write of git, to the index, to HEAD or to another ref: a commit
or a switch is several, with anything in between, and `git checkout -b` writes HEAD alone. `Branch` is
what gix finds in HEAD. `Fork` picks the build: `render/fork.rs` reuses
the segments of an entry whose minute or exit status is not the one asked for,
`render/stock.rs` renders anew. The terminal width, which is to the cache's key what the
keymap is, the job count and the like have no variable.

A request for a report takes the way of a prompt three times with `rounds` counting
down (`Sample`, then `"cold"` and `"warm"`, which bypass the cache, then two that use it), and ends
with the modules (`"report"`), as `build_report` does. Its text is left out.

The life of a daemon is `Start` (the configuration comes from the environment of
the shell that starts it), the load of `DaemonState::new`, which is that of
`reload_config`, `WarmUp`, and `Stop`, at any point; `Blank` says what is gone then.
A shell that waits reads the end of its pipe, which the module takes for a reply
without text: it notes its configuration as sent.

`find_git_dir` is `Found`, with its cache `found`. Where `.git` is a file
(`linked`), the daemon watches the parent of the directory that the file names: changes of
files are not seen there, and a bust directory is a change. `present` are the repositories
that there are; in the run `removed_repo` they come and go, and `litter` are
those that the daemon has made itself.

A configuration file's state is one number, for its content and its time stamp
both: a save always gives a new stamp. `env` and `sent` are the client's: the
module sends the name of its configuration when it is not the one it sent last.

### PipeServer

A session is the code's `Session` and the kernel's side of its instance: whether
it is listening, the units on their way in, the answers on their way out, the
pending operation and the event. A step of the server makes at most one call
whose outcome depends on the client, so that clients act between any two: `Skip` and
`Service` are the head of `service_session`, `ReadMore` and `HeaderDone` the turns
of `advance_stages`, `HandleRequest` and `NextRead` what follows a complete
request, `Evict` the end of `service_signaled_sessions`. `recency` stands for
`last_activity`: its order is all that is used. `Connect`, `Write`, `Read` and `Close`
are the client's, which writes its frames in any pieces and may or may not wait
for the answers; `Read` and `WriteFile` keep to the pipe's order.

A frame has `HeaderLen` units of header and `BodyLen` of body. An answer is the
number of the frame it answers, or 0 if the bytes that were handed to `handle` are not
one whole frame: a buffer that is not reset, or a length that is off, shows.

### Gitignore, Wire, Formats

These are the algorithms of the program, as functions, each next to a definition
of what they should compute. Their state is the text they work on, put together
step by step by whoever writes it.

`Gitignore`: a name is a sequence of characters, a path of names, a line what
`parse_rule_line` makes of it. `ComponentMatch` and `MatchWithDoubleStar` have the
code's recursion; `GlobMatches` and `PathMatches` say the same by how a pattern is laid
along a path, and `GitIgnores` is gitignore(5). Escapes and character classes,
which the code takes literally, are left out.

`Wire`: a frame is a sequence of bytes, of base 8 in the run, with limits that
stand to the base as the code's do to 256. A request goes from what the shell means
(`Encode`, with lengths that wrap in two bytes) through `Parse` back to a meaning; one byte may be
changed on the way. Of a reply only lengths count, and where a character ends.

`Formats`: a format is a sequence of lexemes. `Shown` is what starship shows for it
(external); `ExpandAll`, `ModuleNames` and `PopulateCache` are the daemon's, which
expand `$all` as text. Backslash escapes and groups in brackets are left out.

### Shell

One shell and its pipe: `DaemonPipe` and `DaemonDown` are the module's variables,
`step` where a prompt or a report is. `GiveUp` is what both do on an exception,
`ReadNothing` what is none: a reply of length 0, or the end of the pipe, on which
`ReadAsync` returns 0 bytes. The daemon and the other shells are the world, which may do
anything at any point. `Stop-Process` does not wait: `Remains` is what may be left of a process it has told to
end, and `Launched` what `Start` makes of a process that it finds. Two variables are history: `mended` says which
of `Start`, where there was no daemon, and `Restart` was run since something last went wrong, `failed` after which of them a prompt fell
back to the plain one with nothing else to blame.

## 4. The runs

| Run | Question | Instance |
|---|---|---|
| `watcher_versions` | Is there one entry per repository and at most `Capacity`, is the victim the one not asked for longest, is a version ever used twice, is `armed` true to the kernel? | 3 repositories for 2 entries, directories that do not open, requests that are refused, 4 calls of `ensure`, 4 versions |
| `watcher_solid` | Is a change ever forgotten, or never acted on? | 1 repository, one file that a rule may match, two rule sets, every fault but `open` |
| `daemon_serves` | Is what the caches keep under the current version current, whatever the kernel refuses and whenever the daemon is restarted? Is an answer to its own request, and with the configuration as it is? | two scenes, see below |
| `daemon_fresh` | With a kernel that reports all, are the rules current, the caches current even in what rules may hide, and are builds free? | 1 directory, a file and the rules that may match it, stock build |
| `parts` | Does the matcher drop what git ignores and no more? Is a request taken as meant, or refused, and a reply shown whole? Are the modules shown the ones that are kept and measured? Does a shell show its own answers, return, and recover? | see below |
| `pipe_serves` | Are the frames of a connection answered one by one, in order, and is no event lost? Is there always an instance to open, does an idle client make room, does everyone get an answer? | two scenes, see below |

Each behavior of `daemon_serves` and `pipe_serves` is of one of two scenes, chosen at the start (`scene` in the
MC module), whose conditions say what the world does in it. The properties are checked in both.

- `daemon_serves`, "files": prompts and reports for two directories of one repository, which may be a linked work tree. Its
  files are written, HEAD moves once, the kernel refuses requests, the daemon is restarted. The configuration
  and the minute stay.
- `daemon_serves`, "requests": two directories of no repository, two exit statuses, two configuration files that are
  saved and deleted, a variable that is set, the cache on and off, prompts and reports, a change of minute, restarts.
  What is not an ordinary prompt is asked for in one of the directories.
- `pipe_serves`, "frames": two clients for two instances, headers of two units, malformed and refused frames, cut up in
  all ways, clients that come before the server is up included. The second client writes one frame, the first two.
- `pipe_serves`, "clients": three clients for two instances, one of which reads; headers in one piece, nobody early.

`parts` explores one of four modules in each behavior: `Gitignore` with all files
of two lines of 19 patterns, with and without `!` and slashes at either end, against
paths of up to three names; `Wire` with texts that are empty, as long as
allowed, one longer, and longer than their length field can say, and one byte changed;
`Formats` with up to six lexemes on the left; `Shell` with three requests.

Six runs look for the violation of something the repository says, and find it;
`findings` in `PROJECT.json` gives the lines.

| Run | What the code does |
|---|---|
| `config_reload_race` | `reload_config` reads the file before it takes the time stamp it will compare with: a save in between is not loaded. |
| `unwatched_pins` | A repository that cannot be watched has version 0, and its prompt is cached under it. |
| `removed_repo` | `find_git_dir` goes on answering with a `.git` that was removed, and the next prompt makes an empty one. |
| `head_alone` | A `Context` is reused if the index has not changed: when HEAD alone has, the old branch goes into the cache under the new version. |
| `cures_fail` | The first prompt after `Start-StarshipDaemon` may fail on the dead pipe that it leaves alone; after `Restart-StarshipDaemon` there may be no daemon, since it does not wait for the end of the one it has stopped. |
| `early_client` | A client that connects and closes before the first `ConnectNamedPipe` costs an instance for good. |

`cures_fail` asks whether one of the two commands can be relied on: its trace has a prompt that fails
after each, and two findings.

The passing runs show what holds beside these. `daemon_serves` therefore has no
`"config"` in `Windows`, which excludes the save that `config_reload_race` is
about; no passing run has `"git"` in `World`; and in `pipe_serves` a client that comes before the server is
up stays until it is (`NotTooEarly`), and comes in "frames" only. Nothing is excluded on account of `head_alone` and
`cures_fail`: HEAD and index are written apart in `daemon_serves`, and what is claimed there of the caches
(`SolidCachesCoherent`) is about files; processes linger in `parts`, where `Repaired` says what the commands do
achieve.

Other behavior of this kind has no run; each shows when one constant is changed, or one condition left out:

- When the records of an edit of `.gitignore` are lost the version changes but the
  rules do not, until the next edit: `Faults = {"overflow"}` in `daemon_fresh`
  violates `FilterCurrent`, and on the way `NoSpuriousBump`. `NoSolidChangeMissed` and `SolidCachesCoherent` are therefore
  about what no rules match.
- Of several `**` in a line the first is tried with too few ends, since each later one counts as taking
  a component of the path (`src/gitignore.rs:147`): `a/**/b/**/a` does not match `a/b/a`, and what is built below costs
  a version. `MatchersAgree` and `DropsBuilds` fail without `OneDoubleStar`.
- The daemon has one configuration: a shell is answered with the one that another
  has switched to, and one that is noted as sent may have been lost. `ConfigCurrent` is
  about the daemon's configuration, not the shell's.

Properties worth a word:

- `NoSolidChangeMissed` is about the paths that no rule set of the instance
  matches, and about the rules themselves. A path that some rules match can be
  overlooked, see above. Where the kernel loses nothing, `CachesCoherent` says the same of
  every path that is shown.
- `SolidCachesCoherent` and `CachesCoherent` are not about the watcher alone. A
  scan is made after the version was taken, and the repository may have changed
  between: the entry then has a notification to act on, and what is cached is dropped before
  it is used.
- `NoSpuriousBump` is checked in `daemon_fresh`, where rendering writes bust
  directories: they must not count, or every prompt would be a miss.
- `ShowsItsBranch` says of branches what these say of files: a prompt kept under a repository's current version
  names the branch of HEAD. Of files a scan is tied to the version by its bust directory; of the branch there is the
  stamp of the index only, which is why one holds and the other fails.
- `HidesNoMore` is restricted by `FallsShort`: rules for directories are tried
  apart from the others, and a rule with `**` does not reach below what it matches, so
  that with `/*` and then `!*/` the watcher drops changes of files that git shows. `DropsBuilds`
  is about the files without `!`, and like the half of `MatchersAgree` that says that nothing is
  missed, of lines in which no `**` comes after another but at the end (`OneDoubleStar`). The other
  half is about any line.
- `ReportsWhatIsShown` and its neighbours are restricted by `RunsOn`: a word right after `$all`
  becomes a part of the last name put there.
- `ShownWhole` and `NothingLeft` join the daemon's limit with the client's buffer: a
  prompt that does not fit is not shown in part, and the pipe with the rest of it is closed.
- `Repaired` is what either command does whatever had happened before, and `OneOfThemCures` what README.md:44 promises of
  them: that a prompt is answered again. Between the two lie the pipe that `Start` leaves alone, and the process that
  `Restart` still finds.
- `FairShare` counts, for a session whose event is set, the requests of others
  that are answered before its turn.

### Bounds, symmetry and views

`MaxEpoch`, `MaxTouch`, `MaxMinute`, `MaxEdits`, `MaxFrames` and `MaxConnections` bound
counters in guards. Four versions are enough for two entries
to be watched and then given new versions by the same `flush`; `MaxTouch = 4` with
three repositories and two entries reaches an eviction with either as the older and a return.
Two instances with three clients fill the server and evict; two frames pipeline,
and one response fills the pipe, so that the third waits. A header of two units
arrives whole, in halves, and together with the next frame.

`MaxTouch = 2` and `MaxEpoch = 3` in the `Daemon` runs give a request, a change and a request that
finds a new version, with a report between; `LruCapacity` of 1 or 2 and `FoundCapacity = 2` make the caches evict
where there are more keys.

`SYMMETRY` is used for the repositories of `watcher_versions`, which has no liveness
property. A `VIEW` leaves out variables that no action and no property of the
run reads: `NoHistory`, `WithAltered` and `WithFound` (`Daemon`), `WatcherOnly` (`Watcher`).
`NoHistory` and `WithAltered` leave out `found`, too: while no `.git` comes or goes it
can say nothing but what a search would. `WatcherOnly` leaves out the disk: with a single rule set its content is
never read by an action.

`CHECK_DEADLOCK` stays on, but for `parts`: with the bounds reached, the disk and the
clients can still act, and in `daemon_serves` shells can still set a variable. A text of `parts`
ends when it is as long as it may be.

### Fairness

`Watcher!Spec` assumes that `process_signaled` runs if an event stays set:
`Server::run` waits for the events of all entries and calls it each time. It assumes
nothing of `ensure` and `flush`: no shell need ever ask. So `SolidChangeNoticed` ends
with an entry that is due a new version, not with the version.
`PipeServer!Spec` assumes that the server's thread takes its steps, and that
those in `Readers` read what is there. It does not assume that clients write the
rest of a frame, close, or read, and `EveryRequestAnswered` holds for the
readers whatever the others do. The wake-up by a watcher event is not part of the fair
steps: the server may not count on it.
`ShellSpec` assumes that what runs in a shell goes on: connecting and reading have time-outs in the code, and
a write to a pipe with a reader's buffer of a whole frame does not wait. It assumes nothing of
the daemon, and `PromptReturns` is the stronger for it.

## 5. What holds by assumption

- A save of a configuration changes its time stamp.
- What is sent and rendered is shorter than four bytes can say, and the shell asks in
  well-formed UTF-8 (`RequestAssumption`, `TextAssumption`); the daemon may get anything.
- Starship can read the formats (`Readable`): where it cannot, it shows an error for a prompt, and
  `StringFormatter::new` has no variables to keep or measure. No table of `[custom]` or `[env_var]` has the full name of a module in
  `PROMPT_ORDER`, which contains no dot (`FormatsAssumption`).
- No rule matches `.git/HEAD`, `.git/index` or refs in `daemon_fresh`, and no file
  there is both tracked and matched. Where one is, `filter_visible` drops changes
  that git status shows, although README.md:86 has it that the watcher tracks the
  entire directory.
- The repository of a directory is fixed (`RepoOf`); whether it is there, and whether its
  `.git` is a directory or a file, is not. A linked work tree has no rules
  (`Linkable # {}` requires `RuleSets = {{}}`): the daemon looks for `.gitignore` in the parent of the
  git directory, where nobody keeps one.
- A read from a pipe whose other end is gone returns 0 bytes in the shell and is a
  complete message, as .NET's `NamedPipeClientStream` has it. `$env:STARSHIP_DAEMON_PATH` is set.
- `WaitForMultipleObjects`, the creation of events and `CreateNamedPipeW` do not
  fail; a read does not return nothing at once.

## 6. What is proved

The proofs are about all modules: for every set of
repositories, directories, configuration files, shells and clients, every number of instances,
capacity and share, all lines of `.gitignore`, requests, texts and formats, and whatever rules, faults and bounds satisfy the assumptions of the modules. Some
theorems have a hypothesis on the constants besides. It is said with each of them, and
TLC finds the property violated on a small instance where it does not hold, so that none asks for more
than is needed.

### The watcher

`WatcherProofs` proves:

| Theorem | States |
|---|---|
| `TypeCorrectness` | `Spec => []TypeOK` |
| `WatcherBounded` | `Spec => []Bounded`: the array of wait handles is never outgrown |
| `VersionsDistinct` | `Spec => []DistinctVersions` |
| `ArmedIsTruthful` | `Spec => []ArmedMeansOutstanding` |
| `WatcherIsVersionSource` | `Spec => VersionsAreFresh`, the refinement: a version is larger than all that were ever given out |

The inductive invariant `IInv` (theorem `Invariance`) joins types, `Bounded`,
`DistinctVersions` and `ArmedMeansOutstanding`. They need each other: an
entry's version stays below `epoch` only if `flush` gives out as many as
`epoch` grows by, and two of those differ because the rank of a pending entry among the pending
ones is its own; `epoch` grows by the number of pending entries, which is a
number because the vector is finite.

The argument has three layers. Lemmas on one entry (`StartWatchKeeps`,
`NotifiedKeeps`, `HandleEventKeeps`) say which fields an operator leaves alone. Lemmas
on the vector (`InPlace`, `SwapRemoveShape`, `EvictLruShape`, `FlushRanks`) say
what is left of it by `swap_remove` and what ranks there are. One lemma for
each action then shows that it keeps the invariant and either leaves every version as it is
or raises one past all before (`VersionsMove`). The refinement follows from the second half and
from `LookupHolds`: with one entry per repository, `Version` finds it.

`NoChangeForgotten` is `Spec => []NoSolidChangeMissed`:
a repository whose entry is settled is as it was when its version was given out.
That is not inductive, since a set event says nothing of what the completion
will be taken for. `AllReported` is: for each path that no rules match, and for
`.gitignore`, a difference between the disk and `base` is on record, as an entry
that is due or unarmed, a completion without records, a record of that very path in the
batch, or one of it (or of lost records) in the queue. With it goes
`RulesKnown`: rules are always some contents of `.gitignore`, so that they match no solid
path, which is why `filter_visible` cannot drop one. One lemma for each action
shows that it takes nothing off an entry that keeps its version and puts on what
it changes (`Carried`). `AllReportedStep` joins that with the history variable: where the
version is new, `base` is the disk; elsewhere `base` stays and `Carried` applies.

`OldestEvicted` is `Spec => EvictsOldest`. Its
invariant is that no two entries have the same `last_touch` and none has one that is not below
`touch` (`TouchOK`): `evict_lru` compares with `<`, so that its choice is the least by
more than the order of the vector only if there are no ties. That there is a
least one at all comes from the well-foundedness of `<` on the naturals.

Two more theorems are about a kernel that loses no record (`NoneLost`: none of
`arm`, `race` and `overflow` is in `Faults`):

| Theorem | States | Hypothesis |
|---|---|---|
| `RulesOnDisk` | `Spec => []FilterCurrent` | `NoneLost` |
| `NothingSpurious` | `Spec => []NoSpuriousBump` | `NoneLost`, and no request fails (`NoneFails`) |

That an entry's event is set does not say that what it will read is about the rules.
`Filtered` says so: if the rules differ from the disk's, a record of `.gitignore` is in the batch, or in the
queue of an entry whose next request completes at once. `Accounted` adds that what is on record of a
repository that was not told to have changed is matched by the rules on disk, or the
daemon's own; it needs the first, since `filter_visible` drops those by the rules it has, or reads again. A
failed request is taken for a change, whence the second hypothesis.

### The daemon

`DaemonProofs` proves:

| Theorem | States | Hypothesis |
|---|---|---|
| `DaemonTypeCorrectness` | `DaemonSpec => []DaemonTypeOK` | |
| `AnswersAreTheirRequests` | `DaemonSpec => AnswersItsRequest` | |
| `AnswersUseTheConfig` | `DaemonSpec => ConfigCurrent` | no save between the read of a configuration and its stamp (`"config" \notin Windows`) |
| `CachesStayCoherent` | `DaemonSpec => []SolidCachesCoherent` | no `.git` comes or goes (`"git" \notin World`), no rules match `.git` (`"meta" \notin UNION RuleSets`) |
| `CachesStayComplete` | `DaemonSpec => []CachesCoherent` | the same, no record is lost (`NoneLost`), and no rules match a tracked file |
| `RulesOnDiskServed` | `DaemonSpec => []FilterCurrent` | `NoneLost` |
| `RenderingIsFree` | `DaemonSpec => []NoSpuriousBump` | `NoneLost`, `NoneFails`, and no work tree is linked (`Linkable = {}`) |
| `KeysAreFresh` | `DaemonSpec => VersionsAreFresh` | the daemon is not restarted (`"daemon" \notin World`) |
| `WatchedNeverPins` | `DaemonSpec => ZeroNeverPins` | directories can be opened (`"open" \notin Faults`) |
| `NothingLeftWhereGitStays` | `DaemonSpec => []NothingLeftBehind` | `"git" \notin World` |

All rest on `Types`, which is the invariant of the watcher (every step of the daemon is one
of the watcher's, or leaves it alone: `WatcherMoves`, `WatcherKept`) and says for each place in a request what is set
there: which key the render is for, what has been made of it, what the next answer goes to. An entry of the
cache must be of its own key (`Fitting`): then `AnswersAreTheirRequests` follows
for a hit as for a render, whatever was dropped, moved to the front or put in between.

`AnswersUseTheConfig` needs more than that the configuration that is loaded is that of the
stamp. `CacheOfConfig` says that everything in the cache was rendered under it, since `reload_config`
empties the cache; `UneditedIsCurrent` that a request that has compared the stamps, and during which nobody
saved, has the file's; `ReadIsWhole` that a reload between its two looks has what it
will stamp. The last one is what a save at that point breaks.

`CachesStayCoherent` is the theorem this project was made for: between a change in a repository and the
prompt that must show it lie the kernel's queue, a completion, the watcher's filter, a version, a key and three
caches. The property says of an entry that is behind only that it has a notification still to
act on, and is not inductive for the reason that `NoSolidChangeMissed` is not. The invariant `CoherentInv` says
it path by path:

- `Shows`: for a view under the version an entry has now, the entry has been told (`Told`) of each path in
  which it differs from the disk. A path that no rules match is then on the entry's record (`Reported`, as in
  `WatcherProofs`). `LruShows` says it of prompts, `ScansShow` of what starship keeps by bust directory.
- A version that is in a cache is below `epoch`, so that an entry that is given a new one has nothing under
  it, and nothing is left to show. This is where `VersionsDistinct` is used.
- `MadeShows` says the same of what is rendered and not yet kept, of any version: none
  is given out between `Draw` and `Keep`.
- A repository with no entry makes no statement, and one that gets an entry gets a new version with it.

The steps of the watcher carry `Shows` by the lemmas of `WatcherProofs` (`Carried`), which are about
what stays on record, whatever it is that was compared.

`CachesStayComplete` is the same of the paths that some rules match, and has the same invariant. A change
that the entry's rules match is dropped, so that such a path is `Told` also if the rules on disk match it (it
is then not shown) or the change of the rules is on record. `RulesFollowed` closes the gap between
the entry's rules and the disk's: it has `Filtered` of `WatcherProofs` in it, which is why nothing may be lost.
A rule that matches `.git`, or a tracked file that git shows in spite of it, is another matter: the
watcher drops what the prompt shows.

`RenderingIsFree` makes each step of the daemon one of the watcher's (`NothingLinked`), a bust
directory being a write of `internal`, and `WatcherProofs` does the rest. In a linked work tree the watcher
takes that directory for a change.

The last three say where the failures that the runs show have their only cause. `KeysAreFresh` is the
refinement of `VersionSource` by the whole daemon: a restart begins at version 1 again, which
`CachesStayCoherent` bears since the caches are gone too. `WatchedNeverPins` rests on `InWatch`: from `ensure()`
to the look at the cache a repository keeps its entry, hence a version other than 0. The
runs `unwatched_pins` and `removed_repo` show the other two properties violated without their hypotheses.

TLC checked `CoherentInv` on small instances, with faults and without, before it was proved.

### The pipe server

`PipeServerProofs` proves:

| Theorem | States | Hypothesis |
|---|---|---|
| `TypeCorrectness` | `Spec => []TypeOK` | |
| `EventsMeanDone` | `Spec => []EventMeansDone` | |
| `RoomForOne` | `Spec => []SlotFree` | no client before the first `ConnectNamedPipe` (`EarlyClients = FALSE`), see `early_client` |
| `Fairness` | `Spec => []FairShare` | |
| `IdleMakesRoom` | `Spec => IdleGoFirst` | |

The invariant (`Invariance`) is about each session by itself: `Good` says which of its fields go together when its
instance has been armed, and when it is being serviced. `EventMeansDone` is a part of it, and it is inductive only
with the others: that a client which opens an instance sets the event of the right operation, for
example, because an instance that listens has no operation but its `ConnectNamedPipe`. `OwnersOK` adds that an
instance has at most one client.

- `SlotFree` needs besides that not every session is `connected` when the server waits (`NotFull`),
  which `Evict` sees to; one that is not listens, or its event is set, by `Good`.
- `FairShare` needs a count of the sessions that the sweep passes before it comes to a given one
  (`Shares`): the turns that this one has waited for are those of the sessions passed
  since, and of each there is one. The proof is arithmetic on where the sweep is.
- `IdleGoFirst` needs that the sessions that were serviced in this sweep are the last in `recency`
  (`Recent`).

`ExchangeProofs` proves `AnswersComeInOrder`, which is `Spec => AnswersInOrder`: the server
implements `Exchange`. The invariant says of each connection what its bytes spell (`Spelled`):
what is in the session's buffer, then what a completed read has brought, then what is in the pipe, then
what the client has yet to write, are together the frames after the last one answered, whole and in
order. `Buffers` says that the server never reads beyond the frame it is at, so that what it takes for a frame
is the first of these. A write, a read in pieces, a frame that ends a buffer and one that is put off to
the next sweep only move the cuts between them, and a request that is handled takes exactly one frame off the
front and puts one answer at the end.

### The shell

`ShellProofs` proves `NoLateAnswer`, which is `ShellSpec => ShowsItsOwn`, and `EachRepairsItsHalf`,
which is `ShellSpec => []Repaired`, both without a hypothesis. The second is inductive given the types: whatever
undoes what a command has done is something that goes wrong. For the first,
the invariant is `OneAtATime`: a pipe that is kept between two commands has nothing on it,
neither a request nor a reply, and while a reply is waited for it has exactly that request, or that reply, or
the daemon has gone. Every way out of a command must establish it: all but `ReadAnswer` and
`ReadNothing` do by dropping the pipe, `ReadNothing` because the one reply is consumed or none
can come any more.

### The matcher

`GitignoreProofs` proves, for all lines and paths:

| Theorem | States | Condition |
|---|---|---|
| `ComponentMatchIsGlob` | `ComponentMatch(p, n) = GlobMatches(p, n)` | |
| `DoubleStarAsGit` | an anchored `MatchWithDoubleStar` implies `PathMatches`, and conversely | the converse if `OneDoubleStar` |
| `MatchersAgreeAlways` | `GitignoreSpec => []MatchersAgree` | in the property |
| `HidesNoMoreAlways` | `GitignoreSpec => []HidesNoMore` | in the property |
| `DropsBuildsAlways` | `GitignoreSpec => []DropsBuilds` | in the property |

The state is a list of lines and no obstacle (`LinesOK`); the matter is in the data. The matchers recurse over
pattern and name, git's rule is that there is a way to lay the one along the other (`cut`). What a
recursive function computes cannot be shown by the library's induction here, and is not: to TLA+ the
function is a `CHOOSE` of one that satisfies its equation. That there is one is shown by
writing it down: whether the rest of the pattern can be laid along the rest of the
name satisfies the equation (`MatchExists`, `WalkExists`). That any other agrees with it is shown by the
least place at which it does not: there the equation reaches only places at which the two agree.
The well-foundedness of `<` on the naturals, which gives that place, is all the induction there is.

For `**` the ends that are tried count. A lemma says that to lay the parts that
follow takes as many components as there are of them that are no `**`; where none is, the ends that the code tries are all
that lead anywhere. For `HidesNoMore` the line that decides for git is compared with the rule that decides for the
matcher: both are the last of those that match, the rule's line matches for git too, and a `!` line after it that
undoes it for git would have to be one that `FallsShort` excludes.

### What goes over the pipe

`WireProofs` proves, for any base of at least 3, limits that a frame has room for, requests and texts:

| Theorem | States |
|---|---|
| `TakenAsMeantAlways` | `WireSpec => []TakenAsMeant` |
| `StandsAloneAlways` | `WireSpec => []StandsAlone` |
| `ShownWholeAlways` | `WireSpec => []ShownWhole` |
| `NothingLeftAlways` | `WireSpec => []NothingLeft` |

The invariant (`WireInvariant`) is that a frame consists of bytes, and is the encoding of the request until
somebody alters it; and that a reply, in the pipe or read from it, is of the text that was rendered. The rest is
about data. A number that fits its digits is read as it was written (`ValueOf4`, `ValueOf2`); the nine parts of a layout lie
where the lengths of those before say (`LayoutParts`). A length of more than two digits is read as another
number, and the theorem needs that this is never believed: a frame that holds such a text is longer than `MaxTotalLen`, and is refused
for it (`ParseOfEncode`). A request that is refused for its length is one that does not fit, since one that does is short
enough: here `WireAssumption` asks that the three limits leave room for the rest in a frame, as 32768, 256 and 4096 do
in 65536. `StandsAlone` holds of any bytes, and rests only on what `Parse` reads of them
(`SameParse`, `NoParse`). A report of more than nothing is never cut to nothing, because its first character is
at most four bytes long and a frame holds more (`TruncateOfText`).

### Formats

`FormatsProofs` proves, for any two formats, modules and tables:

| Theorem | States |
|---|---|
| `ExpandsAsMeant` | `FormatsSpec => []ExpandsToTheSame` |
| `ReportIsOfThePrompt` | `FormatsSpec => []ReportsWhatIsShown` |
| `KeepsWhatStands` | `FormatsSpec => []KeepsAllButTheLive` |

The invariant (`FormatsAreRead`) is that starship can read both formats: after a `$` there is a name. The rest is
about one question, what names a text has in which a piece has been replaced.

- Names come apart where texts do: in a text made of one that can be read and one that begins with a mark
  or is empty, the names are those of the two (`NamesJoined`), and as many (`StartsJoined`). A name without
  braces goes on as far as it can, so that the condition on the second is needed.
- The text `$all` or `${all}` stands for the variable `all` wherever it stands, if no word runs on from it
  (`StandsForItself`). So `contains` and `replace` find names.
- What is put there begins and ends as the text around it requires (`Fits`, `ReplacementIs`), and is no new `$all`.
- `Replace` copies what is before the next `$all`, puts the new text, and goes on with the rest
  (`CopiesToTheNext`, `HeadOfRest`). By these, what it makes of the rest of a text from any place on has the names
  of that rest, with those of the new text for `all` (`ReplaceBecomes`).

`CoreMeansAll` applies this twice, as `expand_all_core` does, and gives what starship means by `$all`. That tables are no modules of
the order (`FormatsAssumption`) makes it indifferent to `Implicit` whether a module has been named yet.
The recursive functions are dealt with as in the matcher, by the last place at which a claim fails (`Backwards`).

### What is only model-checked

- Liveness, which is beyond TLAPS: `SolidChangeNoticed`, `EveryRequestAnswered`, `PromptReturns`.
- That without the hypotheses above the properties fail: section 4, and the runs `config_reload_race`,
  `unwatched_pins`, `removed_repo` and `early_client`. So are the failures of `head_alone` and `cures_fail`.

## 7. What is not modelled

- A `WaitForMultipleObjects` that fails (the loop sleeps and tries again), handles that
  cannot be created (the process ends).
- The walk of `find_git_dir` up the ancestors of a directory, and a `.git` file that
  cannot be read: `RepoOf` stands for what it finds.
- Two saves of a file within the resolution of its time stamp (`src/cache/mod.rs:7`): each state of a
  file has a stamp of its own here.
- That a shell whose idle session made room for others finds its pipe ended is in
  `Shell` (`HangsUp`) and in `PipeServer` (`Evict`), but the two are not composed.
- The text of reports and durations, escapes and styles, power throttling, the bindings of
  `src/ffi.rs`, debug statistics: nothing depends on them.
