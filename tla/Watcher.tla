------------------------------ MODULE Watcher ------------------------------
(***************************************************************************)
(* The directory watcher of src/src/watch.rs: WatcherState, its entries,   *)
(* and the two things it talks to, the file system and the kernel's        *)
(* ReadDirectoryChangesW.                                                  *)
(*                                                                         *)
(* The daemon asks for ensure(repo), flush() and version(repo) while it    *)
(* serves a request, and for process_signaled() each time its event loop   *)
(* wakes.  All four run on one thread, so each is one action; the disk and *)
(* the kernel change between any two of them.                              *)
(***************************************************************************)
EXTENDS Integers, Sequences, FiniteSets

CONSTANTS
    Repos,      \* the directories that are ever watched (git_dir.parent())
    Capacity,   \* MAX_WATCHED_REPOS
    WorkFiles,  \* the ordinary files of a repository
    Tracked,    \* those of them that are in git's index
    RuleSets,   \* the possible contents of .gitignore: the paths it matches
    Faults,     \* what the kernel may do wrong, see FaultKinds
    MaxEpoch,   \* bound of the state space on the version counter
    MaxTouch    \* bound of the state space on the touch counter

FaultKinds == {"open",      \* CreateFileW or CreateEventW fails
               "arm",       \* ReadDirectoryChangesW refuses a request
               "race",      \* .gitignore is edited while ensure() is running
               "overflow",  \* the change buffer overflows: 0 bytes returned
               "error"}     \* a pending request completes with an error

\* "meta" stands for .git/HEAD, .git/index and the refs is_git_internal lets
\* through, "internal" for every other path below .git.
NamedPaths == {"meta", "internal", ".gitignore"}
Paths      == WorkFiles \cup NamedPaths
Matchable  == WorkFiles \cup {"meta"}
Lost       == "lost records"            \* the kernel's mark of an overflow

ASSUME CapacityAssumption == Capacity \in Nat \ {0}
ASSUME FilesAssumption    == /\ Tracked \subseteq WorkFiles
                             /\ WorkFiles \cap (NamedPaths \cup {Lost}) = {}
                             /\ RuleSets \subseteq SUBSET Matchable
ASSUME BoundsAssumption   == /\ Faults \subseteq FaultKinds
                             /\ MaxEpoch \in Nat /\ MaxTouch \in Nat

VARIABLES
    entries,  \* WatcherState.entries; the fields io, batch and queue of an
              \* entry are the kernel's side of its directory handle
    epoch,    \* WatcherState.epoch
    touch,    \* WatcherState.touch
    disk,     \* what is on disk in each repository
    base,     \* history: disk[r] when r's current version was assigned
    altered   \* history: the repositories that have changed since, in a way
              \* .gitignore did not match, or whose last change is unread

vars == <<entries, epoch, touch, disk, base, altered>>

\* io is "none" with no request at the kernel, "waiting" while one is pending,
\* and otherwise how it completed: with records, with 0 bytes, or in failure.
Completions == {"records", "zero", "failed"}

Entry == [repo : Repos, ignore : SUBSET Matchable, pending : BOOLEAN,
          armed : BOOLEAN, last_touch : Nat, version : Nat,
          io : {"none", "waiting"} \cup Completions,
          batch : SUBSET Paths, queue : SUBSET (Paths \cup {Lost})]

\* The content of a path is one bit: what matters is that a write changes it.
Disk == [rules : SUBSET Matchable, content : [Matchable -> {0, 1}]]

----------------------------------------------------------------------------
(* What the prompt shows of a repository.                                  *)

\* git status reports the .git state, tracked files, and untracked files that
\* .gitignore does not match.
Shown(d) == {"meta"} \cup Tracked \cup (WorkFiles \ d.rules)
View(d)  == [rules |-> d.rules, content |-> [p \in Shown(d) |-> d.content[p]]]

\* The part of it that no .gitignore content could ever hide.
SolidPaths   == Matchable \ UNION RuleSets
SolidView(d) == [rules |-> d.rules, content |-> [p \in SolidPaths |-> d.content[p]]]

----------------------------------------------------------------------------
(* Reading the state.                                                      *)

Watched(r)  == \E i \in DOMAIN entries : entries[i].repo = r
Signaled(e) == e.io \in Completions

EntryOf(r)   == entries[CHOOSE i \in DOMAIN entries : entries[i].repo = r]
LastTouch(r) == EntryOf(r).last_touch
Unread(r)    == Watched(r) /\ Signaled(EntryOf(r))
Version(r)   == IF Watched(r) THEN EntryOf(r).version ELSE 0

----------------------------------------------------------------------------
(* The kernel.                                                             *)

\* Mutant: `armed` is not cleared when the kernel refuses the request.
StartWatchArmed(e, ok) ==
    LET empty == [e EXCEPT !.batch = {}, !.queue = {}, !.armed = TRUE] IN
    IF ~ok                 THEN [empty EXCEPT !.io = "none"]
    ELSE IF e.queue = {}   THEN [empty EXCEPT !.io = "waiting"]
    ELSE IF Lost \in e.queue THEN [empty EXCEPT !.io = "zero"]
    ELSE [empty EXCEPT !.io = "records", !.batch = e.queue]

\* Mutant: a buffer that overflowed is read as if it held records.
StartWatchOverflown(e, ok) ==
    LET empty == [e EXCEPT !.batch = {}, !.queue = {}, !.armed = ok] IN
    IF ~ok               THEN [empty EXCEPT !.io = "none"]
    ELSE IF e.queue = {} THEN [empty EXCEPT !.io = "waiting"]
    ELSE [empty EXCEPT !.io = "records", !.batch = e.queue]

\* ResetEvent, then ReadDirectoryChangesW: records that piled up since the
\* last request complete the new one at once.
StartWatch(e, ok) ==
    LET empty == [e EXCEPT !.batch = {}, !.queue = {}, !.armed = ok] IN
    IF ~ok                 THEN [empty EXCEPT !.io = "none"]
    ELSE IF e.queue = {}   THEN [empty EXCEPT !.io = "waiting"]
    ELSE IF Lost \in e.queue THEN [empty EXCEPT !.io = "zero"]
    ELSE [empty EXCEPT !.io = "records", !.batch = e.queue]

\* What a change of path p does to a watched directory: it completes the
\* pending request, or is kept for the next one as record q, or is told to
\* nobody.
Notified(e, p, q) ==
    CASE e.io = "waiting" -> [e EXCEPT !.io = "records", !.batch = {p}]
      [] Signaled(e)      -> [e EXCEPT !.queue = @ \cup {q}]
      [] e.io = "none"    -> e

Notify(r, p) ==
    \E q \in {p} \cup (IF "overflow" \in Faults THEN {Lost} ELSE {}) :
        entries' = [i \in DOMAIN entries |->
                      IF entries[i].repo = r THEN Notified(entries[i], p, q)
                                             ELSE entries[i]]

----------------------------------------------------------------------------
(* The file system: commits, edits, builds, made by other programs at any  *)
(* time.                                                                   *)

Write(r, p) ==
    /\ disk' = IF p \in Matchable
               THEN [disk EXCEPT ![r].content[p] = 1 - @]
               ELSE disk
    /\ Notify(r, p)
    /\ UNCHANGED <<epoch, touch>>

EditGitignore(r, rules) ==
    /\ rules # disk[r].rules
    /\ disk' = [disk EXCEPT ![r].rules = rules]
    /\ Notify(r, ".gitignore")
    /\ UNCHANGED <<epoch, touch>>

\* The pending request of a directory fails: it was deleted, or is on a
\* drive that went away.
RequestFails(r) ==
    /\ "error" \in Faults
    /\ \E i \in DOMAIN entries :
          /\ entries[i].repo = r /\ entries[i].io = "waiting"
          /\ entries' = [entries EXCEPT ![i].io = "failed"]
    /\ UNCHANGED <<epoch, touch, disk>>

----------------------------------------------------------------------------
(* WatcherState.                                                           *)

\* Mutant: the entry that has been watched longest goes, used or not.
EvictionVictimFirst(es) == CHOOSE v \in DOMAIN es : v = 1

\* evict_lru: the first entry with the least last_touch goes, and the last
\* entry takes its place (Vec::swap_remove).
EvictionVictim(es) ==
    CHOOSE v \in DOMAIN es : \A i \in DOMAIN es :
        \/ es[v].last_touch < es[i].last_touch
        \/ es[v].last_touch = es[i].last_touch /\ v <= i

SwapRemove(es, v) == SubSeq([es EXCEPT ![v] = es[Len(es)]], 1, Len(es) - 1)

\* Mutant: room is made one entry too late.
EvictLruLate(es) == IF Len(es) > Capacity THEN SwapRemove(es, EvictionVictim(es))
                                          ELSE es

EvictLru(es) == IF Len(es) >= Capacity THEN SwapRemove(es, EvictionVictim(es))
                                       ELSE es

\* How a start_watch in the code may turn out.
ArmResults == IF "arm" \in Faults THEN BOOLEAN ELSE {TRUE}

\* ensure() of a repository that has an entry.
EnsureWatched(r) ==
    /\ touch < MaxTouch
    /\ \E i \in DOMAIN entries, ok \in ArmResults :
          LET e == [entries[i] EXCEPT !.last_touch = touch] IN
          /\ entries[i].repo = r
          /\ entries' = [entries EXCEPT ![i] =
                IF e.armed THEN e
                           ELSE [StartWatch(e, ok) EXCEPT !.pending = TRUE]]
    /\ touch' = touch + 1
    /\ UNCHANGED <<epoch, disk>>

\* ensure() of a repository that has none, and whose directory opens.  The
\* rules are read before the first request is at the kernel: the rules `now`
\* that an editor saves in between are told to nobody.
EnsureNew(r) ==
    /\ touch < MaxTouch /\ epoch < MaxEpoch
    /\ ~Watched(r)
    /\ \E now \in (IF "race" \in Faults THEN RuleSets ELSE {disk[r].rules}),
          ok \in ArmResults :
          LET e == [repo |-> r, ignore |-> disk[r].rules, pending |-> FALSE,
                    armed |-> FALSE, last_touch |-> touch, version |-> epoch,
                    io |-> "none", batch |-> {}, queue |-> {}]
          IN  /\ entries' = Append(EvictLru(entries),
                                   [StartWatch(e, ok) EXCEPT !.pending = ~ok])
              /\ disk' = [disk EXCEPT ![r].rules = now]
    /\ epoch' = epoch + 1
    /\ touch' = touch + 1

\* ensure() when the directory cannot be opened: by then an entry may be gone.
EnsureFails(r) ==
    /\ "open" \in Faults
    /\ ~Watched(r)
    /\ entries' = EvictLru(entries)
    /\ UNCHANGED <<epoch, touch, disk>>

Ensure(r) == EnsureWatched(r) \/ EnsureNew(r) \/ EnsureFails(r)

\* flush(): every pending entry takes the next version, in the order of the
\* vector.
Pending(es)   == {i \in DOMAIN es : es[i].pending}
Before(es, i) == {j \in Pending(es) : j < i}

\* Mutant: every entry that is pending takes the same version.
FlushTogether ==
    /\ epoch + Cardinality(Pending(entries)) <= MaxEpoch
    /\ entries' = [i \in DOMAIN entries |->
          IF entries[i].pending
          THEN [entries[i] EXCEPT !.pending = FALSE, !.version = epoch]
          ELSE entries[i]]
    /\ epoch' = epoch + Cardinality(Pending(entries))
    /\ UNCHANGED <<touch, disk>>

\* Mutant: an entry counts its own changes.
FlushCounts ==
    /\ epoch + Cardinality(Pending(entries)) <= MaxEpoch
    /\ entries' = [i \in DOMAIN entries |->
          IF entries[i].pending
          THEN [entries[i] EXCEPT !.pending = FALSE, !.version = @ + 1]
          ELSE entries[i]]
    /\ epoch' = epoch + Cardinality(Pending(entries))
    /\ UNCHANGED <<touch, disk>>

Flush ==
    /\ epoch + Cardinality(Pending(entries)) <= MaxEpoch
    /\ entries' = [i \in DOMAIN entries |->
          IF entries[i].pending
          THEN [entries[i] EXCEPT !.pending = FALSE,
                                  !.version = epoch + Cardinality(Before(entries, i))]
          ELSE entries[i]]
    /\ epoch' = epoch + Cardinality(Pending(entries))
    /\ UNCHANGED <<touch, disk>>

\* filter_visible: is_git_internal paths never count, and of the others those
\* that the rules match do not either.
FilterVisible(ignore, batch) == \E p \in batch : p # "internal" /\ p \notin ignore

\* Mutant: the rules are not read again.
HandleEventOldRules(e, rules, ok) ==
    LET reload  == e.io = "records" /\ ".gitignore" \in e.batch
        changed == e.io = "records" => reload \/ FilterVisible(e.ignore, e.batch)
    IN  [StartWatch(e, ok) EXCEPT !.pending = @ \/ changed \/ ~ok]

\* Mutant: a completion without records is taken for no change.
HandleEventEmpty(e, rules, ok) ==
    LET reload  == e.io = "records" /\ ".gitignore" \in e.batch
        ignore  == IF reload THEN rules ELSE e.ignore
        changed == e.io = "records" /\ (reload \/ FilterVisible(ignore, e.batch))
    IN  [StartWatch(e, ok) EXCEPT !.ignore = ignore,
                                  !.pending = @ \/ changed \/ ~ok]

\* handle_event: a batch with .gitignore in it is filtered by the new rules;
\* a completion without records counts as a change.
HandleEvent(e, rules, ok) ==
    LET reload  == e.io = "records" /\ ".gitignore" \in e.batch
        ignore  == IF reload THEN rules ELSE e.ignore
        changed == e.io = "records" => reload \/ FilterVisible(ignore, e.batch)
    IN  [StartWatch(e, ok) EXCEPT !.ignore = ignore,
                                  !.pending = @ \/ changed \/ ~ok]

\* process_signaled: one sweep over the entries whose event is set.
ProcessSignaled ==
    \E refused \in SUBSET (IF "arm" \in Faults THEN DOMAIN entries ELSE {}) :
        /\ \E i \in DOMAIN entries : Signaled(entries[i])
        /\ entries' = [i \in DOMAIN entries |->
              IF Signaled(entries[i])
              THEN HandleEvent(entries[i], disk[entries[i].repo].rules, i \notin refused)
              ELSE entries[i]]
        /\ UNCHANGED <<epoch, touch, disk>>

----------------------------------------------------------------------------

\* A change on disk that the current rules do not match.
Noticeable(r) == \/ disk'[r].rules # disk[r].rules
                 \/ \E p \in Matchable \ disk[r].rules :
                       disk'[r].content[p] # disk[r].content[p]

\* The history variables follow the versions.
History ==
    /\ base' = [r \in Repos |-> IF Version(r)' # Version(r) THEN disk'[r] ELSE base[r]]
    /\ altered' = {r \in Repos : /\ Version(r)' = Version(r) \/ Unread(r)'
                                 /\ r \in altered \/ Noticeable(r)}

Init == /\ entries = <<>> /\ epoch = 1 /\ touch = 0
        /\ disk \in [Repos -> [rules : RuleSets, content : {[p \in Matchable |-> 0]}]]
        /\ base = disk /\ altered = {}

Next == /\ \/ \E r \in Repos : Ensure(r)
           \/ Flush
           \/ ProcessSignaled
           \/ \E r \in Repos, p \in Paths \ {".gitignore"} : Write(r, p)
           \/ \E r \in Repos, rules \in RuleSets : EditGitignore(r, rules)
           \/ \E r \in Repos : RequestFails(r)
        /\ History

\* Server::run calls process_signaled each time its wait returns, and a set
\* event makes it return.  A caller of ensure and flush need never come.
Spec == Init /\ [][Next]_vars /\ WF_vars(ProcessSignaled /\ History)

----------------------------------------------------------------------------
(* Properties.                                                             *)

TypeOK == /\ entries \in Seq(Entry) /\ epoch \in Nat /\ touch \in Nat
          /\ disk \in [Repos -> Disk] /\ base \in [Repos -> Disk]
          /\ altered \in SUBSET Repos

\* WaitForMultipleObjects takes at most 64 handles: there is never more than
\* one entry per repository, nor more than MAX_WATCHED_REPOS of them.
Bounded == /\ Len(entries) <= Capacity
           /\ \A i, j \in DOMAIN entries :
                 entries[i].repo = entries[j].repo => i = j

\* A version names one state of one repository: no two entries share one, none
\* is the 0 that stands for "not watched", and none is still to be handed out.
DistinctVersions ==
    \A i \in DOMAIN entries :
        /\ entries[i].version \in 1 .. epoch - 1
        /\ \A j \in DOMAIN entries \ {i} : entries[i].version # entries[j].version

\* `armed` is the code's only record that a request is at the kernel or has
\* completed: were it wrong, change_event would never be set again.
ArmedMeansOutstanding ==
    \A i \in DOMAIN entries : entries[i].armed <=> entries[i].io # "none"

\* An entry that is due a new version, or has a completion yet to be read.
Unsettled(e) == e.pending \/ ~e.armed \/ Signaled(e)

\* No change that every .gitignore lets through is ever forgotten: a repository
\* whose entry is settled is as it was when its version was assigned.  Records
\* that arrive between two requests, an overflow, a failed request and a
\* refused one are all ways to forget.
NoSolidChangeMissed ==
    \A i \in DOMAIN entries : LET e == entries[i] IN
        SolidView(disk[e.repo]) # SolidView(base[e.repo]) => Unsettled(e)

\* Builds and the daemon's own bust directories are free: without faults, a
\* new version is due only to a repository that changed, in a way .gitignore
\* did not match, since it was given its last one, or whose change before
\* that was still to be read.
NoSpuriousBump ==
    \A i \in DOMAIN entries : entries[i].pending => entries[i].repo \in altered

\* The rules an entry filters by are the ones on disk, or it has yet to handle
\* a completion, or to be armed again: "file ignored by the current .gitignore
\* must not bump" (src/src/watch.rs:1082).
FilterCurrent ==
    \A i \in DOMAIN entries : LET e == entries[i] IN
        e.ignore # disk[e.repo].rules => Signaled(e) \/ ~e.armed

\* A repository that is asked for survives the next Capacity - 1 others:
\* eviction takes an entry that was not among the last Capacity - 1 asked for.
EvictsOldest ==
    [][\A r, s \in Repos :
          Watched(r) /\ ~Watched(r)' /\ Watched(s) /\ s # r
             => LastTouch(r) < LastTouch(s)]_vars

\* No version was ever given out before, to this or to another repository.
Versions == INSTANCE VersionSource
                WITH version <- [r \in Repos |-> Version(r)], next <- epoch
VersionsAreFresh == Versions!Spec

\* Every change that no rules could hide is acted on in the end, however many
\* more changes come: the entry is due a new version, or is gone.
SolidChangeNoticed ==
    \A r \in Repos :
        (Watched(r) /\ SolidView(disk[r]) # SolidView(base[r]))
        ~> \/ ~Watched(r)
           \/ SolidView(disk[r]) = SolidView(base[r])
           \/ \E i \in DOMAIN entries : /\ entries[i].repo = r
                                        /\ entries[i].pending \/ ~entries[i].armed

============================================================================
