---------------------------- MODULE DaemonProofs ----------------------------
(***************************************************************************)
(* Proofs about Daemon, for any shells, directories, configuration files,  *)
(* repositories and bounds.                                                *)
(***************************************************************************)
EXTENDS Daemon, WatcherProofs

----------------------------------------------------------------------------
(* The two caches.                                                         *)

\* The places after place v, and those before it.
LEMMA PlacesAround ==
    ASSUME NEW n \in Nat, NEW v \in 1 .. n
    PROVE  /\ n - (v + 1) + 1 = n - v
           /\ (IF v + 1 <= n THEN n - (v + 1) + 1 ELSE 0) = n - v
           /\ \A i \in 1 .. n - v : (v + 1) + i - 1 = v + i
           /\ \A i \in 1 .. n - 1 : i <= v - 1 \/ i > v - 1
OBVIOUS

\* What is dropped leaves the rest.
LEMMA DroppedKeeps ==
    ASSUME NEW S, NEW s \in Seq(S), NEW places \in SUBSET DOMAIN s
    PROVE  /\ Dropped(s, places) \in Seq(S)
           /\ Len(Dropped(s, places)) = IF places = {} THEN Len(s) ELSE Len(s) - 1
           /\ \A i \in DOMAIN Dropped(s, places) :
                 \E j \in DOMAIN s : Dropped(s, places)[i] = s[j]
<1>1. CASE places = {}
      BY <1>1 DEF Dropped
<1>2. CASE places # {}
  <2> DEFINE v == CHOOSE i \in places : TRUE
             a == SubSeq(s, 1, v - 1)
             b == SubSeq(s, v + 1, Len(s))
  <2>1. v \in 1 .. Len(s) /\ Len(s) \in Nat /\ DOMAIN s = 1 .. Len(s)
        BY <1>2, LenProperties
  <2>2. Dropped(s, places) = a \o b
        BY <1>2 DEF Dropped, Seqs!RemoveAt
  <2> HIDE DEF v
  <2>3. \A i \in 1 .. Len(s) : s[i] \in S
        BY ElementOfSeq
  <2>4. /\ a \in Seq(S) /\ Len(a) = v - 1
        /\ \A i \in 1 .. v - 1 : a[i] = s[i]
    <3>1. 1 \in Int /\ v - 1 \in Int /\ \A i \in 1 .. v - 1 : s[i] \in S
          BY <2>1, <2>3
    <3>2. /\ a \in Seq(S) /\ Len(a) = IF 1 <= v - 1 THEN (v - 1) - 1 + 1 ELSE 0
          /\ \A i \in 1 .. (v - 1) - 1 + 1 : a[i] = s[1 + i - 1]
          BY <3>1, SubSeqProperties
    <3> QED BY <2>1, <3>2
  <2>5. /\ b \in Seq(S) /\ Len(b) = Len(s) - v
        /\ \A i \in 1 .. Len(s) - v : b[i] = s[v + i]
    <3>1. v + 1 \in Int /\ Len(s) \in Int /\ \A i \in v + 1 .. Len(s) : s[i] \in S
          BY <2>1, <2>3
    <3>2. /\ b \in Seq(S) /\ Len(b) = IF v + 1 <= Len(s) THEN Len(s) - (v + 1) + 1 ELSE 0
          /\ \A i \in 1 .. Len(s) - (v + 1) + 1 : b[i] = s[(v + 1) + i - 1]
          BY <3>1, SubSeqProperties
    <3>3. /\ Len(s) - (v + 1) + 1 = Len(s) - v
          /\ (IF v + 1 <= Len(s) THEN Len(s) - (v + 1) + 1 ELSE 0) = Len(s) - v
          /\ \A i \in 1 .. Len(s) - v : (v + 1) + i - 1 = v + i
          BY <2>1, PlacesAround
    <3> HIDE DEF b
    <3> QED BY <3>2, <3>3
  <2> HIDE DEF a, b
  <2>6. /\ a \o b \in Seq(S) /\ Len(a \o b) = Len(s) - 1
        /\ DOMAIN (a \o b) = 1 .. Len(s) - 1
        /\ \A i \in 1 .. Len(s) - 1 : (a \o b)[i] = IF i <= v - 1 THEN s[i] ELSE s[i + 1]
    <3>1. /\ a \o b \in Seq(S) /\ Len(a \o b) = Len(a) + Len(b)
          /\ \A i \in 1 .. Len(a) + Len(b) :
                (a \o b)[i] = IF i <= Len(a) THEN a[i] ELSE b[i - Len(a)]
          BY <2>4, <2>5, ConcatProperties
    <3>2. Len(a) + Len(b) = Len(s) - 1
          BY <2>1, <2>4, <2>5
    <3>3. DOMAIN (a \o b) = 1 .. Len(s) - 1
          BY <3>1, <3>2, LenProperties
    <3>4. ASSUME NEW i \in 1 .. Len(s) - 1
          PROVE  (a \o b)[i] = IF i <= v - 1 THEN s[i] ELSE s[i + 1]
      <4>0. (a \o b)[i] = IF i <= v - 1 THEN a[i] ELSE b[i - Len(a)]
            BY <2>4, <3>1, <3>2
      <4>1. CASE i <= v - 1
        <5>1. i \in 1 .. v - 1
              BY <4>1
        <5> QED BY <2>4, <4>0, <4>1, <5>1
      <4>2. CASE i > v - 1
        <5>1. i - Len(a) \in 1 .. Len(s) - v /\ v + (i - Len(a)) = i + 1
              BY <2>1, <2>4, <4>2
        <5>2. (a \o b)[i] = b[i - Len(a)] /\ ~(i <= v - 1)
              BY <2>1, <4>0, <4>2
        <5>3. b[i - Len(a)] = s[i + 1]
              BY <2>5, <5>1
        <5> QED BY <5>2, <5>3
      <4>3. i <= v - 1 \/ i > v - 1
            BY <2>1, PlacesAround
      <4> QED BY <4>1, <4>2, <4>3
    <3> QED BY <3>1, <3>2, <3>3, <3>4
  <2>7. \A i \in 1 .. Len(s) - 1 : \E j \in 1 .. Len(s) : (a \o b)[i] = s[j]
    <3> TAKE i \in 1 .. Len(s) - 1
    <3>1. i \in 1 .. Len(s) /\ i + 1 \in 1 .. Len(s)
          BY <2>1
    <3> QED BY <2>6, <3>1
  <2> QED BY <1>2, <2>1, <2>2, <2>6, <2>7
<1> QED BY <1>1, <1>2

\* What a cache is when c has been used, and when it is trimmed then.
Front(c, s)             == <<c>> \o s
Used(c, s, places)      == Front(c, Dropped(s, places))
Kept(c, s, places, room) == Trimmed(Used(c, s, places), room)

\* What comes first leaves the rest behind it.
LEMMA FrontKeeps ==
    ASSUME NEW S, NEW s \in Seq(S), NEW c \in S
    PROVE  /\ Front(c, s) \in Seq(S) /\ Len(Front(c, s)) = Len(s) + 1
           /\ \A i \in DOMAIN Front(c, s) :
                 Front(c, s)[i] = c \/ \E j \in DOMAIN s : Front(c, s)[i] = s[j]
<1> DEFINE a == <<c>>
<1>1. a \in Seq(S) /\ Len(a) = 1 /\ a[1] = c
      OBVIOUS
<1> HIDE DEF a
<1>2. Len(s) \in Nat /\ DOMAIN s = 1 .. Len(s)
      BY LenProperties
<1>3. /\ a \o s \in Seq(S) /\ Len(a \o s) = 1 + Len(s)
      /\ \A i \in 1 .. 1 + Len(s) : (a \o s)[i] = IF i <= 1 THEN a[i] ELSE s[i - 1]
  <2>1. /\ a \o s \in Seq(S) /\ Len(a \o s) = Len(a) + Len(s)
        /\ \A i \in 1 .. Len(a) + Len(s) :
              (a \o s)[i] = IF i <= Len(a) THEN a[i] ELSE s[i - Len(a)]
        BY <1>1, ConcatProperties
  <2> QED BY <1>1, <2>1
<1>4. DOMAIN (a \o s) = 1 .. 1 + Len(s)
      BY <1>3, LenProperties
<1>5. ASSUME NEW i \in DOMAIN (a \o s)
      PROVE  (a \o s)[i] = c \/ \E j \in DOMAIN s : (a \o s)[i] = s[j]
  <2>1. CASE i = 1
        BY <1>1, <1>2, <1>3, <2>1
  <2>2. CASE i # 1
    <3>1. i - 1 \in 1 .. Len(s) /\ i \in 1 .. 1 + Len(s) /\ ~(i <= 1)
          BY <1>2, <1>4, <2>2
    <3>2. (a \o s)[i] = s[i - 1]
          BY <1>3, <3>1
    <3> QED BY <1>2, <3>1, <3>2
  <2> QED BY <2>1, <2>2
<1>6. /\ a \o s \in Seq(S) /\ Len(a \o s) = Len(s) + 1
      /\ \A i \in DOMAIN (a \o s) : (a \o s)[i] = c \/ \E j \in DOMAIN s : (a \o s)[i] = s[j]
      BY <1>2, <1>3, <1>5
<1>7. Front(c, s) = a \o s
      BY DEF Front, a
<1> QED BY <1>6, <1>7

\* What is trimmed fits.
LEMMA TrimmedKeeps ==
    ASSUME NEW S, NEW s \in Seq(S), NEW room \in Nat
    PROVE  /\ Trimmed(s, room) \in Seq(S) /\ Len(Trimmed(s, room)) <= room
           /\ \A i \in DOMAIN Trimmed(s, room) :
                 \E j \in DOMAIN s : Trimmed(s, room)[i] = s[j]
<1> DEFINE n == IF Len(s) > room THEN room ELSE Len(s)
           t == SubSeq(s, 1, n)
<1>1. Len(s) \in Nat /\ DOMAIN s = 1 .. Len(s)
      BY LenProperties
<1>2. n \in Nat /\ n <= room /\ n <= Len(s)
      BY <1>1
<1> HIDE DEF n
<1>3. n \in Int /\ 1 \in Int /\ \A i \in 1 .. n : s[i] \in S
      BY <1>1, <1>2, ElementOfSeq
<1>4. /\ t \in Seq(S) /\ Len(t) = (IF 1 <= n THEN n - 1 + 1 ELSE 0)
      /\ \A i \in 1 .. n - 1 + 1 : t[i] = s[1 + i - 1]
      BY <1>3, SubSeqProperties
<1> HIDE DEF t
<1>5. Len(t) = n /\ DOMAIN t = 1 .. n
      BY <1>2, <1>4, LenProperties
<1>6. \A i \in 1 .. n : i \in DOMAIN s /\ t[i] = s[i]
      BY <1>1, <1>2, <1>4
<1>7. Trimmed(s, room) = t
      BY DEF Trimmed, t, n
<1> QED BY <1>2, <1>4, <1>5, <1>6, <1>7

\* A cache that is used holds what it held and what it is used for.
LEMMA UsedKeeps ==
    ASSUME NEW S, NEW s \in Seq(S), NEW places \in SUBSET DOMAIN s, NEW c \in S
    PROVE  /\ Used(c, s, places) \in Seq(S)
           /\ places # {} => Len(Used(c, s, places)) = Len(s)
           /\ \A i \in DOMAIN Used(c, s, places) :
                 \/ Used(c, s, places)[i] = c
                 \/ \E j \in DOMAIN s : Used(c, s, places)[i] = s[j]
<1> DEFINE d == Dropped(s, places)
<1>1. /\ d \in Seq(S) /\ Len(d) = IF places = {} THEN Len(s) ELSE Len(s) - 1
      /\ \A i \in DOMAIN d : \E j \in DOMAIN s : d[i] = s[j]
      BY DroppedKeeps
<1>2. Used(c, s, places) = Front(c, d)
      BY DEF Used
<1> HIDE DEF d
<1>3. /\ Front(c, d) \in Seq(S) /\ Len(Front(c, d)) = Len(d) + 1
      /\ \A i \in DOMAIN Front(c, d) :
            Front(c, d)[i] = c \/ \E j \in DOMAIN d : Front(c, d)[i] = d[j]
  <2>1. d \in Seq(S)
        BY <1>1
  <2> QED BY ONLY <2>1, c \in S, FrontKeeps
<1>4. places # {} => Len(Front(c, d)) = Len(s)
      BY <1>1, <1>3, LenProperties
<1> QED BY <1>1, <1>2, <1>3, <1>4

\* So does one that is trimmed then.
LEMMA KeptKeeps ==
    ASSUME NEW S, NEW s \in Seq(S), NEW places \in SUBSET DOMAIN s, NEW c \in S,
           NEW room \in Nat
    PROVE  /\ Kept(c, s, places, room) \in Seq(S) /\ Len(Kept(c, s, places, room)) <= room
           /\ \A i \in DOMAIN Kept(c, s, places, room) :
                 \/ Kept(c, s, places, room)[i] = c
                 \/ \E j \in DOMAIN s : Kept(c, s, places, room)[i] = s[j]
<1> DEFINE used == Used(c, s, places)
<1>1. used \in Seq(S) /\ \A i \in DOMAIN used : used[i] = c \/ \E j \in DOMAIN s : used[i] = s[j]
      BY UsedKeeps
<1>2. Kept(c, s, places, room) = Trimmed(used, room)
      BY DEF Kept
<1> HIDE DEF used
<1>3. /\ Trimmed(used, room) \in Seq(S) /\ Len(Trimmed(used, room)) <= room
      /\ \A i \in DOMAIN Trimmed(used, room) :
            \E j \in DOMAIN used : Trimmed(used, room)[i] = used[j]
      BY <1>1, TrimmedKeeps
<1> QED BY <1>1, <1>2, <1>3

----------------------------------------------------------------------------
(* Types.                                                                  *)

\* The phases of a request.  "read" and "stamp" are also those of a start.
Serving == {"sync", "key", "flush", "lookup"} \cup Rendering

WorldOK ==
    /\ file \in [ConfigFiles -> 0 .. MaxEdits] /\ minute \in 0 .. MaxMinute
    /\ env \in [Shells -> ConfigFiles \cup {Unset}]
    /\ sent \in [Shells -> ConfigFiles \cup {Unset}]
    /\ present \in SUBSET Repos /\ linked \in SUBSET Repos /\ head \in [Repos -> {0, 1}]
    /\ litter \in SUBSET Repos

\* There is a request while one is served, and a timings request has prompts
\* left to time until it comes to its report.
PhaseOK ==
    /\ pc \in Serving \cup {"down", "boot", "idle", "read", "stamp"}
    /\ pc \in Serving => req \in Requests
    /\ pc \in {"down", "boot", "idle"} => req = Unset
    /\ req # Unset => req \in Requests
    /\ rounds \in 0 .. 3
    /\ req # Unset \/ pc \in Serving
          => (req.kind = "timings" /\ pc # "report" => rounds > 0)
    /\ made # Unset => pc \in Rendering

ConfigOK ==
    /\ pc # "down" => config_path \in ConfigFiles
    /\ pc \notin {"down", "read"} => cached_config \in Snapshots
    /\ last_cfg_mtime \in 0 .. MaxEdits /\ config_mtime \in 0 .. MaxEdits

\* The prompt of a cache entry is of what its key says, of its exit status, and
\* not older than its minute.
Fitting == {c \in CacheEntries : /\ c.prompt.cwd = c.key.cwd
                                 /\ c.prompt.keymap = c.key.keymap
                                 /\ c.prompt.status = c.status
                                 /\ c.prompt.minute >= c.bucket}

FoundOK   == found \in Seq(FoundEntries) /\ Len(found) <= FoundCapacity
LruOK     == lru \in Seq(Fitting) /\ Len(lru) <= LruCapacity
ContextOK == context # Unset => context \in [repo : Repos, current : BOOLEAN, head : Branches]
ScansOK   == scans \subseteq [dir : [repo : Repos, version : Nat, mtime : 0 .. MaxEdits],
                              seen : Views]
MadeOK    == made # Unset =>
               /\ made \in [segments : Segments, prompt : Prompts, head : Branches]
               /\ made.prompt.cwd = req.cwd /\ made.prompt.keymap = req.keymap
               /\ made.prompt.status = req.status /\ made.prompt.minute >= bucket
BucketOK  == bucket \in 0 .. minute
ReplyOK   == reply # Unset => reply \in [shell : Shells, prompt : Prompts]

Types == /\ IInv /\ WorldOK /\ PhaseOK /\ ConfigOK /\ FoundOK /\ LruOK
         /\ ContextOK /\ ScansOK /\ MadeOK /\ BucketOK /\ ReplyOK

----------------------------------------------------------------------------
(* What a step of the daemon, or of its surroundings, is to the watcher.   *)

\* A bust directory, or one of git's, in a linked work tree.
OnlyNotifies == /\ \E r \in linked : Notify(r, "meta")
                /\ UNCHANGED <<epoch, touch, disk>>

\* A write to a linked work tree, where the watcher is in the wrong place.
WritesUnwatched ==
    /\ \E r \in linked, p \in WorkFiles :
          disk' = [disk EXCEPT ![r] = [disk[r] EXCEPT !.content =
                                         [disk[r].content EXCEPT ![p] = 1 - @]]]
    /\ UNCHANGED <<entries, epoch, touch>>

Restarts == /\ entries' = <<>> /\ epoch' = 1 /\ touch' = 0
            /\ UNCHANGED disk

LeavesAlone == UNCHANGED <<entries, epoch, touch, disk>>

LEMMA MetaIsPath == "meta" \in Paths
BY DEF Paths, NamedPaths

\* A request that is being served is of a repository, or of none.
LEMMA RepoType ==
    ASSUME PhaseOK, pc \in Serving PROVE Repo \in Repos \cup {NoRepo}
BY DEF PhaseOK, Requests, Repo

LEMMA WatcherMoves ==
    ASSUME Types, DaemonNext
    PROVE  /\ History
           /\ \/ Next \/ OnlyNotifies \/ WritesUnwatched \/ LeavesAlone
              \/ Restarts /\ Stop
<1>1. History
      BY DEF DaemonNext
<1> DEFINE Moves == \/ Next \/ OnlyNotifies \/ WritesUnwatched \/ LeavesAlone
                    \/ Restarts /\ Stop
<1>2. /\ "meta" \in Paths /\ "internal" \in Paths \ {".gitignore"}
      /\ "internal" \notin Matchable
      BY FilesAssumption DEF Paths, NamedPaths, Matchable
<1>3. ASSUME BustDirWritten, UNCHANGED <<epoch, touch, disk>>, pc \in Serving PROVE Moves
  <2>1. CASE Repo = NoRepo
        BY <1>3, <2>1 DEF BustDirWritten, LeavesAlone
  <2>2. CASE Repo # NoRepo
    <3>1. Repo \in Repos
          BY <1>3, <2>2, RepoType DEF Types
    <3>2. CASE Repo \in linked
          BY <1>3, <2>2, <3>2 DEF BustDirWritten, OnlyNotifies
    <3>3. CASE Repo \notin linked
      <4>1. Write(Repo, "internal")
            BY <1>2, <1>3, <2>2, <3>3 DEF BustDirWritten, Write
      <4> QED BY <1>1, <1>2, <3>1, <4>1 DEF Next
    <3> QED BY <3>2, <3>3
  <2> QED BY <2>1, <2>2
<1>4. ASSUME Draw \/ Keep PROVE Moves
  <2>1. pc \in Serving /\ UNCHANGED <<epoch, touch, disk>>
        BY <1>4 DEF Draw, Keep, Serving
  <2>2. BustDirWritten \/ entries' = entries
        BY <1>4 DEF Draw, Keep
  <2> QED BY <1>3, <2>1, <2>2 DEF LeavesAlone
<1>5. ASSUME EnsureRepo PROVE Moves
  <2>1. Repo \in Repos \cup {NoRepo}
        BY <1>5, RepoType DEF EnsureRepo, Serving, Types
  <2> QED BY <1>1, <1>5, <2>1 DEF EnsureRepo, Next, LeavesAlone
<1>6. ASSUME FlushRepo \/ Sweep PROVE Moves
      BY <1>1, <1>6 DEF FlushRepo, Sweep, Next
<1>7. ASSUME NEW r \in Repos, NEW p \in Paths \ {".gitignore", "meta"}, WriteFile(r, p)
      PROVE  Moves
  <2>1. CASE r \notin linked
        BY <1>1, <1>7, <2>1 DEF WriteFile, Next
  <2>2. CASE r \in linked /\ p = "internal"
        BY <1>2, <1>7, <2>2 DEF WriteFile, OnlyNotifies
  <2>3. CASE r \in linked /\ p # "internal"
    <3>1. p \in WorkFiles
          BY <2>3 DEF Paths, NamedPaths
    <3> QED BY <1>7, <2>3, <3>1 DEF WriteFile, WritesUnwatched
  <2> QED BY <2>1, <2>2, <2>3
<1>8. ASSUME NEW r \in Repos, GitWrites(r) \/ GitComesAndGoes(r) PROVE Moves
  <2>1. "meta" \in Paths \ {".gitignore"} /\ Write(r, "meta")
        BY <1>2, <1>8 DEF GitWrites, GitComesAndGoes
  <2> QED BY <1>1, <2>1 DEF Next
<1>9. ASSUME DiskChanges PROVE Moves
      BY <1>1, <1>7, <1>8, <1>9 DEF DiskChanges, Next
<1>10. ASSUME Stop PROVE Moves
      BY <1>10 DEF Stop, Blank, Restarts
<1>11. ASSUME \/ \E s \in Shells, kind \in Asks, cwd \in Cwds, k \in Keymaps, st \in Statuses,
                    nc \in CacheFlags : Ask(s, kind, cwd, k, st, nc)
              \/ SwitchConfig \/ StatConfig \/ ReadConfig \/ StampConfig
              \/ RenderUncached \/ Sample \/ RenderCached
              \/ (\E s \in Shells : Start(s)) \/ WarmUp \/ Tick
              \/ \E f \in ConfigFiles, to \in 0 .. MaxEdits : SaveConfig(f, to)
              \/ \E s \in Shells, f \in ConfigFiles \cup {Unset} : SetEnv(s, f)
       PROVE LeavesAlone
      BY <1>11 DEF Ask, SwitchConfig, StatConfig, ReadConfig, StampConfig, RenderUncached,
                   Sample, RenderCached, Start, WarmUp, Tick, SaveConfig, SetEnv, vars, LeavesAlone
<1>12. Moves
      BY <1>4, <1>5, <1>6, <1>8, <1>9, <1>10, <1>11 DEF DaemonNext, Serve
<1> QED BY <1>1, <1>12

\* Writing a path changes a disk into a disk.
LEMMA WrittenDisk ==
    ASSUME RestOK, NEW r \in Repos, NEW p \in Matchable
    PROVE  [disk EXCEPT ![r] = [disk[r] EXCEPT !.content =
                                  [disk[r].content EXCEPT ![p] = 1 - @]]] \in [Repos -> Disk]
<1> DEFINE d == disk[r]
           c == [d.content EXCEPT ![p] = 1 - @]
<1>1. disk \in [Repos -> Disk] /\ d \in Disk
      BY DEF RestOK
<1>2. c \in [Matchable -> {0, 1}]
      BY <1>1 DEF Disk
<1> HIDE DEF c, d
<1>3. [d EXCEPT !.content = c] \in Disk
      BY <1>1, <1>2 DEF Disk
<1> QED BY <1>1, <1>3 DEF c, d

\* The watcher's invariant holds in the daemon, and versions move as they do
\* in the watcher, while the daemon runs.
LEMMA WatcherKept ==
    ASSUME Types, DaemonNext
    PROVE  IInv' /\ (VersionsMove \/ Stop)
<1> USE DEF IInv, Types
<1>1. /\ History
      /\ \/ Next \/ OnlyNotifies \/ WritesUnwatched \/ LeavesAlone
         \/ Restarts /\ Stop
      BY WatcherMoves
<1>2. ASSUME touch' \in Nat, disk' \in [Repos -> Disk] PROVE RestOK'
      BY <1>1, <1>2 DEF RestOK, History
<1>3. CASE Next
  <2>1. IInv' /\ (VersionsMove \/ UNCHANGED vars)
        BY <1>3, InvariantStep
  <2>2. UNCHANGED vars => VersionsMove
        BY DEF vars, VersionsMove, VectorOK
  <2> QED BY <2>1, <2>2
<1>4. CASE OnlyNotifies
  <2>1. VectorOK' /\ VersionsMove
        BY <1>4, MetaIsPath, NotifyStep DEF OnlyNotifies, WorldOK
  <2> QED BY <1>2, <1>4, <2>1 DEF OnlyNotifies, RestOK
<1>5. CASE UNCHANGED <<entries, epoch>> /\ touch' \in Nat /\ disk' \in [Repos -> Disk]
  <2>1. VectorOK' /\ VersionsMove
        BY <1>5 DEF VectorOK, Bounded, DistinctVersions, ArmedMeansOutstanding, VersionsMove
  <2> QED BY <1>2, <1>5, <2>1
<1>6. CASE WritesUnwatched
  <2>1. PICK r \in linked, p \in WorkFiles :
          disk' = [disk EXCEPT ![r] = [disk[r] EXCEPT !.content =
                                         [disk[r].content EXCEPT ![p] = 1 - @]]]
        BY <1>6 DEF WritesUnwatched
  <2>2. r \in Repos /\ p \in Matchable
        BY DEF WorldOK, Matchable
  <2>3. disk' \in [Repos -> Disk]
        BY <2>1, <2>2, WrittenDisk
  <2> QED BY <1>5, <1>6, <2>3 DEF WritesUnwatched, RestOK
<1>7. CASE LeavesAlone
      BY <1>5, <1>7 DEF LeavesAlone, RestOK
<1>8. CASE Restarts /\ Stop
  <2>1. entries' \in Seq(Entry) /\ Len(entries') = 0 /\ DOMAIN entries' = {} /\ epoch' = 1
        BY <1>8 DEF Restarts
  <2>2. Capacity > 0
        BY CapacityAssumption
  <2>3. VectorOK'
        BY <2>1, <2>2, CapacityAssumption
           DEF VectorOK, Bounded, DistinctVersions, ArmedMeansOutstanding
  <2> QED BY <1>2, <1>8, <2>3 DEF Restarts, RestOK
<1> QED BY <1>1, <1>3, <1>4, <1>6, <1>7, <1>8

----------------------------------------------------------------------------
(* Each part of the type invariant.                                        *)

\* What an answer leaves.
LEMMA InformedType ==
    ASSUME WorldOK, PhaseOK, req # Unset
    PROVE  Informed \in [Shells -> ConfigFiles \cup {Unset}]
<1>1. req \in Requests
      BY DEF PhaseOK
<1> QED BY <1>1 DEF WorldOK, Requests, Informed

LEMMA WorldStep ==
    ASSUME Types, DaemonNext PROVE WorldOK'
<1> USE DEF Types
<1>1. ASSUME UNCHANGED <<worldVars, litter>>,
             \/ sent' = sent
             \/ req # Unset /\ sent' = Informed
      PROVE  WorldOK'
      BY <1>1, InformedType DEF WorldOK, worldVars, gitVars
<1>2. ASSUME Draw PROVE WorldOK'
  <2>1. UNCHANGED <<worldVars, sent>> /\ (litter' = litter \/ Littered)
        BY <1>2 DEF Draw
  <2>2. Repo \in Repos \cup {NoRepo}
        BY <1>2, RepoType DEF Draw, Serving
  <2> QED BY <2>1, <2>2 DEF WorldOK, worldVars, gitVars, Littered
<1>3. ASSUME NEW r \in Repos, GitWrites(r) PROVE WorldOK'
  <2>1. head' = head \/ head' = [head EXCEPT ![r] = 1 - head[r]]
        BY <1>3 DEF GitWrites
  <2>2. head' \in [Repos -> {0, 1}]
        BY <2>1 DEF WorldOK
  <2> QED BY <1>3, <2>2 DEF WorldOK, GitWrites
<1>4. ASSUME NEW r \in Repos, GitComesAndGoes(r) PROVE WorldOK'
      BY <1>4 DEF WorldOK, GitComesAndGoes
<1>5. ASSUME DiskChanges PROVE WorldOK'
      BY <1>1, <1>3, <1>5 DEF DiskChanges, WriteFile, daemonVars
<1>6. ASSUME Tick PROVE WorldOK'
      BY <1>6, DaemonAssumption DEF WorldOK, Tick, gitVars
<1>7. ASSUME NEW f \in ConfigFiles, NEW to \in 0 .. MaxEdits, SaveConfig(f, to) PROVE WorldOK'
      BY <1>7 DEF WorldOK, SaveConfig, gitVars
<1>8. ASSUME NEW s \in Shells, NEW f \in ConfigFiles \cup {Unset}, SetEnv(s, f) PROVE WorldOK'
      BY <1>8 DEF WorldOK, SetEnv, gitVars
<1>9. ASSUME RenderCached \/ Keep PROVE WorldOK'
  <2>1. pc \in Serving /\ UNCHANGED <<worldVars, litter>> /\ (sent' = sent \/ sent' = Informed)
        BY <1>9 DEF RenderCached, Keep, Returned, Answer, Serving
  <2>2. req \in Requests
        BY <2>1 DEF PhaseOK
  <2>3. Informed \in [Shells -> ConfigFiles \cup {Unset}]
        BY <2>2 DEF Informed, WorldOK, Requests
  <2> QED BY <2>1, <2>3 DEF WorldOK, worldVars, gitVars
<1>10. ASSUME Stop PROVE WorldOK'
      BY <1>1, <1>10 DEF Stop
<1>11. ASSUME \/ \E s \in Shells, kind \in Asks, cwd \in Cwds, k \in Keymaps, st \in Statuses,
                    nc \in CacheFlags : Ask(s, kind, cwd, k, st, nc)
              \/ SwitchConfig \/ StatConfig \/ ReadConfig \/ StampConfig
              \/ RenderUncached \/ EnsureRepo \/ FlushRepo \/ Sample
              \/ (\E s \in Shells : Start(s)) \/ WarmUp \/ Sweep
       PROVE  WorldOK'
  <2>1. UNCHANGED <<worldVars, litter, sent>>
        BY <1>11 DEF Ask, SwitchConfig, StatConfig, ReadConfig, StampConfig, RenderUncached,
                     EnsureRepo, FlushRepo, Sample, Start, WarmUp, Sweep, daemonVars
  <2> QED BY <1>1, <2>1
<1> QED BY <1>2, <1>4, <1>5, <1>6, <1>7, <1>8, <1>9, <1>10, <1>11 DEF DaemonNext, Serve

\* find_git_dir finds a repository or none, and keeps what it has found.
LEMMA NotedKeeps ==
    ASSUME WorldOK, FoundOK, NEW cwd \in Cwds
    PROVE  /\ Discovered(cwd) \in Repos \cup {NoRepo} /\ Found(cwd) \in Repos \cup {NoRepo}
           /\ Noted(cwd) \in Seq(FoundEntries) /\ Len(Noted(cwd)) <= FoundCapacity
           /\ \A i \in DOMAIN Noted(cwd) :
                 \/ Noted(cwd)[i] = [dir |-> cwd, repo |-> Found(cwd)]
                 \/ \E j \in DOMAIN found : Noted(cwd)[i] = found[j]
<1>1. Discovered(cwd) \in Repos \cup {NoRepo}
      BY DaemonAssumption DEF Discovered
<1>2. Found(cwd) \in Repos \cup {NoRepo}
  <2>1. CASE FoundBefore(cwd) = {}
        BY <1>1, <2>1 DEF Found
  <2>2. CASE FoundBefore(cwd) # {}
    <3> DEFINE i == CHOOSE j \in FoundBefore(cwd) : TRUE
    <3>1. i \in DOMAIN found
          BY <2>2 DEF FoundBefore
    <3>2. Found(cwd) = found[i].repo
          BY <2>2 DEF Found
    <3> HIDE DEF i
    <3>3. found[i] \in FoundEntries
          BY <3>1, ElementOfSeq, LenProperties DEF FoundOK
    <3> QED BY <3>2, <3>3 DEF FoundEntries
  <2> QED BY <2>1, <2>2
<1>3. [dir |-> cwd, repo |-> Found(cwd)] \in FoundEntries
      BY <1>2 DEF FoundEntries
<1>4. FoundBefore(cwd) \in SUBSET DOMAIN found /\ FoundCapacity \in Nat
      BY DaemonAssumption DEF FoundBefore
<1> DEFINE c == [dir |-> cwd, repo |-> Found(cwd)]
<1> HIDE DEF c
<1>5. c \in FoundEntries /\ Noted(cwd) = Kept(c, found, FoundBefore(cwd), FoundCapacity)
      BY <1>3 DEF Noted, Kept, Used, Front, c
<1>6. /\ Noted(cwd) \in Seq(FoundEntries) /\ Len(Noted(cwd)) <= FoundCapacity
      /\ \A i \in DOMAIN Noted(cwd) :
            Noted(cwd)[i] = c \/ \E j \in DOMAIN found : Noted(cwd)[i] = found[j]
  <2>1. found \in Seq(FoundEntries)
        BY DEF FoundOK
  <2> QED BY <1>4, <1>5, <2>1, KeptKeeps
<1> QED BY <1>1, <1>2, <1>6 DEF c

\* The phases of a request follow each other.
LEMMA PhaseStep ==
    ASSUME Types, DaemonNext PROVE PhaseOK'
<1> USE DEF Types
<1>1. ASSUME UNCHANGED <<pc, req, rounds, made>> PROVE PhaseOK'
      BY <1>1 DEF PhaseOK
<1>2. ASSUME NEW s \in Shells, NEW kind \in Asks, NEW cwd \in Cwds, NEW k \in Keymaps,
             NEW st \in Statuses, NEW nc \in CacheFlags, Ask(s, kind, cwd, k, st, nc)
      PROVE  PhaseOK'
  <2>1. Found(cwd) \in Repos \cup {NoRepo}
        BY NotedKeeps
  <2>2. ConfigNamed(s, kind) \in ConfigFiles \cup {Unset} /\ nc \in BOOLEAN
        BY DaemonAssumption DEF ConfigNamed, WorldOK
  <2>3. req' \in Requests /\ req'.kind = kind
        BY <1>2, <2>1, <2>2 DEF Ask, Requests
  <2>4. /\ pc' = "sync" /\ made' = Unset
        /\ rounds' = IF kind = "timings" THEN 3 ELSE 0
        BY <1>2 DEF Ask, PhaseOK, Rendering
  <2> QED BY <2>3, <2>4 DEF PhaseOK, Serving
<1>3. ASSUME SwitchConfig \/ StatConfig \/ RenderUncached \/ FlushRepo \/ EnsureRepo PROVE PhaseOK'
  <2>1. /\ UNCHANGED <<req, rounds, made>> /\ pc \in {"sync", "key", "flush"}
        /\ pc' \in {"read", "key", "uncached", "lookup", "flush"}
        BY <1>3 DEF SwitchConfig, StatConfig, RenderUncached, FlushRepo, EnsureRepo, requestVars
  <2> QED BY <2>1 DEF PhaseOK, Serving, Rendering
<1>4. ASSUME ReadConfig \/ StampConfig PROVE PhaseOK'
  <2>1. /\ UNCHANGED <<req, rounds, made>> /\ pc \in {"read", "stamp"}
        /\ pc' = "stamp" \/ pc' = IF req = Unset THEN "boot" ELSE "key"
        BY <1>4 DEF ReadConfig, StampConfig, requestVars
  <2> QED BY <2>1 DEF PhaseOK, Serving, Rendering
<1>5. ASSUME Sample PROVE PhaseOK'
  <2>1. UNCHANGED <<req, made>> /\ pc = "lookup" /\ pc' = "cold" /\ rounds' = 2
        BY <1>5 DEF Sample
  <2> QED BY <2>1 DEF PhaseOK, Serving, Rendering
<1>6. ASSUME NEW p, Answer(p), made' = Unset PROVE PhaseOK'
      BY <1>6 DEF PhaseOK, Answer, Serving, Rendering
<1>7. ASSUME NEW p, Returned(p), made' = Unset, pc \in Serving \ {"report"} PROVE PhaseOK'
  <2>1. CASE Answer(p)
        BY <1>6, <1>7, <2>1
  <2>2. CASE ~Answer(p)
    <3>1. /\ req.kind = "timings" /\ req' = req /\ rounds' = rounds - 1
          /\ pc' = IF rounds = 1 THEN "report" ELSE "key"
          BY <1>7, <2>2 DEF Returned
    <3>2. req \in Requests /\ rounds \in 1 .. 3
          BY <1>7, <3>1 DEF PhaseOK
    <3>3. rounds' \in 0 .. 3 /\ (rounds # 1 => rounds' > 0)
          BY <3>1, <3>2
    <3> QED BY <1>7, <3>1, <3>2, <3>3 DEF PhaseOK, Serving, Rendering
  <2> QED BY <2>1, <2>2
<1>8. ASSUME RenderCached PROVE PhaseOK'
  <2>1. pc = "lookup" /\ made' = made /\ made = Unset
        BY <1>8 DEF RenderCached, PhaseOK, Rendering
  <2>2. CASE Returned(Lookup(Key).prompt)
        BY <1>7, <2>1, <2>2 DEF Serving
  <2>3. CASE pc' = "render" /\ UNCHANGED <<req, rounds>>
        BY <2>1, <2>3 DEF PhaseOK, Serving, Rendering
  <2> QED BY <1>8, <2>2, <2>3 DEF RenderCached
<1>9. ASSUME Draw PROVE PhaseOK'
      BY <1>9 DEF Draw, PhaseOK, Serving, Rendering
<1>10. ASSUME Keep PROVE PhaseOK'
  <2>1. pc \in Rendering /\ made' = Unset
        BY <1>10 DEF Keep
  <2>2. CASE pc = "render" /\ Returned(made.prompt)
        BY <1>7, <2>1, <2>2 DEF Serving, Rendering
  <2>3. CASE Answer(made.prompt)
        BY <1>6, <2>1, <2>3
  <2>4. CASE /\ pc \in {"cold", "warm"} /\ UNCHANGED <<req, rounds>>
             /\ pc' = IF pc = "cold" THEN "warm" ELSE "key"
        BY <2>1, <2>4 DEF PhaseOK, Serving, Rendering
  <2> QED BY <1>10, <2>2, <2>3, <2>4 DEF Keep
<1>11. ASSUME (\E s \in Shells : Start(s)) \/ WarmUp PROVE PhaseOK'
  <2>1. UNCHANGED <<req, rounds, made>> /\ pc \in {"down", "boot"} /\ pc' \in {"read", "idle"}
        BY <1>11 DEF Start, WarmUp, requestVars
  <2> QED BY <2>1 DEF PhaseOK, Serving, Rendering
<1>12. ASSUME Stop PROVE PhaseOK'
      BY <1>12 DEF Stop, Blank, PhaseOK, Serving, Rendering
<1>13. ASSUME \/ Sweep \/ DiskChanges \/ (\E r \in Repos : GitComesAndGoes(r)) \/ Tick
              \/ \E f \in ConfigFiles, to \in 0 .. MaxEdits : SaveConfig(f, to)
              \/ \E s \in Shells, f \in ConfigFiles \cup {Unset} : SetEnv(s, f)
       PROVE  PhaseOK'
  <2>1. UNCHANGED <<pc, requestVars>>
        BY <1>13 DEF Sweep, DiskChanges, WriteFile, GitWrites, GitComesAndGoes, Tick, SaveConfig,
                     SetEnv, daemonVars
  <2> QED BY <1>1, <2>1 DEF requestVars
<1> QED BY <1>2, <1>3, <1>4, <1>5, <1>8, <1>9, <1>10, <1>11, <1>12, <1>13
        DEF DaemonNext, Serve

LEMMA ConfigStep ==
    ASSUME Types, DaemonNext PROVE ConfigOK'
<1> USE DEF Types
<1>1. ASSUME UNCHANGED <<configVars, config_mtime>>, pc' = pc \/ pc \in Serving \cup {"boot", "idle"},
             pc' = pc \/ pc' \in Serving \cup {"idle", "boot"}
      PROVE  ConfigOK'
      BY <1>1 DEF ConfigOK, configVars, Serving, Rendering
<1>2. ASSUME NEW p, Answer(p) \/ Returned(p), UNCHANGED configVars, pc \in Serving PROVE ConfigOK'
  <2>1. config_mtime' \in {config_mtime, 0} /\ pc' \in {"idle", "report", "key"}
        BY <1>2 DEF Answer, Returned
  <2> QED BY <1>2, <2>1, DaemonAssumption DEF ConfigOK, configVars, Serving, Rendering
<1>3. ASSUME NEW s \in Shells, NEW kind \in Asks, NEW cwd \in Cwds, NEW k \in Keymaps,
             NEW st \in Statuses, NEW nc \in CacheFlags, Ask(s, kind, cwd, k, st, nc)
      PROVE  ConfigOK'
      BY <1>1, <1>3 DEF Ask, Serving
<1>4. ASSUME SwitchConfig PROVE ConfigOK'
      BY <1>4 DEF SwitchConfig, Switches, ConfigOK
<1>5. ASSUME StatConfig PROVE ConfigOK'
      BY <1>5 DEF StatConfig, ConfigOK, WorldOK, configVars
<1>6. ASSUME ReadConfig PROVE ConfigOK'
      BY <1>6 DEF ReadConfig, ConfigOK, WorldOK, requestVars, Snapshots
<1>7. ASSUME StampConfig PROVE ConfigOK'
      BY <1>7 DEF StampConfig, ConfigOK, WorldOK
<1>8. ASSUME RenderUncached \/ EnsureRepo \/ FlushRepo \/ Sample \/ WarmUp PROVE ConfigOK'
      BY <1>1, <1>8 DEF RenderUncached, EnsureRepo, FlushRepo, Sample, WarmUp, requestVars,
                       Serving, Rendering
<1>9. ASSUME RenderCached PROVE ConfigOK'
  <2>1. CASE Returned(Lookup(Key).prompt)
        BY <1>2, <1>9, <2>1 DEF RenderCached, Serving
  <2>2. CASE pc' = "render" /\ UNCHANGED config_mtime
        BY <1>1, <1>9, <2>2 DEF RenderCached, Serving, Rendering
  <2> QED BY <1>9, <2>1, <2>2 DEF RenderCached
<1>10. ASSUME Draw PROVE ConfigOK'
      BY <1>1, <1>10 DEF Draw
<1>11. ASSUME Keep PROVE ConfigOK'
  <2>1. pc \in Serving /\ UNCHANGED configVars
        BY <1>11 DEF Keep, Serving
  <2>2. CASE Answer(made.prompt) \/ Returned(made.prompt)
        BY <1>2, <2>1, <2>2
  <2>3. CASE pc' \in {"warm", "key"} /\ UNCHANGED config_mtime
        BY <1>1, <2>1, <2>3 DEF Serving, Rendering
  <2> QED BY <1>11, <2>2, <2>3 DEF Keep
<1>12. ASSUME NEW s \in Shells, Start(s) PROVE ConfigOK'
      BY <1>12, DaemonAssumption DEF Start, ConfigOK, ConfigPath, WorldOK, requestVars
<1>13. ASSUME Stop PROVE ConfigOK'
      BY <1>13, DaemonAssumption DEF Stop, Blank, ConfigOK
<1>14. ASSUME \/ Sweep \/ DiskChanges \/ (\E r \in Repos : GitComesAndGoes(r)) \/ Tick
              \/ \E f \in ConfigFiles, to \in 0 .. MaxEdits : SaveConfig(f, to)
              \/ \E s \in Shells, f \in ConfigFiles \cup {Unset} : SetEnv(s, f)
       PROVE  ConfigOK'
  <2>1. UNCHANGED <<pc, configVars, requestVars>>
        BY <1>14 DEF Sweep, DiskChanges, WriteFile, GitWrites, GitComesAndGoes, Tick, SaveConfig,
                     SetEnv, daemonVars
  <2> QED BY <1>1, <2>1 DEF requestVars
<1> QED BY <1>3, <1>4, <1>5, <1>6, <1>7, <1>8, <1>9, <1>10, <1>11, <1>12, <1>13, <1>14
        DEF DaemonNext, Serve

LEMMA FoundStep ==
    ASSUME Types, DaemonNext PROVE FoundOK'
<1> USE DEF Types
<1>1. ASSUME found' = found PROVE FoundOK'
      BY <1>1 DEF FoundOK
<1>2. ASSUME NEW cwd \in Cwds, found' = Noted(cwd) PROVE FoundOK'
      BY <1>2, NotedKeeps DEF FoundOK
<1>3. ASSUME found' = <<>> PROVE FoundOK'
      BY <1>3, DaemonAssumption, EmptySeq DEF FoundOK
<1>4. ASSUME NEW s \in Shells, NEW kind \in Asks, NEW cwd \in Cwds, NEW k \in Keymaps,
             NEW st \in Statuses, NEW nc \in CacheFlags, Ask(s, kind, cwd, k, st, nc)
      PROVE  FoundOK'
      BY <1>2, <1>4 DEF Ask
<1>5. ASSUME WarmUp PROVE FoundOK'
      BY <1>1, <1>2, <1>5, DaemonAssumption DEF WarmUp
<1>6. ASSUME Stop PROVE FoundOK'
      BY <1>3, <1>6 DEF Stop, Blank
<1>7. ASSUME \/ SwitchConfig \/ StatConfig \/ ReadConfig \/ StampConfig
             \/ RenderUncached \/ EnsureRepo \/ FlushRepo \/ Sample \/ RenderCached
             \/ Draw \/ Keep \/ (\E s \in Shells : Start(s))
             \/ Sweep \/ DiskChanges \/ (\E r \in Repos : GitComesAndGoes(r)) \/ Tick
             \/ \E f \in ConfigFiles, to \in 0 .. MaxEdits : SaveConfig(f, to)
             \/ \E s \in Shells, f \in ConfigFiles \cup {Unset} : SetEnv(s, f)
       PROVE  FoundOK'
  <2>1. found' = found
        BY <1>7 DEF SwitchConfig, StatConfig, ReadConfig, StampConfig, RenderUncached,
                    EnsureRepo, FlushRepo, Sample, RenderCached, Draw, Keep, Start,
                    Sweep, DiskChanges, WriteFile, GitWrites, GitComesAndGoes, Tick, SaveConfig,
                    SetEnv, daemonVars, keptVars
  <2> QED BY <1>1, <2>1
<1> QED BY <1>4, <1>5, <1>6, <1>7 DEF DaemonNext, Serve

\* The key of a request, and what is found under it.
LEMMA KeyType ==
    ASSUME Types, pc \in Serving
    PROVE  Key \in Keys /\ Key.cwd = req.cwd /\ Key.keymap = req.keymap
<1>1. req \in Requests /\ config_mtime \in 0 .. MaxEdits
      BY DEF Types, PhaseOK, ConfigOK
<1>2. Repo = NoRepo \/ Version(Repo) \in Nat
  <2>1. Repo \in Repos \cup {NoRepo}
        BY RepoType DEF Types
  <2>2. \A i \in DOMAIN entries : entries[i].version \in Nat
        BY DEF Types, IInv, VectorOK, DistinctVersions
  <2> QED BY <2>1, <2>2, LookupHolds DEF VersionLookup
<1> QED BY <1>1, <1>2 DEF Key, Keys, Requests

LEMMA LookupType ==
    ASSUME LruOK, NEW k, Cached(k)
    PROVE  /\ Lookup(k) \in Fitting /\ Lookup(k).key = k
           /\ \E i \in DOMAIN lru : Lookup(k) = lru[i]
<1> DEFINE i == CHOOSE j \in Places(k) : TRUE
<1>1. i \in DOMAIN lru /\ lru[i].key = k
      BY DEF Cached, Places
<1>2. Lookup(k) = lru[i]
      BY DEF Lookup
<1> HIDE DEF i
<1>3. lru[i] \in Fitting
      BY <1>1, ElementOfSeq, LenProperties DEF LruOK
<1> QED BY <1>1, <1>2, <1>3

\* Using an entry, and keeping a new one, leave entries that were there.
LEMMA GetKeeps ==
    ASSUME LruOK, NEW k
    PROVE  /\ Get(k) \in Seq(Fitting) /\ Len(Get(k)) <= LruCapacity
           /\ \A i \in DOMAIN Get(k) : \E j \in DOMAIN lru : Get(k)[i] = lru[j]
<1>1. CASE ~Cached(k)
      BY <1>1 DEF Get, LruOK
<1>2. CASE Cached(k)
  <2> DEFINE c == Lookup(k)
             places == Places(k)
  <2>1. /\ c \in Fitting /\ places \in SUBSET DOMAIN lru /\ places # {}
        /\ \E j \in DOMAIN lru : c = lru[j]
        BY <1>2, LookupType DEF Places, Cached
  <2>2. Get(k) = Used(c, lru, places)
        BY <1>2 DEF Get, Without, Used, Front
  <2>3. lru \in Seq(Fitting) /\ Len(lru) <= LruCapacity
        BY DEF LruOK
  <2> HIDE DEF c, places
  <2>4. /\ Used(c, lru, places) \in Seq(Fitting) /\ Len(Used(c, lru, places)) = Len(lru)
        /\ \A i \in DOMAIN Used(c, lru, places) :
              \/ Used(c, lru, places)[i] = c
              \/ \E j \in DOMAIN lru : Used(c, lru, places)[i] = lru[j]
        BY <2>1, <2>3, UsedKeeps
  <2> QED BY <2>1, <2>2, <2>3, <2>4
<1> QED BY <1>1, <1>2

LEMMA PutKeeps ==
    ASSUME LruOK, NEW c \in Fitting
    PROVE  /\ Put(c) \in Seq(Fitting) /\ Len(Put(c)) <= LruCapacity
           /\ \A i \in DOMAIN Put(c) : Put(c)[i] = c \/ \E j \in DOMAIN lru : Put(c)[i] = lru[j]
<1> DEFINE places == Places(c.key)
<1>1. places \in SUBSET DOMAIN lru
      BY DEF Places
<1>2. Put(c) = Kept(c, lru, places, LruCapacity)
      BY DEF Put, Without, Kept, Used, Front
<1>3. lru \in Seq(Fitting) /\ LruCapacity \in Nat
      BY DaemonAssumption DEF LruOK
<1> HIDE DEF places
<1> QED BY <1>1, <1>2, <1>3, KeptKeeps

\* What a repository shows when it is looked at.
LEMMA NowType ==
    ASSUME Types, NEW r PROVE Now(r) \in Views
BY DEF Types, WorldOK, IInv, RestOK, Now, Views

\* What is kept after a render.
LEMMA CacheEntryType ==
    ASSUME Types, pc = "render", made # Unset PROVE CacheEntry \in Fitting
<1>1. /\ Key \in Keys /\ Key.cwd = req.cwd /\ Key.keymap = req.keymap
      /\ req \in Requests
      BY KeyType DEF Types, PhaseOK, Serving, Rendering
<1>2. /\ made \in [segments : Segments, prompt : Prompts, head : Branches]
      /\ made.prompt.cwd = req.cwd /\ made.prompt.keymap = req.keymap
      /\ made.prompt.status = req.status /\ made.prompt.minute >= bucket
      /\ bucket \in 0 .. MaxMinute /\ req.status \in Statuses
      BY <1>1, DaemonAssumption DEF Types, MadeOK, BucketOK, WorldOK, Requests
<1> DEFINE k == Key
           c == CacheEntry
<1>3. c = [key |-> k, prompt |-> made.prompt, segments |-> made.segments,
           bucket |-> bucket, status |-> req.status]
      BY DEF CacheEntry
<1> HIDE DEF k, c
<1>4. c \in CacheEntries
      BY <1>1, <1>2, <1>3 DEF CacheEntries, k
<1>5. /\ c.key = k /\ c.prompt = made.prompt /\ c.status = req.status /\ c.bucket = bucket
      BY <1>3
<1>6. /\ c.prompt.cwd = c.key.cwd /\ c.prompt.keymap = c.key.keymap
      /\ c.prompt.status = c.status /\ c.prompt.minute >= c.bucket
      BY <1>1, <1>2, <1>5 DEF k
<1> QED BY <1>4, <1>6 DEF Fitting, c

\* The branch that starship finds.
LEMMA BranchType == ASSUME WorldOK, NEW r PROVE Branch(r) \in Branches
BY DEF WorldOK, Branch, Branches

\* What warm_up renders.
LEMMA WarmUpType ==
    ASSUME Types, WarmUp PROVE lru' \in Seq(Fitting) /\ Len(lru') = 1
<1> DEFINE segments == [cfg |-> cached_config, seen |-> Now(RepoOf[Dot]),
                        head |-> Branch(RepoOf[Dot])]
           key == [cwd |-> Dot, keymap |-> "vi", mtime |-> 0, version |-> 0]
           prompt == [cwd |-> Dot, keymap |-> "vi", status |-> 0, minute |-> minute,
                      cfg |-> segments.cfg, seen |-> segments.seen, head |-> segments.head]
           c == [key |-> key, prompt |-> prompt, segments |-> segments, bucket |-> minute,
                 status |-> 0]
<1>1. lru' = <<c>>
      BY DEF WarmUp
<1>2. Now(RepoOf[Dot]) \in Views /\ Branch(RepoOf[Dot]) \in Branches
      BY NowType, BranchType DEF Types
<1>3. cached_config \in Snapshots /\ minute \in 0 .. MaxMinute /\ 0 \in 0 .. MaxEdits
      BY DaemonAssumption DEF Types, WorldOK, ConfigOK, WarmUp
<1>4. segments \in Segments
      BY <1>2, <1>3 DEF Segments
<1>5. /\ segments.cfg \in Snapshots /\ segments.seen \in Views /\ segments.head \in Branches
      BY <1>4 DEF Segments
<1> HIDE DEF segments
<1>6. key \in Keys /\ prompt \in Prompts
      BY <1>3, <1>5, DaemonAssumption DEF Keys, Prompts
<1>7. /\ prompt.cwd = key.cwd /\ prompt.keymap = key.keymap
      /\ prompt.status = 0 /\ prompt.minute >= minute
      BY <1>3
<1> HIDE DEF key, prompt
<1>8. c \in CacheEntries
      BY <1>3, <1>4, <1>6, DaemonAssumption DEF CacheEntries
<1>9. c \in Fitting
      BY <1>7, <1>8 DEF Fitting
<1> HIDE DEF c
<1> QED BY <1>1, <1>9

LEMMA LruStep ==
    ASSUME Types, DaemonNext PROVE LruOK'
<1> USE DEF Types
<1>1. ASSUME lru' = lru PROVE LruOK'
      BY <1>1 DEF LruOK
<1>2. ASSUME lru' = <<>> PROVE LruOK'
  <2>1. lru' \in Seq(Fitting) /\ Len(lru') = 0
        BY <1>2
  <2> QED BY <2>1, DaemonAssumption DEF LruOK
<1>3. ASSUME RenderCached PROVE LruOK'
  <2>1. lru' = Get(Key)
        BY <1>3 DEF RenderCached
  <2>2. Get(Key) \in Seq(Fitting) /\ Len(Get(Key)) <= LruCapacity
        BY GetKeeps
  <2> QED BY <2>1, <2>2 DEF LruOK
<1>4. ASSUME Keep PROVE LruOK'
  <2>1. CASE pc = "render"
    <3>1. CacheEntry \in Fitting /\ lru' = Put(CacheEntry)
          BY <1>4, <2>1, CacheEntryType DEF Keep
    <3> QED BY <3>1, PutKeeps DEF LruOK
  <2>2. CASE pc # "render"
        BY <1>1, <1>4, <2>2 DEF Keep
  <2> QED BY <2>1, <2>2
<1>5. ASSUME WarmUp PROVE LruOK'
  <2>1. lru' \in Seq(Fitting) /\ Len(lru') = 1
        BY <1>5, WarmUpType
  <2>2. LruCapacity \in Nat \ {0}
        BY DaemonAssumption
  <2> QED BY <2>1, <2>2 DEF LruOK
<1>6. ASSUME ReadConfig \/ Stop PROVE LruOK'
      BY <1>2, <1>6 DEF ReadConfig, Stop, Blank
<1>7. ASSUME \/ \E s \in Shells, kind \in Asks, cwd \in Cwds, k \in Keymaps, st \in Statuses,
                   nc \in CacheFlags : Ask(s, kind, cwd, k, st, nc)
             \/ SwitchConfig \/ StatConfig \/ StampConfig
             \/ RenderUncached \/ EnsureRepo \/ FlushRepo \/ Sample
             \/ Draw \/ (\E s \in Shells : Start(s))
             \/ Sweep \/ DiskChanges \/ (\E r \in Repos : GitComesAndGoes(r)) \/ Tick
             \/ \E f \in ConfigFiles, to \in 0 .. MaxEdits : SaveConfig(f, to)
             \/ \E s \in Shells, f \in ConfigFiles \cup {Unset} : SetEnv(s, f)
       PROVE  LruOK'
  <2>1. lru' = lru
        BY <1>7 DEF Ask, SwitchConfig, StatConfig, StampConfig, RenderUncached,
                    EnsureRepo, FlushRepo, Sample, Draw, Start,
                    Sweep, DiskChanges, WriteFile, GitWrites, GitComesAndGoes, Tick, SaveConfig,
                    SetEnv, daemonVars, keptVars
  <2> QED BY <1>1, <2>1
<1> QED BY <1>3, <1>4, <1>5, <1>6, <1>7 DEF DaemonNext, Serve

\* The branch on which a repository is opened.
LEMMA OpenedType ==
    ASSUME Types PROVE Opened \in Branches
<1>1. context # Unset => context.head \in Branches
      BY DEF Types, ContextOK
<1>2. Branch(Here) \in Branches
      BY BranchType DEF Types
<1> QED BY <1>1, <1>2 DEF Opened

LEMMA ContextStep ==
    ASSUME Types, DaemonNext PROVE ContextOK'
<1> USE DEF Types
<1>1. ASSUME context' = context \/ context' = Unset PROVE ContextOK'
      BY <1>1 DEF ContextOK
<1>2. ASSUME NEW r \in Repos, GitWrites(r) \/ GitComesAndGoes(r) PROVE ContextOK'
  <2>1. \/ context' = context
        \/ context # Unset /\ context' = [context EXCEPT !.current = FALSE]
        BY <1>2 DEF GitWrites, GitComesAndGoes
  <2> QED BY <2>1 DEF ContextOK
<1>3. ASSUME DiskChanges PROVE ContextOK'
      BY <1>1, <1>2, <1>3 DEF DiskChanges, WriteFile, daemonVars, keptVars
<1>4. ASSUME Keep PROVE ContextOK'
  <2>1. made.head \in Branches
        BY <1>4 DEF Keep, MadeOK
  <2> QED BY <1>4, <2>1 DEF Keep, SaveRepo, ContextOK
<1>5. ASSUME WarmUp PROVE ContextOK'
  <2> DEFINE repo == IF Fork THEN NoRepo ELSE Discovered(Dot)
             branch == Branch(RepoOf[Dot])
  <2>1. context' = IF repo = NoRepo THEN Unset
                   ELSE [repo |-> repo, current |-> TRUE, head |-> branch]
        BY <1>5 DEF WarmUp
  <2>2. repo \in Repos \cup {NoRepo}
        BY DaemonAssumption DEF Discovered
  <2>3. branch \in Branches
        BY BranchType
  <2> HIDE DEF repo, branch
  <2> QED BY <2>1, <2>2, <2>3 DEF ContextOK
<1>6. ASSUME \/ \E s \in Shells, kind \in Asks, cwd \in Cwds, k \in Keymaps, st \in Statuses,
                   nc \in CacheFlags : Ask(s, kind, cwd, k, st, nc)
             \/ SwitchConfig \/ StatConfig \/ ReadConfig \/ StampConfig
             \/ RenderUncached \/ EnsureRepo \/ FlushRepo \/ Sample \/ RenderCached
             \/ Draw \/ (\E s \in Shells : Start(s)) \/ Stop
             \/ Sweep \/ Tick
             \/ \E f \in ConfigFiles, to \in 0 .. MaxEdits : SaveConfig(f, to)
             \/ \E s \in Shells, f \in ConfigFiles \cup {Unset} : SetEnv(s, f)
       PROVE  ContextOK'
  <2>1. context' = context \/ context' = Unset
        BY <1>6 DEF Ask, SwitchConfig, StatConfig, ReadConfig, StampConfig, RenderUncached,
                    EnsureRepo, FlushRepo, Sample, RenderCached, Draw, Start, Stop, Blank,
                    Sweep, Tick, SaveConfig, SetEnv, daemonVars, keptVars
  <2> QED BY <1>1, <2>1
<1> QED BY <1>2, <1>3, <1>4, <1>5, <1>6 DEF DaemonNext, Serve

\* What a render shows.
LEMMA DrawType ==
    ASSUME Types, Draw
    PROVE  /\ made' \in [segments : Segments, prompt : Prompts, head : Branches]
           /\ made'.prompt.cwd = req.cwd /\ made'.prompt.keymap = req.keymap
           /\ made'.prompt.status = req.status /\ made'.prompt.minute = minute
           /\ made'.head = Opened
           /\ Scan \in Views
           /\ ~Reuses => /\ made'.segments.cfg = cached_config
                         /\ made'.segments.seen = Scan
                         /\ made'.segments.head = Opened
           /\ Reuses => made'.segments = Lookup(Key).segments
           /\ made'.prompt.cfg = made'.segments.cfg
<1> USE DEF Types
<1> DEFINE fresh    == [cfg |-> cached_config, seen |-> Scan, head |-> Opened]
           segments == IF Reuses THEN Lookup(Key).segments ELSE fresh
           prompt   == Prompt(segments)
           m        == [segments |-> segments, prompt |-> prompt, head |-> Opened]
<1>1. made' = m
      BY DEF Draw
<1>2. /\ pc \in Rendering /\ cached_config \in Snapshots /\ minute \in 0 .. MaxMinute
      /\ req \in Requests
      BY DEF Draw, Rendering, Serving, ConfigOK, WorldOK, PhaseOK
<1>3. Scan \in Views
  <2>1. Scanned # {} => (CHOOSE s \in Scanned : TRUE).seen \in Views
        BY DEF Scanned, ScansOK
  <2>2. Now(Here) \in Views /\ NoRepo \in Views
        BY NowType DEF Views
  <2> QED BY <2>1, <2>2 DEF Scan, GitStatus
<1>4. Opened \in Branches
      BY OpenedType
<1>5. Reuses => Lookup(Key).segments \in Segments
  <2> SUFFICES ASSUME Reuses PROVE Lookup(Key).segments \in Segments
      OBVIOUS
  <2>1. Lookup(Key) \in Fitting
        BY LookupType DEF Reuses
  <2> QED BY <2>1 DEF Fitting, CacheEntries
<1>6. fresh \in Segments /\ fresh.cfg = cached_config /\ fresh.seen = Scan /\ fresh.head = Opened
      BY <1>2, <1>3, <1>4 DEF Segments
<1> HIDE DEF fresh
<1>7. segments \in Segments
      BY <1>5, <1>6
<1>8. /\ ~Reuses => /\ segments.cfg = cached_config /\ segments.seen = Scan
                    /\ segments.head = Opened
      /\ Reuses => segments = Lookup(Key).segments
      BY <1>6
<1> HIDE DEF segments
<1>9. prompt \in Prompts
      BY <1>2, <1>7 DEF Prompt, Prompts, Segments, Requests
<1>10. /\ prompt.cwd = req.cwd /\ prompt.keymap = req.keymap
       /\ prompt.status = req.status /\ prompt.minute = minute /\ prompt.cfg = segments.cfg
      BY DEF Prompt
<1> HIDE DEF prompt
<1>11. /\ m \in [segments : Segments, prompt : Prompts, head : Branches]
       /\ m.segments = segments /\ m.prompt = prompt /\ m.head = Opened
      BY <1>4, <1>7, <1>9
<1> HIDE DEF m
<1> QED BY <1>1, <1>3, <1>8, <1>10, <1>11

LEMMA ScansStep ==
    ASSUME Types, DaemonNext PROVE ScansOK'
<1> USE DEF Types
<1>1. ASSUME scans' = scans \/ scans' = {} PROVE ScansOK'
      BY <1>1 DEF ScansOK
<1>2. ASSUME Draw PROVE ScansOK'
  <2> DEFINE d == BustDir
  <2>1. CASE scans' = scans
        BY <1>1, <2>1
  <2>2. CASE ~(scans' = scans)
    <3>1. /\ Key.version # 0 /\ pc = "render"
          /\ scans' = scans \cup {[dir |-> d, seen |-> Scan]}
          BY <1>2, <2>2 DEF Draw
    <3>2. Repo \in Repos
          BY <1>2, <3>1, RepoType DEF Draw, Key, Serving, Rendering
    <3>3. Key.version \in Nat /\ config_mtime \in 0 .. MaxEdits
          BY <3>1, KeyType DEF Keys, ConfigOK, Serving, Rendering
    <3>4. d \in [repo : Repos, version : Nat, mtime : 0 .. MaxEdits]
          BY <3>2, <3>3 DEF BustDir
    <3>5. Scan \in Views
          BY <1>2, DrawType
    <3> HIDE DEF d
    <3> QED BY <3>1, <3>4, <3>5 DEF ScansOK
  <2> QED BY <2>1, <2>2
<1>3. ASSUME \/ \E s \in Shells, kind \in Asks, cwd \in Cwds, k \in Keymaps, st \in Statuses,
                   nc \in CacheFlags : Ask(s, kind, cwd, k, st, nc)
             \/ SwitchConfig \/ StatConfig \/ ReadConfig \/ StampConfig
             \/ RenderUncached \/ EnsureRepo \/ FlushRepo \/ Sample \/ RenderCached
             \/ Keep \/ (\E s \in Shells : Start(s)) \/ WarmUp \/ Stop
             \/ Sweep \/ DiskChanges \/ (\E r \in Repos : GitComesAndGoes(r)) \/ Tick
             \/ \E f \in ConfigFiles, to \in 0 .. MaxEdits : SaveConfig(f, to)
             \/ \E s \in Shells, f \in ConfigFiles \cup {Unset} : SetEnv(s, f)
       PROVE  ScansOK'
  <2>1. scans' = scans \/ scans' = {}
        BY <1>3 DEF Ask, SwitchConfig, StatConfig, ReadConfig, StampConfig, RenderUncached,
                    EnsureRepo, FlushRepo, Sample, RenderCached, Keep, Start, WarmUp, Stop, Blank,
                    Sweep, DiskChanges, WriteFile, GitWrites, GitComesAndGoes, Tick, SaveConfig,
                    SetEnv, daemonVars, keptVars
  <2> QED BY <1>1, <2>1
<1> QED BY <1>2, <1>3 DEF DaemonNext, Serve

\* What is rendered waits for what it is of: no other request comes in between.
LEMMA MadeStep ==
    ASSUME Types, DaemonNext PROVE MadeOK'
<1> USE DEF Types
<1>1. ASSUME made' = Unset PROVE MadeOK'
      BY <1>1 DEF MadeOK
<1>2. ASSUME UNCHANGED <<made, req, bucket>> PROVE MadeOK'
      BY <1>2 DEF MadeOK
<1>3. ASSUME Draw PROVE MadeOK'
  <2>1. req' = req /\ bucket' = bucket /\ bucket <= minute /\ bucket \in Nat /\ minute \in Nat
        BY <1>3 DEF Draw, BucketOK, WorldOK
  <2> QED BY <1>3, <2>1, DrawType DEF MadeOK
<1>4. ASSUME Keep \/ Stop PROVE MadeOK'
      BY <1>1, <1>4 DEF Keep, Stop, Blank
<1>5. ASSUME RenderCached PROVE MadeOK'
  <2>1. made' = made /\ pc = "lookup"
        BY <1>5 DEF RenderCached
  <2> QED BY <1>1, <2>1 DEF PhaseOK, Rendering
<1>6. ASSUME NEW s \in Shells, NEW kind \in Asks, NEW cwd \in Cwds, NEW k \in Keymaps,
             NEW st \in Statuses, NEW nc \in CacheFlags, Ask(s, kind, cwd, k, st, nc)
      PROVE  MadeOK'
  <2>1. made' = made /\ pc = "idle"
        BY <1>6 DEF Ask
  <2> QED BY <1>1, <2>1 DEF PhaseOK, Rendering
<1>7. ASSUME \/ SwitchConfig \/ StatConfig \/ ReadConfig \/ StampConfig
             \/ RenderUncached \/ EnsureRepo \/ FlushRepo \/ Sample
             \/ (\E s \in Shells : Start(s)) \/ WarmUp
             \/ Sweep \/ DiskChanges \/ (\E r \in Repos : GitComesAndGoes(r)) \/ Tick
             \/ \E f \in ConfigFiles, to \in 0 .. MaxEdits : SaveConfig(f, to)
             \/ \E s \in Shells, f \in ConfigFiles \cup {Unset} : SetEnv(s, f)
       PROVE  MadeOK'
  <2>1. UNCHANGED <<made, req, bucket>>
        BY <1>7 DEF SwitchConfig, StatConfig, ReadConfig, StampConfig, RenderUncached,
                    EnsureRepo, FlushRepo, Sample, Start, WarmUp,
                    Sweep, DiskChanges, WriteFile, GitWrites, GitComesAndGoes, Tick, SaveConfig,
                    SetEnv, daemonVars, requestVars
  <2> QED BY <1>2, <2>1
<1> QED BY <1>3, <1>4, <1>5, <1>6, <1>7 DEF DaemonNext, Serve

\* The clock does not go back, and what a request took of it is of the past.
LEMMA BucketStep ==
    ASSUME Types, DaemonNext PROVE BucketOK'
<1> USE DEF Types
<1>1. bucket \in Nat /\ minute \in Nat /\ bucket <= minute
      BY DEF BucketOK, WorldOK
<1>2. minute' = minute \/ minute' = minute + 1
      BY DEF DaemonNext, Serve, Ask, SwitchConfig, StatConfig, ReadConfig, StampConfig,
             RenderUncached, EnsureRepo, FlushRepo, Sample, RenderCached, Draw, Keep, Start, WarmUp,
             Stop, Sweep, DiskChanges, WriteFile, GitWrites, GitComesAndGoes, Tick, SaveConfig,
             SetEnv, daemonVars, worldVars
<1>3. bucket' \in {bucket, minute, 0}
      BY DEF DaemonNext, Serve, Ask, SwitchConfig, StatConfig, ReadConfig, StampConfig,
             RenderUncached, EnsureRepo, FlushRepo, Sample, RenderCached, Draw, Keep, Start, WarmUp,
             Stop, Blank, Sweep, DiskChanges, WriteFile, GitWrites, GitComesAndGoes, Tick,
             SaveConfig, SetEnv, Returned, Answer, daemonVars, requestVars
<1> QED BY <1>1, <1>2, <1>3 DEF BucketOK

\* A prompt that answers is one that was rendered, or kept.
LEMMA ReplyStep ==
    ASSUME Types, DaemonNext PROVE ReplyOK'
<1> USE DEF Types
<1>1. ASSUME reply' = reply PROVE ReplyOK'
      BY <1>1 DEF ReplyOK
<1>2. ASSUME NEW p \in Prompts, Answer(p) \/ Returned(p), pc \in Serving PROVE ReplyOK'
      BY <1>2 DEF Answer, Returned, ReplyOK, PhaseOK, Requests
<1>3. ASSUME RenderCached PROVE ReplyOK'
  <2>1. CASE Hit
    <3>1. Lookup(Key).prompt \in Prompts
      <4>1. Lookup(Key) \in Fitting
            BY <2>1, LookupType DEF Hit
      <4> QED BY <4>1 DEF Fitting, CacheEntries
    <3> QED BY <1>2, <1>3, <2>1, <3>1 DEF RenderCached, Serving
  <2>2. CASE ~Hit
        BY <1>1, <1>3, <2>2 DEF RenderCached
  <2> QED BY <2>1, <2>2
<1>4. ASSUME Keep PROVE ReplyOK'
  <2>1. pc \in Serving /\ made.prompt \in Prompts
        BY <1>4 DEF Keep, Serving, MadeOK
  <2> QED BY <1>1, <1>2, <1>4, <2>1 DEF Keep
<1>5. ASSUME \/ \E s \in Shells, kind \in Asks, cwd \in Cwds, k \in Keymaps, st \in Statuses,
                   nc \in CacheFlags : Ask(s, kind, cwd, k, st, nc)
             \/ SwitchConfig \/ StatConfig \/ ReadConfig \/ StampConfig
             \/ RenderUncached \/ EnsureRepo \/ FlushRepo \/ Sample
             \/ Draw \/ (\E s \in Shells : Start(s)) \/ WarmUp \/ Stop
             \/ Sweep \/ DiskChanges \/ (\E r \in Repos : GitComesAndGoes(r)) \/ Tick
             \/ \E f \in ConfigFiles, to \in 0 .. MaxEdits : SaveConfig(f, to)
             \/ \E s \in Shells, f \in ConfigFiles \cup {Unset} : SetEnv(s, f)
       PROVE  ReplyOK'
  <2>1. reply' = reply
        BY <1>5 DEF Ask, SwitchConfig, StatConfig, ReadConfig, StampConfig, RenderUncached,
                    EnsureRepo, FlushRepo, Sample, Draw, Start, WarmUp, Stop,
                    Sweep, DiskChanges, WriteFile, GitWrites, GitComesAndGoes, Tick, SaveConfig,
                    SetEnv, daemonVars
  <2> QED BY <1>1, <2>1
<1> QED BY <1>3, <1>4, <1>5 DEF DaemonNext, Serve

LEMMA TypesInit == DaemonInit => Types
<1> SUFFICES ASSUME DaemonInit PROVE Types
    OBVIOUS
<1> USE DEF DaemonInit
<1>1. IInv
      BY InvariantInit
<1>2. WorldOK
  <2>1. file \in [ConfigFiles -> 0 .. MaxEdits]
        BY DaemonAssumption
  <2>2. env \in [Shells -> ConfigFiles \cup {Unset}] /\ sent \in [Shells -> ConfigFiles \cup {Unset}]
        OBVIOUS
  <2>3. present \in SUBSET Repos /\ linked \in SUBSET Repos /\ head \in [Repos -> {0, 1}]
        OBVIOUS
  <2> QED BY <2>1, <2>2, <2>3, DaemonAssumption DEF WorldOK
<1>3. PhaseOK
      BY DEF PhaseOK, Serving, Rendering
<1>4. ConfigOK /\ ContextOK /\ ScansOK /\ MadeOK /\ BucketOK /\ ReplyOK
      BY DaemonAssumption DEF ConfigOK, ContextOK, ScansOK, MadeOK, BucketOK, ReplyOK
<1>5. FoundOK /\ LruOK
  <2>1. /\ found \in Seq(FoundEntries) /\ Len(found) = 0
        /\ lru \in Seq(Fitting) /\ Len(lru) = 0
        OBVIOUS
  <2>2. FoundCapacity \in Nat /\ LruCapacity \in Nat
        BY DaemonAssumption
  <2> QED BY <2>1, <2>2 DEF FoundOK, LruOK
<1> QED BY <1>1, <1>2, <1>3, <1>4, <1>5 DEF Types

LEMMA TypesStep == Types /\ [DaemonNext]_allVars => Types'
<1> SUFFICES ASSUME Types, [DaemonNext]_allVars PROVE Types'
    OBVIOUS
<1>1. CASE DaemonNext
  <2>1. IInv' /\ WorldOK' /\ PhaseOK' /\ ConfigOK' /\ FoundOK' /\ LruOK'
        BY <1>1, WatcherKept, WorldStep, PhaseStep, ConfigStep, FoundStep, LruStep
  <2>2. ContextOK' /\ ScansOK' /\ MadeOK' /\ BucketOK' /\ ReplyOK'
        BY <1>1, ContextStep, ScansStep, MadeStep, BucketStep, ReplyStep
  <2> QED BY <2>1, <2>2 DEF Types
<1>2. CASE UNCHANGED allVars
  <2> USE <1>2 DEF Types, allVars, vars, daemonVars, worldVars, gitVars, configVars, keptVars,
                   requestVars
  <2>1. IInv'
        BY DEF IInv, VectorOK, RestOK, Bounded, DistinctVersions, ArmedMeansOutstanding
  <2>2. WorldOK' /\ PhaseOK' /\ ConfigOK'
        BY DEF WorldOK, PhaseOK, ConfigOK
  <2>3. FoundOK' /\ LruOK' /\ ContextOK' /\ ScansOK' /\ MadeOK' /\ BucketOK' /\ ReplyOK'
        BY DEF FoundOK, LruOK, ContextOK, ScansOK, MadeOK, BucketOK, ReplyOK
  <2> QED BY <2>1, <2>2, <2>3
<1> QED BY <1>1, <1>2

LEMMA TypesHold == DaemonSpec => []Types
BY TypesInit, TypesStep, PTL DEF DaemonSpec

\* Whatever is asked, edited, switched or restarted in between: every variable
\* of the daemon and of its caches has its type, and the caches keep to their
\* capacities.
THEOREM DaemonTypeCorrectness == DaemonSpec => []DaemonTypeOK
<1>1. Types => DaemonTypeOK
  <2> SUFFICES ASSUME Types PROVE DaemonTypeOK
      OBVIOUS
  <2> USE DEF Types
  <2>1. TypeOK
        BY DEF IInv, VectorOK, RestOK, TypeOK
  <2>2. \A i \in DOMAIN lru : lru[i] \in CacheEntries
        BY ElementOfSeq, LenProperties DEF LruOK, Fitting
  <2>3. \A i \in DOMAIN found : found[i] \in FoundEntries
        BY ElementOfSeq, LenProperties DEF FoundOK
  <2> QED BY <2>1, <2>2, <2>3
          DEF DaemonTypeOK, WorldOK, PhaseOK, ConfigOK, FoundOK, LruOK, ContextOK, MadeOK, ReplyOK,
              Serving
<1> QED BY <1>1, TypesHold, PTL

----------------------------------------------------------------------------
(* Answers.                                                                *)

\* A request is answered from the cache, or with what was rendered for it.
LEMMA AnswerComes ==
    ASSUME Types, [DaemonNext]_allVars, Answers
    PROVE  \/ RenderCached /\ Hit /\ Answer(Lookup(Key).prompt)
           \/ Keep /\ Answer(made.prompt)
<1> USE DEF Types
<1>1. pc' # pc /\ pc # "boot"
      BY DEF PhaseOK, Answers
<1>2. DaemonNext
      BY <1>1 DEF allVars, daemonVars
<1>3. ~\/ \E s \in Shells, kind \in Asks, cwd \in Cwds, k \in Keymaps, st \in Statuses,
             nc \in CacheFlags : Ask(s, kind, cwd, k, st, nc)
       \/ SwitchConfig \/ StatConfig \/ ReadConfig \/ StampConfig
       \/ RenderUncached \/ EnsureRepo \/ FlushRepo \/ Sample
       \/ Draw \/ (\E s \in Shells : Start(s)) \/ WarmUp \/ Stop
       \/ Sweep \/ DiskChanges \/ (\E r \in Repos : GitComesAndGoes(r)) \/ Tick
       \/ \E f \in ConfigFiles, to \in 0 .. MaxEdits : SaveConfig(f, to)
       \/ \E s \in Shells, f \in ConfigFiles \cup {Unset} : SetEnv(s, f)
      BY <1>1 DEF Answers, Ask, SwitchConfig, StatConfig, ReadConfig, StampConfig, RenderUncached,
                  EnsureRepo, FlushRepo, Sample, Draw, Start, WarmUp, Stop,
                  Sweep, DiskChanges, WriteFile, GitWrites, GitComesAndGoes, Tick, SaveConfig,
                  SetEnv, daemonVars
<1>4. RenderCached \/ Keep
      BY <1>2, <1>3 DEF DaemonNext, Serve
<1>5. CASE RenderCached
      BY <1>5 DEF RenderCached, Returned, Answers
<1>6. CASE Keep
      BY <1>6 DEF Keep, Returned, Answers
<1> QED BY <1>4, <1>5, <1>6

\* A step that answers does so for the request that was being served.
AnswerFits ==
    LET p == reply'.prompt IN
    /\ reply'.shell = req.shell
    /\ p.cwd = req.cwd /\ p.keymap = req.keymap /\ p.status = req.status
    /\ p.minute >= IF pc = "lookup" THEN minute ELSE bucket

\* However prompts are cached, reused, evicted and looked up again: an answer
\* is of the directory, keymap and exit status that were asked for, for the
\* shell that asked, and of no earlier minute.
THEOREM AnswersAreTheirRequests == DaemonSpec => AnswersItsRequest
<1>1. Types /\ [DaemonNext]_allVars => [Answers => AnswerFits]_allVars
  <2> SUFFICES ASSUME Types, [DaemonNext]_allVars, Answers PROVE AnswerFits
      OBVIOUS
  <2>1. CASE RenderCached /\ Hit /\ Answer(Lookup(Key).prompt)
    <3> DEFINE c == Lookup(Key)
    <3>1. Key.cwd = req.cwd /\ Key.keymap = req.keymap
          BY <2>1, KeyType DEF RenderCached, Serving
    <3>2. c \in Fitting /\ c.key = Key
          BY <2>1, LookupType DEF Types, Hit
    <3>3. c.status = req.status /\ c.bucket = minute /\ pc = "lookup"
          BY <2>1 DEF Hit, RenderCached
    <3>4. reply' = [shell |-> req.shell, prompt |-> c.prompt]
          BY <2>1 DEF Answer
    <3> HIDE DEF c
    <3> QED BY <3>1, <3>2, <3>3, <3>4 DEF Fitting, AnswerFits
  <2>2. CASE Keep /\ Answer(made.prompt)
    <3>1. pc # "lookup" /\ made # Unset
          BY <2>2 DEF Keep, Rendering
    <3>2. reply' = [shell |-> req.shell, prompt |-> made.prompt]
          BY <2>2 DEF Answer
    <3> QED BY <3>1, <3>2 DEF Types, MadeOK, AnswerFits
  <2> QED BY <2>1, <2>2, AnswerComes
<1> QED BY <1>1, TypesHold, PTL DEF DaemonSpec, AnswersItsRequest, AnswerFits

----------------------------------------------------------------------------
(* What happens around a render.                                           *)

Surroundings == \/ DiskChanges
                \/ \E r \in Repos : GitComesAndGoes(r)
                \/ Tick
                \/ \E f \in ConfigFiles, to \in 0 .. MaxEdits : SaveConfig(f, to)
                \/ \E s \in Shells, f \in ConfigFiles \cup {Unset} : SetEnv(s, f)

LEMMA DaemonRests ==
    ASSUME Surroundings
    PROVE  /\ UNCHANGED <<sent, configVars, lru, found, scans, pc, requestVars, reply>>
           /\ UNCHANGED epoch
<1>1. UNCHANGED <<sent, configVars, lru, found, scans, pc, requestVars, reply>>
      BY DEF Surroundings, DiskChanges, WriteFile, GitWrites, GitComesAndGoes, Tick, SaveConfig,
             SetEnv, daemonVars, keptVars
<1>2. UNCHANGED epoch
      BY DEF Surroundings, DiskChanges, WriteFile, GitWrites, GitComesAndGoes, Tick, SaveConfig,
             SetEnv, vars, Write, EditGitignore, RequestFails
<1> QED BY <1>1, <1>2

\* Between a render and what is kept of it only others take steps.
LEMMA MadeWaits ==
    ASSUME Types, DaemonNext, made # Unset, made' # Unset PROVE Surroundings
<1>1. pc \in Rendering
      BY DEF Types, PhaseOK
<1>2. ~\/ \E s \in Shells, kind \in Asks, cwd \in Cwds, k \in Keymaps, st \in Statuses,
             nc \in CacheFlags : Ask(s, kind, cwd, k, st, nc)
       \/ SwitchConfig \/ StatConfig \/ ReadConfig \/ StampConfig
       \/ RenderUncached \/ EnsureRepo \/ FlushRepo \/ Sample \/ RenderCached
       \/ (\E s \in Shells : Start(s)) \/ WarmUp \/ Sweep
      BY <1>1 DEF Rendering, Ask, SwitchConfig, StatConfig, ReadConfig, StampConfig,
                  RenderUncached, EnsureRepo, FlushRepo, Sample, RenderCached, Start, WarmUp, Sweep
<1>3. ~(Draw \/ Keep \/ Stop)
      BY DEF Draw, Keep, Stop, Blank
<1> QED BY <1>2, <1>3 DEF DaemonNext, Serve, Surroundings

\* What was not rendered before is rendered now.
LEMMA MadeDrawn ==
    ASSUME Types, DaemonNext, made = Unset, made' # Unset PROVE Draw
<1>1. ~\/ \E s \in Shells, kind \in Asks, cwd \in Cwds, k \in Keymaps, st \in Statuses,
             nc \in CacheFlags : Ask(s, kind, cwd, k, st, nc)
       \/ SwitchConfig \/ StatConfig \/ ReadConfig \/ StampConfig
       \/ RenderUncached \/ EnsureRepo \/ FlushRepo \/ Sample \/ RenderCached
       \/ Keep \/ (\E s \in Shells : Start(s)) \/ WarmUp \/ Sweep \/ Stop
      BY DEF Ask, SwitchConfig, StatConfig, ReadConfig, StampConfig, RenderUncached,
             EnsureRepo, FlushRepo, Sample, RenderCached, Keep, Start, WarmUp, Sweep, Stop, Blank,
             daemonVars, requestVars
<1>2. ~Surroundings
      BY DaemonRests DEF requestVars
<1> QED BY <1>1, <1>2 DEF DaemonNext, Serve, Surroundings

----------------------------------------------------------------------------
(* The configuration.                                                      *)

\* What is in the cache was there, or was rendered under the configuration
\* that is loaded now: by warm_up without a version.
LEMMA LruMoves ==
    ASSUME Types, DaemonNext, NEW i \in DOMAIN lru'
    PROVE  \/ \E j \in DOMAIN lru : lru'[i] = lru[j]
           \/ Keep /\ pc = "render" /\ lru'[i] = CacheEntry
           \/ /\ WarmUp
              /\ lru'[i].prompt.cfg = cached_config /\ lru'[i].segments.cfg = cached_config
              /\ lru'[i].key.version = 0
<1> USE DEF Types
<1>1. CASE lru' = lru
      BY <1>1
<1>2. CASE lru' = <<>>
  <2>1. DOMAIN lru' = {}
        BY <1>2
  <2> QED BY <2>1
<1>3. CASE RenderCached
  <2>1. lru' = Get(Key)
        BY <1>3 DEF RenderCached
  <2>2. \A h \in DOMAIN Get(Key) : \E j \in DOMAIN lru : Get(Key)[h] = lru[j]
        BY GetKeeps
  <2> QED BY <2>1, <2>2
<1>4. CASE Keep
  <2>1. CASE pc = "render"
    <3> DEFINE c == CacheEntry
    <3>1. c \in Fitting /\ lru' = Put(c)
          BY <1>4, <2>1, CacheEntryType DEF Keep
    <3> HIDE DEF c
    <3>2. \A h \in DOMAIN Put(c) : Put(c)[h] = c \/ \E j \in DOMAIN lru : Put(c)[h] = lru[j]
          BY <3>1, PutKeeps
    <3>3. lru'[i] = c \/ \E j \in DOMAIN lru : lru'[i] = lru[j]
          BY <3>1, <3>2
    <3> QED BY <1>4, <2>1, <3>3 DEF c
  <2>2. CASE pc # "render"
        BY <1>1, <1>4, <2>2 DEF Keep
  <2> QED BY <2>1, <2>2
<1>5. CASE WarmUp
  <2>1. i = 1
    <3>1. lru' \in Seq(Fitting) /\ Len(lru') = 1
          BY <1>5, WarmUpType
    <3>2. DOMAIN lru' = 1 .. 1
          BY <3>1, LenProperties
    <3> QED BY <3>2
  <2>2. /\ lru'[1].prompt.cfg = cached_config /\ lru'[1].segments.cfg = cached_config
        /\ lru'[1].key.version = 0
        BY <1>5 DEF WarmUp
  <2> QED BY <1>5, <2>1, <2>2
<1>6. CASE ReadConfig \/ Stop
      BY <1>2, <1>6 DEF ReadConfig, Stop, Blank
<1>7. CASE \/ \E s \in Shells, kind \in Asks, cwd \in Cwds, k \in Keymaps, st \in Statuses,
                 nc \in CacheFlags : Ask(s, kind, cwd, k, st, nc)
           \/ SwitchConfig \/ StatConfig \/ StampConfig
           \/ RenderUncached \/ EnsureRepo \/ FlushRepo \/ Sample
           \/ Draw \/ (\E s \in Shells : Start(s)) \/ Sweep \/ Surroundings
  <2>1. lru' = lru
        BY <1>7, DaemonRests DEF Ask, SwitchConfig, StatConfig, StampConfig, RenderUncached,
                    EnsureRepo, FlushRepo, Sample, Draw, Start, Sweep, daemonVars, keptVars
  <2> QED BY <1>1, <2>1
<1> QED BY <1>3, <1>4, <1>5, <1>6, <1>7 DEF DaemonNext, Serve, Surroundings

\* A reload is of the file whose stamp is taken for it.
ReadIsWhole ==
    /\ pc \notin {"down", "read"} => cached_config.path = config_path
    /\ pc = "stamp" => cached_config.content = file[config_path]
    /\ pc \notin {"down", "read", "stamp"} => cached_config.content = last_cfg_mtime

\* A request has compared the stamp with the file's before it looks for a
\* prompt.
UneditedIsCurrent ==
    ~edited /\ pc \in {"key", "flush", "lookup"} \cup Rendering
       => file[config_path] = last_cfg_mtime

\* A reload leaves nothing that was rendered under another configuration.
CacheOfConfig ==
    /\ pc \notin {"down", "read"} =>
          \A i \in DOMAIN lru : /\ lru[i].prompt.cfg = cached_config
                                /\ lru[i].segments.cfg = cached_config
    /\ made # Unset => /\ made.prompt.cfg = cached_config
                       /\ made.segments.cfg = cached_config

ConfigInv == Types /\ ReadIsWhole /\ UneditedIsCurrent /\ CacheOfConfig

LEMMA ReadIsWholeStep ==
    ASSUME ConfigInv, DaemonNext, "config" \notin Windows
    PROVE  ReadIsWhole'
<1> USE DEF ConfigInv
<1>1. ASSUME UNCHANGED <<file, configVars>>,
             pc' = pc \/ {pc, pc'} \cap {"down", "read", "stamp"} = {}
      PROVE  ReadIsWhole'
      BY <1>1 DEF ReadIsWhole, configVars
<1>2. ASSUME pc' \in {"down", "read"} PROVE ReadIsWhole'
      BY <1>2 DEF ReadIsWhole
<1>3. CASE SwitchConfig \/ (\E s \in Shells : Start(s)) \/ Stop
      BY <1>2, <1>3 DEF SwitchConfig, Start, Stop
<1>4. CASE StatConfig
      BY <1>1, <1>2, <1>4 DEF StatConfig, worldVars
<1>5. CASE ReadConfig
      BY <1>5 DEF ReadConfig, ReadIsWhole, worldVars
<1>6. CASE StampConfig
      BY <1>6 DEF StampConfig, ReadIsWhole, worldVars
<1>7. ASSUME NEW f \in ConfigFiles, NEW to \in 0 .. MaxEdits, SaveConfig(f, to)
      PROVE  ReadIsWhole'
  <2>1. pc = "stamp" => file'[config_path] = file[config_path]
        BY <1>7 DEF SaveConfig, Types, WorldOK
  <2>2. UNCHANGED <<pc, configVars>>
        BY <1>7 DEF SaveConfig
  <2> QED BY <2>1, <2>2 DEF ReadIsWhole, configVars
<1>8. CASE \/ Sweep \/ DiskChanges \/ (\E r \in Repos : GitComesAndGoes(r)) \/ Tick
           \/ \E s \in Shells, f \in ConfigFiles \cup {Unset} : SetEnv(s, f)
      BY <1>1, <1>8 DEF Sweep, DiskChanges, WriteFile, GitWrites, GitComesAndGoes, Tick, SetEnv,
                        daemonVars, worldVars
<1>9. CASE \/ \E s \in Shells, kind \in Asks, cwd \in Cwds, k \in Keymaps, st \in Statuses,
                 nc \in CacheFlags : Ask(s, kind, cwd, k, st, nc)
           \/ RenderUncached \/ EnsureRepo \/ FlushRepo \/ Sample \/ RenderCached
           \/ Draw \/ Keep \/ WarmUp
  <2>1. UNCHANGED <<file, configVars>>
        BY <1>9 DEF Ask, RenderUncached, EnsureRepo, FlushRepo, Sample, RenderCached, Draw, Keep,
                    WarmUp, worldVars
  <2>2. pc' = pc \/ {pc, pc'} \cap {"down", "read", "stamp"} = {}
        BY <1>9 DEF Ask, RenderUncached, EnsureRepo, FlushRepo, Sample, RenderCached, Draw, Keep,
                    WarmUp, Returned, Answer, Rendering
  <2> QED BY <1>1, <2>1, <2>2
<1> QED BY <1>3, <1>4, <1>5, <1>6, <1>7, <1>8, <1>9 DEF DaemonNext, Serve

LEMMA UneditedStep ==
    ASSUME ConfigInv, DaemonNext
    PROVE  UneditedIsCurrent'
<1> USE DEF ConfigInv
<1> DEFINE Late == {"key", "flush", "lookup"} \cup Rendering
<1>1. ASSUME UNCHANGED <<file, configVars, edited>>, pc' \in Late => pc \in Late
      PROVE  UneditedIsCurrent'
      BY <1>1 DEF UneditedIsCurrent, configVars
<1>2. ASSUME pc' \notin Late PROVE UneditedIsCurrent'
      BY <1>2 DEF UneditedIsCurrent
<1>3. CASE \/ \E s \in Shells, kind \in Asks, cwd \in Cwds, k \in Keymaps, st \in Statuses,
                 nc \in CacheFlags : Ask(s, kind, cwd, k, st, nc)
           \/ SwitchConfig \/ ReadConfig \/ (\E s \in Shells : Start(s)) \/ WarmUp \/ Stop
      BY <1>2, <1>3 DEF Ask, SwitchConfig, ReadConfig, Start, WarmUp, Stop, Rendering
<1>4. CASE StatConfig
      BY <1>4 DEF StatConfig, UneditedIsCurrent, configVars, worldVars, Rendering
<1>5. CASE StampConfig
      BY <1>5 DEF StampConfig, UneditedIsCurrent, worldVars
<1>6. ASSUME NEW f \in ConfigFiles, NEW to \in 0 .. MaxEdits, SaveConfig(f, to)
      PROVE  UneditedIsCurrent'
  <2>1. pc' = pc /\ (pc # "idle" => edited')
        BY <1>6 DEF SaveConfig
  <2> QED BY <2>1 DEF UneditedIsCurrent, Rendering
<1>7. CASE \/ Sweep \/ DiskChanges \/ (\E r \in Repos : GitComesAndGoes(r)) \/ Tick
           \/ \E s \in Shells, f \in ConfigFiles \cup {Unset} : SetEnv(s, f)
  <2>1. UNCHANGED <<file, configVars, edited, pc>>
        BY <1>7 DEF Sweep, DiskChanges, WriteFile, GitWrites, GitComesAndGoes, Tick, SetEnv,
                    daemonVars, worldVars
  <2> QED BY <1>1, <2>1
<1>8. CASE RenderUncached \/ EnsureRepo \/ FlushRepo \/ Sample \/ RenderCached \/ Draw \/ Keep
  <2>1. UNCHANGED <<file, configVars, edited>> /\ pc \in Late
        BY <1>8 DEF RenderUncached, EnsureRepo, FlushRepo, Sample, RenderCached, Draw, Keep,
                    worldVars
  <2> QED BY <1>1, <2>1
<1> QED BY <1>3, <1>4, <1>5, <1>6, <1>7, <1>8 DEF DaemonNext, Serve

LEMMA CacheOfConfigStep ==
    ASSUME ConfigInv, DaemonNext
    PROVE  CacheOfConfig'
<1> USE DEF ConfigInv
<1>1. CASE ReadConfig
  <2>1. made' = made /\ made = Unset /\ DOMAIN lru' = {}
        BY <1>1 DEF ReadConfig, requestVars, Types, PhaseOK, Rendering
  <2> QED BY <2>1 DEF CacheOfConfig
<1>2. CASE Stop
      BY <1>2 DEF Stop, Blank, CacheOfConfig
<1>3. CASE ~ReadConfig /\ ~Stop
  <2>1. cached_config' = cached_config
        BY <1>3, DaemonRests
           DEF DaemonNext, Serve, Surroundings, Ask, SwitchConfig, StatConfig, StampConfig,
               RenderUncached, EnsureRepo, FlushRepo, Sample, RenderCached, Draw, Keep, Start,
               WarmUp, Sweep, daemonVars, configVars
  <2>2. pc \in {"down", "read"} => pc' \in {"down", "read"}
        BY <1>3, DaemonRests
           DEF DaemonNext, Serve, Surroundings, Ask, SwitchConfig, StatConfig, StampConfig,
               RenderUncached, EnsureRepo, FlushRepo, Sample, RenderCached, Draw, Keep, Start,
               WarmUp, Sweep, daemonVars, Rendering
  <2>3. ASSUME pc' \notin {"down", "read"}, NEW i \in DOMAIN lru'
        PROVE  /\ lru'[i].prompt.cfg = cached_config
               /\ lru'[i].segments.cfg = cached_config
    <3>1. CASE \E j \in DOMAIN lru : lru'[i] = lru[j]
          BY <2>2, <2>3, <3>1 DEF CacheOfConfig
    <3>2. CASE Keep /\ lru'[i] = CacheEntry
      <4>1. made # Unset
            BY <3>2 DEF Keep
      <4>2. CacheEntry.prompt = made.prompt /\ CacheEntry.segments = made.segments
            BY DEF CacheEntry
      <4> QED BY <3>2, <4>1, <4>2 DEF CacheOfConfig
    <3> QED BY <3>1, <3>2, LruMoves
  <2>4. ASSUME made' # Unset
        PROVE  made'.prompt.cfg = cached_config /\ made'.segments.cfg = cached_config
    <3>1. CASE made # Unset
      <4>1. made' = made
            BY <2>4, <3>1, MadeWaits, DaemonRests DEF requestVars
      <4> QED BY <3>1, <4>1 DEF CacheOfConfig
    <3>2. CASE made = Unset
      <4>1. Draw
            BY <2>4, <3>2, MadeDrawn
      <4>2. pc \notin {"down", "read"}
            BY <4>1 DEF Draw, Rendering
      <4>3. Reuses => Lookup(Key).segments.cfg = cached_config
        <5> SUFFICES ASSUME Reuses PROVE Lookup(Key).segments.cfg = cached_config
            OBVIOUS
        <5>1. PICK i \in DOMAIN lru : Lookup(Key) = lru[i]
              BY LookupType DEF Reuses, Types
        <5> QED BY <4>2, <5>1 DEF CacheOfConfig
      <4> QED BY <4>1, <4>3, DrawType
    <3> QED BY <3>1, <3>2
  <2> QED BY <2>1, <2>3, <2>4 DEF CacheOfConfig
<1> QED BY <1>1, <1>2, <1>3

LEMMA ConfigInvStep ==
    ASSUME "config" \notin Windows
    PROVE  ConfigInv /\ [DaemonNext]_allVars => ConfigInv'
<1> SUFFICES ASSUME ConfigInv, [DaemonNext]_allVars PROVE ConfigInv'
    OBVIOUS
<1>1. Types'
      BY TypesStep DEF ConfigInv
<1>2. CASE DaemonNext
      BY <1>1, <1>2, ReadIsWholeStep, UneditedStep, CacheOfConfigStep DEF ConfigInv
<1>3. CASE UNCHANGED allVars
      BY <1>1, <1>3 DEF ConfigInv, ReadIsWhole, UneditedIsCurrent, CacheOfConfig, allVars,
                        daemonVars, worldVars, configVars, keptVars, requestVars
<1> QED BY <1>2, <1>3

\* A step that answers shows the configuration as it is on disk.
AnswerCurrent ==
    reply'.prompt.cfg = [path |-> config_path, content |-> file[config_path]]

\* However requests name their files and files are saved, and whatever is in
\* the cache: an answer uses the daemon's configuration file as it is, unless
\* it was saved during the request; provided that none is saved between
\* reload_config's read of it and its stamp.
THEOREM AnswersUseTheConfig ==
    ASSUME "config" \notin Windows
    PROVE  DaemonSpec => ConfigCurrent
<1>1. DaemonInit => ConfigInv
  <2>1. DaemonInit => ReadIsWhole /\ UneditedIsCurrent /\ CacheOfConfig
        BY DEF DaemonInit, ReadIsWhole, UneditedIsCurrent, CacheOfConfig, Rendering
  <2> QED BY <2>1, TypesInit DEF ConfigInv
<1>2. ConfigInv /\ [DaemonNext]_allVars => [Answers /\ ~edited => AnswerCurrent]_allVars
  <2> SUFFICES ASSUME ConfigInv, [DaemonNext]_allVars, Answers, ~edited PROVE AnswerCurrent
      OBVIOUS
  <2> USE DEF ConfigInv
  <2>1. \/ RenderCached /\ Hit /\ Answer(Lookup(Key).prompt)
        \/ Keep /\ Answer(made.prompt)
        BY AnswerComes
  <2>2. pc \in {"lookup"} \cup Rendering
        BY <2>1 DEF RenderCached, Keep
  <2>3. cached_config = [path |-> config_path, content |-> file[config_path]]
    <3>1. cached_config \in Snapshots
          BY <2>2 DEF Types, ConfigOK, Rendering
    <3>2. cached_config.path = config_path /\ cached_config.content = last_cfg_mtime
          BY <2>2 DEF ReadIsWhole, Rendering
    <3>3. file[config_path] = last_cfg_mtime
          BY <2>2 DEF UneditedIsCurrent
    <3> QED BY <3>1, <3>2, <3>3 DEF Snapshots
  <2>4. CASE RenderCached /\ Hit /\ Answer(Lookup(Key).prompt)
    <3>1. PICK i \in DOMAIN lru : Lookup(Key) = lru[i]
          BY <2>4, LookupType DEF Types, Hit
    <3>2. lru[i].prompt.cfg = cached_config
          BY <2>2 DEF CacheOfConfig, Rendering
    <3> QED BY <2>3, <2>4, <3>1, <3>2 DEF Answer, AnswerCurrent
  <2>5. CASE Keep /\ Answer(made.prompt)
    <3>1. made.prompt.cfg = cached_config
          BY <2>5 DEF Keep, CacheOfConfig
    <3> QED BY <2>3, <2>5, <3>1 DEF Answer, AnswerCurrent
  <2> QED BY <2>1, <2>4, <2>5
<1> QED BY <1>1, <1>2, ConfigInvStep, PTL DEF DaemonSpec, ConfigCurrent, AnswerCurrent

----------------------------------------------------------------------------
(* What the caches keep of a repository.                                   *)

\* A change of path p of a repository that is as in d is on record with e, or,
\* where some rules match p, the rules of d do, or their change is on record: of
\* such a path nothing can be said when records are lost.
Told(e, d, p) ==
    \/ Reported(e, p)
    \/ /\ p \notin SolidNames
       /\ NoneLost => p \in d.rules \/ Reported(e, ".gitignore")

\* A view `seen` of repository r is of what it is now, as far as its entry
\* says, if the entry's version is one of vs: what differs from the disk is on
\* the entry's record.  In a linked work tree, of which the watcher sees little,
\* the daemon's own bust directory is on record.
Shows(es, dk, ln, vs, r, seen) ==
    \A i \in DOMAIN es : es[i].repo = r /\ es[i].version \in vs =>
        /\ seen \in Disk
        /\ r \in ln => Reported(es[i], "meta")
        /\ r \notin ln => \A p \in Names :
                             Content(dk[r], p) # Content(seen, p) => Told(es[i], dk[r], p)

\* No .git comes or goes, and every directory is in its own repository.
ReposKnown == /\ present = Repos
              /\ \A i \in DOMAIN found : found[i].repo \in {NoRepo, RepoOf[found[i].dir]}
              /\ req # Unset \/ pc \in Serving => Repo \in {NoRepo, RepoOf[req.cwd]}

LruShows ==
    \A i \in DOMAIN lru : LET c == lru[i]
                              r == RepoOf[c.key.cwd]
                          IN  /\ c.key.version < epoch
                              /\ r # NoRepo =>
                                    Shows(entries, disk, linked, {c.key.version}, r, c.segments.seen)

ScansShow ==
    \A s \in scans : /\ s.dir.version < epoch
                     /\ Shows(entries, disk, linked, {s.dir.version}, s.dir.repo, s.seen)

\* What is about to be kept is so whatever the version: no version is given out
\* during a render.
MadeShows ==
    made # Unset /\ pc = "render" /\ Repo # NoRepo =>
        Shows(entries, disk, linked, Nat, Repo, made.segments.seen)

\* When no record is lost, entries know the rules or that they have changed.
RulesFollowed == RulesKnown /\ (NoneLost => AllFiltered)

CoherentInv == /\ Types /\ RulesFollowed /\ ReposKnown
               /\ LruShows /\ ScansShow /\ MadeShows

LEMMA SolidDiffers ==
    ASSUME NEW d, NEW b, SolidView(d) # SolidView(b)
    PROVE  \E p \in SolidNames : Content(d, p) # Content(b, p)
<1>1. CASE d.rules # b.rules
      BY <1>1 DEF Content, SolidNames
<1>2. CASE d.rules = b.rules
  <2>1. PICK p \in SolidPaths : d.content[p] # b.content[p]
        BY <1>2 DEF SolidView
  <2>2. p # ".gitignore"
        BY FilesAssumption DEF SolidPaths, Matchable, NamedPaths
  <2> QED BY <2>1, <2>2 DEF Content, SolidNames
<1> QED BY <1>1, <1>2

\* A notification is on the record of the entry of its repository.
LEMMA NotifyTold ==
    ASSUME VectorOK, NEW r \in Repos, NEW p \in Paths, Notify(r, p)
    PROVE  \A i \in DOMAIN entries' : entries'[i].repo = r => Reported(entries'[i], p)
<1>1. PICK q \in {p, Lost} :
          entries' = [i \in DOMAIN entries |->
                        IF entries[i].repo = r THEN Notified(entries[i], p, q)
                                               ELSE entries[i]]
      BY DEF Notify
<1>2. DOMAIN entries' = DOMAIN entries
      BY <1>1
<1>3. SUFFICES ASSUME NEW i \in DOMAIN entries, entries'[i].repo = r
               PROVE  Reported(entries'[i], p)
      BY <1>2
<1>4. entries[i] \in Entry /\ (entries[i].armed <=> entries[i].io # "none")
  <2>1. entries[i] \in Entry
        BY ElementOfSeq, LenProperties DEF VectorOK
  <2> QED BY <2>1 DEF VectorOK, ArmedMeansOutstanding
<1>5. entries[i].repo = r
      BY <1>1, <1>3
<1>6. entries'[i] = Notified(entries[i], p, q)
      BY <1>1, <1>5
<1>7. ".gitignore" \in SolidNames
      BY DEF SolidNames
<1> QED BY <1>4, <1>6, <1>7, NotifiedReports

\* A work tree stays linked or not; without git init and its opposite,
\* repositories stay.
LEMMA GitStays ==
    ASSUME DaemonNext
    PROVE  linked' = linked /\ ("git" \notin World => present' = present)
<1>1. CASE DiskChanges
      BY <1>1 DEF DiskChanges, WriteFile, GitWrites, daemonVars, worldVars, gitVars
<1>2. CASE \/ \E s \in Shells, kind \in Asks, cwd \in Cwds, k \in Keymaps, st \in Statuses,
                 nc \in CacheFlags : Ask(s, kind, cwd, k, st, nc)
           \/ SwitchConfig \/ StatConfig \/ ReadConfig \/ StampConfig
           \/ RenderUncached \/ EnsureRepo \/ FlushRepo \/ Sample \/ RenderCached
           \/ Draw \/ Keep \/ (\E s \in Shells : Start(s)) \/ WarmUp \/ Stop
           \/ Sweep \/ Tick
           \/ \E f \in ConfigFiles, to \in 0 .. MaxEdits : SaveConfig(f, to)
           \/ \E s \in Shells, f \in ConfigFiles \cup {Unset} : SetEnv(s, f)
      BY <1>2 DEF Ask, SwitchConfig, StatConfig, ReadConfig, StampConfig, RenderUncached,
                  EnsureRepo, FlushRepo, Sample, RenderCached, Draw, Keep, Start, WarmUp, Stop,
                  Sweep, Tick, SaveConfig, SetEnv, daemonVars, worldVars, gitVars
<1>3. CASE \E r \in Repos : GitComesAndGoes(r)
      BY <1>3 DEF GitComesAndGoes
<1> QED BY <1>1, <1>2, <1>3 DEF DaemonNext, Serve

\* What a step does to the records, where linked work trees are.
Reports ==
    /\ RulesKnown'
    /\ \A i \in DOMAIN entries', j \in DOMAIN entries :
          LET e == entries[j]
              f == entries'[i]
              r == entries[j].repo
          IN  f.repo = e.repo /\ f.version = e.version =>
                 \A p \in Names \ e.ignore :
                    \/ Reported(e, p)
                    \/ r \notin linked /\ Content(disk'[r], p) # Content(disk[r], p)
                    => Reported(f, p)

LEMMA StepReports ==
    ASSUME Types, RulesKnown, DaemonNext, ~Stop, "meta" \notin UNION RuleSets
    PROVE  Reports
<1> USE DEF Types, IInv
<1>1. \A i \in DOMAIN entries : entries[i].repo \in Repos
  <2>1. \A i \in DOMAIN entries : entries[i] \in Entry
        BY ElementOfSeq, LenProperties DEF VectorOK
  <2> QED BY <2>1 DEF Entry
<1>2. ASSUME Carried PROVE Reports
      BY <1>2 DEF Carried, Carries, Reports
<1>3. CASE Next
      BY <1>2, <1>3, StepCarried
<1>4. CASE OnlyNotifies
  <2>1. PICK r \in Repos : Notify(r, "meta") /\ disk' = disk
        BY <1>4 DEF OnlyNotifies, WorldOK
  <2>2. \A t \in Repos : disk'[t].rules \in RuleSets
        BY <2>1 DEF RulesKnown
  <2> QED BY <1>2, <1>4, <2>1, <2>2, MetaIsPath, NotifyCarried
<1>5. CASE WritesUnwatched
  <2>1. PICK r \in linked, p \in WorkFiles :
          disk' = [disk EXCEPT ![r] = [disk[r] EXCEPT !.content =
                                         [disk[r].content EXCEPT ![p] = 1 - @]]]
        BY <1>5 DEF WritesUnwatched
  <2>2. entries' = entries /\ disk \in [Repos -> Disk] /\ linked \subseteq Repos
        BY <1>5 DEF WritesUnwatched, RestOK, WorldOK
  <2>3. \A t \in Repos : /\ disk'[t].rules = disk[t].rules
                         /\ t \notin linked => disk'[t] = disk[t]
    <3>1. disk'[r] = [disk[r] EXCEPT !.content = [disk[r].content EXCEPT ![p] = 1 - @]]
          BY <2>1, <2>2
    <3>2. disk'[r].rules = disk[r].rules
          BY <2>2, <3>1 DEF Disk
    <3> QED BY <2>1, <2>2, <3>2
  <2>4. RulesKnown'
        BY <2>2, <2>3 DEF RulesKnown
  <2>5. \A i, j \in DOMAIN entries : entries[i].repo = entries[j].repo => i = j
        BY DEF VectorOK, Bounded
  <2> QED BY <1>1, <1>5, <2>2, <2>3, <2>4, <2>5 DEF Reports
<1>6. CASE LeavesAlone
  <2>1. entries' = entries /\ disk' = disk
        BY <1>6 DEF LeavesAlone
  <2>2. RulesKnown'
        BY <2>1 DEF RulesKnown
  <2>3. \A i, j \in DOMAIN entries : entries[i].repo = entries[j].repo => i = j
        BY DEF VectorOK, Bounded
  <2> QED BY <1>6, <2>1, <2>2, <2>3 DEF Reports
<1> QED BY <1>3, <1>4, <1>5, <1>6, WatcherMoves

\* What is told of a path of r, and a change of it, are told of it after a step.
LEMMA TellsOn ==
    ASSUME IInv, Reports, RulesFollowed, NEW i \in DOMAIN entries', NEW j \in DOMAIN entries,
           entries'[i].repo = entries[j].repo, entries'[i].version = entries[j].version,
           NEW r \in Repos, r = entries[j].repo, r \notin linked, NEW p \in Names,
           Told(entries[j], disk[r], p) \/ Content(disk'[r], p) # Content(disk[r], p)
    PROVE  Told(entries'[i], disk'[r], p)
<1>1. \A q \in Names \ entries[j].ignore :
         \/ Reported(entries[j], q)
         \/ Content(disk'[r], q) # Content(disk[r], q)
         => Reported(entries'[i], q)
      BY DEF Reports
<1>2. \A q \in SolidNames : q \in Names \ entries[j].ignore
      BY SolidIsVisible DEF RulesFollowed, RulesKnown
<1>3. CASE p \in SolidNames
      BY <1>1, <1>2, <1>3 DEF Told
<1>4. CASE p \notin SolidNames
  <2>1. SUFFICES ASSUME NoneLost
                 PROVE  \/ Reported(entries'[i], p) \/ Reported(entries'[i], ".gitignore")
                        \/ p \in disk'[r].rules
        BY <1>4 DEF Told
  <2>2. ".gitignore" \in SolidNames
        BY DEF SolidNames
  <2>3. CASE Reported(entries[j], ".gitignore") \/ disk'[r].rules # disk[r].rules
        BY <1>1, <1>2, <2>2, <2>3 DEF Content
  <2>4. CASE ~Reported(entries[j], ".gitignore") /\ disk'[r].rules = disk[r].rules
    <3>1. Filtered(entries[j], disk[r])
          BY <2>1 DEF RulesFollowed, AllFiltered
    <3>2. entries[j].ignore = disk[r].rules
          BY <2>4, <3>1 DEF Filtered, Recorded, Reported
    <3>3. CASE p \in disk[r].rules
          BY <2>4, <3>3
    <3>4. CASE p \notin disk[r].rules
          BY <1>1, <2>1, <2>4, <3>2, <3>4 DEF Told
    <3> QED BY <3>3, <3>4
  <2> QED BY <2>3, <2>4
<1> QED BY <1>3, <1>4

\* What a view tells of a repository, a step adds to its record.
LEMMA ShowsStep ==
    ASSUME IInv, Reports, RulesFollowed, VersionsMove, linked' = linked,
           "meta" \notin UNION RuleSets,
           NEW vs \in SUBSET Nat, (\A v \in vs : v < epoch) \/ epoch' = epoch, epoch \in Nat,
           NEW r \in Repos, NEW seen, Shows(entries, disk, linked, vs, r, seen)
    PROVE  Shows(entries', disk', linked', vs, r, seen)
<1>1. SUFFICES ASSUME NEW i \in DOMAIN entries',
                      entries'[i].repo = r, entries'[i].version \in vs
               PROVE  /\ seen \in Disk
                      /\ r \in linked => Reported(entries'[i], "meta")
                      /\ r \notin linked => \A p \in Names :
                            Content(disk'[r], p) # Content(seen, p)
                               => Told(entries'[i], disk'[r], p)
      BY DEF Shows
<1>2. PICK j \in DOMAIN entries : entries[j].repo = r /\ entries[j].version = entries'[i].version
      BY <1>1 DEF VersionsMove
<1>3. /\ seen \in Disk
      /\ r \in linked => Reported(entries[j], "meta")
      /\ r \notin linked => \A p \in Names :
            Content(disk[r], p) # Content(seen, p) => Told(entries[j], disk[r], p)
      BY <1>1, <1>2 DEF Shows
<1>4. ASSUME r \in linked PROVE Reported(entries'[i], "meta")
  <2>1. "meta" \in Names \ entries[j].ignore
        BY DEF Names, Matchable, RulesFollowed, RulesKnown
  <2> QED BY <1>1, <1>2, <1>3, <1>4, <2>1 DEF Reports
<1>5. ASSUME r \notin linked, NEW p \in Names, Content(disk'[r], p) # Content(seen, p)
      PROVE  Told(entries'[i], disk'[r], p)
  <2>1. Told(entries[j], disk[r], p) \/ Content(disk'[r], p) # Content(disk[r], p)
        BY <1>3, <1>5
  <2> QED BY <1>1, <1>2, <1>5, <2>1, TellsOn
<1> QED BY <1>3, <1>4, <1>5

\* There is one entry of a repository, which its version names.
LEMMA VersionIs ==
    ASSUME IInv, NEW r \in Repos
    PROVE  /\ Version(r) \in Nat /\ Version(r) < epoch
           /\ \A i \in DOMAIN entries : entries[i].repo = r
                 => Version(r) = entries[i].version /\ EntryOf(r) = entries[i]
<1>1. epoch \in Nat /\ epoch > 0
      BY DEF IInv, VectorOK
<1>2. CASE ~Watched(r)
      BY <1>1, <1>2 DEF Watched, Version
<1>3. CASE Watched(r)
  <2> DEFINE k == CHOOSE i \in DOMAIN entries : entries[i].repo = r
  <2>1. k \in DOMAIN entries /\ entries[k].repo = r
        BY <1>3 DEF Watched
  <2>2. Version(r) = entries[k].version /\ EntryOf(r) = entries[k]
        BY <1>3 DEF Version, EntryOf
  <2> HIDE DEF k
  <2>3. entries[k].version \in 1 .. epoch - 1
        BY <2>1 DEF IInv, VectorOK, DistinctVersions
  <2>4. \A i \in DOMAIN entries : entries[i].repo = r => i = k
        BY <2>1 DEF IInv, VectorOK, Bounded
  <2> QED BY <1>1, <2>2, <2>3, <2>4
<1> QED BY <1>2, <1>3

\* So what is kept under the version it has now is so whatever its version.
LEMMA ShowsNow ==
    ASSUME IInv, NEW r \in Repos, NEW seen,
           Shows(entries, disk, linked, {Version(r)}, r, seen)
    PROVE  Shows(entries, disk, linked, Nat, r, seen)
BY VersionIs DEF Shows

LEMMA ShowsAt ==
    ASSUME NEW es, NEW dk, NEW ln, NEW r, NEW seen, NEW v \in Nat,
           Shows(es, dk, ln, Nat, r, seen)
    PROVE  Shows(es, dk, ln, {v}, r, seen)
BY DEF Shows

\* The surroundings under which the caches stay coherent: no rules hide what
\* git writes, and no .git comes or goes.
Steady == "meta" \notin UNION RuleSets /\ "git" \notin World

LEMMA ReposKnownStep ==
    ASSUME Types, ReposKnown, DaemonNext, Steady PROVE ReposKnown'
<1> USE DEF Types
<1>1. present' = Repos
      BY GitStays DEF Steady, ReposKnown
<1>2. ASSUME NEW cwd \in Cwds PROVE Found(cwd) \in {NoRepo, RepoOf[cwd]}
  <2>1. CASE FoundBefore(cwd) = {}
        BY <2>1 DEF Found, Discovered
  <2>2. CASE FoundBefore(cwd) # {}
    <3> DEFINE i == CHOOSE j \in FoundBefore(cwd) : TRUE
    <3>1. i \in DOMAIN found /\ found[i].dir = cwd
          BY <2>2 DEF FoundBefore
    <3>2. Found(cwd) = found[i].repo
          BY <2>2 DEF Found
    <3> HIDE DEF i
    <3> QED BY <3>1, <3>2 DEF ReposKnown
  <2> QED BY <2>1, <2>2
<1>3. \A i \in DOMAIN found' : found'[i].repo \in {NoRepo, RepoOf[found'[i].dir]}
  <2>1. CASE found' = found
        BY <2>1 DEF ReposKnown
  <2>2. CASE found' = <<>>
    <3>1. DOMAIN found' = {}
          BY <2>2
    <3> QED BY <3>1
  <2>3. ASSUME NEW cwd \in Cwds, found' = Noted(cwd)
        PROVE  \A i \in DOMAIN found' : found'[i].repo \in {NoRepo, RepoOf[found'[i].dir]}
    <3>1. SUFFICES ASSUME NEW i \in DOMAIN Noted(cwd)
                   PROVE  Noted(cwd)[i].repo \in {NoRepo, RepoOf[Noted(cwd)[i].dir]}
          BY <2>3
    <3>2. CASE Noted(cwd)[i] = [dir |-> cwd, repo |-> Found(cwd)]
      <4>1. Noted(cwd)[i].dir = cwd /\ Noted(cwd)[i].repo = Found(cwd)
            BY <3>2
      <4> QED BY <1>2, <4>1
    <3>3. CASE \E j \in DOMAIN found : Noted(cwd)[i] = found[j]
          BY <3>3 DEF ReposKnown
    <3> QED BY <3>2, <3>3, NotedKeeps
  <2>4. \/ found' = found \/ found' = <<>>
        \/ \E cwd \in Cwds : found' = Noted(cwd)
        BY DaemonRests, DaemonAssumption
           DEF DaemonNext, Serve, Surroundings, Ask, SwitchConfig, StatConfig, ReadConfig,
               StampConfig, RenderUncached, EnsureRepo, FlushRepo, Sample, RenderCached, Draw, Keep,
               Start, WarmUp, Stop, Blank, Sweep, daemonVars, keptVars
  <2> QED BY <2>1, <2>2, <2>3, <2>4
<1>4. req' # Unset \/ pc' \in Serving => Repo' \in {NoRepo, RepoOf[req'.cwd]}
  <2>1. CASE req' = req /\ (pc' \in Serving => req # Unset \/ pc \in Serving)
        BY <2>1 DEF ReposKnown, Repo
  <2>2. ASSUME NEW s \in Shells, NEW kind \in Asks, NEW cwd \in Cwds, NEW k \in Keymaps,
               NEW st \in Statuses, NEW nc \in CacheFlags, Ask(s, kind, cwd, k, st, nc)
        PROVE  Repo' \in {NoRepo, RepoOf[req'.cwd]}
    <3>1. req'.cwd = cwd /\ req'.repo = Found(cwd)
          BY <2>2 DEF Ask
    <3> QED BY <1>2, <3>1 DEF Repo
  <2>3. \/ req' = req /\ (pc' \in Serving => req # Unset \/ pc \in Serving)
        \/ req' = Unset /\ pc' \notin Serving
        \/ \E s \in Shells, kind \in Asks, cwd \in Cwds, k \in Keymaps, st \in Statuses,
              nc \in CacheFlags : Ask(s, kind, cwd, k, st, nc)
        BY DaemonRests
           DEF DaemonNext, Serve, Surroundings, SwitchConfig, StatConfig, ReadConfig,
               StampConfig, RenderUncached, EnsureRepo, FlushRepo, Sample, RenderCached, Draw, Keep,
               Returned, Answer, Start, WarmUp, Stop, Blank, Sweep, daemonVars, requestVars,
               Serving, Rendering
  <2> QED BY <2>1, <2>2, <2>3
<1> QED BY <1>1, <1>3, <1>4 DEF ReposKnown

\* The key of a request names its repository, whose directory it is.
LEMMA KeyOf ==
    ASSUME Types, ReposKnown, pc \in Serving, Repo # NoRepo
    PROVE  Repo \in Repos /\ RepoOf[req.cwd] = Repo /\ Key.cwd = req.cwd /\ Key.version = Version(Repo)
<1>1. Repo \in Repos
      BY RepoType DEF Types
<1>2. Repo = RepoOf[req.cwd]
      BY DEF ReposKnown
<1> QED BY <1>1, <1>2 DEF Key

LEMMA StepMoves ==
    ASSUME CoherentInv, DaemonNext, ~Stop, Steady
    PROVE  /\ Reports /\ VersionsMove /\ linked' = linked
           /\ epoch \in Nat /\ epoch > 0 /\ epoch' \in Nat /\ epoch' >= epoch
<1>1. Reports
      BY StepReports DEF CoherentInv, RulesFollowed, Steady
<1>2. VersionsMove
      BY WatcherKept DEF CoherentInv
<1>3. linked' = linked
      BY GitStays DEF Steady
<1> QED BY <1>1, <1>2, <1>3 DEF VersionsMove, CoherentInv, Types, IInv, VectorOK

\* What a render shows of a repository is as it is, or its entry knows better.
LEMMA DrawShows ==
    ASSUME CoherentInv, DaemonNext, Steady, Draw, pc = "render",
           NEW r \in Repos, r = Repo, r # NoRepo
    PROVE  Shows(entries', disk', linked', Nat, r, made'.segments.seen)
<1> USE DEF CoherentInv
<1>1. /\ epoch' = epoch /\ disk' = disk /\ pc' = pc
      /\ Reuses \/ BustDirWritten
      BY DEF Draw
<1>2. ~Stop
      BY <1>1 DEF Stop
<1>3. Reports /\ VersionsMove /\ linked' = linked /\ epoch \in Nat
      BY <1>2, StepMoves
<1>4. pc \in Serving /\ IInv
      BY DEF Serving, Rendering, Types
<1>5. RepoOf[Key.cwd] = r /\ Key.version = Version(r)
      BY <1>4, KeyOf DEF Types
<1>6. ASSUME NEW seen, Shows(entries, disk, linked, {Version(r)}, r, seen)
      PROVE  Shows(entries', disk', linked', Nat, r, seen)
  <2>1. Shows(entries, disk, linked, Nat, r, seen)
        BY <1>4, <1>6, ShowsNow
  <2> QED BY <1>1, <1>3, <2>1, ShowsStep DEF Steady, Types
<1>7. CASE Reuses
  <2>1. Cached(Key)
        BY <1>7 DEF Reuses
  <2>2. PICK i \in DOMAIN lru : Lookup(Key) = lru[i] /\ lru[i].key = Key
        BY <2>1, LookupType DEF Types
  <2>3. PICK c : c = lru[i]
        OBVIOUS
  <2>4. Shows(entries, disk, linked, {c.key.version}, RepoOf[c.key.cwd], c.segments.seen)
        BY <1>5, <2>2, <2>3 DEF LruShows
  <2>5. Shows(entries, disk, linked, {Version(r)}, r, c.segments.seen)
        BY <1>5, <2>2, <2>3, <2>4
  <2>6. made'.segments = c.segments
        BY <1>7, <2>2, <2>3, DrawType
  <2> QED BY <1>6, <2>5, <2>6
<1>8. CASE ~Reuses
  <2>1. made'.segments.seen = GitStatus
        BY <1>8, DrawType DEF Scan
  <2>2. CASE Scanned # {}
    <3>1. PICK s \in scans : s.dir = BustDir /\ GitStatus = s.seen
          BY <2>2 DEF Scanned, GitStatus
    <3>2. s.dir.repo = r /\ s.dir.version = Version(r)
          BY <1>5, <3>1 DEF BustDir
    <3>3. Shows(entries, disk, linked, {s.dir.version}, s.dir.repo, s.seen)
          BY DEF ScansShow
    <3>4. Shows(entries, disk, linked, {Version(r)}, r, s.seen)
          BY <3>2, <3>3
    <3> QED BY <1>6, <2>1, <3>1, <3>4
  <2>3. CASE Scanned = {}
    <3>1. GitStatus = disk'[r]
          BY <1>1, <1>4, <2>3 DEF GitStatus, Here, Now, ReposKnown
    <3>2. disk'[r] \in Disk
          BY <1>1, <1>4 DEF IInv, RestOK
    <3>3. ASSUME r \in linked', NEW i \in DOMAIN entries', entries'[i].repo = r
          PROVE  Reported(entries'[i], "meta")
      <4>1. Notify(r, "meta")
            BY <1>1, <1>3, <1>8, <3>3 DEF BustDirWritten
      <4>2. "meta" \in Paths
            BY DEF Paths, NamedPaths
      <4> QED BY <1>4, <3>3, <4>1, <4>2, NotifyTold DEF IInv
    <3>4. Shows(entries', disk', linked', Nat, r, disk'[r])
          BY <3>2, <3>3 DEF Shows
    <3> QED BY <2>1, <3>1, <3>4
  <2> QED BY <2>2, <2>3
<1> QED BY <1>7, <1>8

LEMMA MadeShowsStep ==
    ASSUME CoherentInv, DaemonNext, Steady PROVE MadeShows'
<1> USE DEF CoherentInv
<1>1. SUFFICES ASSUME made' # Unset, pc' = "render", Repo' # NoRepo
               PROVE  Shows(entries', disk', linked', Nat, Repo', made'.segments.seen)
      BY DEF MadeShows
<1>2. ~Stop
      BY <1>1 DEF Stop
<1>3. Reports /\ VersionsMove /\ linked' = linked /\ epoch \in Nat
      BY <1>2, StepMoves
<1>4. CASE made # Unset
  <2>1. UNCHANGED <<made, req, pc, epoch>>
        BY <1>1, <1>4, MadeWaits, DaemonRests DEF requestVars
  <2>2. Repo' = Repo /\ pc = "render"
        BY <1>1, <2>1 DEF Repo
  <2>3. Repo \in Repos
        BY <1>1, <2>2, RepoType DEF Types, Serving, Rendering
  <2>4. PICK r \in Repos : r = Repo
        BY <2>3
  <2>5. PICK m : m = made
        OBVIOUS
  <2>6. Shows(entries, disk, linked, Nat, r, m.segments.seen)
        BY <1>1, <1>4, <2>2, <2>4, <2>5 DEF MadeShows
  <2>7. Shows(entries', disk', linked', Nat, r, m.segments.seen)
        BY <1>3, <2>1, <2>6, ShowsStep DEF Steady, Types
  <2>8. made' = m /\ Repo' = r
        BY <2>1, <2>2, <2>4, <2>5
  <2> QED BY <2>7, <2>8
<1>5. CASE made = Unset
  <2>1. Draw
        BY <1>1, <1>5, MadeDrawn
  <2>2. UNCHANGED <<req, pc>>
        BY <2>1 DEF Draw
  <2>3. Repo' = Repo /\ pc = "render"
        BY <1>1, <2>2 DEF Repo
  <2>4. Repo \in Repos
        BY <1>1, <2>3, RepoType DEF Types, Serving, Rendering
  <2>5. PICK r \in Repos : r = Repo
        BY <2>4
  <2>6. Shows(entries', disk', linked', Nat, r, made'.segments.seen)
        BY <1>1, <2>1, <2>3, <2>5, DrawShows
  <2> QED BY <2>3, <2>5, <2>6
<1> QED BY <1>4, <1>5

LEMMA LruShowsStep ==
    ASSUME CoherentInv, DaemonNext, Steady PROVE LruShows'
<1> USE DEF CoherentInv
<1>1. CASE Stop
  <2>1. DOMAIN lru' = {}
        BY <1>1 DEF Stop, Blank
  <2> QED BY <2>1 DEF LruShows
<1>2. CASE ~Stop
  <2>1. /\ Reports /\ VersionsMove /\ linked' = linked
        /\ epoch \in Nat /\ epoch > 0 /\ epoch' \in Nat /\ epoch' >= epoch
        BY <1>2, StepMoves
  <2>2. SUFFICES
          ASSUME NEW i \in DOMAIN lru', NEW c, c = lru'[i], NEW r, r = RepoOf[c.key.cwd]
          PROVE  /\ c.key.version < epoch'
                 /\ r # NoRepo =>
                       Shows(entries', disk', linked', {c.key.version}, r, c.segments.seen)
        BY DEF LruShows
  <2>3. CASE \E j \in DOMAIN lru : lru'[i] = lru[j]
    <3>1. PICK j \in DOMAIN lru : c = lru[j]
          BY <2>2, <2>3
    <3>2. c \in Fitting
          BY <3>1, ElementOfSeq, LenProperties DEF Types, LruOK
    <3>3. c.key.version \in Nat /\ r \in Repos \cup {NoRepo}
          BY <2>2, <3>2, DaemonAssumption DEF Fitting, CacheEntries, Keys
    <3>4. /\ c.key.version < epoch
          /\ r # NoRepo => Shows(entries, disk, linked, {c.key.version}, r, c.segments.seen)
          BY <2>2, <3>1 DEF LruShows
    <3>5. c.key.version < epoch'
          BY <2>1, <3>3, <3>4
    <3>6. {c.key.version} \in SUBSET Nat /\ \A v \in {c.key.version} : v < epoch
          BY <3>3, <3>4
    <3>7. ASSUME r # NoRepo
          PROVE  Shows(entries', disk', linked', {c.key.version}, r, c.segments.seen)
          BY <2>1, <3>3, <3>4, <3>6, <3>7, ShowsStep DEF Steady, Types
    <3> QED BY <3>5, <3>7
  <2>4. CASE Keep /\ pc = "render" /\ lru'[i] = CacheEntry
    <3>1. made # Unset /\ pc \in Serving
          BY <2>4 DEF Keep, Serving, Rendering
    <3>2. epoch' = epoch
          BY <2>4 DEF Keep
    <3>3. c.key = Key /\ c.segments = made.segments
          BY <2>2, <2>4 DEF CacheEntry
    <3>4. CASE Repo = NoRepo
      <4>1. c.key.version = 0
            BY <3>3, <3>4 DEF Key
      <4>2. \A k \in DOMAIN entries' : entries'[k].version # 0
        <5>1. IInv'
              BY WatcherKept
        <5> QED BY <5>1 DEF IInv, VectorOK, DistinctVersions
      <4> QED BY <2>1, <3>2, <4>1, <4>2 DEF Shows
    <3>5. CASE Repo # NoRepo
      <4>1. r = Repo /\ Repo \in Repos /\ c.key.version = Version(Repo)
            BY <2>2, <3>1, <3>3, <3>5, KeyOf DEF Types
      <4>2. c.key.version \in Nat /\ c.key.version < epoch
            BY <4>1, VersionIs DEF Types
      <4>3. Shows(entries, disk, linked, Nat, r, c.segments.seen)
            BY <2>4, <3>1, <3>3, <3>5, <4>1 DEF MadeShows
      <4>4. Shows(entries', disk', linked', Nat, r, c.segments.seen)
            BY <2>1, <3>2, <4>1, <4>3, ShowsStep DEF Steady, Types
      <4> QED BY <3>2, <4>2, <4>4, ShowsAt
    <3> QED BY <3>4, <3>5
  <2>5. CASE lru'[i].key.version = 0
    <3>1. \A k \in DOMAIN entries' : entries'[k].version # 0
      <4>1. IInv'
            BY WatcherKept
      <4> QED BY <4>1 DEF IInv, VectorOK, DistinctVersions
    <3> QED BY <2>1, <2>2, <2>5, <3>1 DEF Shows
  <2>6. Types
        OBVIOUS
  <2> QED BY <2>3, <2>4, <2>5, <2>6, LruMoves
<1> QED BY <1>1, <1>2

\* A scan is kept when it is taken, under the version there is then.
LEMMA ScansMove ==
    ASSUME Types, DaemonNext, NEW s \in scans'
    PROVE  \/ s \in scans
           \/ /\ Draw /\ pc = "render" /\ Key.version # 0 /\ Repo # NoRepo
              /\ s.dir.repo = Repo /\ s.dir.version = Key.version
              /\ s.seen = made'.segments.seen
<1>1. CASE Draw
  <2>1. CASE s \in scans
        BY <2>1
  <2>2. CASE s \notin scans
    <3>1. /\ ~Reuses /\ pc = "render" /\ Key.version # 0
          /\ s = [dir |-> BustDir, seen |-> Scan]
          BY <1>1, <2>2 DEF Draw
    <3>2. s.dir = BustDir /\ s.seen = Scan
          BY <3>1
    <3>3. s.dir.repo = Repo /\ s.dir.version = Key.version
          BY <3>2 DEF BustDir
    <3>4. made'.segments.seen = Scan
          BY <1>1, <3>1, DrawType
    <3>5. Repo # NoRepo
          BY <3>1 DEF Key
    <3> QED BY <1>1, <3>1, <3>2, <3>3, <3>4, <3>5
  <2> QED BY <2>1, <2>2
<1>2. CASE ~Draw
  <2>1. scans' = scans \/ scans' = {}
        BY <1>2, DaemonRests
           DEF DaemonNext, Serve, Surroundings, Ask, SwitchConfig, StatConfig, ReadConfig,
               StampConfig, RenderUncached, EnsureRepo, FlushRepo, Sample, RenderCached, Keep,
               Start, WarmUp, Stop, Blank, Sweep, daemonVars, keptVars
  <2> QED BY <2>1
<1> QED BY <1>1, <1>2

LEMMA ScansShowStep ==
    ASSUME CoherentInv, DaemonNext, Steady PROVE ScansShow'
<1> USE DEF CoherentInv
<1>1. CASE Stop
      BY <1>1 DEF Stop, Blank, ScansShow
<1>2. CASE ~Stop
  <2>1. /\ Reports /\ VersionsMove /\ linked' = linked
        /\ epoch \in Nat /\ epoch > 0 /\ epoch' \in Nat /\ epoch' >= epoch
        BY <1>2, StepMoves
  <2>2. SUFFICES ASSUME NEW s \in scans'
                 PROVE  /\ s.dir.version < epoch'
                        /\ Shows(entries', disk', linked', {s.dir.version}, s.dir.repo, s.seen)
        BY DEF ScansShow
  <2>3. CASE s \in scans
    <3>1. s.dir.version \in Nat /\ s.dir.repo \in Repos
          BY <2>3 DEF Types, ScansOK
    <3>2. /\ s.dir.version < epoch
          /\ Shows(entries, disk, linked, {s.dir.version}, s.dir.repo, s.seen)
          BY <2>3 DEF ScansShow
    <3>3. s.dir.version < epoch'
          BY <2>1, <3>1, <3>2
    <3>4. {s.dir.version} \in SUBSET Nat /\ \A v \in {s.dir.version} : v < epoch
          BY <3>1, <3>2
    <3>5. Shows(entries', disk', linked', {s.dir.version}, s.dir.repo, s.seen)
          BY <2>1, <3>1, <3>2, <3>4, ShowsStep DEF Steady, Types
    <3> QED BY <3>3, <3>5
  <2>4. CASE /\ Draw /\ pc = "render" /\ Key.version # 0 /\ Repo # NoRepo
             /\ s.dir.repo = Repo /\ s.dir.version = Key.version
             /\ s.seen = made'.segments.seen
    <3>1. Repo \in Repos /\ Key.version = Version(Repo)
          BY <2>4, KeyOf DEF Types, Serving, Rendering
    <3>2. s.dir.version \in Nat /\ s.dir.version < epoch
          BY <2>4, <3>1, VersionIs DEF Types
    <3>3. PICK r \in Repos : r = Repo
          BY <3>1
    <3>4. Shows(entries', disk', linked', Nat, r, made'.segments.seen)
          BY <2>4, <3>3, DrawShows
    <3>5. Shows(entries', disk', linked', {s.dir.version}, s.dir.repo, s.seen)
      <4>1. Shows(entries', disk', linked', Nat, s.dir.repo, s.seen)
            BY <2>4, <3>3, <3>4
      <4> QED BY <3>2, <4>1, ShowsAt
    <3> QED BY <2>1, <3>2, <3>5
  <2> QED BY <2>3, <2>4, ScansMove
<1> QED BY <1>1, <1>2

\* What an entry knows of the rules, it knows after a step of the daemon.
LEMMA FiltersStep ==
    ASSUME Types, NoneLost, AllFiltered, DaemonNext, ~Stop PROVE AllFiltered'
<1>1. FInv /\ disk \in [Repos -> Disk]
      BY DEF Types, FInv, IInv, RestOK
<1>2. CASE Next
      BY <1>1, <1>2, FilteredStep DEF FInv
<1>3. CASE OnlyNotifies
  <2>1. PICK r \in Repos : Notify(r, "meta") /\ disk' = disk
        BY <1>3 DEF OnlyNotifies, Types, WorldOK
  <2> QED BY <1>1, <2>1, MetaIsPath, NotifyFiltered
<1>4. CASE WritesUnwatched
  <2>1. PICK r \in linked, p \in WorkFiles :
          disk' = [disk EXCEPT ![r] = [disk[r] EXCEPT !.content =
                                         [disk[r].content EXCEPT ![p] = 1 - @]]]
        BY <1>4 DEF WritesUnwatched
  <2>2. entries' = entries
        BY <1>4 DEF WritesUnwatched
  <2>3. \A t \in Repos : disk'[t].rules = disk[t].rules
        BY <1>1, <2>1 DEF Disk
  <2> QED BY <1>1, <2>2, <2>3, ChangedFiltered
<1>5. CASE LeavesAlone
      BY <1>5 DEF LeavesAlone, AllFiltered
<1> QED BY <1>2, <1>3, <1>4, <1>5, WatcherMoves

LEMMA CoherentInvStep ==
    ASSUME Steady PROVE CoherentInv /\ [DaemonNext]_allVars => CoherentInv'
<1> SUFFICES ASSUME CoherentInv, [DaemonNext]_allVars PROVE CoherentInv'
    OBVIOUS
<1>1. Types'
      BY TypesStep DEF CoherentInv
<1>2. CASE DaemonNext
  <2>1. RulesFollowed'
    <3>1. CASE Stop
      <4>1. DOMAIN entries' = {} /\ disk' = disk
            BY <3>1 DEF Stop, Blank
      <4> QED BY <4>1 DEF CoherentInv, RulesFollowed, RulesKnown, AllFiltered
    <3>2. CASE ~Stop
      <4>1. RulesKnown'
            BY <1>2, <3>2, StepMoves DEF Reports
      <4>2. ASSUME NoneLost PROVE AllFiltered'
            BY <1>2, <3>2, <4>2, FiltersStep DEF CoherentInv, RulesFollowed
      <4> QED BY <4>1, <4>2 DEF RulesFollowed
    <3> QED BY <3>1, <3>2
  <2>2. ReposKnown'
        BY <1>2, ReposKnownStep DEF CoherentInv
  <2>3. LruShows' /\ ScansShow' /\ MadeShows'
        BY <1>2, LruShowsStep, ScansShowStep, MadeShowsStep
  <2> QED BY <1>1, <2>1, <2>2, <2>3 DEF CoherentInv
<1>3. CASE UNCHANGED allVars
  <2> USE <1>3 DEF allVars, vars, daemonVars, worldVars, gitVars, configVars, keptVars, requestVars,
                   CoherentInv
  <2>1. RulesFollowed' /\ ReposKnown'
        BY DEF RulesFollowed, RulesKnown, AllFiltered, ReposKnown, Repo
  <2>2. LruShows' /\ ScansShow' /\ MadeShows'
        BY DEF LruShows, ScansShow, MadeShows, Repo
  <2> QED BY <1>1, <2>1, <2>2
<1> QED BY <1>2, <1>3

LEMMA CoherentInit ==
    ASSUME Steady PROVE DaemonInit => CoherentInv
<1> SUFFICES ASSUME DaemonInit PROVE CoherentInv
    OBVIOUS
<1> USE DEF DaemonInit
<1>1. Types
      BY TypesInit
<1>2. RulesFollowed
      BY ChangeInit, FilteredInit DEF CInv, FInv, RulesFollowed
<1>3. DOMAIN found = {} /\ DOMAIN lru = {} /\ scans = {}
      OBVIOUS
<1>4. ReposKnown
      BY <1>3 DEF Steady, ReposKnown, Serving, Rendering
<1>5. LruShows /\ ScansShow /\ MadeShows
      BY <1>3 DEF LruShows, ScansShow, MadeShows
<1> QED BY <1>1, <1>2, <1>4, <1>5 DEF CoherentInv

\* Where a view shows what its entry does not know better, it is coherent.
LEMMA ShowsCoherent ==
    ASSUME Types, ReposKnown, NEW r \in Repos, NEW v, NEW seen,
           Shows(entries, disk, linked, {v}, r, seen),
           "meta" \notin UNION RuleSets
    PROVE  Coherent(SolidView, v, r, seen)
<1> SUFFICES ASSUME Watched(r), v = Version(r),
                    Displayed(SolidView, seen) # Displayed(SolidView, Now(r))
             PROVE  Unsettled(EntryOf(r))
    BY DEF Coherent, Current
<1> USE DEF Types
<1>1. PICK i \in DOMAIN entries : entries[i].repo = r
      BY DEF Watched
<1>2. EntryOf(r) = entries[i] /\ entries[i].version \in {v}
      BY <1>1, VersionIs
<1>3. Now(r) = disk[r] /\ disk[r] \in Disk
      BY DEF ReposKnown, Now, IInv, RestOK
<1>4. \A p : Reported(entries[i], p) => Unsettled(entries[i])
      BY DEF Reported, Unsettled, Signaled, Completions
<1>5. /\ seen \in Disk
      /\ r \in linked => Reported(entries[i], "meta")
      /\ r \notin linked => \A p \in SolidNames :
            Content(disk[r], p) # Content(seen, p) => Reported(entries[i], p)
  <2>1. \A p \in SolidNames : p \in Names
        BY DEF SolidNames, SolidPaths, Names
  <2> QED BY <1>1, <1>2, <2>1 DEF Shows, Told
<1>6. SolidView(disk[r]) # SolidView(seen)
  <2>1. NoRepo \notin Disk
        BY DaemonAssumption
  <2>2. seen # NoRepo /\ disk[r] # NoRepo
        BY <1>3, <1>5, <2>1
  <2> QED BY <1>3, <2>2 DEF Displayed
<1>7. PICK p \in SolidNames : Content(disk[r], p) # Content(seen, p)
      BY <1>6, SolidDiffers
<1> QED BY <1>2, <1>4, <1>5, <1>7
\* However requests, renders, edits, switches, losses of the kernel and
\* restarts interleave: a cached prompt, and a scan that the directories of one
\* repository share, that is found under the version the repository has now
\* shows the repository as it is, in all that no rules hide, or its entry has a
\* notification still to act on.
THEOREM CachesStayCoherent ==
    ASSUME "meta" \notin UNION RuleSets, "git" \notin World
    PROVE  DaemonSpec => []SolidCachesCoherent
<1>1. Steady
      BY DEF Steady
<1>2. CoherentInv => SolidCachesCoherent
  <2> SUFFICES ASSUME CoherentInv PROVE SolidCachesCoherent
      OBVIOUS
  <2> USE DEF CoherentInv
  <2>1. ASSUME NEW i \in DOMAIN lru, NEW c, c = lru[i], NEW r, r = RepoOf[c.key.cwd], r # NoRepo
        PROVE  Coherent(SolidView, c.key.version, r, c.segments.seen)
    <3>1. c \in Fitting
          BY <2>1, ElementOfSeq, LenProperties DEF Types, LruOK
    <3>2. r \in Repos
          BY <2>1, <3>1, DaemonAssumption DEF Fitting, CacheEntries, Keys
    <3>3. Shows(entries, disk, linked, {c.key.version}, r, c.segments.seen)
          BY <2>1 DEF LruShows
    <3> QED BY <1>1, <3>2, <3>3, ShowsCoherent DEF Steady
  <2>2. ASSUME NEW s \in scans
        PROVE  Coherent(SolidView, s.dir.version, s.dir.repo, s.seen)
    <3>1. s.dir.repo \in Repos
          BY DEF Types, ScansOK
    <3>2. Shows(entries, disk, linked, {s.dir.version}, s.dir.repo, s.seen)
          BY DEF ScansShow
    <3> QED BY <1>1, <3>1, <3>2, ShowsCoherent DEF Steady
  <2> QED BY <2>1, <2>2 DEF SolidCachesCoherent, AllCoherent
<1> QED BY <1>1, <1>2, CoherentInit, CoherentInvStep, PTL DEF DaemonSpec

\* What is shown of a repository beyond the rules is some file's content.
LEMMA ShownDiffers ==
    ASSUME NEW d \in Disk, NEW b \in Disk, d.rules = b.rules, View(d) # View(b)
    PROVE  \E p \in Shown(d) : d.content[p] # b.content[p]
<1>1. Shown(d) = Shown(b)
      BY DEF Shown
<1> QED BY <1>1 DEF View

\* The same of all that is shown, when no record is lost and the rules match
\* nothing that git status shows all the same.
LEMMA ShowsAllCoherent ==
    ASSUME Types, RulesFollowed, ReposKnown, NEW r \in Repos, NEW v, NEW seen,
           Shows(entries, disk, linked, {v}, r, seen),
           NoneLost, ({"meta"} \cup Tracked) \cap UNION RuleSets = {}
    PROVE  Coherent(View, v, r, seen)
<1> SUFFICES ASSUME Watched(r), v = Version(r),
                    Displayed(View, seen) # Displayed(View, Now(r))
             PROVE  Unsettled(EntryOf(r))
    BY DEF Coherent, Current
<1> USE DEF Types
<1>1. PICK i \in DOMAIN entries : entries[i].repo = r
      BY DEF Watched
<1>2. EntryOf(r) = entries[i] /\ entries[i].version \in {v}
      BY <1>1, VersionIs
<1>3. Now(r) = disk[r] /\ disk[r] \in Disk
      BY DEF ReposKnown, Now, IInv, RestOK
<1>4. \A p : Reported(entries[i], p) => Unsettled(entries[i])
      BY DEF Reported, Unsettled, Signaled, Completions
<1>5. /\ seen \in Disk
      /\ r \in linked => Reported(entries[i], "meta")
      /\ r \notin linked => \A p \in Names :
            Content(disk[r], p) # Content(seen, p) => Told(entries[i], disk[r], p)
      BY <1>1, <1>2 DEF Shows
<1>6. View(disk[r]) # View(seen)
  <2>1. NoRepo \notin Disk
        BY DaemonAssumption
  <2>2. seen # NoRepo /\ disk[r] # NoRepo
        BY <1>3, <1>5, <2>1
  <2> QED BY <1>3, <2>2 DEF Displayed
<1>7. CASE r \in linked
      BY <1>2, <1>4, <1>5, <1>7
<1>8. CASE r \notin linked /\ disk[r].rules # seen.rules
  <2>1. ".gitignore" \in SolidNames \cap Names
        BY DEF SolidNames, Names
  <2>2. Told(entries[i], disk[r], ".gitignore")
        BY <1>5, <1>8, <2>1 DEF Content
  <2> QED BY <1>2, <1>4, <2>1, <2>2 DEF Told
<1>9. CASE r \notin linked /\ disk[r].rules = seen.rules
  <2>1. PICK p \in Shown(disk[r]) : disk[r].content[p] # seen.content[p]
        BY <1>3, <1>5, <1>6, <1>9, ShownDiffers
  <2>2. p \notin disk[r].rules
    <3>1. disk[r].rules \in RuleSets
          BY DEF RulesFollowed, RulesKnown
    <3> QED BY <2>1, <3>1 DEF Shown
  <2>3. p \in Names /\ p # ".gitignore"
        BY <2>1, FilesAssumption DEF Shown, Names, Matchable, NamedPaths
  <2>4. Told(entries[i], disk[r], p)
        BY <1>5, <1>9, <2>1, <2>3 DEF Content
  <2> QED BY <1>2, <1>4, <2>2, <2>4 DEF Told
<1> QED BY <1>7, <1>8, <1>9
\* Where the kernel loses no record and nobody edits .gitignore while ensure()
\* runs, that is so of all that the prompt shows, also of what rules could hide
\* and at present do not; provided that no rules match what git status shows in
\* spite of them, the .git directory and what is tracked.
THEOREM CachesStayComplete ==
    ASSUME NoneLost, ({"meta"} \cup Tracked) \cap UNION RuleSets = {},
           "git" \notin World
    PROVE  DaemonSpec => []CachesCoherent
<1>1. Steady
      BY DEF Steady
<1>2. CoherentInv => CachesCoherent
  <2> SUFFICES ASSUME CoherentInv PROVE CachesCoherent
      OBVIOUS
  <2> USE DEF CoherentInv
  <2>1. ASSUME NEW i \in DOMAIN lru, NEW c, c = lru[i], NEW r, r = RepoOf[c.key.cwd], r # NoRepo
        PROVE  Coherent(View, c.key.version, r, c.segments.seen)
    <3>1. c \in Fitting
          BY <2>1, ElementOfSeq, LenProperties DEF Types, LruOK
    <3>2. r \in Repos
          BY <2>1, <3>1, DaemonAssumption DEF Fitting, CacheEntries, Keys
    <3>3. Shows(entries, disk, linked, {c.key.version}, r, c.segments.seen)
          BY <2>1 DEF LruShows
    <3> QED BY <3>2, <3>3, ShowsAllCoherent
  <2>2. ASSUME NEW s \in scans
        PROVE  Coherent(View, s.dir.version, s.dir.repo, s.seen)
    <3>1. s.dir.repo \in Repos
          BY DEF Types, ScansOK
    <3>2. Shows(entries, disk, linked, {s.dir.version}, s.dir.repo, s.seen)
          BY DEF ScansShow
    <3> QED BY <3>1, <3>2, ShowsAllCoherent
  <2> QED BY <2>1, <2>2 DEF CachesCoherent, AllCoherent
<1> QED BY <1>1, <1>2, CoherentInit, CoherentInvStep, PTL DEF DaemonSpec

\* In the daemon, too, an entry filters by the rules on disk or has a completion
\* to read them at, across restarts and whatever requests come, if the kernel
\* loses no record and nobody edits them while ensure() runs.
THEOREM RulesOnDiskServed == ASSUME NoneLost PROVE DaemonSpec => []FilterCurrent
<1>1. Types /\ AllFiltered => FilterCurrent
      BY DEF AllFiltered, FilterCurrent, Filtered, Recorded, Signaled, Completions
<1>2. DaemonInit => AllFiltered
      BY FilteredInit DEF DaemonInit, FInv
<1>3. Types /\ AllFiltered /\ [DaemonNext]_allVars => AllFiltered'
  <2> SUFFICES ASSUME Types, AllFiltered, [DaemonNext]_allVars PROVE AllFiltered'
      OBVIOUS
  <2>1. CASE DaemonNext /\ ~Stop
        BY <2>1, FiltersStep
  <2>2. CASE Stop
    <3>1. DOMAIN entries' = {}
          BY <2>2 DEF Stop, Blank
    <3> QED BY <3>1 DEF AllFiltered
  <2>3. CASE UNCHANGED allVars
        BY <2>3 DEF allVars, vars, AllFiltered
  <2> QED BY <2>1, <2>2, <2>3
<1> QED BY <1>1, <1>2, <1>3, TypesHold, PTL DEF DaemonSpec

\* Without linked work trees, a step of the daemon or of its surroundings is one
\* of the watcher's, or leaves the watcher alone, or ends it.
LEMMA NothingLinked ==
    ASSUME Types, DaemonNext, linked = {}
    PROVE  linked' = {} /\ (Next \/ LeavesAlone \/ Stop)
<1>1. ~OnlyNotifies /\ ~WritesUnwatched
      BY DEF OnlyNotifies, WritesUnwatched
<1> QED BY <1>1, GitStays, WatcherMoves

\* In the daemon, too, builds are free, and so are the bust directories that
\* every render makes and removes: where no repository is a linked work tree and
\* the kernel does its part, a new version is due only to a repository that has
\* changed in a way its rules do not match ("file ignored by the current
\* .gitignore must not bump", src/src/watch.rs:1082).
THEOREM RenderingIsFree ==
    ASSUME NoneLost, NoneFails, Linkable = {} PROVE DaemonSpec => []NoSpuriousBump
<1> DEFINE Free == BInv /\ linked = {}
<1>1. Free => NoSpuriousBump
      BY DEF BInv, AllAccounted, Accounted, Unseen, NoSpuriousBump
<1>2. DaemonInit => Free
      BY AccountedInit DEF DaemonInit
<1>3. (Types /\ Types' /\ VersionLookup /\ VersionLookup' /\ Free /\ [DaemonNext]_allVars)
         => Free'
  <2> SUFFICES ASSUME Types, Types', VersionLookup, VersionLookup', Free, [DaemonNext]_allVars
               PROVE  Free'
      OBVIOUS
  <2>1. CASE UNCHANGED allVars
    <3>1. UNCHANGED vars /\ linked' = linked
          BY <2>1 DEF allVars, daemonVars, worldVars, gitVars
    <3> QED BY <3>1, AccountedStep
  <2>2. CASE DaemonNext /\ Next
        BY <2>2, AccountedStep, NothingLinked
  <2>3. CASE DaemonNext /\ LeavesAlone
    <3>1. linked' = {} /\ History /\ entries' = entries /\ disk' = disk
          BY <2>3, NothingLinked DEF DaemonNext, LeavesAlone
    <3>2. IInv' /\ AllFiltered'
          BY <3>1 DEF Types, BInv, FInv, AllFiltered
    <3>3. AllAccounted'
      <4>1. Traced
            BY <3>1, <3>2 DEF Traced
      <4> QED BY <3>1, <4>1, ChangedAccounted
    <3> QED BY <3>1, <3>2, <3>3 DEF BInv, FInv
  <2>4. CASE DaemonNext /\ Stop
    <3>1. DOMAIN entries' = {} /\ linked' = {}
          BY <2>4, NothingLinked DEF Stop, Blank
    <3> QED BY <3>1 DEF Types, BInv, FInv, AllFiltered, AllAccounted
  <2> QED BY <2>1, <2>2, <2>3, <2>4, NothingLinked
<1> QED BY <1>1, <1>2, <1>3, TypesHold, LookupHolds, PTL DEF DaemonSpec

----------------------------------------------------------------------------
(* What a request may rely on of the watcher.                              *)

\* An entry is lost to ensure() and to the end of the daemon alone.
LEMMA WatchedStays ==
    ASSUME IInv, NEW r \in Repos, Watched(r),
           \/ Flush
           \/ \E t \in Repos, p \in Paths : Notify(t, p)
           \/ \E t \in Repos : RequestFails(t)
           \/ entries' = entries
    PROVE  Watched(r)'
<1>1. PICK j \in DOMAIN entries : entries[j].repo = r
      BY DEF Watched
<1>2. SUFFICES j \in DOMAIN entries' /\ entries'[j].repo = entries[j].repo
      BY <1>1 DEF Watched
<1>3. entries[j] \in Entry
      BY EntryTypes
<1>4. CASE Flush
      BY <1>3, <1>4 DEF Flush, Entry
<1>5. CASE \E t \in Repos, p \in Paths : Notify(t, p)
  <2>1. PICK t \in Repos, p \in Paths : Notify(t, p)
        BY <1>5
  <2>2. PICK q \in {p, Lost} :
          entries' = [i \in DOMAIN entries |->
                        IF entries[i].repo = t THEN Notified(entries[i], p, q)
                                               ELSE entries[i]]
        BY <2>1 DEF Notify
  <2> QED BY <1>3, <2>2, NotifiedKeeps
<1>6. CASE \E t \in Repos : RequestFails(t)
      BY <1>3, <1>6 DEF RequestFails, Entry
<1>7. CASE entries' = entries
      BY <1>7
<1> QED BY <1>4, <1>5, <1>6, <1>7

\* Where directories open, ensure() leaves an entry.
LEMMA EnsureWatches ==
    ASSUME IInv, NEW r \in Repos, Ensure(r), "open" \notin Faults
    PROVE  Watched(r)'
<1>1. CASE EnsureWatched(r)
  <2>1. PICK k \in DOMAIN entries, ok \in BOOLEAN :
          /\ entries[k].repo = r
          /\ entries' = [entries EXCEPT ![k] =
               IF [entries[k] EXCEPT !.last_touch = touch].armed
               THEN [entries[k] EXCEPT !.last_touch = touch]
               ELSE [StartWatch([entries[k] EXCEPT !.last_touch = touch], ok)
                        EXCEPT !.pending = TRUE]]
        BY <1>1 DEF EnsureWatched, ArmResults
  <2>2. entries[k] \in Entry
        BY EntryTypes
  <2>3. entries'[k].repo = entries[k].repo /\ k \in DOMAIN entries'
    <3>1. [entries[k] EXCEPT !.last_touch = touch].repo = entries[k].repo
          BY <2>2 DEF Entry
    <3>2. [entries[k] EXCEPT !.last_touch = touch] \in Entry
          BY <2>2 DEF Entry, IInv, RestOK
    <3>3. \A e \in Entry : [StartWatch(e, ok) EXCEPT !.pending = TRUE].repo = e.repo
          BY DEF StartWatch, Entry
    <3> QED BY <2>1, <3>1, <3>2, <3>3
  <2> QED BY <2>1, <2>3 DEF Watched
<1>2. CASE EnsureNew(r)
  <2>1. PICK ok \in BOOLEAN :
          entries' = Append(EvictLru(entries),
                            [StartWatch([repo |-> r, ignore |-> disk[r].rules, pending |-> FALSE,
                                         armed |-> FALSE, last_touch |-> touch, version |-> epoch,
                                         io |-> "none", batch |-> {}, queue |-> {}], ok)
                               EXCEPT !.pending = ~ok])
        BY <1>2 DEF EnsureNew, ArmResults
  <2> DEFINE e == [StartWatch([repo |-> r, ignore |-> disk[r].rules, pending |-> FALSE,
                               armed |-> FALSE, last_touch |-> touch, version |-> epoch,
                               io |-> "none", batch |-> {}, queue |-> {}], ok)
                     EXCEPT !.pending = ~ok]
             kept == EvictLru(entries)
  <2>2. e.repo = r
        BY DEF StartWatch
  <2>3. kept \in Seq(Entry)
        BY EvictLruShape DEF IInv, VectorOK, Bounded
  <2>4. entries' = Append(kept, e)
        BY <2>1
  <2> HIDE DEF e, kept
  <2>5. Len(kept) + 1 \in DOMAIN Append(kept, e) /\ Append(kept, e)[Len(kept) + 1] = e
    <3>1. kept \in Seq(Entry \cup {e}) /\ Len(kept) \in Nat
          BY <2>3, LenProperties
    <3> QED BY <3>1, AppendProperties, LenProperties
  <2> QED BY <2>2, <2>4, <2>5 DEF Watched
<1> QED BY <1>1, <1>2 DEF Ensure, EnsureFails

\* From ensure() to the look at the cache a repository is watched.
InWatch == pc \in {"flush", "lookup"} /\ Repo # NoRepo => Watched(Repo)

LEMMA InWatchStep ==
    ASSUME Types, InWatch, DaemonNext, "open" \notin Faults PROVE InWatch'
<1> USE DEF Types
<1>1. SUFFICES ASSUME pc' \in {"flush", "lookup"}, Repo' # NoRepo
               PROVE  Watched(Repo)'
      BY DEF InWatch
<1>2. CASE EnsureRepo
  <2>1. Repo' = Repo /\ Repo \in Repos \cup {NoRepo}
        BY <1>2, RepoType DEF EnsureRepo, requestVars, Repo, Serving
  <2>2. PICK r \in Repos : r = Repo
        BY <1>1, <2>1
  <2>3. Ensure(r)
        BY <1>1, <1>2, <2>1, <2>2 DEF EnsureRepo
  <2>4. Watched(r)'
        BY <2>3, EnsureWatches
  <2> QED BY <2>1, <2>2, <2>4 DEF Watched
<1>3. ASSUME \/ Flush
             \/ \E t \in Repos, p \in Paths : Notify(t, p)
             \/ \E t \in Repos : RequestFails(t)
             \/ entries' = entries,
             Repo' = Repo, pc \in {"flush", "lookup"}
      PROVE  Watched(Repo)'
  <2>1. Repo \in Repos
        BY <1>1, <1>3, RepoType DEF Serving
  <2>2. PICK r \in Repos : r = Repo /\ r = Repo'
        BY <1>3, <2>1
  <2>3. Watched(r)
        BY <1>1, <1>3, <2>2 DEF InWatch
  <2>4. Watched(r)'
        BY <1>3, <2>3, WatchedStays
  <2> QED BY <2>2, <2>4 DEF Watched
<1>4. CASE FlushRepo
      BY <1>3, <1>4 DEF FlushRepo, requestVars, Repo
<1>5. CASE Surroundings
  <2>1. Repo' = Repo /\ pc' = pc
        BY <1>5, DaemonRests DEF requestVars, Repo
  <2>2. \/ \E t \in Repos, p \in Paths : Notify(t, p)
        \/ \E t \in Repos : RequestFails(t)
        \/ entries' = entries
    <3>1. "meta" \in Paths /\ ".gitignore" \in Paths
          BY DEF Paths, NamedPaths
    <3> QED BY <1>5, <3>1 DEF Surroundings, DiskChanges, WriteFile, Write, EditGitignore, GitWrites,
                              GitComesAndGoes, Tick, SaveConfig, SetEnv, vars
  <2> QED BY <1>1, <1>3, <2>1, <2>2
<1>6. CASE Draw
      BY <1>1, <1>6 DEF Draw, Rendering
<1>7. CASE Sweep
      BY <1>1, <1>7 DEF Sweep, daemonVars
<1>8. ~\/ \E s \in Shells, kind \in Asks, cwd \in Cwds, k \in Keymaps, st \in Statuses,
             nc \in CacheFlags : Ask(s, kind, cwd, k, st, nc)
       \/ SwitchConfig \/ StatConfig \/ ReadConfig \/ StampConfig
       \/ RenderUncached \/ Sample \/ RenderCached \/ Keep
       \/ (\E s \in Shells : Start(s)) \/ WarmUp \/ Stop
      BY <1>1 DEF Ask, SwitchConfig, StatConfig, ReadConfig, StampConfig, RenderUncached, Sample,
                  RenderCached, Keep, Returned, Answer, Start, WarmUp, Stop
<1> QED BY <1>2, <1>4, <1>5, <1>6, <1>7, <1>8 DEF DaemonNext, Serve, Surroundings

\* Where every directory that is asked for can be opened, "watcher_version 0
\* must never pin stale git status across renders"
\* (src/tests/render_reuse_fresh.rs:55) is kept: neither eviction nor whatever
\* happens between ensure() and the look at the cache leaves a repository
\* without a version there.
THEOREM WatchedNeverPins == ASSUME "open" \notin Faults PROVE DaemonSpec => ZeroNeverPins
<1>1. DaemonInit => InWatch
      BY DEF DaemonInit, InWatch
<1>2. Types /\ InWatch /\ [DaemonNext]_allVars => InWatch'
  <2>1. UNCHANGED allVars /\ InWatch => InWatch'
        BY DEF allVars, vars, daemonVars, requestVars, InWatch, Repo, Watched
  <2> QED BY <2>1, InWatchStep
<1>3. Types /\ InWatch => ~(pc = "lookup" /\ Repo # NoRepo /\ Key.version = 0)
  <2> SUFFICES ASSUME Types, InWatch, pc = "lookup", Repo # NoRepo, Key.version = 0
               PROVE  FALSE
      OBVIOUS
  <2>1. PICK r \in Repos : r = Repo
        BY RepoType DEF Types, Serving
  <2>2. PICK i \in DOMAIN entries : entries[i].repo = r
        BY <2>1 DEF InWatch, Watched
  <2>3. Version(r) = entries[i].version
        BY <2>2, VersionIs DEF Types
  <2>4. entries[i].version \in 1 .. epoch - 1
        BY <2>2 DEF Types, IInv, VectorOK, DistinctVersions
  <2>5. Version(r) = 0
        BY <2>1 DEF Key
  <2> QED BY <2>3, <2>4, <2>5
<1>4. ~(pc = "lookup" /\ Repo # NoRepo /\ Key.version = 0)
      => [Answers /\ pc = "lookup" /\ Repo # NoRepo /\ Key.version = 0 =>
            Displayed(View, reply'.prompt.seen) = Displayed(View, Now(Repo))]_allVars
      OBVIOUS
<1> QED BY <1>1, <1>2, <1>3, <1>4, TypesHold, PTL DEF DaemonSpec, ZeroNeverPins

\* The versions that requests put into keys are those of VersionSource: whatever
\* renders, edits and requests come between, a version stands for one state of
\* one repository, for as long as the daemon lives.
THEOREM KeysAreFresh == ASSUME "daemon" \notin World PROVE DaemonSpec => VersionsAreFresh
<1>1. DaemonInit => Versions!Init
  <2> SUFFICES ASSUME DaemonInit PROVE Versions!Init
      OBVIOUS
  <2>1. \A r \in Repos : Version(r) = 0
        BY DEF DaemonInit, Init, Version, Watched
  <2>2. epoch \in Nat \ {0}
        BY DEF DaemonInit, Init
  <2> QED BY <2>1, <2>2 DEF Versions!Init
<1>2. (/\ Types /\ Types' /\ VersionLookup /\ VersionLookup'
       /\ [DaemonNext]_allVars)
      => [Versions!Step /\ Versions!Distinct']_Versions!vars
  <2> SUFFICES ASSUME Types, Types', VersionLookup, VersionLookup', [DaemonNext]_allVars
               PROVE  [Versions!Step /\ Versions!Distinct']_Versions!vars
      OBVIOUS
  <2>1. CASE DaemonNext
    <3>1. VersionsMove
          BY <2>1, WatcherKept DEF Stop
    <3> QED BY <3>1, VersionsStep DEF Types
  <2>2. CASE UNCHANGED allVars
        BY <2>2 DEF allVars, vars, Versions!vars, Version, EntryOf, Watched
  <2> QED BY <2>1, <2>2
<1> QED BY <1>1, <1>2, TypesHold, LookupHolds, PTL DEF DaemonSpec, VersionsAreFresh, Versions!Spec

\* Where no .git comes or goes, "no bust dir should be created for non-git"
\* (src/tests/bust_cleanup.rs:85) is kept: a repository that find_git_dir
\* remembers is one that is still there to have the directory.
THEOREM NothingLeftWhereGitStays ==
    ASSUME "git" \notin World PROVE DaemonSpec => []NothingLeftBehind
<1> DEFINE Clean == present = Repos /\ litter = {}
<1>1. DaemonInit => Clean
      BY DEF DaemonInit
<1>2. Types /\ Clean /\ [DaemonNext]_allVars => Clean'
  <2> SUFFICES ASSUME Types, Clean, [DaemonNext]_allVars PROVE Clean'
      OBVIOUS
  <2>1. CASE UNCHANGED allVars
        BY <2>1 DEF allVars, daemonVars, worldVars, gitVars
  <2>2. CASE Draw
    <3>1. Repo \in Repos \cup {NoRepo}
          BY <2>2, RepoType DEF Draw, Types, Serving
    <3>2. present' = present /\ (litter' = litter \/ Littered)
          BY <2>2 DEF Draw, worldVars, gitVars
    <3> QED BY <3>1, <3>2 DEF Littered
  <2>3. CASE DaemonNext /\ ~Draw
    <3>1. present' = present
          BY <2>3, GitStays
    <3>2. ~\E r \in Repos : GitComesAndGoes(r)
          BY DEF GitComesAndGoes
    <3>3. litter' = litter
          BY <2>3, <3>2
             DEF DaemonNext, Serve, DiskChanges, WriteFile, GitWrites, Ask, SwitchConfig, StatConfig,
                 ReadConfig, StampConfig, RenderUncached, EnsureRepo, FlushRepo, Sample,
                 RenderCached, Keep, Start, WarmUp, Stop, Sweep, Tick, SaveConfig, SetEnv, daemonVars
    <3> QED BY <3>1, <3>3
  <2> QED BY <2>1, <2>2, <2>3
<1>3. Clean => NothingLeftBehind
      BY DEF NothingLeftBehind
<1> QED BY <1>1, <1>2, <1>3, TypesHold, PTL DEF DaemonSpec
=============================================================================
