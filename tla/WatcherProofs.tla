--------------------------- MODULE WatcherProofs ---------------------------
(***************************************************************************)
(* Proofs about Watcher, for any repositories, capacity, files, rules,     *)
(* faults and bounds: its entries and versions, that it forgets no change  *)
(* and, while the kernel loses none, reports no other.                     *)
(***************************************************************************)
EXTENDS Watcher, FiniteSetTheorems, SequenceTheorems, WellFoundedInduction, TLAPS

----------------------------------------------------------------------------
(* What the operators on one entry keep and change.                        *)

\* A new request changes the kernel's side of an entry and `armed`, no more.
LEMMA StartWatchKeeps ==
    ASSUME NEW e \in Entry, NEW ok \in BOOLEAN
    PROVE  LET s == StartWatch(e, ok) IN
           /\ s \in Entry
           /\ s.repo = e.repo /\ s.version = e.version /\ s.pending = e.pending
           /\ s.ignore = e.ignore /\ s.last_touch = e.last_touch
           /\ s.armed = ok /\ s.queue = {}
           /\ s.io # "none" <=> ok
BY DEF StartWatch, Entry, Completions

\* A notification changes the kernel's side of an entry alone.
LEMMA NotifiedKeeps ==
    ASSUME NEW e \in Entry, NEW p \in Paths, NEW q \in {p, Lost}
    PROVE  LET n == Notified(e, p, q) IN
           /\ n \in Entry
           /\ n.repo = e.repo /\ n.version = e.version /\ n.pending = e.pending
           /\ n.ignore = e.ignore /\ n.last_touch = e.last_touch
           /\ n.armed = e.armed
           /\ n.io # "none" <=> e.io # "none"
BY DEF Notified, Signaled, Entry, Completions

\* Handling a completion leaves the version for flush() to change.
LEMMA HandleEventKeeps ==
    ASSUME NEW e \in Entry, NEW rules \in SUBSET Matchable, NEW ok \in BOOLEAN
    PROVE  LET h == HandleEvent(e, rules, ok) IN
           /\ h \in Entry
           /\ h.repo = e.repo /\ h.version = e.version
           /\ h.last_touch = e.last_touch
           /\ h.armed = ok
           /\ h.io # "none" <=> ok
<1> DEFINE s == StartWatch(e, ok)
           reload == e.io = "records" /\ ".gitignore" \in e.batch
           ignore == IF reload THEN rules ELSE e.ignore
           changed == e.io = "records" => reload \/ FilterVisible(ignore, e.batch)
           due == s.pending \/ changed \/ ~ok
<1>1. /\ s \in Entry /\ s.repo = e.repo /\ s.version = e.version
      /\ s.last_touch = e.last_touch /\ s.armed = ok
      /\ s.io # "none" <=> ok
      BY StartWatchKeeps
<1>2. ignore \in SUBSET Matchable
      BY DEF Entry
<1>3. due \in BOOLEAN
      OBVIOUS
<1>4. HandleEvent(e, rules, ok)
        = [s EXCEPT !.ignore = ignore, !.pending = due]
      BY DEF HandleEvent
<1> HIDE DEF s, ignore, due
<1> QED BY <1>1, <1>2, <1>3, <1>4 DEF Entry

----------------------------------------------------------------------------
(* The vector of entries.                                                  *)

\* Changing entries in place keeps the vector's length.
LEMMA InPlace ==
    ASSUME NEW es \in Seq(Entry), NEW fs,
           fs = [i \in DOMAIN es |-> fs[i]],
           \A i \in DOMAIN es : fs[i] \in Entry
    PROVE  /\ fs \in Seq(Entry)
           /\ Len(fs) = Len(es)
           /\ DOMAIN fs = DOMAIN es
           /\ DOMAIN es = 1 .. Len(es)
<1>1. Len(es) \in Nat /\ DOMAIN es = 1 .. Len(es)
      BY LenProperties
<1>2. fs \in [1 .. Len(es) -> Entry]
      BY <1>1
<1>3. fs \in Seq(Entry)
      BY <1>1, <1>2
<1>4. DOMAIN fs = 1 .. Len(es) /\ DOMAIN fs = 1 .. Len(fs) /\ Len(fs) \in Nat
      BY <1>1, <1>2, <1>3, LenProperties
<1> QED BY <1>1, <1>3, <1>4

\* swap_remove leaves the other entries, one of them in another place.
LEMMA SwapRemoveShape ==
    ASSUME NEW es \in Seq(Entry), Len(es) > 0, NEW v
    PROVE  LET rs == SwapRemove(es, v) IN
           /\ rs \in Seq(Entry)
           /\ Len(rs) = Len(es) - 1
           /\ \A i \in DOMAIN rs : /\ (IF i = v THEN Len(es) ELSE i) \in DOMAIN es
                                   /\ rs[i] = es[IF i = v THEN Len(es) ELSE i]
<1> DEFINE swapped == [es EXCEPT ![v] = es[Len(es)]]
<1>1. Len(es) \in Nat /\ DOMAIN es = 1 .. Len(es) /\ DOMAIN swapped = DOMAIN es
      BY LenProperties
<1>2. \A i \in 1 .. Len(es) - 1 :
          /\ swapped[i] = es[IF i = v THEN Len(es) ELSE i]
          /\ (IF i = v THEN Len(es) ELSE i) \in 1 .. Len(es)
          /\ swapped[i] \in Entry
      BY <1>1, ElementOfSeq
<1> HIDE DEF swapped
<1>3. /\ SubSeq(swapped, 1, Len(es) - 1) \in Seq(Entry)
      /\ Len(SubSeq(swapped, 1, Len(es) - 1)) = Len(es) - 1
      /\ \A i \in 1 .. Len(es) - 1 : SubSeq(swapped, 1, Len(es) - 1)[i] = swapped[i]
  <2>1. Len(es) - 1 \in Int
        BY <1>1
  <2>2. \A i \in 1 .. (Len(es) - 1) - 1 + 1 : SubSeq(swapped, 1, Len(es) - 1)[i] = swapped[1 + i - 1]
        BY <1>2, <2>1, SubSeqProperties
  <2>3. SubSeq(swapped, 1, Len(es) - 1) \in Seq(Entry)
        /\ Len(SubSeq(swapped, 1, Len(es) - 1))
             = IF 1 <= Len(es) - 1 THEN (Len(es) - 1) - 1 + 1 ELSE 0
        BY <1>2, <2>1, SubSeqProperties
  <2> QED BY <1>1, <2>2, <2>3
<1>4. DOMAIN SubSeq(swapped, 1, Len(es) - 1) = 1 .. Len(es) - 1
      BY <1>3, LenProperties
<1> QED BY <1>1, <1>2, <1>3, <1>4 DEF SwapRemove, swapped

\* Making room leaves a slot free, and entries that come from different
\* entries of the full vector.
LEMMA EvictLruShape ==
    ASSUME NEW es \in Seq(Entry), Len(es) <= Capacity
    PROVE  LET rs == EvictLru(es) IN
           /\ rs \in Seq(Entry)
           /\ Len(rs) < Capacity
           /\ \E from \in [DOMAIN rs -> DOMAIN es] :
                 /\ \A i \in DOMAIN rs : rs[i] = es[from[i]]
                 /\ \A i, j \in DOMAIN rs : from[i] = from[j] => i = j
<1> DEFINE Goal(rs) ==
             /\ rs \in Seq(Entry)
             /\ Len(rs) < Capacity
             /\ \E from \in [DOMAIN rs -> DOMAIN es] :
                   /\ \A i \in DOMAIN rs : rs[i] = es[from[i]]
                   /\ \A i, j \in DOMAIN rs : from[i] = from[j] => i = j
<1>0. Capacity \in Nat \ {0} /\ Len(es) \in Nat /\ DOMAIN es = 1 .. Len(es)
      BY CapacityAssumption, LenProperties
<1>1. CASE Len(es) < Capacity
  <2> DEFINE from == [i \in DOMAIN es |-> i]
  <2>1. EvictLru(es) = es
        BY <1>0, <1>1 DEF EvictLru
  <2>2. /\ from \in [DOMAIN es -> DOMAIN es]
        /\ \A i \in DOMAIN es : es[i] = es[from[i]]
        /\ \A i, j \in DOMAIN es : from[i] = from[j] => i = j
        OBVIOUS
  <2> HIDE DEF from
  <2>3. Goal(es)
        BY <1>1, <2>2
  <2> QED BY <2>1, <2>3
<1>2. CASE ~(Len(es) < Capacity)
  <2> DEFINE v  == EvictionVictim(es)
             rs == SwapRemove(es, v)
             from == [i \in DOMAIN rs |-> IF i = v THEN Len(es) ELSE i]
  <2>1. EvictLru(es) = rs
        BY <1>0, <1>2 DEF EvictLru
  <2> HIDE DEF v
  <2>2. /\ rs \in Seq(Entry) /\ Len(rs) = Len(es) - 1
        /\ \A i \in DOMAIN rs : (IF i = v THEN Len(es) ELSE i) \in DOMAIN es
                                /\ rs[i] = es[IF i = v THEN Len(es) ELSE i]
    <3>1. Len(es) > 0
          BY <1>0, <1>2
    <3> QED BY <3>1, SwapRemoveShape
  <2>3. DOMAIN rs = 1 .. Len(es) - 1
        BY <2>2, LenProperties
  <2> HIDE DEF rs
  <2>4. from \in [DOMAIN rs -> DOMAIN es] /\ \A i \in DOMAIN rs : rs[i] = es[from[i]]
        BY <2>2
  <2>5. \A i, j \in DOMAIN rs : from[i] = from[j] => i = j
        BY <1>0, <2>3
  <2> HIDE DEF from
  <2>6. Len(rs) < Capacity
        BY <1>0, <2>2
  <2>7. Goal(rs)
        BY <2>2, <2>4, <2>5, <2>6
  <2> QED BY <2>1, <2>7
<1>3. Goal(EvictLru(es))
      BY <1>1, <1>2
<1> QED BY <1>3

\* flush() hands out epoch, epoch + 1, ... : the numbers of two pending entries
\* differ, and are below the new epoch.
LEMMA FlushRanks ==
    ASSUME NEW es \in Seq(Entry)
    PROVE  LET Rank(i) == Cardinality(Before(es, i)) IN
           /\ Cardinality(Pending(es)) \in Nat
           /\ \A i \in Pending(es) : Rank(i) \in 0 .. Cardinality(Pending(es)) - 1
           /\ \A i, j \in Pending(es) : Rank(i) = Rank(j) => i = j
<1>1. DOMAIN es = 1 .. Len(es) /\ Len(es) \in Nat
      BY LenProperties
<1>2. IsFiniteSet(DOMAIN es)
      BY <1>1, FS_Interval
<1>3. Pending(es) \in SUBSET DOMAIN es
      BY DEF Pending
<1>4. IsFiniteSet(Pending(es)) /\ Cardinality(Pending(es)) \in Nat
      BY <1>2, <1>3, FS_Subset, FS_CardinalityType
<1>5. \A S \in SUBSET Pending(es) :
          /\ IsFiniteSet(S) /\ Cardinality(S) \in Nat
          /\ \A T \in SUBSET S : Cardinality(T) <= Cardinality(S)
                                 /\ (Cardinality(S) = Cardinality(T) => S = T)
  <2> TAKE S \in SUBSET Pending(es)
  <2>1. IsFiniteSet(S)
        BY <1>4, FS_Subset
  <2> QED BY <2>1, FS_Subset, FS_CardinalityType
<1>6. \A i \in Pending(es) : Cardinality(Before(es, i)) \in 0 .. Cardinality(Pending(es)) - 1
  <2> TAKE i \in Pending(es)
  <2>1. i \in Int /\ Before(es, i) \in SUBSET Pending(es) /\ i \notin Before(es, i)
        BY <1>1, <1>3 DEF Before
  <2>2. Before(es, i) # Pending(es)
        BY <2>1
  <2> QED BY <1>4, <1>5, <2>1, <2>2
<1>7. \A i, j \in Pending(es) : i < j => Cardinality(Before(es, i)) < Cardinality(Before(es, j))
  <2> SUFFICES ASSUME NEW i \in Pending(es), NEW j \in Pending(es), i < j
               PROVE  Cardinality(Before(es, i)) < Cardinality(Before(es, j))
      OBVIOUS
  <2>1. /\ Before(es, j) \in SUBSET Pending(es)
        /\ Before(es, i) \in SUBSET Before(es, j)
        /\ i \in Before(es, j) /\ i \notin Before(es, i)
        BY <1>1, <1>3 DEF Before
  <2>2. Cardinality(Before(es, j)) \in Nat /\ Cardinality(Before(es, i)) \in Nat
        BY <1>5, <2>1
  <2> QED BY <1>5, <2>1, <2>2
<1>w. \A i, j \in Pending(es) :
          Cardinality(Before(es, i)) = Cardinality(Before(es, j)) => i = j
  <2> SUFFICES ASSUME NEW i \in Pending(es), NEW j \in Pending(es), i # j
               PROVE  Cardinality(Before(es, i)) # Cardinality(Before(es, j))
      OBVIOUS
  <2>1. i < j \/ j < i
        BY <1>1, <1>3
  <2>2. Cardinality(Before(es, j)) \in Int /\ Cardinality(Before(es, i)) \in Int
        BY <1>6
  <2> QED BY <1>7, <2>1, <2>2
<1> QED BY <1>4, <1>6, <1>w

----------------------------------------------------------------------------
(* The inductive invariant of the vector and its counters.                 *)

VectorOK == /\ entries \in Seq(Entry) /\ epoch \in Nat /\ epoch > 0
            /\ Bounded /\ DistinctVersions /\ ArmedMeansOutstanding
RestOK   == /\ touch \in Nat /\ disk \in [Repos -> Disk]
            /\ base \in [Repos -> Disk] /\ altered \in SUBSET Repos

\* What a step may do to the versions: an entry keeps its own, or takes one
\* that was never given out.
VersionsMove ==
    /\ epoch' \in Nat /\ epoch' >= epoch
    /\ \A i \in DOMAIN entries' :
          \/ \E j \in DOMAIN entries : /\ entries[j].repo = entries'[i].repo
                                       /\ entries[j].version = entries'[i].version
          \/ entries'[i].version \in epoch .. epoch' - 1

\* A step that changes entries in place, and neither their repository nor
\* their version, keeps the vector's invariant.
LEMMA InPlaceStep ==
    ASSUME VectorOK, epoch' = epoch,
           entries' = [i \in DOMAIN entries |-> entries'[i]],
           \A i \in DOMAIN entries :
              /\ entries'[i] \in Entry
              /\ entries'[i].repo = entries[i].repo
              /\ entries'[i].version = entries[i].version
              /\ entries'[i].armed <=> entries'[i].io # "none"
    PROVE  VectorOK' /\ VersionsMove
<1>1. entries' \in Seq(Entry) /\ Len(entries') = Len(entries)
      /\ DOMAIN entries' = DOMAIN entries
      BY InPlace DEF VectorOK
<1>2. Bounded'
      BY <1>1 DEF VectorOK, Bounded
<1>3. DistinctVersions'
      BY <1>1 DEF VectorOK, DistinctVersions
<1>4. ArmedMeansOutstanding'
      BY <1>1 DEF VectorOK, ArmedMeansOutstanding
<1>5. VersionsMove
      BY <1>1 DEF VectorOK, VersionsMove
<1> QED BY <1>1, <1>2, <1>3, <1>4, <1>5 DEF VectorOK

\* Notifications reach entries in place.
LEMMA NotifyStep ==
    ASSUME VectorOK, NEW r \in Repos, NEW p \in Paths, Notify(r, p), epoch' = epoch
    PROVE  VectorOK' /\ VersionsMove
<1>1. PICK q \in {p, Lost} :
          entries' = [i \in DOMAIN entries |->
                        IF entries[i].repo = r THEN Notified(entries[i], p, q)
                                               ELSE entries[i]]
      BY DEF Notify
<1>2. entries \in Seq(Entry) /\ \A i \in DOMAIN entries : entries[i] \in Entry
      BY ElementOfSeq, LenProperties DEF VectorOK
<1>3. \A i \in DOMAIN entries :
          /\ entries'[i] \in Entry
          /\ entries'[i].repo = entries[i].repo
          /\ entries'[i].version = entries[i].version
          /\ entries'[i].armed <=> entries'[i].io # "none"
  <2> TAKE i \in DOMAIN entries
  <2>1. entries[i].armed <=> entries[i].io # "none"
        BY DEF VectorOK, ArmedMeansOutstanding
  <2>2. CASE entries[i].repo = r
        BY <1>1, <1>2, <2>1, <2>2, NotifiedKeeps
  <2>3. CASE entries[i].repo # r
        BY <1>1, <1>2, <2>1, <2>3
  <2> QED BY <2>2, <2>3
<1> QED BY <1>1, <1>3, InPlaceStep

\* ensure() of a repository that has an entry keeps the vector as it must be.
LEMMA EnsureWatchedStep ==
    ASSUME VectorOK, touch \in Nat, NEW r \in Repos, EnsureWatched(r)
    PROVE  VectorOK' /\ VersionsMove
<1>1. PICK k \in DOMAIN entries, ok \in BOOLEAN :
         entries' = [entries EXCEPT ![k] =
            IF [entries[k] EXCEPT !.last_touch = touch].armed
            THEN [entries[k] EXCEPT !.last_touch = touch]
            ELSE [StartWatch([entries[k] EXCEPT !.last_touch = touch], ok)
                     EXCEPT !.pending = TRUE]]
      BY DEF EnsureWatched, ArmResults
<1>2. \A i \in DOMAIN entries : /\ entries[i] \in Entry
                                /\ entries[i].armed <=> entries[i].io # "none"
      BY ElementOfSeq, LenProperties DEF VectorOK, ArmedMeansOutstanding
<1> DEFINE e == [entries[k] EXCEPT !.last_touch = touch]
           w == StartWatch(e, ok)
           f == [w EXCEPT !.pending = TRUE]
<1>3. /\ e \in Entry /\ e.repo = entries[k].repo /\ e.version = entries[k].version
      /\ e.armed <=> e.io # "none"
      BY <1>2 DEF Entry
<1> HIDE DEF e
<1>w. /\ w \in Entry /\ w.repo = e.repo /\ w.version = e.version
      /\ w.armed = ok
      /\ w.io # "none" <=> ok
      BY <1>3, StartWatchKeeps
<1> HIDE DEF w
<1>4. /\ f \in Entry /\ f.repo = entries[k].repo /\ f.version = entries[k].version
      /\ f.armed <=> f.io # "none"
      BY <1>3, <1>w DEF Entry
<1> HIDE DEF f
<1>5. entries' = [entries EXCEPT ![k] = IF e.armed THEN e ELSE f]
      BY <1>1 DEF e, f, w
<1>6. \A i \in DOMAIN entries :
          /\ entries'[i] \in Entry
          /\ entries'[i].repo = entries[i].repo
          /\ entries'[i].version = entries[i].version
          /\ entries'[i].armed <=> entries'[i].io # "none"
      BY <1>2, <1>3, <1>4, <1>5
<1>7. epoch' = epoch /\ entries' = [i \in DOMAIN entries |-> entries'[i]]
      BY <1>5 DEF EnsureWatched
<1> QED BY <1>6, <1>7, InPlaceStep

\* So does a request that fails.
LEMMA RequestFailsStep ==
    ASSUME VectorOK, NEW r \in Repos, RequestFails(r)
    PROVE  VectorOK' /\ VersionsMove
<1>1. PICK k \in DOMAIN entries :
          /\ entries[k].io = "waiting"
          /\ entries' = [entries EXCEPT ![k] = [entries[k] EXCEPT !.io = "failed"]]
      BY DEF RequestFails
<1>2. \A i \in DOMAIN entries : /\ entries[i] \in Entry
                                /\ entries[i].armed <=> entries[i].io # "none"
      BY ElementOfSeq, LenProperties DEF VectorOK, ArmedMeansOutstanding
<1>3. \A i \in DOMAIN entries :
          /\ entries'[i] \in Entry
          /\ entries'[i].repo = entries[i].repo
          /\ entries'[i].version = entries[i].version
          /\ entries'[i].armed <=> entries'[i].io # "none"
      BY <1>1, <1>2 DEF Entry, Completions
<1>4. epoch' = epoch /\ entries' = [i \in DOMAIN entries |-> entries'[i]]
      BY <1>1 DEF RequestFails
<1> QED BY <1>3, <1>4, InPlaceStep

\* So does a sweep over the entries whose event is set.
LEMMA ProcessSignaledStep ==
    ASSUME VectorOK, disk \in [Repos -> Disk], ProcessSignaled
    PROVE  VectorOK' /\ VersionsMove
<1>1. PICK refused :
         entries' = [i \in DOMAIN entries |->
              IF Signaled(entries[i])
              THEN HandleEvent(entries[i], disk[entries[i].repo].rules, i \notin refused)
              ELSE entries[i]]
      BY DEF ProcessSignaled
<1>2. \A i \in DOMAIN entries :
         /\ entries[i] \in Entry /\ disk[entries[i].repo].rules \in SUBSET Matchable
         /\ entries[i].armed <=> entries[i].io # "none"
  <2>1. \A i \in DOMAIN entries : /\ entries[i] \in Entry
                                  /\ entries[i].armed <=> entries[i].io # "none"
        BY ElementOfSeq, LenProperties DEF VectorOK, ArmedMeansOutstanding
  <2>2. \A i \in DOMAIN entries : entries[i].repo \in Repos
        BY <2>1 DEF Entry
  <2>3. \A r \in Repos : disk[r].rules \in SUBSET Matchable
        BY DEF Disk
  <2> QED BY <2>1, <2>2, <2>3
<1>3. \A i \in DOMAIN entries :
          /\ entries'[i] \in Entry
          /\ entries'[i].repo = entries[i].repo
          /\ entries'[i].version = entries[i].version
          /\ entries'[i].armed <=> entries'[i].io # "none"
  <2> TAKE i \in DOMAIN entries
  <2>1. CASE Signaled(entries[i])
        BY <1>1, <1>2, <2>1, HandleEventKeeps
  <2>2. CASE ~Signaled(entries[i])
        BY <1>1, <1>2, <2>2
  <2> QED BY <2>1, <2>2
<1>4. epoch' = epoch
      BY DEF ProcessSignaled
<1> QED BY <1>1, <1>3, <1>4, InPlaceStep

\* Eviction alone, as in an ensure() that cannot open the directory.
LEMMA EnsureFailsStep ==
    ASSUME VectorOK, NEW r \in Repos, EnsureFails(r)
    PROVE  VectorOK' /\ VersionsMove
<1>1. /\ entries \in Seq(Entry) /\ Len(entries) <= Capacity
      /\ entries' = EvictLru(entries) /\ epoch' = epoch
      BY DEF VectorOK, Bounded, EnsureFails
<1>2. /\ entries' \in Seq(Entry) /\ Len(entries') < Capacity
      /\ \E from \in [DOMAIN entries' -> DOMAIN entries] :
            /\ \A i \in DOMAIN entries' : entries'[i] = entries[from[i]]
            /\ \A i, j \in DOMAIN entries' : from[i] = from[j] => i = j
      BY <1>1, EvictLruShape
<1>3. PICK from \in [DOMAIN entries' -> DOMAIN entries] :
            /\ \A i \in DOMAIN entries' : entries'[i] = entries[from[i]]
            /\ \A i, j \in DOMAIN entries' : from[i] = from[j] => i = j
      BY <1>2
<1>4. Len(entries') \in Nat /\ Capacity \in Nat
      BY <1>2, LenProperties, CapacityAssumption
<1>5. Bounded'
      BY <1>2, <1>3, <1>4 DEF VectorOK, Bounded
<1>6. DistinctVersions'
      BY <1>1, <1>3 DEF VectorOK, DistinctVersions
<1>7. ArmedMeansOutstanding'
      BY <1>3 DEF VectorOK, ArmedMeansOutstanding
<1>8. VersionsMove
      BY <1>1, <1>3 DEF VectorOK, VersionsMove
<1> QED BY <1>1, <1>2, <1>5, <1>6, <1>7, <1>8 DEF VectorOK

\* The entry that ensure() creates is appended with a version of its own.
LEMMA EnsureNewStep ==
    ASSUME VectorOK, RestOK, NEW r \in Repos, EnsureNew(r)
    PROVE  VectorOK' /\ VersionsMove
<1> DEFINE fresh == [repo |-> r, ignore |-> disk[r].rules, pending |-> FALSE,
                     armed |-> FALSE, last_touch |-> touch, version |-> epoch,
                     io |-> "none", batch |-> {}, queue |-> {}]
           kept  == EvictLru(entries)
<1>1. PICK ok \in BOOLEAN :
         entries' = Append(kept, [StartWatch(fresh, ok) EXCEPT !.pending = ~ok])
      BY DEF EnsureNew, ArmResults
<1>2. epoch \in Nat /\ epoch > 0 /\ epoch' = epoch + 1 /\ ~Watched(r)
      BY DEF EnsureNew, VectorOK
<1>3. fresh \in Entry
      BY <1>2 DEF RestOK, Entry, Disk
<1> DEFINE started == StartWatch(fresh, ok)
           e       == [started EXCEPT !.pending = ~ok]
<1>4. /\ started \in Entry /\ started.repo = r /\ started.version = epoch
      /\ started.armed = ok
      /\ started.io # "none" <=> ok
      BY <1>3, StartWatchKeeps
<1> HIDE DEF started
<1>5. /\ e \in Entry /\ e.repo = r /\ e.version = epoch
      /\ e.armed <=> e.io # "none"
      BY <1>4 DEF Entry
<1>6. entries' = Append(kept, e)
      BY <1>1 DEF started
<1> HIDE DEF e
<1>7. /\ entries \in Seq(Entry) /\ Len(entries) <= Capacity
      BY DEF VectorOK, Bounded
<1>8. /\ kept \in Seq(Entry) /\ Len(kept) < Capacity
      /\ \E from \in [DOMAIN kept -> DOMAIN entries] :
            /\ \A i \in DOMAIN kept : kept[i] = entries[from[i]]
            /\ \A i, j \in DOMAIN kept : from[i] = from[j] => i = j
      BY <1>7, EvictLruShape
<1> HIDE DEF kept
<1>9. PICK from \in [DOMAIN kept -> DOMAIN entries] :
            /\ \A i \in DOMAIN kept : kept[i] = entries[from[i]]
            /\ \A i, j \in DOMAIN kept : from[i] = from[j] => i = j
      BY <1>8
<1>10. Len(kept) \in Nat /\ Capacity \in Nat /\ DOMAIN kept = 1 .. Len(kept)
       BY <1>8, LenProperties, CapacityAssumption
<1>11. /\ entries' \in Seq(Entry)
       /\ Len(entries') = Len(kept) + 1
       /\ DOMAIN entries' = 1 .. Len(kept) + 1
       /\ \A i \in 1 .. Len(kept) : entries'[i] = entries[from[i]]
       /\ entries'[Len(kept) + 1] = e
       BY <1>5, <1>6, <1>8, <1>9, <1>10, AppendProperties, LenProperties
<1>12. \A i \in 1 .. Len(kept) : /\ from[i] \in DOMAIN entries
                                 /\ entries[from[i]].repo # r
       BY <1>2, <1>9, <1>10 DEF Watched
<1>13. Bounded'
  <2>1. Len(entries') <= Capacity
        BY <1>8, <1>10, <1>11
  <2>2. \A i, j \in DOMAIN entries' : entries'[i].repo = entries'[j].repo => i = j
    <3> SUFFICES ASSUME NEW i \in 1 .. Len(kept) + 1, NEW j \in 1 .. Len(kept) + 1,
                        entries'[i].repo = entries'[j].repo
                 PROVE  i = j
        BY <1>11
    <3>1. CASE i \in 1 .. Len(kept) /\ j \in 1 .. Len(kept)
          BY <1>9, <1>10, <1>11, <1>12, <3>1 DEF VectorOK, Bounded
    <3>2. CASE i = Len(kept) + 1 \/ j = Len(kept) + 1
          BY <1>5, <1>10, <1>11, <1>12, <3>2
    <3> QED BY <1>10, <3>1, <3>2
  <2> QED BY <2>1, <2>2 DEF Bounded
<1>14. DistinctVersions'
  <2>1. \A i \in 1 .. Len(kept) : entries[from[i]].version \in 1 .. epoch - 1
        BY <1>12 DEF VectorOK, DistinctVersions
  <2>2. \A i \in 1 .. Len(kept) : \A j \in 1 .. Len(kept) \ {i} :
            entries[from[i]].version # entries[from[j]].version
        BY <1>9, <1>10, <1>12 DEF VectorOK, DistinctVersions
  <2>3. \A i \in DOMAIN entries' : entries'[i].version \in 1 .. epoch' - 1
        BY <1>2, <1>5, <1>10, <1>11, <2>1
  <2>4. \A i \in DOMAIN entries' : \A j \in DOMAIN entries' \ {i} :
            entries'[i].version # entries'[j].version
    <3> SUFFICES ASSUME NEW i \in 1 .. Len(kept) + 1, NEW j \in 1 .. Len(kept) + 1, i # j
                 PROVE  entries'[i].version # entries'[j].version
        BY <1>11
    <3>1. CASE i \in 1 .. Len(kept) /\ j \in 1 .. Len(kept)
          BY <1>11, <2>2, <3>1
    <3>2. CASE i = Len(kept) + 1 /\ j \in 1 .. Len(kept)
          BY <1>2, <1>5, <1>11, <2>1, <3>2
    <3>3. CASE j = Len(kept) + 1 /\ i \in 1 .. Len(kept)
          BY <1>2, <1>5, <1>11, <2>1, <3>3
    <3> QED BY <1>10, <3>1, <3>2, <3>3
  <2> QED BY <2>3, <2>4 DEF DistinctVersions
<1>15. ArmedMeansOutstanding'
  <2>1. \A i \in 1 .. Len(kept) : entries'[i].armed <=> entries'[i].io # "none"
        BY <1>11, <1>12 DEF VectorOK, ArmedMeansOutstanding
  <2> QED BY <1>5, <1>10, <1>11, <2>1 DEF ArmedMeansOutstanding
<1>16. VersionsMove
  <2>1. \A i \in 1 .. Len(kept) :
           \E j \in DOMAIN entries : /\ entries[j].repo = entries'[i].repo
                                    /\ entries[j].version = entries'[i].version
        BY <1>11, <1>12
  <2>2. entries'[Len(kept) + 1].version \in epoch .. epoch' - 1
        BY <1>2, <1>5, <1>11
  <2>3. \A i \in 1 .. Len(kept) + 1 : i \in 1 .. Len(kept) \/ i = Len(kept) + 1
        BY <1>10
  <2>4. epoch' \in Nat /\ epoch' >= epoch
        BY <1>2
  <2> QED BY <1>11, <2>1, <2>2, <2>3, <2>4 DEF VersionsMove
<1> QED BY <1>2, <1>11, <1>13, <1>14, <1>15, <1>16 DEF VectorOK

\* flush() gives each pending entry a version of its own, below the new epoch.
LEMMA FlushStep ==
    ASSUME VectorOK, Flush
    PROVE  VectorOK' /\ VersionsMove
<1> DEFINE due     == Pending(entries)
           Rank(i) == Cardinality(Before(entries, i))
<1>1. entries \in Seq(Entry) /\ epoch \in Nat /\ epoch > 0
      BY DEF VectorOK
<1>2. /\ Cardinality(due) \in Nat
      /\ \A i \in due : Rank(i) \in 0 .. Cardinality(due) - 1
      /\ \A i, j \in due : Rank(i) = Rank(j) => i = j
      BY <1>1, FlushRanks
<1>3. epoch' = epoch + Cardinality(due)
      BY DEF Flush
<1> DEFINE bumped(i) == [entries[i] EXCEPT !.pending = FALSE,
                                           !.version = epoch + Rank(i)]
<1>4. entries' = [i \in DOMAIN entries |->
                    IF entries[i].pending THEN bumped(i) ELSE entries[i]]
      BY DEF Flush
<1>5. \A i \in DOMAIN entries : entries[i] \in Entry
      BY <1>1, ElementOfSeq, LenProperties
<1>6. \A i \in DOMAIN entries : i \in due <=> entries[i].pending
      BY DEF Pending
<1> HIDE DEF due, Rank
<1>7. \A i \in DOMAIN entries :
         /\ entries'[i] \in Entry
         /\ entries'[i].repo = entries[i].repo
         /\ entries'[i].armed = entries[i].armed /\ entries'[i].io = entries[i].io
         /\ i \in due => entries'[i].version = epoch + Rank(i)
         /\ i \notin due => entries'[i].version = entries[i].version
  <2> TAKE i \in DOMAIN entries
  <2>1. CASE i \in due
    <3>1. epoch + Rank(i) \in Nat
          BY <1>1, <1>2, <2>1
    <3>2. entries'[i] = bumped(i) /\ entries[i] \in Entry
          BY <1>4, <1>5, <1>6, <2>1
    <3> QED BY <2>1, <3>1, <3>2 DEF Entry
  <2>2. CASE i \notin due
        BY <1>4, <1>5, <1>6, <2>2
  <2> QED BY <2>1, <2>2
<1>8. /\ entries' \in Seq(Entry) /\ Len(entries') = Len(entries)
      /\ DOMAIN entries' = DOMAIN entries
      BY <1>1, <1>4, <1>7, InPlace
<1>9. Bounded'
      BY <1>7, <1>8 DEF VectorOK, Bounded
<1>10. ArmedMeansOutstanding'
      BY <1>7, <1>8 DEF VectorOK, ArmedMeansOutstanding
<1>11. DistinctVersions'
  <2>1. \A i \in DOMAIN entries : entries[i].version \in 1 .. epoch - 1
        BY DEF VectorOK, DistinctVersions
  <2>2. \A i \in DOMAIN entries : entries'[i].version \in 1 .. epoch' - 1
    <3> TAKE i \in DOMAIN entries
    <3>1. CASE i \in due
      <4>1. Rank(i) \in 0 .. Cardinality(due) - 1
            BY <1>2, <3>1
      <4>2. entries'[i].version = epoch + Rank(i)
            BY <1>7, <3>1
      <4> QED BY <1>1, <1>2, <1>3, <4>1, <4>2
    <3>2. CASE i \notin due
      <4>1. entries'[i].version \in 1 .. epoch - 1
            BY <1>7, <2>1, <3>2
      <4> QED BY <1>1, <1>2, <1>3, <4>1
    <3> QED BY <3>1, <3>2
  <2>3. \A i, j \in DOMAIN entries : i # j => entries'[i].version # entries'[j].version
    <3> SUFFICES ASSUME NEW i \in DOMAIN entries, NEW j \in DOMAIN entries, i # j
                 PROVE  entries'[i].version # entries'[j].version
        OBVIOUS
    <3>1. CASE i \in due /\ j \in due
          BY <1>1, <1>2, <1>7, <3>1
    <3>2. CASE i \notin due /\ j \notin due
          BY <1>7, <3>2 DEF VectorOK, DistinctVersions
    <3>3. CASE i \in due /\ j \notin due
          BY <1>1, <1>2, <1>7, <2>1, <3>3
    <3>4. CASE i \notin due /\ j \in due
          BY <1>1, <1>2, <1>7, <2>1, <3>4
    <3> QED BY <3>1, <3>2, <3>3, <3>4
  <2> QED BY <1>8, <2>2, <2>3 DEF DistinctVersions
<1>12. VersionsMove
  <2>1. \A i \in DOMAIN entries : i \in due => entries'[i].version \in epoch .. epoch' - 1
    <3> TAKE i \in DOMAIN entries
    <3> HAVE i \in due
    <3>1. Rank(i) \in 0 .. Cardinality(due) - 1
          BY <1>2
    <3>2. entries'[i].version = epoch + Rank(i)
          BY <1>7
    <3> QED BY <1>1, <1>2, <1>3, <3>1, <3>2
  <2>2. epoch' \in Nat /\ epoch' >= epoch
        BY <1>1, <1>2, <1>3
  <2> QED BY <1>7, <1>8, <2>1, <2>2 DEF VersionsMove
<1> QED BY <1>1, <1>2, <1>3, <1>8, <1>9, <1>10, <1>11, <1>12 DEF VectorOK

\* The disk, the touch counter and the history variable keep their types.
LEMMA RestStep ==
    ASSUME VectorOK, RestOK, Next
    PROVE  RestOK'
<1>1. /\ \A d \in Disk, rules \in RuleSets : [d EXCEPT !.rules = rules] \in Disk
      /\ \A d \in Disk, p \in Matchable : [d EXCEPT !.content[p] = 1 - @] \in Disk
  <2>1. \A d \in Disk, rules \in SUBSET Matchable : [d EXCEPT !.rules = rules] \in Disk
        BY DEF Disk
  <2>2. \A c \in [Matchable -> {0, 1}], p \in Matchable :
           [c EXCEPT ![p] = 1 - c[p]] \in [Matchable -> {0, 1}]
        OBVIOUS
  <2>3. \A d \in Disk, c \in [Matchable -> {0, 1}] : [d EXCEPT !.content = c] \in Disk
        BY DEF Disk
  <2>4. \A d \in Disk : d.content \in [Matchable -> {0, 1}]
        BY DEF Disk
  <2> QED BY <2>1, <2>2, <2>3, <2>4, FilesAssumption
<1>2. \A r \in Repos, d \in Disk : [disk EXCEPT ![r] = d] \in [Repos -> Disk]
      BY DEF RestOK
<1>3. touch' \in Nat /\ disk' \in [Repos -> Disk]
  <2>0. touch \in Nat /\ disk \in [Repos -> Disk] /\ \A r \in Repos : disk[r] \in Disk
        BY DEF RestOK
  <2>1. ASSUME NEW r \in Repos, Ensure(r) PROVE touch' \in Nat /\ disk' \in [Repos -> Disk]
    <3>1. CASE EnsureNew(r)
      <4>1. PICK now \in RuleSets \cup {disk[r].rules} :
                disk' = [disk EXCEPT ![r] = [disk[r] EXCEPT !.rules = now]]
            BY <3>1 DEF EnsureNew
      <4>2. [disk[r] EXCEPT !.rules = now] \in Disk
            BY <1>1, <2>0 DEF Disk
      <4>3. touch' \in Nat
            BY <2>0, <3>1 DEF EnsureNew
      <4> QED BY <1>2, <4>1, <4>2, <4>3
    <3>2. CASE EnsureWatched(r)
          BY <2>0, <3>2 DEF EnsureWatched
    <3>3. CASE EnsureFails(r)
          BY <2>0, <3>3 DEF EnsureFails
    <3> QED BY <2>1, <3>1, <3>2, <3>3 DEF Ensure
  <2>2. ASSUME NEW r \in Repos, NEW p \in Paths, Write(r, p)
        PROVE  touch' \in Nat /\ disk' \in [Repos -> Disk]
    <3>1. touch' = touch
          BY <2>2 DEF Write
    <3>2. disk' = IF p \in Matchable
                  THEN [disk EXCEPT ![r] = [disk[r] EXCEPT !.content[p] = 1 - @]]
                  ELSE disk
          BY <2>2 DEF Write
    <3> QED BY <1>1, <1>2, <2>0, <3>1, <3>2
  <2>3. ASSUME NEW r \in Repos, NEW rules \in RuleSets, EditGitignore(r, rules)
        PROVE  touch' \in Nat /\ disk' \in [Repos -> Disk]
    <3>1. /\ touch' = touch
          /\ disk' = [disk EXCEPT ![r] = [disk[r] EXCEPT !.rules = rules]]
          BY <2>3 DEF EditGitignore
    <3> QED BY <1>1, <1>2, <2>0, <3>1
  <2>4. ASSUME Flush \/ ProcessSignaled \/ (\E r \in Repos : RequestFails(r))
        PROVE  touch' = touch /\ disk' = disk
        BY <2>4 DEF Flush, ProcessSignaled, RequestFails
  <2> QED BY <2>0, <2>1, <2>2, <2>3, <2>4 DEF Next
<1>4. base' \in [Repos -> Disk] /\ altered' \in SUBSET Repos
      BY <1>3 DEF Next, History, RestOK
<1> QED BY <1>3, <1>4 DEF RestOK

IInv == VectorOK /\ RestOK

\* The invariant holds before the first call.
LEMMA InvariantInit == Init => IInv
<1> SUFFICES ASSUME Init PROVE IInv
    OBVIOUS
<1>1. entries = <<>> /\ epoch = 1 /\ touch = 0 /\ base = disk /\ altered = {}
      BY DEF Init
<1>2. disk \in [Repos -> Disk]
      BY FilesAssumption DEF Init, Disk
<1>3. entries \in Seq(Entry) /\ Len(entries) = 0 /\ DOMAIN entries = {}
      BY <1>1, EmptySeq, LenProperties
<1>4. Capacity > 0
      BY CapacityAssumption
<1> QED BY <1>1, <1>2, <1>3, <1>4, CapacityAssumption
        DEF IInv, VectorOK, RestOK, Bounded, DistinctVersions, ArmedMeansOutstanding

\* Every step keeps it, and gives out no version twice.
LEMMA InvariantStep == IInv /\ [Next]_vars => IInv' /\ (VersionsMove \/ UNCHANGED vars)
<1> SUFFICES ASSUME IInv, [Next]_vars PROVE IInv' /\ (VersionsMove \/ UNCHANGED vars)
    OBVIOUS
<1> USE DEF IInv
<1>1. CASE UNCHANGED vars
      BY <1>1 DEF vars, VectorOK, RestOK, Bounded, DistinctVersions, ArmedMeansOutstanding
<1>2. CASE Next
  <2>1. ASSUME NEW r \in Repos, Ensure(r) PROVE VectorOK' /\ VersionsMove
        BY <2>1, EnsureWatchedStep, EnsureNewStep, EnsureFailsStep DEF Ensure, RestOK
  <2>2. ASSUME Flush PROVE VectorOK' /\ VersionsMove
        BY <2>2, FlushStep
  <2>3. ASSUME ProcessSignaled PROVE VectorOK' /\ VersionsMove
        BY <2>3, ProcessSignaledStep DEF RestOK
  <2>4. ASSUME NEW r \in Repos, NEW p \in Paths, Write(r, p)
        PROVE  VectorOK' /\ VersionsMove
        BY <2>4, NotifyStep DEF Write
  <2>5. ASSUME NEW r \in Repos, NEW rules \in RuleSets, EditGitignore(r, rules)
        PROVE  VectorOK' /\ VersionsMove
    <3>1. ".gitignore" \in Paths
          BY DEF Paths, NamedPaths
    <3> QED BY <2>5, <3>1, NotifyStep DEF EditGitignore
  <2>6. ASSUME NEW r \in Repos, RequestFails(r) PROVE VectorOK' /\ VersionsMove
        BY <2>6, RequestFailsStep
  <2>7. VectorOK' /\ VersionsMove
        BY <1>2, <2>1, <2>2, <2>3, <2>4, <2>5, <2>6 DEF Next
  <2> QED BY <1>2, <2>7, RestStep
<1> QED BY <1>1, <1>2

\* Every state the watcher reaches is well typed, within its capacity, and
\* has distinct versions and a truthful `armed`.
THEOREM Invariance == Spec => []IInv
<1>1. IInv /\ [Next]_vars => IInv'
      BY InvariantStep
<1> QED BY <1>1, InvariantInit, PTL DEF Spec

\* Every state of the watcher is well typed.
THEOREM TypeCorrectness == Spec => []TypeOK
<1>1. IInv => TypeOK
      BY DEF IInv, VectorOK, RestOK, TypeOK
<1> QED BY <1>1, Invariance, PTL

\* The watcher never has more than MAX_WATCHED_REPOS entries, nor two for one
\* repository.
THEOREM WatcherBounded == Spec => []Bounded
<1>1. IInv => Bounded
      BY DEF IInv, VectorOK
<1> QED BY <1>1, Invariance, PTL

\* No two entries ever have the same version, and none has version 0.
THEOREM VersionsDistinct == Spec => []DistinctVersions
<1>1. IInv => DistinctVersions
      BY DEF IInv, VectorOK
<1> QED BY <1>1, Invariance, PTL

\* `armed` always says whether the kernel has, or has answered, a request.
THEOREM ArmedIsTruthful == Spec => []ArmedMeansOutstanding
<1>1. IInv => ArmedMeansOutstanding
      BY DEF IInv, VectorOK
<1> QED BY <1>1, Invariance, PTL

----------------------------------------------------------------------------
(* The watcher is a source of versions.                                    *)

\* version(): the version of the repository's entry, or 0.
VersionLookup ==
    \A r \in Repos :
        \/ ~Watched(r) /\ Version(r) = 0
        \/ \E i \in DOMAIN entries : /\ entries[i].repo = r
                                     /\ Version(r) = entries[i].version

\* The entry that version() finds is one of that repository.
LEMMA LookupHolds == VersionLookup
<1> SUFFICES ASSUME NEW r \in Repos
             PROVE  \/ ~Watched(r) /\ Version(r) = 0
                    \/ \E i \in DOMAIN entries : /\ entries[i].repo = r
                                                 /\ Version(r) = entries[i].version
    BY DEF VersionLookup
<1>1. CASE Watched(r)
  <2> DEFINE k == CHOOSE i \in DOMAIN entries : entries[i].repo = r
  <2>1. k \in DOMAIN entries /\ entries[k].repo = r
        BY <1>1 DEF Watched
  <2>2. Version(r) = entries[k].version
        BY <1>1 DEF Version, EntryOf
  <2> HIDE DEF k
  <2> QED BY <2>1, <2>2
<1>2. CASE ~Watched(r)
      BY <1>2 DEF Version
<1> QED BY <1>1, <1>2

\* One step of the vector, seen through version().
LEMMA VersionsStep ==
    ASSUME IInv, IInv', VersionLookup, VersionLookup', VersionsMove
    PROVE  Versions!Step /\ Versions!Distinct'
<1>1. /\ epoch \in Nat /\ epoch' \in Nat /\ epoch' >= epoch
      /\ \A i \in DOMAIN entries : entries[i].version \in 1 .. epoch - 1
      /\ \A i \in DOMAIN entries' : entries'[i].version \in 1 .. epoch' - 1
      BY DEF IInv, VectorOK, DistinctVersions, VersionsMove
<1>2. \A r \in Repos : \/ Version(r)' \in {Version(r), 0}
                       \/ Version(r)' \in epoch .. epoch' - 1
  <2> TAKE r \in Repos
  <2>1. CASE Version(r)' = 0
        BY <2>1
  <2>2. CASE \E i \in DOMAIN entries' : /\ entries'[i].repo = r
                                        /\ Version(r)' = entries'[i].version
    <3>1. PICK i \in DOMAIN entries' : /\ entries'[i].repo = r
                                       /\ Version(r)' = entries'[i].version
          BY <2>2
    <3>2. CASE \E j \in DOMAIN entries : /\ entries[j].repo = entries'[i].repo
                                         /\ entries[j].version = entries'[i].version
      <4>1. PICK j \in DOMAIN entries : /\ entries[j].repo = r
                                        /\ entries[j].version = Version(r)'
            BY <3>1, <3>2
      <4>2. PICK k \in DOMAIN entries : /\ entries[k].repo = r
                                        /\ Version(r) = entries[k].version
            BY <4>1 DEF VersionLookup, Watched
      <4>3. j = k
            BY <4>1, <4>2 DEF IInv, VectorOK, Bounded
      <4> QED BY <4>1, <4>2, <4>3
    <3>3. CASE entries'[i].version \in epoch .. epoch' - 1
          BY <3>1, <3>3
    <3> QED BY <3>2, <3>3 DEF VersionsMove
  <2> QED BY <2>1, <2>2 DEF VersionLookup
<1>3. \A r \in Repos : Version(r)' \in Nat
      BY <1>1 DEF VersionLookup
<1>4. \A r, s \in Repos : Version(r)' = Version(s)' /\ Version(r)' # 0 => r = s
  <2> SUFFICES ASSUME NEW r \in Repos, NEW s \in Repos,
                      Version(r)' = Version(s)', Version(r)' # 0
               PROVE  r = s
      OBVIOUS
  <2>1. PICK i \in DOMAIN entries' : /\ entries'[i].repo = r
                                     /\ Version(r)' = entries'[i].version
        BY DEF VersionLookup
  <2>2. PICK j \in DOMAIN entries' : /\ entries'[j].repo = s
                                     /\ Version(s)' = entries'[j].version
        BY DEF VersionLookup
  <2>3. i = j
        BY <2>1, <2>2 DEF IInv, VectorOK, DistinctVersions
  <2> QED BY <2>1, <2>2, <2>3
<1> QED BY <1>1, <1>2, <1>3, <1>4 DEF Versions!Step, Versions!Distinct

\* WatcherState implements VersionSource: whatever is evicted, refused or
\* signaled, a version stands for one state of one repository for ever.
THEOREM WatcherIsVersionSource == Spec => VersionsAreFresh
<1>1. Init => Versions!Init
  <2> SUFFICES ASSUME Init PROVE Versions!Init
      OBVIOUS
  <2>1. \A r \in Repos : Version(r) = 0
        BY DEF Init, Version, Watched
  <2>2. epoch \in Nat \ {0}
        BY DEF Init
  <2> QED BY <2>1, <2>2 DEF Versions!Init
<1>2. /\ IInv /\ IInv' /\ VersionLookup /\ VersionLookup'
      /\ (VersionsMove \/ UNCHANGED vars)
      => [Versions!Step /\ Versions!Distinct']_Versions!vars
  <2> SUFFICES ASSUME IInv, IInv', VersionLookup, VersionLookup',
                      VersionsMove \/ UNCHANGED vars
               PROVE  [Versions!Step /\ Versions!Distinct']_Versions!vars
      OBVIOUS
  <2>1. CASE VersionsMove
        BY <2>1, VersionsStep
  <2>2. CASE UNCHANGED vars
        BY <2>2 DEF vars, Versions!vars, Version, EntryOf, Watched
  <2> QED BY <2>1, <2>2
<1>3. IInv /\ [Next]_vars => IInv' /\ (VersionsMove \/ UNCHANGED vars)
      BY InvariantStep
<1> QED BY <1>1, <1>2, <1>3, InvariantInit, LookupHolds, PTL
        DEF Spec, VersionsAreFresh, Versions!Spec

----------------------------------------------------------------------------
(* Eviction takes the entry that was not asked for longest.                *)

\* `touch` is a clock that ticks with every ensure(): no two entries were asked
\* for at one time, and none in the future.
TouchOK ==
    \A i \in DOMAIN entries :
        /\ entries[i].last_touch < touch
        /\ \A j \in DOMAIN entries : entries[i].last_touch = entries[j].last_touch => i = j

TInv == IInv /\ TouchOK

----------------------------------------------------------------------------
(* The victim.                                                             *)

\* A set of numbers that is not empty has a least one.
LEMMA LeastNumber ==
    ASSUME NEW T, T \subseteq Nat, T # {}
    PROVE  \E n \in T : \A m \in T : n <= m
<1> DEFINE R == OpToRel(<, Nat)
<1>1. IsWellFoundedOn(R, Nat)
      BY NatLessThanWellFounded
<1>2. \A n, m \in Nat : n < m => <<n, m>> \in R
      BY DEF OpToRel
<1> HIDE DEF R
<1>3. PICK n \in T : \A m \in T : <<m, n>> \notin R
      BY <1>1, WFMin
<1>4. \A m \in T : ~(m < n)
      BY <1>2, <1>3
<1> QED BY <1>3, <1>4

\* Where no two entries have the same last_touch, the victim is the one with
\* the least.
LEMMA VictimIsOldest ==
    ASSUME NEW es \in Seq(Entry), Len(es) > 0,
           \A i, j \in DOMAIN es : es[i].last_touch = es[j].last_touch => i = j
    PROVE  /\ EvictionVictim(es) \in DOMAIN es
           /\ \A i \in DOMAIN es \ {EvictionVictim(es)} :
                 es[EvictionVictim(es)].last_touch < es[i].last_touch
<1> DEFINE times == {es[i].last_touch : i \in DOMAIN es}
           Oldest(v) == \A i \in DOMAIN es :
                           \/ es[v].last_touch < es[i].last_touch
                           \/ es[v].last_touch = es[i].last_touch /\ v <= i
<1>1. /\ DOMAIN es = 1 .. Len(es) /\ Len(es) \in Nat
      /\ \A i \in DOMAIN es : es[i] \in Entry
      BY ElementOfSeq, LenProperties
<1>2. \A i \in DOMAIN es : es[i].last_touch \in Nat
      BY <1>1 DEF Entry
<1>3. times \subseteq Nat /\ times # {}
      BY <1>1, <1>2
<1> HIDE DEF times
<1>4. PICK n \in times : \A m \in times : n <= m
      BY <1>3, LeastNumber
<1>5. PICK v \in DOMAIN es : es[v].last_touch = n
      BY <1>4 DEF times
<1>6. \A i \in DOMAIN es : es[v].last_touch <= es[i].last_touch
      BY <1>4, <1>5 DEF times
<1>7. Oldest(v)
  <2> TAKE i \in DOMAIN es
  <2>1. CASE es[v].last_touch = es[i].last_touch
    <3>1. v = i /\ v \in Nat
          BY <1>1, <2>1
    <3> QED BY <2>1, <3>1
  <2>2. CASE es[v].last_touch # es[i].last_touch
        BY <1>2, <1>6, <2>2
  <2> QED BY <2>1, <2>2
<1>8. EvictionVictim(es) = CHOOSE w \in DOMAIN es : Oldest(w)
      BY DEF EvictionVictim
<1> HIDE DEF Oldest
<1>9. EvictionVictim(es) \in DOMAIN es /\ Oldest(EvictionVictim(es))
      BY <1>7, <1>8
<1> QED BY <1>9 DEF Oldest

\* Making room takes at most that entry away, and moves others.
LEMMA EvictLruOldest ==
    ASSUME IInv, TouchOK
    PROVE  LET rs == EvictLru(entries) IN
           /\ rs \in Seq(Entry)
           /\ \A i \in DOMAIN rs, j \in DOMAIN rs :
                 rs[i].last_touch = rs[j].last_touch => i = j
           /\ \A i \in DOMAIN rs : \E k \in DOMAIN entries : rs[i] = entries[k]
           /\ \A k \in DOMAIN entries :
                 \/ \E i \in DOMAIN rs : rs[i] = entries[k]
                 \/ \A j \in DOMAIN entries \ {k} :
                       entries[k].last_touch < entries[j].last_touch
<1> DEFINE rs == EvictLru(entries)
           v  == EvictionVictim(entries)
<1>1. /\ entries \in Seq(Entry) /\ Len(entries) <= Capacity
      /\ DOMAIN entries = 1 .. Len(entries) /\ Len(entries) \in Nat
      /\ Capacity \in Nat \ {0}
      BY CapacityAssumption, LenProperties DEF IInv, VectorOK, Bounded
<1>2. /\ rs \in Seq(Entry)
      /\ \E from \in [DOMAIN rs -> DOMAIN entries] :
            /\ \A i \in DOMAIN rs : rs[i] = entries[from[i]]
            /\ \A i, j \in DOMAIN rs : from[i] = from[j] => i = j
      BY <1>1, EvictLruShape
<1>3. \A k \in DOMAIN entries :
         \/ \E i \in DOMAIN rs : rs[i] = entries[k]
         \/ \A j \in DOMAIN entries \ {k} : entries[k].last_touch < entries[j].last_touch
  <2>1. CASE Len(entries) < Capacity
    <3>1. rs = entries
          BY <1>1, <2>1 DEF EvictLru
    <3> QED BY <3>1
  <2>2. CASE Len(entries) >= Capacity
    <3>1. rs = SwapRemove(entries, v) /\ Len(entries) > 0
          BY <1>1, <2>2 DEF EvictLru
    <3>2. /\ v \in DOMAIN entries
          /\ \A j \in DOMAIN entries \ {v} : entries[v].last_touch < entries[j].last_touch
          BY <1>1, <3>1, VictimIsOldest DEF TouchOK
    <3> HIDE DEF v, rs
    <3>3. /\ rs \in Seq(Entry) /\ Len(rs) = Len(entries) - 1
          /\ \A i \in DOMAIN rs : rs[i] = entries[IF i = v THEN Len(entries) ELSE i]
      <4>1. LET ss == SwapRemove(entries, v) IN
            /\ ss \in Seq(Entry) /\ Len(ss) = Len(entries) - 1
            /\ \A i \in DOMAIN ss : ss[i] = entries[IF i = v THEN Len(entries) ELSE i]
            BY <1>1, <3>1, SwapRemoveShape
      <4> QED BY <3>1, <4>1
    <3>4. DOMAIN rs = 1 .. Len(entries) - 1
          BY <3>3, LenProperties
    <3>5. ASSUME NEW k \in DOMAIN entries, k # v
          PROVE  \E i \in DOMAIN rs : rs[i] = entries[k]
      <4>1. CASE k = Len(entries)
        <5>1. v \in DOMAIN rs
              BY <1>1, <3>2, <3>4, <3>5, <4>1
        <5> QED BY <3>3, <4>1, <5>1
      <4>2. CASE k # Len(entries)
        <5>1. k \in DOMAIN rs
              BY <1>1, <3>4, <4>2
        <5> QED BY <3>3, <3>5, <5>1
      <4> QED BY <4>1, <4>2
    <3> QED BY <3>2, <3>5
  <2> QED BY <1>1, <2>1, <2>2
<1> HIDE DEF rs
<1>4. PICK from \in [DOMAIN rs -> DOMAIN entries] :
            /\ \A i \in DOMAIN rs : rs[i] = entries[from[i]]
            /\ \A i, j \in DOMAIN rs : from[i] = from[j] => i = j
      BY <1>2
<1>5. \A i \in DOMAIN rs, j \in DOMAIN rs : rs[i].last_touch = rs[j].last_touch => i = j
      BY <1>4 DEF TouchOK
<1>6. \A i \in DOMAIN rs : \E k \in DOMAIN entries : rs[i] = entries[k]
      BY <1>4
<1> QED BY <1>2, <1>3, <1>5, <1>6 DEF rs

----------------------------------------------------------------------------
(* What a step does to the clock and to who is watched.                    *)

\* Of two repositories that are watched, the one that a step stops watching was
\* asked for earlier.
OldestGoes ==
    \A r, s \in Repos :
        Watched(r) /\ ~Watched(r)' /\ Watched(s) /\ s # r => LastTouch(r) < LastTouch(s)

\* The same of the vector.
OlderGone ==
    \A k \in DOMAIN entries :
        \/ \E i \in DOMAIN entries' : entries'[i].repo = entries[k].repo
        \/ \A j \in DOMAIN entries \ {k} : entries[k].last_touch < entries[j].last_touch

\* The repository's entry is the one that has its name.
LEMMA OlderGoneIsOldestGoes ==
    ASSUME OlderGone PROVE OldestGoes
<1> SUFFICES ASSUME NEW r \in Repos, NEW s \in Repos,
                    Watched(r), ~Watched(r)', Watched(s), s # r
             PROVE  LastTouch(r) < LastTouch(s)
    BY DEF OldestGoes
<1> DEFINE k == CHOOSE i \in DOMAIN entries : entries[i].repo = r
           j == CHOOSE i \in DOMAIN entries : entries[i].repo = s
<1>1. k \in DOMAIN entries /\ entries[k].repo = r
      BY DEF Watched
<1>2. j \in DOMAIN entries /\ entries[j].repo = s
      BY DEF Watched
<1>3. LastTouch(r) = entries[k].last_touch /\ LastTouch(s) = entries[j].last_touch
      BY DEF LastTouch, EntryOf
<1> HIDE DEF k, j
<1>4. \A i \in DOMAIN entries' : entries'[i].repo # r
      BY DEF Watched
<1>5. j # k
      BY <1>1, <1>2
<1> QED BY <1>1, <1>2, <1>3, <1>4, <1>5 DEF OlderGone

\* Changes in place that leave last_touch alone.
LEMMA InPlaceTouch ==
    ASSUME TouchOK, touch' = touch,
           entries' = [i \in DOMAIN entries |-> entries'[i]],
           \A i \in DOMAIN entries : /\ entries'[i].repo = entries[i].repo
                                     /\ entries'[i].last_touch = entries[i].last_touch
    PROVE  TouchOK' /\ OldestGoes
<1>1. DOMAIN entries' = DOMAIN entries
      OBVIOUS
<1>2. TouchOK'
      BY <1>1 DEF TouchOK
<1>3. OlderGone
      BY <1>1 DEF OlderGone
<1> QED BY <1>2, <1>3, OlderGoneIsOldestGoes

\* A notification.
LEMMA NotifyTouch ==
    ASSUME IInv, TouchOK, NEW r \in Repos, NEW p \in Paths, Notify(r, p), touch' = touch
    PROVE  TouchOK' /\ OldestGoes
<1>1. PICK q \in {p, Lost} :
          entries' = [i \in DOMAIN entries |->
                        IF entries[i].repo = r THEN Notified(entries[i], p, q)
                                               ELSE entries[i]]
      BY DEF Notify
<1>2. \A i \in DOMAIN entries : entries[i] \in Entry
      BY ElementOfSeq, LenProperties DEF IInv, VectorOK
<1>3. \A i \in DOMAIN entries : /\ entries'[i].repo = entries[i].repo
                                /\ entries'[i].last_touch = entries[i].last_touch
      BY <1>1, <1>2, NotifiedKeeps
<1>4. entries' = [i \in DOMAIN entries |-> entries'[i]]
      BY <1>1
<1> QED BY <1>3, <1>4, InPlaceTouch

\* A request that fails.
LEMMA RequestFailsTouch ==
    ASSUME IInv, TouchOK, NEW r \in Repos, RequestFails(r)
    PROVE  TouchOK' /\ OldestGoes
<1>1. PICK k \in DOMAIN entries :
          entries' = [entries EXCEPT ![k] = [entries[k] EXCEPT !.io = "failed"]]
      BY DEF RequestFails
<1>2. \A i \in DOMAIN entries : entries[i] \in Entry
      BY ElementOfSeq, LenProperties DEF IInv, VectorOK
<1>3. \A i \in DOMAIN entries : /\ entries'[i].repo = entries[i].repo
                                /\ entries'[i].last_touch = entries[i].last_touch
      BY <1>1, <1>2 DEF Entry
<1>4. entries' = [i \in DOMAIN entries |-> entries'[i]] /\ touch' = touch
      BY <1>1 DEF RequestFails
<1> QED BY <1>3, <1>4, InPlaceTouch

\* A sweep.
LEMMA ProcessSignaledTouch ==
    ASSUME IInv, TouchOK, ProcessSignaled
    PROVE  TouchOK' /\ OldestGoes
<1>1. PICK refused :
         entries' = [i \in DOMAIN entries |->
              IF Signaled(entries[i])
              THEN HandleEvent(entries[i], disk[entries[i].repo].rules, i \notin refused)
              ELSE entries[i]]
      BY DEF ProcessSignaled
<1>2. \A i \in DOMAIN entries :
         entries[i] \in Entry /\ disk[entries[i].repo].rules \in SUBSET Matchable
  <2>1. \A i \in DOMAIN entries : entries[i] \in Entry
        BY ElementOfSeq, LenProperties DEF IInv, VectorOK
  <2>2. \A i \in DOMAIN entries : entries[i].repo \in Repos
        BY <2>1 DEF Entry
  <2>3. \A r \in Repos : disk[r].rules \in SUBSET Matchable
        BY DEF IInv, RestOK, Disk
  <2> QED BY <2>1, <2>2, <2>3
<1>3. ASSUME NEW i \in DOMAIN entries
      PROVE  /\ entries'[i].repo = entries[i].repo
             /\ entries'[i].last_touch = entries[i].last_touch
  <2>1. CASE Signaled(entries[i])
        BY <1>1, <1>2, <2>1, HandleEventKeeps
  <2>2. CASE ~Signaled(entries[i])
        BY <1>1, <2>2
  <2> QED BY <2>1, <2>2
<1>4. entries' = [i \in DOMAIN entries |-> entries'[i]] /\ touch' = touch
      BY <1>1 DEF ProcessSignaled
<1> QED BY <1>3, <1>4, InPlaceTouch

\* flush() is not a use.
LEMMA FlushTouch ==
    ASSUME IInv, TouchOK, Flush
    PROVE  TouchOK' /\ OldestGoes
<1>1. entries' = [i \in DOMAIN entries |->
          IF entries[i].pending
          THEN [entries[i] EXCEPT !.pending = FALSE,
                                  !.version = epoch + Cardinality(Before(entries, i))]
          ELSE entries[i]]
      BY DEF Flush
<1>2. \A i \in DOMAIN entries : entries[i] \in Entry
      BY ElementOfSeq, LenProperties DEF IInv, VectorOK
<1>3. \A i \in DOMAIN entries : /\ entries'[i].repo = entries[i].repo
                                /\ entries'[i].last_touch = entries[i].last_touch
      BY <1>1, <1>2 DEF Entry
<1>4. entries' = [i \in DOMAIN entries |-> entries'[i]] /\ touch' = touch
      BY <1>1 DEF Flush
<1> QED BY <1>3, <1>4, InPlaceTouch

\* ensure() gives an entry the time, which no other has.
LEMMA EnsureWatchedTouch ==
    ASSUME IInv, TouchOK, NEW r \in Repos, EnsureWatched(r)
    PROVE  TouchOK' /\ OldestGoes
<1>1. PICK k \in DOMAIN entries, ok \in BOOLEAN :
         entries' = [entries EXCEPT ![k] =
            IF [entries[k] EXCEPT !.last_touch = touch].armed
            THEN [entries[k] EXCEPT !.last_touch = touch]
            ELSE [StartWatch([entries[k] EXCEPT !.last_touch = touch], ok)
                     EXCEPT !.pending = TRUE]]
      BY DEF EnsureWatched, ArmResults
<1>2. /\ touch' = touch + 1 /\ touch \in Nat
      /\ \A i \in DOMAIN entries : entries[i] \in Entry
      BY ElementOfSeq, LenProperties DEF IInv, VectorOK, RestOK, EnsureWatched
<1> DEFINE e == [entries[k] EXCEPT !.last_touch = touch]
           w == StartWatch(e, ok)
           f == [w EXCEPT !.pending = TRUE]
<1>3. e \in Entry /\ e.repo = entries[k].repo /\ e.last_touch = touch
      BY <1>2 DEF Entry
<1> HIDE DEF e
<1>4. w \in Entry /\ w.repo = e.repo /\ w.last_touch = e.last_touch
      BY <1>3, StartWatchKeeps
<1> HIDE DEF w
<1>5. f.repo = entries[k].repo /\ f.last_touch = touch
      BY <1>3, <1>4 DEF Entry
<1> HIDE DEF f
<1>6. entries' = [entries EXCEPT ![k] = IF e.armed THEN e ELSE f]
      BY <1>1 DEF e, f, w
<1>7. /\ DOMAIN entries' = DOMAIN entries
      /\ \A i \in DOMAIN entries :
            /\ entries'[i].repo = entries[i].repo
            /\ entries'[i].last_touch = IF i = k THEN touch ELSE entries[i].last_touch
      BY <1>3, <1>5, <1>6
<1>8. \A i \in DOMAIN entries : entries[i].last_touch \in Nat /\ entries[i].last_touch < touch
      BY <1>2 DEF TouchOK, Entry
<1>9. TouchOK'
  <2>1. \A i \in DOMAIN entries' : entries'[i].last_touch < touch'
        BY <1>2, <1>7, <1>8
  <2>2. \A i, j \in DOMAIN entries' :
           entries'[i].last_touch = entries'[j].last_touch => i = j
        BY <1>2, <1>7, <1>8 DEF TouchOK
  <2> QED BY <2>1, <2>2 DEF TouchOK
<1>10. OlderGone
      BY <1>7 DEF OlderGone
<1> QED BY <1>9, <1>10, OlderGoneIsOldestGoes

\* An ensure() that cannot open the directory.
LEMMA EnsureFailsTouch ==
    ASSUME IInv, TouchOK, NEW r \in Repos, EnsureFails(r)
    PROVE  TouchOK' /\ OldestGoes
<1>1. entries' = EvictLru(entries) /\ touch' = touch
      BY DEF EnsureFails
<1>2. /\ \A i \in DOMAIN entries', j \in DOMAIN entries' :
            entries'[i].last_touch = entries'[j].last_touch => i = j
      /\ \A i \in DOMAIN entries' : \E k \in DOMAIN entries : entries'[i] = entries[k]
      /\ \A k \in DOMAIN entries :
            \/ \E i \in DOMAIN entries' : entries'[i] = entries[k]
            \/ \A j \in DOMAIN entries \ {k} :
                  entries[k].last_touch < entries[j].last_touch
      BY <1>1, EvictLruOldest
<1>3. TouchOK'
      BY <1>1, <1>2 DEF TouchOK
<1>4. OlderGone
      BY <1>2 DEF OlderGone
<1> QED BY <1>3, <1>4, OlderGoneIsOldestGoes

\* One that appends an entry after making room.
LEMMA EnsureNewTouch ==
    ASSUME IInv, TouchOK, NEW r \in Repos, EnsureNew(r)
    PROVE  TouchOK' /\ OldestGoes
<1> DEFINE fresh == [repo |-> r, ignore |-> disk[r].rules, pending |-> FALSE,
                     armed |-> FALSE, last_touch |-> touch, version |-> epoch,
                     io |-> "none", batch |-> {}, queue |-> {}]
           kept  == EvictLru(entries)
<1>1. PICK ok \in BOOLEAN :
         entries' = Append(kept, [StartWatch(fresh, ok) EXCEPT !.pending = ~ok])
      BY DEF EnsureNew, ArmResults
<1>2. /\ touch' = touch + 1 /\ touch \in Nat /\ epoch \in Nat /\ disk \in [Repos -> Disk]
      /\ \A i \in DOMAIN entries : entries[i] \in Entry
      BY ElementOfSeq, LenProperties DEF IInv, VectorOK, RestOK, EnsureNew
<1>3. /\ kept \in Seq(Entry)
      /\ \A i \in DOMAIN kept, j \in DOMAIN kept :
            kept[i].last_touch = kept[j].last_touch => i = j
      /\ \A i \in DOMAIN kept : \E k \in DOMAIN entries : kept[i] = entries[k]
      /\ \A k \in DOMAIN entries :
            \/ \E i \in DOMAIN kept : kept[i] = entries[k]
            \/ \A j \in DOMAIN entries \ {k} :
                  entries[k].last_touch < entries[j].last_touch
      BY EvictLruOldest
<1> DEFINE started == StartWatch(fresh, ok)
           e       == [started EXCEPT !.pending = ~ok]
<1>4. fresh \in Entry /\ fresh.last_touch = touch
      BY <1>2 DEF Entry, Disk
<1> HIDE DEF fresh, kept
<1>5. started \in Entry /\ started.last_touch = touch
      BY <1>4, StartWatchKeeps
<1> HIDE DEF started
<1>6. e \in Entry /\ e.last_touch = touch
      BY <1>5 DEF Entry
<1>7. entries' = Append(kept, e)
      BY <1>1 DEF started
<1> HIDE DEF e
<1>8. /\ Len(kept) \in Nat /\ DOMAIN kept = 1 .. Len(kept)
      /\ DOMAIN entries' = 1 .. Len(kept) + 1
      /\ \A i \in 1 .. Len(kept) : entries'[i] = kept[i]
      /\ entries'[Len(kept) + 1] = e
      BY <1>3, <1>6, <1>7, LenProperties, AppendProperties
<1>9. \A i \in 1 .. Len(kept) : /\ entries'[i].last_touch \in Nat
                                /\ entries'[i].last_touch < touch
  <2> TAKE i \in 1 .. Len(kept)
  <2>1. PICK k \in DOMAIN entries : kept[i] = entries[k]
        BY <1>3, <1>8
  <2>2. entries[k].last_touch \in Nat /\ entries[k].last_touch < touch
        BY <1>2 DEF TouchOK, Entry
  <2> QED BY <1>8, <2>1, <2>2
<1>10. TouchOK'
  <2>1. \A i \in DOMAIN entries' : i \in 1 .. Len(kept) \/ i = Len(kept) + 1
        BY <1>8
  <2>2. \A i \in DOMAIN entries' : entries'[i].last_touch < touch'
        BY <1>2, <1>6, <1>8, <1>9, <2>1
  <2>3. ASSUME NEW i \in DOMAIN entries', NEW j \in DOMAIN entries',
               entries'[i].last_touch = entries'[j].last_touch
        PROVE  i = j
    <3>1. CASE i \in 1 .. Len(kept) /\ j \in 1 .. Len(kept)
          BY <1>3, <1>8, <2>3, <3>1
    <3>2. CASE i = Len(kept) + 1 \/ j = Len(kept) + 1
          BY <1>2, <1>6, <1>8, <1>9, <2>1, <2>3, <3>2
    <3> QED BY <2>1, <3>1, <3>2
  <2> QED BY <2>2, <2>3 DEF TouchOK
<1>11. OlderGone
  <2>1. \A i \in DOMAIN kept : \E h \in DOMAIN entries' : entries'[h] = kept[i]
        BY <1>8
  <2> QED BY <1>3, <2>1 DEF OlderGone
<1> QED BY <1>10, <1>11, OlderGoneIsOldestGoes

----------------------------------------------------------------------------

\* Every step keeps the clock and evicts the oldest at most.
LEMMA TouchStep ==
    TInv /\ [Next]_vars => TInv' /\ (OldestGoes \/ UNCHANGED vars)
<1> SUFFICES ASSUME TInv, [Next]_vars PROVE TInv' /\ (OldestGoes \/ UNCHANGED vars)
    OBVIOUS
<1> USE DEF TInv
<1>1. IInv'
      BY InvariantStep
<1>2. CASE UNCHANGED vars
      BY <1>1, <1>2 DEF vars, TouchOK
<1>3. CASE Next
  <2>1. ASSUME NEW r \in Repos, Ensure(r) PROVE TouchOK' /\ OldestGoes
        BY <2>1, EnsureWatchedTouch, EnsureNewTouch, EnsureFailsTouch DEF Ensure
  <2>2. ASSUME Flush PROVE TouchOK' /\ OldestGoes
        BY <2>2, FlushTouch
  <2>3. ASSUME ProcessSignaled PROVE TouchOK' /\ OldestGoes
        BY <2>3, ProcessSignaledTouch
  <2>4. ASSUME NEW r \in Repos, NEW p \in Paths, Write(r, p) PROVE TouchOK' /\ OldestGoes
        BY <2>4, NotifyTouch DEF Write
  <2>5. ASSUME NEW r \in Repos, NEW rules \in RuleSets, EditGitignore(r, rules)
        PROVE  TouchOK' /\ OldestGoes
        BY <2>5, NotifyTouch DEF EditGitignore, Paths, NamedPaths
  <2>6. ASSUME NEW r \in Repos, RequestFails(r) PROVE TouchOK' /\ OldestGoes
        BY <2>6, RequestFailsTouch
  <2>7. TouchOK' /\ OldestGoes
        BY <1>3, <2>1, <2>2, <2>3, <2>4, <2>5, <2>6 DEF Next
  <2> QED BY <1>1, <2>7
<1> QED BY <1>2, <1>3

\* evict_lru() never takes a repository that was asked for later than another:
\* one in use survives the next Capacity - 1 others.
THEOREM OldestEvicted == Spec => EvictsOldest
<1>1. Init => TInv
  <2> SUFFICES ASSUME Init PROVE TInv
      OBVIOUS
  <2>1. entries = <<>>
        BY DEF Init
  <2> QED BY <2>1, InvariantInit DEF TInv, TouchOK
<1>2. TInv /\ [Next]_vars =>
        [\A r, s \in Repos :
            Watched(r) /\ ~Watched(r)' /\ Watched(s) /\ s # r
               => LastTouch(r) < LastTouch(s)]_vars
      BY TouchStep DEF OldestGoes
<1>3. TInv /\ [Next]_vars => TInv'
      BY TouchStep
<1> QED BY <1>1, <1>2, <1>3, PTL DEF Spec, EvictsOldest

----------------------------------------------------------------------------
(* No change is forgotten.  NoSolidChangeMissed is not inductive: that an  *)
(* entry's event is set says nothing of what the completion will be taken  *)
(* for.  AllReported says where the change is on record.                   *)

\* What is watched whatever the rules are: the paths no rules match, and the
\* rules.
SolidNames == SolidPaths \cup {".gitignore"}

\* All that a repository has on disk.
Names == Matchable \cup {".gitignore"}

Content(d, p) == IF p = ".gitignore" THEN d.rules ELSE d.content[p]

\* A change of path p is on record: the entry is due a new version or to be
\* armed again, or its completion tells of p or of nothing, or the next one
\* will.
Reported(e, p) == \/ e.pending \/ ~e.armed
                  \/ e.io \in {"zero", "failed"}
                  \/ e.io = "records" /\ p \in e.batch
                  \/ Signaled(e) /\ e.queue \cap {p, Lost} # {}

RulesKnown == /\ \A r \in Repos : disk[r].rules \in RuleSets
              /\ \A i \in DOMAIN entries : entries[i].ignore \in RuleSets

\* What has changed since an entry was given its version is on record.
AllReported ==
    \A i \in DOMAIN entries, p \in SolidNames : LET e == entries[i] IN
        Content(disk[e.repo], p) # Content(base[e.repo], p) => Reported(e, p)

CInv == IInv /\ RulesKnown /\ AllReported

----------------------------------------------------------------------------
(* What the operators on one entry leave on record.                        *)

\* None of the solid paths is one that filter_visible drops, by any rules.
LEMMA SolidIsVisible ==
    ASSUME NEW p \in SolidNames, NEW rules \in RuleSets
    PROVE  p \in Names \ rules
BY FilesAssumption DEF SolidNames, SolidPaths, Names, Matchable, NamedPaths

\* Records that piled up complete the next request at once, and if that is
\* refused the entry knows.
LEMMA StartWatchReports ==
    ASSUME NEW e \in Entry, NEW ok \in BOOLEAN, NEW p, e.queue \cap {p, Lost} # {}
    PROVE  Reported(StartWatch(e, ok), p)
BY DEF StartWatch, Reported, Entry, Signaled, Completions

\* A notification puts its path on record and takes none off.
LEMMA NotifiedReports ==
    ASSUME NEW e \in Entry, e.armed <=> e.io # "none",
           NEW p \in Paths, NEW q \in {p, Lost}, NEW s
    PROVE  /\ Reported(e, s) => Reported(Notified(e, p, q), s)
           /\ Reported(Notified(e, p, q), p)
BY DEF Notified, Reported, Entry, Signaled, Completions

\* Handling a completion makes what it tells of due, and keeps the rest, but for
\* what the rules match.
LEMMA HandleEventReports ==
    ASSUME NEW e \in Entry, Signaled(e), e.armed,
           NEW rules \in SUBSET Matchable, NEW ok \in BOOLEAN, NEW p \in Names \ e.ignore,
           Reported(e, p)
    PROVE  Reported(HandleEvent(e, rules, ok), p)
<1> DEFINE s == StartWatch(e, ok)
           reload == e.io = "records" /\ ".gitignore" \in e.batch
           ignore == IF reload THEN rules ELSE e.ignore
           changed == e.io = "records" => reload \/ FilterVisible(ignore, e.batch)
           h == [s EXCEPT !.ignore = ignore, !.pending = @ \/ changed \/ ~ok]
<1>1. HandleEvent(e, rules, ok) = h
      BY DEF HandleEvent
<1>2. s \in Entry /\ s.pending = e.pending /\ ignore \in SUBSET Matchable
      BY StartWatchKeeps DEF Entry
<1>3. CASE e.pending \/ changed \/ ~ok
  <2>1. h.pending
        BY <1>2, <1>3 DEF Entry
  <2> QED BY <1>1, <2>1 DEF Reported
<1>4. CASE ~(e.pending \/ changed \/ ~ok)
  <2>1. e.io = "records" /\ ".gitignore" \notin e.batch /\ ~FilterVisible(e.ignore, e.batch)
        BY <1>4
  <2>2. p # "internal"
        BY FilesAssumption DEF Names, Matchable, NamedPaths
  <2>3. p \notin e.batch
        BY <2>1, <2>2 DEF FilterVisible
  <2>4. e.queue \cap {p, Lost} # {}
        BY <1>4, <2>1, <2>3 DEF Reported
  <2>5. Reported(s, p)
        BY <2>4, StartWatchReports
  <2>6. /\ h.armed = s.armed /\ h.io = s.io /\ h.batch = s.batch /\ h.queue = s.queue
        /\ s.pending => h.pending
        BY <1>2 DEF Entry
  <2> HIDE DEF h, s
  <2>7. Reported(h, p)
        BY <2>5, <2>6 DEF Reported, Signaled
  <2> QED BY <1>1, <2>7
<1> QED BY <1>3, <1>4

\* The rules after a completion are the old ones or those on disk.
LEMMA HandleEventRules ==
    ASSUME NEW e \in Entry, e.ignore \in RuleSets,
           NEW rules \in RuleSets, NEW ok \in BOOLEAN
    PROVE  HandleEvent(e, rules, ok).ignore \in RuleSets
<1> DEFINE s == StartWatch(e, ok)
           reload == e.io = "records" /\ ".gitignore" \in e.batch
           ignore == IF reload THEN rules ELSE e.ignore
           due == s.pending
                    \/ (e.io = "records" => reload \/ FilterVisible(ignore, e.batch))
                    \/ ~ok
<1>1. s \in Entry
      BY StartWatchKeeps
<1>2. HandleEvent(e, rules, ok) = [s EXCEPT !.ignore = ignore, !.pending = due]
      BY DEF HandleEvent
<1>3. ignore \in RuleSets
      OBVIOUS
<1> HIDE DEF s, ignore, due
<1> QED BY <1>1, <1>2, <1>3 DEF Entry

----------------------------------------------------------------------------
(* What a step does to the records.                                        *)

\* Entry f has on record all that entry e had, and what has changed on disk
\* since, but for what the rules of e match.
Carries(e, f, before, after) ==
    \A p \in Names \ e.ignore :
        Reported(e, p) \/ Content(after, p) # Content(before, p) => Reported(f, p)

\* A step takes nothing off the record of an entry that keeps its version.
Carried ==
    /\ RulesKnown'
    /\ \A i \in DOMAIN entries', j \in DOMAIN entries :
          LET e == entries[j]
              f == entries'[i]
          IN  f.repo = e.repo /\ f.version = e.version
                 => Carries(e, f, disk[e.repo], disk'[e.repo])

\* It is enough to look at each entry, if all keep their places.
LEMMA InPlaceCarried ==
    ASSUME VectorOK, \A r \in Repos : disk'[r].rules \in RuleSets,
           entries' = [i \in DOMAIN entries |-> entries'[i]],
           \A i \in DOMAIN entries :
              /\ entries'[i].repo = entries[i].repo
              /\ entries'[i].ignore \in RuleSets
              /\ entries'[i].version = entries[i].version
                    => Carries(entries[i], entries'[i],
                               disk[entries[i].repo], disk'[entries[i].repo])
    PROVE  Carried
<1>1. DOMAIN entries' = DOMAIN entries
      OBVIOUS
<1>2. RulesKnown'
      BY <1>1 DEF RulesKnown
<1>3. ASSUME NEW i \in DOMAIN entries', NEW j \in DOMAIN entries,
             entries'[i].repo = entries[j].repo,
             entries'[i].version = entries[j].version
      PROVE  Carries(entries[j], entries'[i],
                     disk[entries[j].repo], disk'[entries[j].repo])
  <2>1. i = j
        BY <1>1, <1>3 DEF VectorOK, Bounded
  <2> QED BY <1>1, <1>3, <2>1
<1> QED BY <1>2, <1>3 DEF Carried

\* An entry that does not change carries its records over, if the disk does
\* not change.
LEMMA SameCarries ==
    ASSUME NEW e, NEW d PROVE Carries(e, e, d, d)
BY DEF Carries

\* A write or an edit notifies the entry of its repository.
LEMMA NotifyCarried ==
    ASSUME VectorOK, RulesKnown, NEW r \in Repos, NEW p \in Paths, Notify(r, p),
           \A t \in Repos : disk'[t].rules \in RuleSets,
           \A t \in Repos, s \in Names :
              Content(disk'[t], s) # Content(disk[t], s) => t = r /\ s = p
    PROVE  Carried
<1>1. PICK q \in {p, Lost} :
          entries' = [i \in DOMAIN entries |->
                        IF entries[i].repo = r THEN Notified(entries[i], p, q)
                                               ELSE entries[i]]
      BY DEF Notify
<1>2. \A i \in DOMAIN entries : /\ entries[i] \in Entry
                                /\ entries[i].repo \in Repos
                                /\ entries[i].ignore \in RuleSets
                                /\ entries[i].armed <=> entries[i].io # "none"
  <2>1. \A i \in DOMAIN entries : entries[i] \in Entry
        BY ElementOfSeq, LenProperties DEF VectorOK
  <2> QED BY <2>1 DEF VectorOK, ArmedMeansOutstanding, RulesKnown, Entry
<1>3. ASSUME NEW i \in DOMAIN entries
      PROVE  /\ entries'[i].repo = entries[i].repo
             /\ entries'[i].ignore \in RuleSets
             /\ Carries(entries[i], entries'[i],
                        disk[entries[i].repo], disk'[entries[i].repo])
  <2>1. CASE entries[i].repo = r
    <3>1. entries'[i] = Notified(entries[i], p, q)
          BY <1>1, <2>1
    <3>2. entries'[i].repo = entries[i].repo /\ entries'[i].ignore \in RuleSets
          BY <1>2, <3>1, NotifiedKeeps
    <3>3. \A s \in Names :
             /\ Reported(entries[i], s) => Reported(entries'[i], s)
             /\ Reported(entries'[i], p)
          BY <1>2, <3>1, NotifiedReports
    <3> QED BY <1>2, <3>2, <3>3 DEF Carries
  <2>2. CASE entries[i].repo # r
    <3>1. entries'[i] = entries[i]
          BY <1>1, <2>2
    <3> QED BY <1>2, <2>2, <3>1 DEF Carries
  <2> QED BY <2>1, <2>2
<1>4. entries' = [i \in DOMAIN entries |-> entries'[i]]
      BY <1>1
<1> QED BY <1>3, <1>4, InPlaceCarried

\* A write changes one path of one repository.
LEMMA WriteCarried ==
    ASSUME VectorOK, RestOK, RulesKnown, NEW r \in Repos, NEW p \in Paths, Write(r, p)
    PROVE  Carried
<1>1. disk \in [Repos -> Disk] /\ ".gitignore" \notin Matchable
      BY FilesAssumption DEF RestOK, Matchable, NamedPaths
<1>2. CASE p \in Matchable
  <2>1. disk' = [disk EXCEPT ![r] = [disk[r] EXCEPT !.content =
                                       [disk[r].content EXCEPT ![p] = 1 - @]]]
        BY <1>2 DEF Write
  <2>2. disk[r] \in Disk /\ disk[r].content \in [Matchable -> {0, 1}]
        BY <1>1 DEF Disk
  <2>3. \A t \in Repos : /\ disk'[t].rules = disk[t].rules
                         /\ t # r => disk'[t] = disk[t]
        BY <1>1, <2>1, <2>2 DEF Disk
  <2>4. \A s \in Matchable \ {p} : disk'[r].content[s] = disk[r].content[s]
        BY <1>1, <2>1, <2>2 DEF Disk
  <2>5. \A t \in Repos, s \in Names :
           Content(disk'[t], s) # Content(disk[t], s) => t = r /\ s = p
        BY <1>1, <2>3, <2>4 DEF Content, Names
  <2>6. Notify(r, p) /\ \A t \in Repos : disk'[t].rules \in RuleSets
        BY <2>3 DEF Write, RulesKnown
  <2> QED BY <2>5, <2>6, NotifyCarried
<1>3. CASE p \notin Matchable
  <2>1. disk' = disk /\ Notify(r, p)
        BY <1>3 DEF Write
  <2> QED BY <2>1, NotifyCarried DEF RulesKnown
<1> QED BY <1>2, <1>3

\* An edit of .gitignore changes the rules of one repository.
LEMMA EditCarried ==
    ASSUME VectorOK, RestOK, RulesKnown, NEW r \in Repos, NEW rules \in RuleSets,
           EditGitignore(r, rules)
    PROVE  Carried
<1>1. disk \in [Repos -> Disk] /\ ".gitignore" \notin Matchable /\ ".gitignore" \in Paths
      BY FilesAssumption DEF RestOK, Matchable, NamedPaths, Paths
<1>2. disk' = [disk EXCEPT ![r] = [disk[r] EXCEPT !.rules = rules]] /\ Notify(r, ".gitignore")
      BY DEF EditGitignore
<1>3. disk[r] \in Disk
      BY <1>1
<1>4. \A t \in Repos : /\ disk'[t].content = disk[t].content
                       /\ disk'[t].rules \in RuleSets
                       /\ t # r => disk'[t] = disk[t]
      BY <1>1, <1>2, <1>3 DEF Disk, RulesKnown
<1>5. \A t \in Repos, s \in Names :
         Content(disk'[t], s) # Content(disk[t], s) => t = r /\ s = ".gitignore"
      BY <1>4 DEF Content
<1> QED BY <1>1, <1>2, <1>4, <1>5, NotifyCarried

\* A request that fails is a record of everything.
LEMMA RequestFailsCarried ==
    ASSUME VectorOK, RulesKnown, NEW r \in Repos, RequestFails(r)
    PROVE  Carried
<1>1. PICK k \in DOMAIN entries :
          /\ entries[k].io = "waiting"
          /\ entries' = [entries EXCEPT ![k] = [entries[k] EXCEPT !.io = "failed"]]
      BY DEF RequestFails
<1>2. \A i \in DOMAIN entries : entries[i] \in Entry /\ entries[i].ignore \in RuleSets
      BY ElementOfSeq, LenProperties DEF VectorOK, RulesKnown
<1>3. disk' = disk
      BY DEF RequestFails
<1>4. ASSUME NEW i \in DOMAIN entries
      PROVE  /\ entries'[i].repo = entries[i].repo
             /\ entries'[i].ignore \in RuleSets
             /\ Carries(entries[i], entries'[i],
                        disk[entries[i].repo], disk'[entries[i].repo])
  <2>1. CASE i = k
    <3>1. entries'[i] = [entries[i] EXCEPT !.io = "failed"]
          BY <1>1, <2>1
    <3>2. entries'[i].io = "failed" /\ entries'[i].repo = entries[i].repo
          /\ entries'[i].ignore = entries[i].ignore
          BY <1>2, <3>1 DEF Entry
    <3> QED BY <1>2, <3>2 DEF Carries, Reported
  <2>2. CASE i # k
        BY <1>1, <1>2, <1>3, <2>2, SameCarries
  <2> QED BY <2>1, <2>2
<1>5. \A t \in Repos : disk'[t].rules \in RuleSets
      BY <1>3 DEF RulesKnown
<1>6. entries' = [i \in DOMAIN entries |-> entries'[i]]
      BY <1>1
<1> QED BY <1>4, <1>5, <1>6, InPlaceCarried

\* A sweep makes what the completions tell of due.
LEMMA ProcessSignaledCarried ==
    ASSUME VectorOK, RulesKnown, ProcessSignaled
    PROVE  Carried
<1>1. PICK refused :
         entries' = [i \in DOMAIN entries |->
              IF Signaled(entries[i])
              THEN HandleEvent(entries[i], disk[entries[i].repo].rules, i \notin refused)
              ELSE entries[i]]
      BY DEF ProcessSignaled
<1>2. \A i \in DOMAIN entries : /\ entries[i] \in Entry
                                /\ entries[i].repo \in Repos
                                /\ entries[i].ignore \in RuleSets
                                /\ entries[i].armed <=> entries[i].io # "none"
  <2>1. \A i \in DOMAIN entries : entries[i] \in Entry
        BY ElementOfSeq, LenProperties DEF VectorOK
  <2> QED BY <2>1 DEF VectorOK, ArmedMeansOutstanding, RulesKnown, Entry
<1>3. disk' = disk
      BY DEF ProcessSignaled
<1>4. ASSUME NEW i \in DOMAIN entries
      PROVE  /\ entries'[i].repo = entries[i].repo
             /\ entries'[i].ignore \in RuleSets
             /\ Carries(entries[i], entries'[i],
                        disk[entries[i].repo], disk'[entries[i].repo])
  <2>1. CASE Signaled(entries[i])
    <3> DEFINE rules == disk[entries[i].repo].rules
               ok    == i \notin refused
    <3>1. entries'[i] = HandleEvent(entries[i], rules, ok)
          BY <1>1, <2>1
    <3>2. rules \in RuleSets /\ rules \in SUBSET Matchable /\ ok \in BOOLEAN
          BY <1>2, FilesAssumption DEF RulesKnown
    <3>3. entries[i].armed
          BY <1>2, <2>1 DEF Signaled, Completions
    <3> HIDE DEF rules, ok
    <3>4. entries'[i].repo = entries[i].repo
          BY <1>2, <3>1, <3>2, HandleEventKeeps
    <3>5. entries'[i].ignore \in RuleSets
          BY <1>2, <3>1, <3>2, HandleEventRules
    <3>6. \A p \in Names \ entries[i].ignore :
             Reported(entries[i], p) => Reported(entries'[i], p)
          BY <1>2, <2>1, <3>1, <3>2, <3>3, HandleEventReports
    <3> QED BY <1>3, <3>4, <3>5, <3>6 DEF Carries
  <2>2. CASE ~Signaled(entries[i])
        BY <1>1, <1>2, <1>3, <2>2, SameCarries
  <2> QED BY <2>1, <2>2
<1>5. \A t \in Repos : disk'[t].rules \in RuleSets
      BY <1>3 DEF RulesKnown
<1>6. entries' = [i \in DOMAIN entries |-> entries'[i]]
      BY <1>1
<1> QED BY <1>4, <1>5, <1>6, InPlaceCarried

\* ensure() of a repository that has an entry makes it due if it arms it.
LEMMA EnsureWatchedCarried ==
    ASSUME VectorOK, RulesKnown, touch \in Nat, NEW r \in Repos, EnsureWatched(r)
    PROVE  Carried
<1>1. PICK k \in DOMAIN entries, ok \in BOOLEAN :
         entries' = [entries EXCEPT ![k] =
            IF [entries[k] EXCEPT !.last_touch = touch].armed
            THEN [entries[k] EXCEPT !.last_touch = touch]
            ELSE [StartWatch([entries[k] EXCEPT !.last_touch = touch], ok)
                     EXCEPT !.pending = TRUE]]
      BY DEF EnsureWatched, ArmResults
<1>2. \A i \in DOMAIN entries : entries[i] \in Entry /\ entries[i].ignore \in RuleSets
      BY ElementOfSeq, LenProperties DEF VectorOK, RulesKnown
<1>3. disk' = disk
      BY DEF EnsureWatched
<1>4. ASSUME NEW i \in DOMAIN entries
      PROVE  /\ entries'[i].repo = entries[i].repo
             /\ entries'[i].ignore \in RuleSets
             /\ Carries(entries[i], entries'[i],
                        disk[entries[i].repo], disk'[entries[i].repo])
  <2> DEFINE e == [entries[i] EXCEPT !.last_touch = touch]
             w == StartWatch(e, ok)
             f == [w EXCEPT !.pending = TRUE]
  <2>0. /\ e \in Entry /\ e.repo = entries[i].repo /\ e.ignore = entries[i].ignore
        /\ e.pending = entries[i].pending /\ e.armed = entries[i].armed
        /\ e.io = entries[i].io /\ e.batch = entries[i].batch /\ e.queue = entries[i].queue
        BY <1>2 DEF Entry
  <2>1. CASE i = k /\ e.armed
    <3>1. entries'[i] = e
          BY <1>1, <2>1
    <3> HIDE DEF e
    <3> QED BY <1>2, <1>3, <2>0, <3>1 DEF Carries, Reported, Signaled
  <2>2. CASE i = k /\ ~e.armed
    <3>1. entries'[i] = f
          BY <1>1, <2>2
    <3> HIDE DEF e
    <3>2. w \in Entry /\ w.repo = e.repo /\ w.ignore = e.ignore
          BY <2>0, StartWatchKeeps
    <3> HIDE DEF w
    <3>3. f.pending /\ f.repo = e.repo /\ f.ignore = e.ignore
          BY <3>2 DEF Entry
    <3> HIDE DEF f
    <3> QED BY <1>2, <2>0, <3>1, <3>3 DEF Carries, Reported
  <2>3. CASE i # k
        BY <1>1, <1>2, <1>3, <2>3, SameCarries
  <2> QED BY <2>1, <2>2, <2>3
<1>5. \A t \in Repos : disk'[t].rules \in RuleSets
      BY <1>3 DEF RulesKnown
<1>6. entries' = [i \in DOMAIN entries |-> entries'[i]]
      BY <1>1
<1> QED BY <1>4, <1>5, <1>6, InPlaceCarried

\* flush() takes off record only what it gives a new version for.
LEMMA FlushCarried ==
    ASSUME VectorOK, RulesKnown, Flush
    PROVE  Carried
<1>1. entries' = [i \in DOMAIN entries |->
          IF entries[i].pending
          THEN [entries[i] EXCEPT !.pending = FALSE,
                                  !.version = epoch + Cardinality(Before(entries, i))]
          ELSE entries[i]]
      BY DEF Flush
<1>2. \A i \in DOMAIN entries : entries[i] \in Entry /\ entries[i].ignore \in RuleSets
      BY ElementOfSeq, LenProperties DEF VectorOK, RulesKnown
<1>3. disk' = disk
      BY DEF Flush
<1>4. ASSUME NEW i \in DOMAIN entries
      PROVE  /\ entries'[i].repo = entries[i].repo
             /\ entries'[i].ignore \in RuleSets
             /\ entries'[i].version = entries[i].version
                   => Carries(entries[i], entries'[i],
                              disk[entries[i].repo], disk'[entries[i].repo])
  <2>1. CASE entries[i].pending
    <3> DEFINE rank == Cardinality(Before(entries, i))
    <3>1. entries'[i] = [entries[i] EXCEPT !.pending = FALSE, !.version = epoch + rank]
          BY <1>1, <2>1
    <3>2. rank \in Nat
      <4>1. i \in Pending(entries)
            BY <2>1 DEF Pending
      <4>2. /\ Cardinality(Pending(entries)) \in Nat
            /\ Cardinality(Before(entries, i)) \in 0 .. Cardinality(Pending(entries)) - 1
            BY <4>1, FlushRanks DEF VectorOK
      <4> QED BY <4>2
    <3> HIDE DEF rank
    <3>3. entries'[i].version = epoch + rank /\ entries'[i].repo = entries[i].repo
          /\ entries'[i].ignore = entries[i].ignore
          BY <1>2, <3>1 DEF Entry
    <3>4. epoch \in Nat /\ entries[i].version \in 1 .. epoch - 1
          BY DEF VectorOK, DistinctVersions
    <3>5. entries'[i].version # entries[i].version
          BY <3>2, <3>3, <3>4
    <3> QED BY <1>2, <3>3, <3>5
  <2>2. CASE ~entries[i].pending
        BY <1>1, <1>2, <1>3, <2>2, SameCarries
  <2> QED BY <2>1, <2>2
<1>5. \A t \in Repos : disk'[t].rules \in RuleSets
      BY <1>3 DEF RulesKnown
<1>6. entries' = [i \in DOMAIN entries |-> entries'[i]]
      BY <1>1
<1> QED BY <1>4, <1>5, <1>6, InPlaceCarried

\* What eviction leaves is as it was: entry i of the vector was entry from[i].
LEMMA EvictLruCarries ==
    ASSUME VectorOK, RulesKnown
    PROVE  /\ EvictLru(entries) \in Seq(Entry)
           /\ \A i \in DOMAIN EvictLru(entries) :
                 LET f == EvictLru(entries)[i] IN
                 /\ f.ignore \in RuleSets
                 /\ \A j \in DOMAIN entries : f.repo = entries[j].repo => f = entries[j]
<1>1. entries \in Seq(Entry) /\ Len(entries) <= Capacity
      BY DEF VectorOK, Bounded
<1> DEFINE rs == EvictLru(entries)
<1>2. /\ rs \in Seq(Entry)
      /\ \E from \in [DOMAIN rs -> DOMAIN entries] :
            \A i \in DOMAIN rs : rs[i] = entries[from[i]]
      BY <1>1, EvictLruShape
<1> HIDE DEF rs
<1>3. PICK from \in [DOMAIN rs -> DOMAIN entries] :
            \A i \in DOMAIN rs : rs[i] = entries[from[i]]
      BY <1>2
<1>4. ASSUME NEW i \in DOMAIN rs
      PROVE  /\ rs[i].ignore \in RuleSets
             /\ \A j \in DOMAIN entries : rs[i].repo = entries[j].repo => rs[i] = entries[j]
  <2>1. from[i] \in DOMAIN entries /\ rs[i] = entries[from[i]]
        BY <1>3
  <2> QED BY <2>1 DEF RulesKnown, VectorOK, Bounded
<1>5. rs \in Seq(Entry) /\ \A i \in DOMAIN rs :
          /\ rs[i].ignore \in RuleSets
          /\ \A j \in DOMAIN entries : rs[i].repo = entries[j].repo => rs[i] = entries[j]
      BY <1>2, <1>4
<1> QED BY <1>5 DEF rs

\* An ensure() that cannot open the directory has evicted at most.
LEMMA EnsureFailsCarried ==
    ASSUME VectorOK, RulesKnown, NEW r \in Repos, EnsureFails(r)
    PROVE  Carried
<1>1. entries' = EvictLru(entries) /\ disk' = disk
      BY DEF EnsureFails
<1>2. \A i \in DOMAIN entries' :
          /\ entries'[i].ignore \in RuleSets
          /\ \A j \in DOMAIN entries : entries'[i].repo = entries[j].repo
                                         => entries'[i] = entries[j]
      BY <1>1, EvictLruCarries
<1>3. RulesKnown'
      BY <1>1, <1>2 DEF RulesKnown
<1> QED BY <1>1, <1>2, <1>3, SameCarries DEF Carried

\* The entry that ensure() creates has nothing to report yet.
LEMMA EnsureNewCarried ==
    ASSUME VectorOK, RestOK, RulesKnown, NEW r \in Repos, EnsureNew(r)
    PROVE  Carried
<1> DEFINE fresh == [repo |-> r, ignore |-> disk[r].rules, pending |-> FALSE,
                     armed |-> FALSE, last_touch |-> touch, version |-> epoch,
                     io |-> "none", batch |-> {}, queue |-> {}]
           kept  == EvictLru(entries)
<1>1. PICK ok \in BOOLEAN, now \in RuleSets :
         /\ entries' = Append(kept, [StartWatch(fresh, ok) EXCEPT !.pending = ~ok])
         /\ disk' = [disk EXCEPT ![r] = [disk[r] EXCEPT !.rules = now]]
      BY DEF EnsureNew, ArmResults, RulesKnown
<1>2. disk \in [Repos -> Disk] /\ epoch \in Nat /\ ~Watched(r)
      BY DEF RestOK, VectorOK, EnsureNew
<1>3. /\ kept \in Seq(Entry)
      /\ \A i \in DOMAIN kept :
            /\ kept[i].ignore \in RuleSets
            /\ \A j \in DOMAIN entries : kept[i].repo = entries[j].repo => kept[i] = entries[j]
      BY EvictLruCarries
<1> DEFINE started == StartWatch(fresh, ok)
           e       == [started EXCEPT !.pending = ~ok]
<1>4. fresh \in Entry /\ fresh.repo = r /\ fresh.ignore = disk[r].rules
      BY <1>2 DEF RestOK, Entry, Disk
<1> HIDE DEF fresh, kept
<1>5. started \in Entry /\ started.repo = r /\ started.ignore = disk[r].rules
      BY <1>4, StartWatchKeeps
<1> HIDE DEF started
<1>6. e.repo = r /\ e.ignore \in RuleSets
      BY <1>5 DEF Entry, RulesKnown
<1>7. entries' = Append(kept, e)
      BY <1>1 DEF started
<1> HIDE DEF e
<1>8. \A i \in DOMAIN entries' : \/ i \in DOMAIN kept /\ entries'[i] = kept[i]
                                 \/ entries'[i] = e
      BY <1>3, <1>7, LenProperties
<1>9. \A t \in Repos : /\ disk'[t].rules \in RuleSets
                       /\ t # r => disk'[t] = disk[t]
      BY <1>1, <1>2 DEF Disk, RulesKnown
<1>10. RulesKnown'
      BY <1>3, <1>6, <1>8, <1>9 DEF RulesKnown
<1>11. ASSUME NEW i \in DOMAIN entries', NEW j \in DOMAIN entries,
              entries'[i].repo = entries[j].repo
       PROVE  Carries(entries[j], entries'[i],
                      disk[entries[j].repo], disk'[entries[j].repo])
  <2>1. entries[j].repo # r
        BY <1>2 DEF Watched
  <2>2. entries[j].repo \in Repos
    <3>1. entries[j] \in Entry
          BY ElementOfSeq, LenProperties DEF VectorOK
    <3> QED BY <3>1 DEF Entry
  <2>3. entries'[i] = entries[j]
        BY <1>3, <1>6, <1>8, <1>11, <2>1
  <2> QED BY <1>9, <2>1, <2>2, <2>3, SameCarries
<1> QED BY <1>10, <1>11 DEF Carried

\* So no step takes off record what the version does not yet account for.
LEMMA StepCarried ==
    ASSUME IInv, RulesKnown, Next
    PROVE  Carried
<1> USE DEF IInv
<1>1. ASSUME NEW r \in Repos, Ensure(r) PROVE Carried
      BY <1>1, EnsureWatchedCarried, EnsureNewCarried, EnsureFailsCarried DEF Ensure, RestOK
<1>2. ASSUME Flush PROVE Carried
      BY <1>2, FlushCarried
<1>3. ASSUME ProcessSignaled PROVE Carried
      BY <1>3, ProcessSignaledCarried
<1>4. ASSUME NEW r \in Repos, NEW p \in Paths, Write(r, p) PROVE Carried
      BY <1>4, WriteCarried
<1>5. ASSUME NEW r \in Repos, NEW rules \in RuleSets, EditGitignore(r, rules)
      PROVE  Carried
      BY <1>5, EditCarried
<1>6. ASSUME NEW r \in Repos, RequestFails(r) PROVE Carried
      BY <1>6, RequestFailsCarried
<1> QED BY <1>1, <1>2, <1>3, <1>4, <1>5, <1>6 DEF Next

----------------------------------------------------------------------------
(* The invariant.                                                          *)

LookupsHold == VersionLookup /\ VersionLookup'

\* The history follows the versions: where the version is new there is nothing
\* to report, and elsewhere nothing has been taken off.
LEMMA AllReportedStep ==
    ASSUME IInv, IInv', RulesKnown, AllReported, VersionsMove, Carried, LookupsHold, History
    PROVE  AllReported'
<1>1. /\ epoch \in Nat /\ epoch > 0
      /\ \A j \in DOMAIN entries : entries[j].version \in 1 .. epoch - 1
      BY DEF IInv, VectorOK, DistinctVersions
<1>2. ASSUME NEW i \in DOMAIN entries', NEW p \in SolidNames,
             Content(disk'[entries'[i].repo], p) # Content(base'[entries'[i].repo], p)
      PROVE  Reported(entries'[i], p)
  <2> DEFINE f == entries'[i]
  <2>1. f \in Entry
        BY ElementOfSeq, LenProperties DEF IInv, VectorOK
  <2>2. PICK r \in Repos : r = f.repo
        BY <2>1 DEF Entry
  <2>3. Version(r)' = f.version
    <3>1. PICK k \in DOMAIN entries' : entries'[k].repo = r /\ Version(r)' = entries'[k].version
          BY <2>2 DEF LookupsHold, VersionLookup, Watched
    <3> QED BY <2>2, <3>1 DEF IInv, VectorOK, Bounded
  <2>4. base'[r] = IF Version(r)' # Version(r) THEN disk'[r] ELSE base[r]
        BY <2>2 DEF History
  <2>5. CASE \E j \in DOMAIN entries : /\ entries[j].repo = entries'[i].repo
                                       /\ entries[j].version = entries'[i].version
    <3>1. PICK j \in DOMAIN entries : entries[j].repo = r /\ entries[j].version = f.version
          BY <2>2, <2>5
    <3>2. Version(r) = entries[j].version
      <4>1. PICK k \in DOMAIN entries : entries[k].repo = r /\ Version(r) = entries[k].version
            BY <2>2, <3>1 DEF LookupsHold, VersionLookup, Watched
      <4> QED BY <3>1, <4>1 DEF IInv, VectorOK, Bounded
    <3>3. base'[r] = base[r]
          BY <2>3, <2>4, <3>1, <3>2
    <3>4. Content(disk'[r], p) # Content(base[r], p)
          BY <1>2, <2>2, <3>3
    <3>5. Reported(entries[j], p) \/ Content(disk'[r], p) # Content(disk[r], p)
          BY <3>1, <3>4 DEF AllReported
    <3>6. p \in Names \ entries[j].ignore
          BY SolidIsVisible DEF RulesKnown
    <3> QED BY <2>2, <3>1, <3>5, <3>6 DEF Carried, Carries
  <2>6. CASE entries'[i].version \in epoch .. epoch' - 1
    <3>1. Version(r) = 0 \/ Version(r) \in 1 .. epoch - 1
          BY <1>1, <2>2 DEF LookupsHold, VersionLookup
    <3>2. f.version # Version(r)
          BY <1>1, <2>6, <3>1 DEF VersionsMove
    <3>3. base'[r] = disk'[r]
          BY <2>3, <2>4, <3>2
    <3> QED BY <1>2, <2>2, <3>3
  <2> QED BY <2>5, <2>6 DEF VersionsMove
<1> QED BY <1>2 DEF AllReported

\* Before the first call there is nothing to report.
LEMMA ChangeInit == Init => CInv
<1> SUFFICES ASSUME Init PROVE CInv
    OBVIOUS
<1>1. entries = <<>> /\ disk \in [Repos -> [rules : RuleSets, content : {[p \in Matchable |-> 0]}]]
      BY DEF Init
<1>2. DOMAIN entries = {}
      BY <1>1
<1>3. \A r \in Repos : disk[r].rules \in RuleSets
      BY <1>1
<1> QED BY <1>2, <1>3, InvariantInit DEF CInv, RulesKnown, AllReported

\* Every step keeps the invariant.
LEMMA ChangeStep ==
    CInv /\ VersionLookup /\ VersionLookup' /\ [Next]_vars => CInv'
<1> SUFFICES ASSUME CInv, LookupsHold, [Next]_vars PROVE CInv'
    BY DEF LookupsHold
<1>1. IInv' /\ (VersionsMove \/ UNCHANGED vars)
      BY InvariantStep DEF CInv
<1>2. CASE UNCHANGED vars
      BY <1>1, <1>2 DEF vars, CInv, RulesKnown, AllReported
<1>3. CASE Next /\ VersionsMove
  <2>1. Carried
        BY <1>3, StepCarried DEF CInv
  <2>2. History
        BY <1>3 DEF Next
  <2>3. AllReported'
        BY <1>1, <1>3, <2>1, <2>2, AllReportedStep DEF CInv
  <2> QED BY <1>1, <2>1, <2>3 DEF CInv, Carried
<1> QED BY <1>1, <1>2, <1>3

\* Whatever the kernel loses, delays or refuses, and whenever it does: a
\* repository whose entry is settled is as it was when its version was given
\* out, in all that no .gitignore could hide.
THEOREM NoChangeForgotten == Spec => []NoSolidChangeMissed
<1>1. CInv => NoSolidChangeMissed
  <2> SUFFICES ASSUME CInv, NEW i \in DOMAIN entries,
                      SolidView(disk[entries[i].repo]) # SolidView(base[entries[i].repo])
               PROVE  Unsettled(entries[i])
      BY DEF NoSolidChangeMissed
  <2> DEFINE d == disk[entries[i].repo]
             b == base[entries[i].repo]
  <2>1. \E p \in SolidNames : Content(d, p) # Content(b, p)
    <3>1. CASE d.rules # b.rules
          BY <3>1 DEF Content, SolidNames
    <3>2. CASE d.rules = b.rules
      <4>1. PICK p \in SolidPaths : d.content[p] # b.content[p]
            BY <3>2 DEF SolidView
      <4>2. p # ".gitignore"
            BY FilesAssumption DEF SolidPaths, Matchable, NamedPaths
      <4> QED BY <4>1, <4>2 DEF Content, SolidNames
    <3> QED BY <3>1, <3>2
  <2>2. PICK p \in SolidNames : Reported(entries[i], p)
        BY <2>1 DEF CInv, AllReported
  <2> QED BY <2>2 DEF Reported, Unsettled, Signaled, Completions
<1> QED BY <1>1, ChangeInit, ChangeStep, LookupHolds, PTL DEF Spec

----------------------------------------------------------------------------
(* An entry of the watcher filters by the rules on disk, and a repository  *)
(* is due a new version only when it has changed.                          *)
(*                                                                         *)
(* Neither is inductive: that an entry's event is set says nothing of what *)
(* its records tell.  Filtered and Accounted do.                           *)

\* The kernel drops no record, it takes every request, and nobody edits the
\* rules while ensure() runs.
NoneLost == Faults \cap {"arm", "race", "overflow"} = {}

\* Nor does a request ever fail.
NoneFails == "error" \notin Faults

\* A completion of e tells of path p, or the next one will.
Recorded(e, p) == \/ e.io = "records" /\ p \in e.batch
                  \/ Signaled(e) /\ p \in e.queue

\* The rules of e are those of d, or it has a record that they have changed.
Filtered(e, d) == /\ e.armed /\ Lost \notin e.queue
                  /\ e.ignore # d.rules => Recorded(e, ".gitignore")

AllFiltered == \A i \in DOMAIN entries : Filtered(entries[i], disk[entries[i].repo])

FInv == IInv /\ AllFiltered

\* Nothing is due, and nothing on record but what the rules of d match.
Unseen(e, d) == /\ ~e.pending
                /\ \A p \in e.batch \cup e.queue : p = "internal" \/ p \in d.rules

\* A repository is told to have changed if its entry says so.
Accounted(e, d, told) == /\ e.io \in {"waiting", "records"}
                         /\ e.io = "waiting" => e.batch = {} /\ e.queue = {}
                         /\ told \/ Unseen(e, d)

AllAccounted ==
    \A i \in DOMAIN entries : LET r == entries[i].repo IN
        Accounted(entries[i], disk[r], r \in altered)

BInv == FInv /\ AllAccounted

----------------------------------------------------------------------------
(* What the operators on one entry do.                                     *)

\* Records that piled up complete the next request at once.
LEMMA StartWatchRecords ==
    ASSUME NEW e \in Entry, Lost \notin e.queue
    PROVE  LET s == StartWatch(e, TRUE) IN
           /\ s \in Entry /\ s.pending = e.pending /\ s.armed /\ s.queue = {}
           /\ s.batch = e.queue
           /\ s.io = IF e.queue = {} THEN "waiting" ELSE "records"
BY DEF StartWatch, Entry, Completions

\* A change of path p is recorded, and no record is lost.
LEMMA NotifiedRecords ==
    ASSUME NEW e \in Entry, e.armed, e.io # "none", Lost \notin e.queue, NEW p \in Paths
    PROVE  LET n == Notified(e, p, p) IN
           /\ n.armed /\ Lost \notin n.queue /\ Recorded(n, p)
           /\ n.ignore = e.ignore /\ n.pending = e.pending
           /\ \A q : Recorded(e, q) => Recorded(n, q)
           /\ \/ n.io = "records" /\ n.batch = {p} /\ n.queue = e.queue /\ e.io = "waiting"
              \/ n.io = e.io /\ n.batch = e.batch /\ n.queue = e.queue \cup {p} /\ e.io # "waiting"
<1>1. p # Lost
      BY FilesAssumption DEF Paths, NamedPaths, Lost
<1>2. CASE e.io = "waiting"
  <2>1. Notified(e, p, p) = [e EXCEPT !.io = "records", !.batch = {p}]
        BY <1>2 DEF Notified, Signaled, Completions
  <2> QED BY <1>2, <2>1 DEF Entry, Recorded, Signaled, Completions
<1>3. CASE e.io # "waiting"
  <2>1. Signaled(e) /\ e.io \in Completions
        BY <1>3 DEF Entry, Signaled, Completions
  <2>2. Notified(e, p, p) = [e EXCEPT !.queue = e.queue \cup {p}]
        BY <1>3, <2>1 DEF Notified
  <2> QED BY <1>1, <1>3, <2>1, <2>2 DEF Entry, Recorded, Signaled, Completions
<1> QED BY <1>2, <1>3

\* An edit of the rules is recorded; any other change leaves them alone.
LEMMA NotifiedFiltered ==
    ASSUME NEW e \in Entry, NEW d, NEW d2, NEW p \in Paths, Filtered(e, d), e.io # "none",
           p # ".gitignore" => d2.rules = d.rules
    PROVE  Filtered(Notified(e, p, p), d2)
<1> DEFINE n == Notified(e, p, p)
<1>1. /\ n.armed /\ Lost \notin n.queue /\ Recorded(n, p)
      /\ n.ignore = e.ignore
      /\ \A q : Recorded(e, q) => Recorded(n, q)
      BY NotifiedRecords DEF Filtered
<1> HIDE DEF n
<1>2. Filtered(n, d2)
      BY <1>1 DEF Filtered
<1> QED BY <1>2 DEF n

\* So is a change that counts, and a change that does not count adds nothing.
LEMMA NotifiedAccounted ==
    ASSUME NEW e \in Entry, NEW d, NEW d2, NEW p \in Paths, Filtered(e, d), e.io # "none",
           NEW told \in BOOLEAN, NEW told2 \in BOOLEAN, told => told2, Accounted(e, d, told),
           told2 \/ (d2.rules = d.rules /\ (p = "internal" \/ p \in d.rules))
    PROVE  Accounted(Notified(e, p, p), d2, told2)
<1> DEFINE n == Notified(e, p, p)
<1>1. /\ n.pending = e.pending
      /\ \/ n.io = "records" /\ n.batch = {p} /\ n.queue = e.queue /\ e.io = "waiting"
         \/ n.io = e.io /\ n.batch = e.batch /\ n.queue = e.queue \cup {p} /\ e.io # "waiting"
      BY NotifiedRecords DEF Filtered
<1> HIDE DEF n
<1>2. Accounted(n, d2, told2)
      BY <1>1 DEF Accounted, Unseen
<1> QED BY <1>2 DEF n

\* What handling a completion leaves of an entry, while nothing is lost.
LEMMA HandledShape ==
    ASSUME NEW e \in Entry, NEW rules \in SUBSET Matchable, Lost \notin e.queue
    PROVE  LET h       == HandleEvent(e, rules, TRUE)
               reload  == e.io = "records" /\ ".gitignore" \in e.batch
               ignore  == IF reload THEN rules ELSE e.ignore
               changed == e.io = "records" => reload \/ FilterVisible(ignore, e.batch)
           IN  /\ h.armed /\ h.queue = {} /\ h.batch = e.queue /\ h.ignore = ignore
               /\ h.io = IF e.queue = {} THEN "waiting" ELSE "records"
               /\ h.pending => e.pending \/ changed
<1> DEFINE s       == StartWatch(e, TRUE)
           reload  == e.io = "records" /\ ".gitignore" \in e.batch
           ignore  == IF reload THEN rules ELSE e.ignore
           changed == e.io = "records" => reload \/ FilterVisible(ignore, e.batch)
           due     == s.pending \/ changed \/ ~TRUE
           h       == [s EXCEPT !.ignore = ignore, !.pending = due]
<1>1. HandleEvent(e, rules, TRUE) = h
      BY DEF HandleEvent
<1>2. /\ s \in Entry /\ s.pending = e.pending /\ s.armed /\ s.queue = {}
      /\ s.batch = e.queue
      /\ s.io = IF e.queue = {} THEN "waiting" ELSE "records"
      BY StartWatchRecords
<1>3. due => e.pending \/ changed
      BY <1>2
<1> HIDE DEF s, ignore, due, changed
<1>4. /\ h.armed = s.armed /\ h.queue = s.queue /\ h.batch = s.batch /\ h.io = s.io
      /\ h.ignore = ignore /\ h.pending = due
      BY <1>2 DEF Entry
<1> HIDE DEF h
<1>5. /\ h.armed /\ h.queue = {} /\ h.batch = e.queue /\ h.ignore = ignore
      /\ h.io = IF e.queue = {} THEN "waiting" ELSE "records"
      /\ h.pending => e.pending \/ changed
      BY <1>2, <1>3, <1>4
<1> QED BY <1>1, <1>5 DEF ignore, changed

\* An entry that is told of new rules reads them, now or with its next records.
LEMMA HandledFiltered ==
    ASSUME NEW e \in Entry, NEW d, d.rules \in SUBSET Matchable, Filtered(e, d), Signaled(e)
    PROVE  Filtered(HandleEvent(e, d.rules, TRUE), d)
<1> DEFINE h      == HandleEvent(e, d.rules, TRUE)
           reload == e.io = "records" /\ ".gitignore" \in e.batch
<1>1. /\ h.armed /\ h.queue = {} /\ h.batch = e.queue
      /\ h.ignore = IF reload THEN d.rules ELSE e.ignore
      /\ h.io = IF e.queue = {} THEN "waiting" ELSE "records"
      BY HandledShape DEF Filtered
<1> HIDE DEF h
<1>2. ASSUME h.ignore # d.rules PROVE Recorded(h, ".gitignore")
  <2>1. ~reload /\ e.ignore # d.rules
        BY <1>1, <1>2
  <2>2. ".gitignore" \in e.queue
        BY <2>1 DEF Filtered, Recorded
  <2> QED BY <1>1, <2>2 DEF Recorded
<1>3. Filtered(h, d)
      BY <1>1, <1>2 DEF Filtered
<1> QED BY <1>3 DEF h

\* What is due then had been on record.
LEMMA HandledAccounted ==
    ASSUME NEW e \in Entry, NEW d, d.rules \in SUBSET Matchable, NEW told \in BOOLEAN,
           Filtered(e, d), Signaled(e), Accounted(e, d, told)
    PROVE  Accounted(HandleEvent(e, d.rules, TRUE), d, told)
<1> DEFINE h       == HandleEvent(e, d.rules, TRUE)
           reload  == e.io = "records" /\ ".gitignore" \in e.batch
           ignore  == IF reload THEN d.rules ELSE e.ignore
           changed == e.io = "records" => reload \/ FilterVisible(ignore, e.batch)
<1>1. /\ h.armed /\ h.queue = {} /\ h.batch = e.queue /\ h.ignore = ignore
      /\ h.io = IF e.queue = {} THEN "waiting" ELSE "records"
      /\ h.pending => e.pending \/ changed
      BY HandledShape DEF Filtered
<1> HIDE DEF h
<1>2. e.io = "records"
      BY DEF Accounted, Signaled, Completions
<1>3. ASSUME ~told PROVE Unseen(h, d)
  <2>1. ~e.pending /\ \A p \in e.batch \cup e.queue : p = "internal" \/ p \in d.rules
        BY <1>3 DEF Accounted, Unseen
  <2>2. ".gitignore" \notin Matchable /\ ".gitignore" # "internal"
        BY FilesAssumption DEF Matchable, NamedPaths
  <2>3. ".gitignore" \notin e.batch \cup e.queue
        BY <2>1, <2>2
  <2>4. e.ignore = d.rules
        BY <2>3 DEF Filtered, Recorded
  <2>5. ~changed
        BY <1>2, <2>1, <2>3, <2>4 DEF FilterVisible
  <2> QED BY <1>1, <2>1, <2>5 DEF Unseen
<1>4. Accounted(h, d, told)
      BY <1>1, <1>3 DEF Accounted
<1> QED BY <1>4 DEF h

----------------------------------------------------------------------------
(* The rules.                                                              *)

\* The entries that were there, and their disks, are well typed.
LEMMA EntryTypes ==
    ASSUME IInv, NEW i \in DOMAIN entries
    PROVE  /\ entries[i] \in Entry /\ entries[i].repo \in Repos
           /\ entries[i].armed <=> entries[i].io # "none"
           /\ disk[entries[i].repo] \in Disk
           /\ disk[entries[i].repo].rules \in SUBSET Matchable
<1>1. entries[i] \in Entry /\ entries[i].repo \in Repos
  <2>1. entries[i] \in Entry
        BY ElementOfSeq, LenProperties DEF IInv, VectorOK
  <2> QED BY <2>1 DEF Entry
<1>2. disk[entries[i].repo] \in Disk
      BY <1>1 DEF IInv, RestOK
<1>3. disk[entries[i].repo].rules \in SUBSET Matchable
      BY <1>2 DEF Disk
<1> QED BY <1>1, <1>2, <1>3 DEF IInv, VectorOK, ArmedMeansOutstanding

\* A change of path p is notified as such.
LEMMA NotifyExact ==
    ASSUME NoneLost, NEW r \in Repos, NEW p \in Paths, Notify(r, p)
    PROVE  /\ DOMAIN entries' = DOMAIN entries
           /\ \A i \in DOMAIN entries :
                 entries'[i] = IF entries[i].repo = r THEN Notified(entries[i], p, p)
                                                      ELSE entries[i]
<1>1. "overflow" \notin Faults
      BY DEF NoneLost
<1>2. entries' = [i \in DOMAIN entries |->
                    IF entries[i].repo = r THEN Notified(entries[i], p, p) ELSE entries[i]]
      BY <1>1 DEF Notify
<1> QED BY <1>2

LEMMA NotifyFiltered ==
    ASSUME FInv, NoneLost, NEW r \in Repos, NEW p \in Paths, Notify(r, p),
           \A t \in Repos : disk'[t].rules # disk[t].rules => t = r /\ p = ".gitignore"
    PROVE  AllFiltered'
<1>1. /\ DOMAIN entries' = DOMAIN entries
      /\ \A i \in DOMAIN entries :
            entries'[i] = IF entries[i].repo = r THEN Notified(entries[i], p, p) ELSE entries[i]
      BY NotifyExact
<1>2. ASSUME NEW i \in DOMAIN entries PROVE Filtered(entries'[i], disk'[entries'[i].repo])
  <2> DEFINE e == entries[i]
             d == disk[e.repo]
             d2 == disk'[e.repo]
  <2>1. /\ e \in Entry /\ e.repo \in Repos /\ e.io # "none"
        /\ Filtered(e, d)
        BY EntryTypes DEF FInv, AllFiltered, Filtered
  <2>2. d2.rules # d.rules => e.repo = r /\ p = ".gitignore"
        BY <2>1
  <2>3. CASE e.repo = r
    <3>1. entries'[i] = Notified(e, p, p) /\ e.io # "none"
          BY <1>1, <2>1, <2>3
    <3>2. entries'[i].repo = e.repo
          BY <2>1, <3>1, NotifiedKeeps
    <3> HIDE DEF e, d, d2
    <3>3. Filtered(Notified(e, p, p), d2)
          BY <2>1, <2>2, <3>1, NotifiedFiltered
    <3> QED BY <3>1, <3>2, <3>3 DEF d2
  <2>4. CASE e.repo # r
    <3>1. entries'[i] = e /\ d2.rules = d.rules
          BY <1>1, <2>2, <2>4
    <3> QED BY <2>1, <3>1 DEF Filtered
  <2> QED BY <2>3, <2>4
<1> QED BY <1>1, <1>2 DEF AllFiltered

\* Nothing new is known of an entry that stays as it is.
LEMMA ChangedFiltered ==
    ASSUME FInv, \A t \in Repos : disk'[t].rules = disk[t].rules,
           \A i \in DOMAIN entries' : \E j \in DOMAIN entries :
              /\ entries'[i].repo = entries[j].repo
              /\ Filtered(entries[j], disk[entries[j].repo])
                    => Filtered(entries'[i], disk[entries[j].repo])
    PROVE  AllFiltered'
<1>1. ASSUME NEW i \in DOMAIN entries' PROVE Filtered(entries'[i], disk'[entries'[i].repo])
  <2>1. PICK j \in DOMAIN entries :
              /\ entries'[i].repo = entries[j].repo
              /\ Filtered(entries[j], disk[entries[j].repo])
                    => Filtered(entries'[i], disk[entries[j].repo])
        OBVIOUS
  <2>2. entries[j].repo \in Repos /\ Filtered(entries'[i], disk[entries[j].repo])
        BY <2>1, EntryTypes DEF FInv, AllFiltered
  <2> QED BY <2>1, <2>2 DEF Filtered
<1> QED BY <1>1 DEF AllFiltered

\* The entries that eviction leaves are some of those there were.
LEMMA EvictLruLeaves ==
    ASSUME IInv
    PROVE  /\ EvictLru(entries) \in Seq(Entry)
           /\ \A i \in DOMAIN EvictLru(entries) :
                 \E j \in DOMAIN entries : EvictLru(entries)[i] = entries[j]
<1>1. entries \in Seq(Entry) /\ Len(entries) <= Capacity
      BY DEF IInv, VectorOK, Bounded
<1> DEFINE rs == EvictLru(entries)
<1>2. /\ rs \in Seq(Entry)
      /\ \E from \in [DOMAIN rs -> DOMAIN entries] : \A i \in DOMAIN rs : rs[i] = entries[from[i]]
      BY <1>1, EvictLruShape
<1> HIDE DEF rs
<1>3. \A i \in DOMAIN rs : \E j \in DOMAIN entries : rs[i] = entries[j]
      BY <1>2
<1> QED BY <1>2, <1>3 DEF rs

\* A new entry, when nothing goes wrong.
LEMMA EnsureNewShape ==
    ASSUME IInv, NoneLost, NEW r \in Repos, EnsureNew(r)
    PROVE  /\ disk' = disk
           /\ \A i \in DOMAIN entries' :
                 \/ \E j \in DOMAIN entries : entries'[i] = entries[j]
                 \/ LET e == entries'[i] IN
                    /\ e.repo = r /\ e.ignore = disk[r].rules /\ ~e.pending /\ e.armed
                    /\ e.io = "waiting" /\ e.batch = {} /\ e.queue = {}
<1> DEFINE fresh == [repo |-> r, ignore |-> disk[r].rules, pending |-> FALSE,
                     armed |-> FALSE, last_touch |-> touch, version |-> epoch,
                     io |-> "none", batch |-> {}, queue |-> {}]
           begun == StartWatch(fresh, TRUE)
           e     == [begun EXCEPT !.pending = FALSE]
           kept  == EvictLru(entries)
<1>1. "arm" \notin Faults /\ "race" \notin Faults
      BY DEF NoneLost
<1>2. /\ disk' = [disk EXCEPT ![r] = [disk[r] EXCEPT !.rules = disk[r].rules]]
      /\ entries' = Append(kept, e)
      BY <1>1 DEF EnsureNew, ArmResults
<1>3. disk' = disk
      BY <1>2 DEF IInv, RestOK, Disk
<1>4. /\ fresh \in Entry /\ Lost \notin fresh.queue
      /\ fresh.repo = r /\ fresh.ignore = disk[r].rules /\ fresh.queue = {}
      BY DEF IInv, VectorOK, RestOK, Entry, Disk
<1>5. /\ kept \in Seq(Entry)
      /\ \A i \in DOMAIN kept : \E j \in DOMAIN entries : kept[i] = entries[j]
      BY EvictLruLeaves
<1> HIDE DEF kept, fresh
<1>6. /\ begun \in Entry /\ begun.repo = r /\ begun.ignore = disk[r].rules
      /\ begun.armed /\ begun.io = "waiting" /\ begun.batch = {} /\ begun.queue = {}
      BY <1>4, StartWatchRecords, StartWatchKeeps
<1> HIDE DEF begun
<1>7. /\ e.repo = r /\ e.ignore = disk[r].rules /\ ~e.pending /\ e.armed
      /\ e.io = "waiting" /\ e.batch = {} /\ e.queue = {}
      BY <1>6 DEF Entry
<1> HIDE DEF e
<1>8. \A i \in DOMAIN entries' : \/ i \in DOMAIN kept /\ entries'[i] = kept[i]
                                 \/ entries'[i] = e
      BY <1>2, <1>5, LenProperties
<1> QED BY <1>3, <1>5, <1>7, <1>8

\* A new entry filters by the rules that it has just read.
LEMMA EnsureNewFiltered ==
    ASSUME FInv, NoneLost, NEW r \in Repos, EnsureNew(r)
    PROVE  AllFiltered'
<1>1. /\ disk' = disk
      /\ \A i \in DOMAIN entries' :
            \/ \E j \in DOMAIN entries : entries'[i] = entries[j]
            \/ LET e == entries'[i] IN
               /\ e.repo = r /\ e.ignore = disk[r].rules /\ ~e.pending /\ e.armed
               /\ e.io = "waiting" /\ e.batch = {} /\ e.queue = {}
      BY EnsureNewShape DEF FInv
<1> QED BY <1>1 DEF FInv, AllFiltered, Filtered

\* What the operations that neither watch nor fail do to an entry.
LEMMA EnsureWatchedShape ==
    ASSUME FInv, NoneLost, NEW r \in Repos, EnsureWatched(r)
    PROVE  /\ disk' = disk /\ DOMAIN entries' = DOMAIN entries
           /\ \A i \in DOMAIN entries :
                 \/ entries'[i] = entries[i]
                 \/ entries'[i] = [entries[i] EXCEPT !.last_touch = touch]
<1>1. PICK k \in DOMAIN entries, ok \in BOOLEAN :
         entries' = [entries EXCEPT ![k] =
            IF [entries[k] EXCEPT !.last_touch = touch].armed
            THEN [entries[k] EXCEPT !.last_touch = touch]
            ELSE [StartWatch([entries[k] EXCEPT !.last_touch = touch], ok)
                     EXCEPT !.pending = TRUE]]
      BY DEF EnsureWatched, ArmResults
<1>2. entries[k] \in Entry /\ entries[k].armed
      BY EntryTypes DEF FInv, AllFiltered, Filtered
<1>3. [entries[k] EXCEPT !.last_touch = touch].armed
      BY <1>2 DEF Entry
<1>4. entries' = [entries EXCEPT ![k] = [entries[k] EXCEPT !.last_touch = touch]]
      BY <1>1, <1>3
<1> QED BY <1>4 DEF EnsureWatched

LEMMA RequestFailsFiltered ==
    ASSUME FInv, NEW r \in Repos, RequestFails(r)
    PROVE  AllFiltered'
<1>1. PICK k \in DOMAIN entries :
          /\ entries[k].io = "waiting"
          /\ entries' = [entries EXCEPT ![k] = [entries[k] EXCEPT !.io = "failed"]]
      BY DEF RequestFails
<1>2. disk' = disk
      BY DEF RequestFails
<1>3. ASSUME NEW i \in DOMAIN entries
      PROVE  /\ entries'[i].repo = entries[i].repo
             /\ Filtered(entries[i], disk[entries[i].repo])
                   => Filtered(entries'[i], disk[entries[i].repo])
  <2>1. entries[i] \in Entry
        BY EntryTypes DEF FInv
  <2>2. entries'[i] = IF i = k THEN [entries[i] EXCEPT !.io = "failed"] ELSE entries[i]
        BY <1>1
  <2> QED BY <1>1, <2>1, <2>2 DEF Filtered, Recorded, Signaled, Entry, Completions
<1> QED BY <1>1, <1>2, <1>3, ChangedFiltered

\* A sweep, when every request is taken.
LEMMA ProcessSignaledShape ==
    ASSUME NoneLost, ProcessSignaled
    PROVE  /\ disk' = disk /\ DOMAIN entries' = DOMAIN entries
           /\ \A i \in DOMAIN entries :
                 entries'[i] = IF Signaled(entries[i])
                               THEN HandleEvent(entries[i], disk[entries[i].repo].rules, TRUE)
                               ELSE entries[i]
<1>1. "arm" \notin Faults
      BY DEF NoneLost
<1>2. PICK refused \in SUBSET {} :
         entries' = [i \in DOMAIN entries |->
              IF Signaled(entries[i])
              THEN HandleEvent(entries[i], disk[entries[i].repo].rules, i \notin refused)
              ELSE entries[i]]
      BY <1>1 DEF ProcessSignaled
<1>3. \A i \in DOMAIN entries : (i \notin refused) = TRUE
      OBVIOUS
<1> QED BY <1>2, <1>3 DEF ProcessSignaled

LEMMA ProcessSignaledFiltered ==
    ASSUME FInv, NoneLost, ProcessSignaled
    PROVE  AllFiltered'
<1>1. /\ disk' = disk /\ DOMAIN entries' = DOMAIN entries
      /\ \A i \in DOMAIN entries :
            entries'[i] = IF Signaled(entries[i])
                          THEN HandleEvent(entries[i], disk[entries[i].repo].rules, TRUE)
                          ELSE entries[i]
      BY ProcessSignaledShape
<1>2. ASSUME NEW i \in DOMAIN entries
      PROVE  /\ entries'[i].repo = entries[i].repo
             /\ Filtered(entries[i], disk[entries[i].repo])
                   => Filtered(entries'[i], disk[entries[i].repo])
  <2>1. entries[i] \in Entry /\ disk[entries[i].repo].rules \in SUBSET Matchable
        BY EntryTypes DEF FInv
  <2>2. CASE Signaled(entries[i])
    <3> DEFINE e == entries[i]
               d == disk[e.repo]
               h == HandleEvent(e, d.rules, TRUE)
    <3>1. entries'[i] = h
          BY <1>1, <2>2
    <3>2. e \in Entry /\ d.rules \in SUBSET Matchable /\ Signaled(e)
          BY <2>1, <2>2
    <3> HIDE DEF e, d
    <3>3. h.repo = e.repo /\ (Filtered(e, d) => Filtered(h, d))
          BY <3>2, HandleEventKeeps, HandledFiltered, Zenon
    <3> HIDE DEF h
    <3> QED BY <3>1, <3>3 DEF e, d
  <2>3. CASE ~Signaled(entries[i])
        BY <1>1, <2>3
  <2> QED BY <2>2, <2>3
<1> QED BY <1>1, <1>2, ChangedFiltered

\* Only edits of the rules make an entry's rules old, and each is recorded.
LEMMA FilteredStep == NoneLost /\ FInv /\ [Next]_vars => FInv'
<1> SUFFICES ASSUME NoneLost, FInv, [Next]_vars PROVE FInv'
    OBVIOUS
<1>1. IInv'
      BY InvariantStep DEF FInv
<1>2. \A i \in DOMAIN entries : entries[i] \in Entry
      BY EntryTypes DEF FInv
<1>3. ASSUME NEW r \in Repos, Ensure(r) PROVE AllFiltered'
  <2>1. CASE EnsureNew(r)
        BY <2>1, EnsureNewFiltered
  <2>2. CASE EnsureWatched(r)
    <3>1. /\ disk' = disk /\ DOMAIN entries' = DOMAIN entries
          /\ \A i \in DOMAIN entries :
                \/ entries'[i] = entries[i]
                \/ entries'[i] = [entries[i] EXCEPT !.last_touch = touch]
          BY <2>2, EnsureWatchedShape
    <3>2. \A i \in DOMAIN entries :
             /\ entries'[i].repo = entries[i].repo
             /\ Filtered(entries[i], disk[entries[i].repo])
                   => Filtered(entries'[i], disk[entries[i].repo])
          BY <1>2, <3>1 DEF Filtered, Recorded, Signaled, Entry
    <3> QED BY <3>1, <3>2, ChangedFiltered
  <2>3. CASE EnsureFails(r)
    <3>1. entries' = EvictLru(entries) /\ disk' = disk
          BY <2>3 DEF EnsureFails
    <3>2. \A i \in DOMAIN entries' : \E j \in DOMAIN entries : entries'[i] = entries[j]
          BY <3>1, EvictLruLeaves DEF FInv
    <3> QED BY <3>1, <3>2, ChangedFiltered
  <2> QED BY <1>3, <2>1, <2>2, <2>3 DEF Ensure
<1>4. ASSUME Flush PROVE AllFiltered'
  <2>1. disk' = disk /\ DOMAIN entries' = DOMAIN entries
        BY <1>4 DEF Flush
  <2>2. ASSUME NEW i \in DOMAIN entries
        PROVE  /\ entries'[i].repo = entries[i].repo
               /\ Filtered(entries[i], disk[entries[i].repo])
                     => Filtered(entries'[i], disk[entries[i].repo])
    <3> DEFINE rank == epoch + Cardinality(Before(entries, i))
    <3>1. entries'[i] = IF entries[i].pending
                        THEN [entries[i] EXCEPT !.pending = FALSE, !.version = rank]
                        ELSE entries[i]
          BY <1>4 DEF Flush
    <3> HIDE DEF rank
    <3>2. entries[i] \in Entry
          BY <1>2
    <3>3. /\ entries'[i].repo = entries[i].repo /\ entries'[i].armed = entries[i].armed
          /\ entries'[i].ignore = entries[i].ignore /\ entries'[i].io = entries[i].io
          /\ entries'[i].batch = entries[i].batch /\ entries'[i].queue = entries[i].queue
          BY <3>1, <3>2 DEF Entry
    <3>4. Filtered(entries[i], disk[entries[i].repo])
             => Filtered(entries'[i], disk[entries[i].repo])
          BY <3>3 DEF Filtered, Recorded, Signaled
    <3> QED BY <3>3, <3>4
  <2> QED BY <2>1, <2>2, ChangedFiltered
<1>5. ASSUME ProcessSignaled PROVE AllFiltered'
      BY <1>5, ProcessSignaledFiltered
<1>6. ASSUME NEW r \in Repos, NEW p \in Paths, Write(r, p) PROVE AllFiltered'
  <2>1. \A t \in Repos : disk'[t].rules = disk[t].rules
        BY <1>6 DEF Write, FInv, IInv, RestOK, Disk
  <2> QED BY <1>6, <2>1, NotifyFiltered DEF Write
<1>7. ASSUME NEW r \in Repos, NEW rules \in RuleSets, EditGitignore(r, rules)
      PROVE  AllFiltered'
  <2>1. ".gitignore" \in Paths
        BY DEF Paths, NamedPaths
  <2>2. \A t \in Repos : disk'[t].rules # disk[t].rules => t = r
        BY <1>7 DEF EditGitignore, FInv, IInv, RestOK
  <2> QED BY <1>7, <2>1, <2>2, NotifyFiltered DEF EditGitignore
<1>8. ASSUME NEW r \in Repos, RequestFails(r) PROVE AllFiltered'
      BY <1>8, RequestFailsFiltered
<1>9. CASE UNCHANGED vars
      BY <1>1, <1>9 DEF vars, FInv, AllFiltered
<1> QED BY <1>1, <1>3, <1>4, <1>5, <1>6, <1>7, <1>8, <1>9 DEF Next, FInv

LEMMA FilteredInit == Init => FInv
<1> SUFFICES ASSUME Init PROVE FInv
    OBVIOUS
<1>1. DOMAIN entries = {}
      BY DEF Init
<1> QED BY <1>1, InvariantInit DEF FInv, AllFiltered

\* "file ignored by the current .gitignore must not bump" (src/src/watch.rs:1082):
\* an entry filters by the rules on disk or has a completion to read them at, if
\* the kernel loses no record and nobody edits them while ensure() runs.
THEOREM RulesOnDisk == ASSUME NoneLost PROVE Spec => []FilterCurrent
<1>1. FInv => FilterCurrent
  <2> SUFFICES ASSUME FInv, NEW i \in DOMAIN entries,
                      entries[i].ignore # disk[entries[i].repo].rules
               PROVE  Signaled(entries[i])
      BY DEF FilterCurrent
  <2>1. Recorded(entries[i], ".gitignore")
        BY DEF FInv, AllFiltered, Filtered
  <2> QED BY <2>1 DEF Recorded, Signaled, Completions
<1> QED BY <1>1, FilteredInit, FilteredStep, PTL DEF Spec

----------------------------------------------------------------------------
(* What is due.                                                            *)

\* What every step does to the versions and to their history.
Traced == IInv' /\ VersionLookup /\ VersionLookup' /\ History

\* While a repository keeps its version, what has changed there stays told.
LEMMA StaysTold ==
    ASSUME IInv, Traced, NEW i \in DOMAIN entries', NEW j \in DOMAIN entries,
           entries'[i].repo = entries[j].repo, entries'[i].version = entries[j].version
    PROVE  /\ entries[j].repo \in altered => entries[j].repo \in altered'
           /\ Noticeable(entries[j].repo) => entries[j].repo \in altered'
<1>1. PICK r \in Repos : r = entries[j].repo
      BY EntryTypes
<1>2. Version(r) = entries[j].version
  <2>1. PICK k \in DOMAIN entries : entries[k].repo = r /\ Version(r) = entries[k].version
        BY <1>1 DEF Traced, VersionLookup, Watched
  <2> QED BY <1>1, <2>1 DEF IInv, VectorOK, Bounded
<1>3. Version(r)' = entries'[i].version
  <2>1. PICK k \in DOMAIN entries' : entries'[k].repo = r /\ Version(r)' = entries'[k].version
        BY <1>1 DEF Traced, VersionLookup, Watched
  <2> QED BY <1>1, <2>1 DEF Traced, IInv, VectorOK, Bounded
<1>4. r \in altered \/ Noticeable(r) => r \in altered'
      BY <1>2, <1>3 DEF Traced, History
<1> QED BY <1>1, <1>4

\* What has changed before an entry takes a new version stays told while the
\* entry has a completion to read.
LEMMA UnreadStaysTold ==
    ASSUME Traced, NEW i \in DOMAIN entries', Signaled(entries'[i]),
           NEW r \in altered, r \in Repos, entries'[i].repo = r
    PROVE  r \in altered'
<1> DEFINE k == CHOOSE j \in DOMAIN entries' : entries'[j].repo = r
<1>1. k \in DOMAIN entries' /\ entries'[k].repo = r
      OBVIOUS
<1>2. k = i
      BY <1>1 DEF Traced, IInv, VectorOK, Bounded
<1>3. EntryOf(r)' = entries'[k]
      BY DEF EntryOf
<1> HIDE DEF k
<1>4. Unread(r)'
      BY <1>2, <1>3 DEF Unread, Watched, Signaled
<1> QED BY <1>4 DEF Traced, History

\* A step that changes no disk and puts nothing new on record keeps account.
LEMMA ChangedAccounted ==
    ASSUME BInv, Traced, disk' = disk,
           \A i \in DOMAIN entries' : \E j \in DOMAIN entries :
              /\ entries'[i].repo = entries[j].repo
              /\ entries'[i].version = entries[j].version
              /\ \A told \in BOOLEAN :
                    Accounted(entries[j], disk[entries[j].repo], told)
                       => Accounted(entries'[i], disk[entries[j].repo], told)
    PROVE  AllAccounted'
<1>1. ASSUME NEW i \in DOMAIN entries'
      PROVE  Accounted(entries'[i], disk'[entries'[i].repo], entries'[i].repo \in altered')
  <2>1. PICK j \in DOMAIN entries :
              /\ entries'[i].repo = entries[j].repo
              /\ entries'[i].version = entries[j].version
              /\ \A told \in BOOLEAN :
                    Accounted(entries[j], disk[entries[j].repo], told)
                       => Accounted(entries'[i], disk[entries[j].repo], told)
        OBVIOUS
  <2>2. entries[j].repo \in altered => entries[j].repo \in altered'
        BY <2>1, StaysTold DEF BInv, FInv
  <2>3. Accounted(entries[j], disk[entries[j].repo], entries[j].repo \in altered)
        BY DEF BInv, AllAccounted
  <2>4. Accounted(entries'[i], disk[entries[j].repo], entries[j].repo \in altered)
    <3> DEFINE told == entries[j].repo \in altered
    <3>1. told \in BOOLEAN /\ Accounted(entries[j], disk[entries[j].repo], told)
          BY <2>3
    <3> HIDE DEF told
    <3>2. Accounted(entries'[i], disk[entries[j].repo], told)
          BY <2>1, <3>1
    <3> QED BY <3>2 DEF told
  <2> QED BY <2>1, <2>2, <2>4 DEF Accounted
<1> QED BY <1>1 DEF AllAccounted

\* A change that is notified is one that counts, or one that the rules match.
LEMMA NotifyAccounted ==
    ASSUME BInv, Traced, NoneLost, NEW r \in Repos, NEW p \in Paths, Notify(r, p),
           \A t \in Repos \ {r} : disk'[t] = disk[t],
           \/ Noticeable(r)
           \/ /\ disk'[r].rules = disk[r].rules
              /\ p = "internal" \/ p \in disk[r].rules
    PROVE  AllAccounted'
<1>1. /\ DOMAIN entries' = DOMAIN entries
      /\ \A i \in DOMAIN entries :
            entries'[i] = IF entries[i].repo = r THEN Notified(entries[i], p, p) ELSE entries[i]
      BY NotifyExact
<1>2. ASSUME NEW i \in DOMAIN entries
      PROVE  Accounted(entries'[i], disk'[entries'[i].repo], entries'[i].repo \in altered')
  <2> DEFINE e     == entries[i]
             d     == disk[e.repo]
             d2    == disk'[e.repo]
             told  == e.repo \in altered
             told2 == e.repo \in altered'
  <2>1. /\ e \in Entry /\ e.repo \in Repos /\ e.io # "none"
        /\ Filtered(e, d) /\ Accounted(e, d, told)
        BY EntryTypes DEF BInv, FInv, AllFiltered, Filtered, AllAccounted
  <2>2. entries'[i].repo = e.repo /\ entries'[i].version = e.version
        BY <1>1, <2>1, NotifiedKeeps
  <2>3. (told => told2) /\ (Noticeable(e.repo) => told2)
        BY <1>1, <2>2, StaysTold DEF BInv, FInv
  <2>4. CASE e.repo = r
    <3>1. entries'[i] = Notified(e, p, p)
          BY <1>1, <2>4
    <3>2. told2 \/ (d2.rules = d.rules /\ (p = "internal" \/ p \in d.rules))
          BY <2>3, <2>4
    <3>3. told \in BOOLEAN /\ told2 \in BOOLEAN
          OBVIOUS
    <3>4. Accounted(Notified(e, p, p), d2, told2)
      <4> HIDE DEF e, d, d2, told, told2
      <4> QED BY <2>1, <2>3, <3>2, <3>3, NotifiedAccounted
    <3> QED BY <2>2, <3>1, <3>4
  <2>5. CASE e.repo # r
    <3>1. entries'[i] = e /\ d2 = d
          BY <1>1, <2>1, <2>5
    <3> QED BY <2>1, <2>3, <3>1 DEF Accounted
  <2> QED BY <2>4, <2>5
<1> QED BY <1>1, <1>2 DEF AllAccounted

\* A write of a path that the rules do not match counts.
LEMMA WriteAccounted ==
    ASSUME BInv, Traced, NoneLost, NEW r \in Repos, NEW p \in Paths \ {".gitignore"},
           Write(r, p)
    PROVE  AllAccounted'
<1>1. disk[r] \in Disk
      BY DEF BInv, FInv, IInv, RestOK
<1>2. \A t \in Repos \ {r} : disk'[t] = disk[t]
      BY DEF Write, BInv, FInv, IInv, RestOK
<1>3. disk'[r].rules = disk[r].rules
      BY <1>1 DEF Write, BInv, FInv, IInv, RestOK, Disk
<1>4. p = "internal" \/ p \in Matchable
      BY DEF Paths, Matchable, NamedPaths
<1>5. ASSUME p \in Matchable \ disk[r].rules PROVE Noticeable(r)
  <2> DEFINE d == disk[r]
  <2>1. disk'[r] = [d EXCEPT !.content = [d.content EXCEPT ![p] = 1 - d.content[p]]]
        BY <1>5 DEF Write, BInv, FInv, IInv, RestOK
  <2>2. d.content \in [Matchable -> {0, 1}]
        BY <1>1 DEF Disk
  <2>3. disk'[r].content = [d.content EXCEPT ![p] = 1 - d.content[p]]
        BY <1>1, <2>1 DEF Disk
  <2>4. disk'[r].content[p] # d.content[p]
        BY <1>5, <2>2, <2>3
  <2> QED BY <1>5, <2>4 DEF Noticeable
<1> QED BY <1>2, <1>3, <1>4, <1>5, NotifyAccounted DEF Write

\* An edit of the rules does.
LEMMA EditAccounted ==
    ASSUME BInv, Traced, NoneLost, NEW r \in Repos, NEW rules \in RuleSets,
           EditGitignore(r, rules)
    PROVE  AllAccounted'
<1>1. ".gitignore" \in Paths
      BY DEF Paths, NamedPaths
<1>2. /\ \A t \in Repos \ {r} : disk'[t] = disk[t]
      /\ disk'[r].rules = rules /\ disk[r].rules # rules
      BY DEF EditGitignore, BInv, FInv, IInv, RestOK, Disk
<1>3. Noticeable(r)
      BY <1>2 DEF Noticeable
<1> QED BY <1>1, <1>2, <1>3, NotifyAccounted DEF EditGitignore

\* A sweep makes due what its records tell of.
LEMMA ProcessSignaledAccounted ==
    ASSUME BInv, Traced, NoneLost, ProcessSignaled
    PROVE  AllAccounted'
<1>1. /\ disk' = disk /\ DOMAIN entries' = DOMAIN entries
      /\ \A i \in DOMAIN entries :
            entries'[i] = IF Signaled(entries[i])
                          THEN HandleEvent(entries[i], disk[entries[i].repo].rules, TRUE)
                          ELSE entries[i]
      BY ProcessSignaledShape
<1>2. ASSUME NEW i \in DOMAIN entries
      PROVE  /\ entries'[i].repo = entries[i].repo
             /\ entries'[i].version = entries[i].version
             /\ \A told \in BOOLEAN :
                   Accounted(entries[i], disk[entries[i].repo], told)
                      => Accounted(entries'[i], disk[entries[i].repo], told)
  <2>1. CASE Signaled(entries[i])
    <3> DEFINE e == entries[i]
               d == disk[e.repo]
               h == HandleEvent(e, d.rules, TRUE)
    <3>1. entries'[i] = h
          BY <1>1, <2>1
    <3>2. e \in Entry /\ d.rules \in SUBSET Matchable /\ Signaled(e) /\ Filtered(e, d)
          BY <2>1, EntryTypes DEF BInv, FInv, AllFiltered
    <3> HIDE DEF e, d
    <3>3. /\ h.repo = e.repo /\ h.version = e.version
          /\ \A told \in BOOLEAN : Accounted(e, d, told) => Accounted(h, d, told)
          BY <3>2, HandleEventKeeps, HandledAccounted, Zenon
    <3> HIDE DEF h
    <3> QED BY <3>1, <3>3 DEF e, d
  <2>2. CASE ~Signaled(entries[i])
        BY <1>1, <2>2
  <2> QED BY <2>1, <2>2
<1> QED BY <1>1, <1>2, ChangedAccounted

\* flush() gives a new version for what is due; the rest stays on record.
LEMMA FlushAccounted ==
    ASSUME BInv, Traced, Flush
    PROVE  AllAccounted'
<1>1. disk' = disk /\ DOMAIN entries' = DOMAIN entries
      BY DEF Flush
<1>2. ASSUME NEW i \in DOMAIN entries
      PROVE  Accounted(entries'[i], disk'[entries'[i].repo], entries'[i].repo \in altered')
  <2> DEFINE rank == epoch + Cardinality(Before(entries, i))
             e    == entries[i]
             f    == entries'[i]
             r    == e.repo
             d    == disk[r]
  <2>1. f = IF e.pending THEN [e EXCEPT !.pending = FALSE, !.version = rank] ELSE e
        BY DEF Flush
  <2>2. e \in Entry /\ r \in Repos /\ Accounted(e, d, r \in altered)
        BY EntryTypes DEF BInv, FInv, AllAccounted
  <2> HIDE DEF rank
  <2>3. CASE e.pending
    <3>1. /\ f.repo = r /\ f.io = e.io /\ f.batch = e.batch /\ f.queue = e.queue
          /\ ~f.pending
      <4> HIDE DEF e, f, r
      <4> QED BY <2>1, <2>2, <2>3 DEF Entry, r
    <3>2. r \in altered
          BY <2>2, <2>3 DEF Accounted, Unseen
    <3>3. CASE f.io = "waiting"
      <4>1. f.batch = {} /\ f.queue = {}
            BY <2>2, <3>1, <3>3 DEF Accounted
      <4> HIDE DEF e, f, r, d
      <4> QED BY <3>1, <3>3, <4>1 DEF Accounted, Unseen, f
    <3>4. CASE f.io = "records"
      <4>1. r \in altered'
            BY <1>1, <2>2, <3>1, <3>2, <3>4, UnreadStaysTold DEF Signaled, Completions
      <4> HIDE DEF e, f, r, d
      <4> QED BY <3>1, <3>4, <4>1 DEF Accounted, f
    <3> QED BY <2>2, <3>1, <3>3, <3>4 DEF Accounted
  <2>4. CASE ~e.pending
    <3>1. f = e
          BY <2>1, <2>4
    <3>2. r \in altered => r \in altered'
          BY <1>1, <3>1, StaysTold DEF BInv, FInv
    <3> QED BY <1>1, <2>2, <3>1, <3>2 DEF Accounted
  <2> QED BY <2>3, <2>4
<1> QED BY <1>1, <1>2 DEF AllAccounted

\* ensure() puts nothing on record, and makes nothing due.
LEMMA EnsureAccounted ==
    ASSUME BInv, Traced, NoneLost, NEW r \in Repos, Ensure(r)
    PROVE  AllAccounted'
<1>1. ASSUME EnsureWatched(r) PROVE AllAccounted'
  <2>1. /\ disk' = disk /\ DOMAIN entries' = DOMAIN entries
        /\ \A i \in DOMAIN entries :
              \/ entries'[i] = entries[i]
              \/ entries'[i] = [entries[i] EXCEPT !.last_touch = touch]
        BY <1>1, EnsureWatchedShape DEF BInv
  <2>2. ASSUME NEW i \in DOMAIN entries
        PROVE  /\ entries'[i].repo = entries[i].repo
               /\ entries'[i].version = entries[i].version
               /\ \A told \in BOOLEAN :
                     Accounted(entries[i], disk[entries[i].repo], told)
                        => Accounted(entries'[i], disk[entries[i].repo], told)
    <3>1. entries[i] \in Entry
          BY EntryTypes DEF BInv, FInv
    <3>2. /\ entries'[i].repo = entries[i].repo
          /\ entries'[i].version = entries[i].version
          /\ entries'[i].pending = entries[i].pending /\ entries'[i].io = entries[i].io
          /\ entries'[i].batch = entries[i].batch /\ entries'[i].queue = entries[i].queue
          BY <2>1, <3>1 DEF Entry
    <3>3. \A told \in BOOLEAN : Accounted(entries[i], disk[entries[i].repo], told)
                                   => Accounted(entries'[i], disk[entries[i].repo], told)
          BY <3>2 DEF Accounted, Unseen
    <3> QED BY <3>2, <3>3
  <2> QED BY <2>1, <2>2, ChangedAccounted
<1>2. ASSUME EnsureNew(r) PROVE AllAccounted'
  <2>1. /\ disk' = disk
        /\ \A i \in DOMAIN entries' :
              \/ \E j \in DOMAIN entries : entries'[i] = entries[j]
              \/ LET e == entries'[i] IN
                 /\ e.repo = r /\ e.ignore = disk[r].rules /\ ~e.pending /\ e.armed
                 /\ e.io = "waiting" /\ e.batch = {} /\ e.queue = {}
        BY <1>2, EnsureNewShape DEF BInv, FInv
  <2>2. ASSUME NEW i \in DOMAIN entries'
        PROVE  Accounted(entries'[i], disk'[entries'[i].repo], entries'[i].repo \in altered')
    <3>1. CASE \E j \in DOMAIN entries : entries'[i] = entries[j]
      <4>1. PICK j \in DOMAIN entries : entries'[i] = entries[j]
            BY <3>1
      <4>2. Accounted(entries[j], disk[entries[j].repo], entries[j].repo \in altered)
            BY DEF BInv, AllAccounted
      <4>3. entries[j].repo \in altered => entries[j].repo \in altered'
            BY <4>1, StaysTold DEF BInv, FInv
      <4> QED BY <2>1, <4>1, <4>2, <4>3 DEF Accounted
    <3>2. CASE LET e == entries'[i] IN
               ~e.pending /\ e.io = "waiting" /\ e.batch = {} /\ e.queue = {}
          BY <3>2 DEF Accounted, Unseen
    <3> QED BY <2>1, <3>1, <3>2
  <2> QED BY <2>2 DEF AllAccounted
<1>3. ASSUME EnsureFails(r) PROVE AllAccounted'
  <2>1. entries' = EvictLru(entries) /\ disk' = disk
        BY <1>3 DEF EnsureFails
  <2>2. \A i \in DOMAIN entries' : \E j \in DOMAIN entries : entries'[i] = entries[j]
        BY <2>1, EvictLruLeaves DEF BInv, FInv
  <2>3. \A i \in DOMAIN entries' : \E j \in DOMAIN entries :
              /\ entries'[i].repo = entries[j].repo
              /\ entries'[i].version = entries[j].version
              /\ \A told \in BOOLEAN :
                    Accounted(entries[j], disk[entries[j].repo], told)
                       => Accounted(entries'[i], disk[entries[j].repo], told)
        BY <2>2
  <2> QED BY <2>1, <2>3, ChangedAccounted
<1> QED BY <1>1, <1>2, <1>3 DEF Ensure

\* Nothing becomes due of itself.
LEMMA AccountedStep ==
    NoneLost /\ NoneFails /\ BInv /\ VersionLookup /\ VersionLookup' /\ [Next]_vars => BInv'
<1> SUFFICES ASSUME NoneLost, NoneFails, BInv, VersionLookup, VersionLookup', [Next]_vars
             PROVE  BInv'
    OBVIOUS
<1>1. FInv'
      BY FilteredStep DEF BInv
<1>2. CASE UNCHANGED vars
      BY <1>1, <1>2 DEF vars, BInv, AllAccounted
<1>3. CASE Next
  <2>1. Traced
        BY <1>1, <1>3 DEF Traced, Next, FInv
  <2>2. ASSUME NEW r \in Repos, Ensure(r) PROVE AllAccounted'
        BY <2>1, <2>2, EnsureAccounted
  <2>3. ASSUME Flush PROVE AllAccounted'
        BY <2>1, <2>3, FlushAccounted
  <2>4. ASSUME ProcessSignaled PROVE AllAccounted'
        BY <2>1, <2>4, ProcessSignaledAccounted
  <2>5. ASSUME NEW r \in Repos, NEW p \in Paths \ {".gitignore"}, Write(r, p)
        PROVE  AllAccounted'
        BY <2>1, <2>5, WriteAccounted
  <2>6. ASSUME NEW r \in Repos, NEW rules \in RuleSets, EditGitignore(r, rules)
        PROVE  AllAccounted'
        BY <2>1, <2>6, EditAccounted
  <2>7. ASSUME NEW r \in Repos, RequestFails(r) PROVE FALSE
        BY <2>7 DEF RequestFails, NoneFails
  <2> QED BY <1>1, <1>3, <2>2, <2>3, <2>4, <2>5, <2>6, <2>7 DEF Next, BInv
<1> QED BY <1>2, <1>3

LEMMA AccountedInit == Init => BInv
<1> SUFFICES ASSUME Init PROVE BInv
    OBVIOUS
<1>1. DOMAIN entries = {}
      BY DEF Init
<1> QED BY <1>1, FilteredInit DEF BInv, AllAccounted

\* Builds and the daemon's own bust directories are free: while the kernel does
\* its part, a new version is due only to a repository that has changed in a way
\* .gitignore does not match (handle_event, src/src/watch.rs:296).
THEOREM NothingSpurious ==
    ASSUME NoneLost, NoneFails PROVE Spec => []NoSpuriousBump
<1>1. BInv => NoSpuriousBump
      BY DEF BInv, AllAccounted, Accounted, Unseen, NoSpuriousBump
<1> QED BY <1>1, AccountedInit, AccountedStep, LookupHolds, PTL DEF Spec
=============================================================================
