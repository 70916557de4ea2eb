----------------------------- MODULE ScanProofs -----------------------------
(***************************************************************************)
(* Proofs about the scan detector, for every set of sources and ports,     *)
(* every window and threshold and every bound.                             *)
(***************************************************************************)
EXTENDS ScanSnapshot, FiniteSetTheorems, SequenceTheorems, TLAPS

(* What pruning returns: a sub-map of the buckets, every bucket keeping    *)
(* its times and the port entries that are not outside the window.         *)
LEMMA PrunedBuckets ==
  ASSUME TypeOK, NEW w \in Casts
  PROVE  LET pruned == PruneSources(now, w)
         IN  /\ DOMAIN pruned \subseteq DOMAIN sources
             /\ DOMAIN pruned \subseteq Sources
             /\ pruned \in [DOMAIN pruned -> SourceEntry]
             /\ \A s \in DOMAIN pruned :
                  /\ pruned[s].lastSeen = sources[s].lastSeen
                  /\ pruned[s].lastAlert = sources[s].lastAlert
                  /\ pruned[s].ports = PrunePorts(sources[s].ports, now, w)
  <1> DEFINE pruned == PruneSources(now, w)
             kept == {x \in DOMAIN sources : ~Idle(sources[x], now, w)}
  <1>1. /\ DOMAIN pruned = kept
        /\ \A s \in kept : pruned[s] =
             [sources[s] EXCEPT !.ports = PrunePorts(@, now, w)]
    BY DEF PruneSources
  <1>2. \A s \in kept : sources[s] \in SourceEntry /\ s \in Sources
    BY DEF TypeOK
  <1>3. \A s \in kept : PrunePorts(sources[s].ports, now, w) \in PortTimes
    <2> TAKE s \in kept
    <2>1. PICK P \in SUBSET Ports : sources[s].ports \in [P -> Time]
      BY <1>2 DEF SourceEntry, PortTimes
    <2>2. \E Q \in SUBSET Ports : PrunePorts(sources[s].ports, now, w) \in [Q -> Time]
      BY <2>1 DEF PrunePorts, Restrict
    <2> QED BY <2>2 DEF PortTimes
  <1>4. \A s \in kept : /\ pruned[s].lastSeen = sources[s].lastSeen
                        /\ pruned[s].lastAlert = sources[s].lastAlert
                        /\ pruned[s].ports = PrunePorts(sources[s].ports, now, w)
                        /\ pruned[s] \in SourceEntry
    <2> HIDE DEF pruned, kept
    <2> QED BY <1>1, <1>2, <1>3 DEF SourceEntry
  <1>5. pruned = [s \in kept |-> pruned[s]]
    BY DEF PruneSources
  <1> HIDE DEF pruned
  <1>6. pruned \in [DOMAIN pruned -> SourceEntry]
    BY <1>1, <1>4, <1>5
  <1>7. DOMAIN pruned \subseteq DOMAIN sources /\ DOMAIN pruned \subseteq Sources
    BY <1>1, <1>2
  <1> QED BY <1>1, <1>4, <1>6, <1>7 DEF pruned

(* Pruning keeps exactly the entries inside the window, with their times.  *)
LEMMA PrunedPorts ==
  ASSUME NEW f, NEW t, NEW w
  PROVE  /\ \A p : p \in DOMAIN PrunePorts(f, t, w)
                 <=> p \in DOMAIN f /\ ~OutsideWindow(t, f[p], w)
         /\ \A p \in DOMAIN PrunePorts(f, t, w) : PrunePorts(f, t, w)[p] = f[p]
  BY DEF PrunePorts, Restrict

(* Pruning a list of ports leaves a list of ports.                         *)
LEMMA PrunedPortTimes ==
  ASSUME NEW f \in PortTimes, NEW t, NEW w
  PROVE  PrunePorts(f, t, w) \in PortTimes
  <1>1. PICK P \in SUBSET Ports : f \in [P -> Time]
    BY DEF PortTimes
  <1>2. \E Q \in SUBSET Ports : PrunePorts(f, t, w) \in [Q -> Time]
    BY <1>1 DEF PrunePorts, Restrict
  <1> QED BY <1>2 DEF PortTimes

(* The bucket an observed SYN of source s works on: the pruned bucket of s *)
(* when it has one, an empty one otherwise.                                *)
LEMMA SeenBucket ==
  ASSUME TypeOK, NEW w \in Casts, NEW s \in Sources
  PROVE  LET pruned == PruneSources(now, w)
             entry == Seen(pruned, s, now, w)
         IN  /\ entry \in SourceEntry
             /\ entry.lastSeen = now
             /\ s \in DOMAIN pruned =>
                  /\ entry.lastAlert = sources[s].lastAlert
                  /\ \A p : p \in DOMAIN entry.ports
                       <=> /\ p \in DOMAIN sources[s].ports
                           /\ ~OutsideWindow(now, sources[s].ports[p], w)
                  /\ \A p \in DOMAIN entry.ports :
                       entry.ports[p] = sources[s].ports[p]
             /\ s \notin DOMAIN pruned =>
                  entry.lastAlert = 0 /\ DOMAIN entry.ports = {}
  <1> DEFINE pruned == PruneSources(now, w)
             found == FindOrCreateSource(pruned, s)
             entry == Seen(pruned, s, now, w)
  <1>1. NewSource \in SourceEntry /\ NewSource.lastAlert = 0
          /\ DOMAIN NewSource.ports = {}
    <2>1. 0 \in Time
      BY ScanAssumption DEF Time
    <2>2. NoPorts \in PortTimes
      <3>1. NoPorts \in [{} -> Time]
        BY DEF NoPorts
      <3> QED BY <3>1 DEF PortTimes
    <2> QED BY <2>1, <2>2 DEF NewSource, SourceEntry, NoPorts
  <1>2. found \in SourceEntry
    BY <1>1, PrunedBuckets DEF FindOrCreateSource
  <1>3. entry = [found EXCEPT !.lastSeen = now, !.ports = PrunePorts(@, now, w)]
    BY DEF Seen
  <1>4. PrunePorts(found.ports, now, w) \in PortTimes
    BY <1>2, PrunedPortTimes DEF SourceEntry
  <1>5. now \in Time
    BY DEF TypeOK
  <1>6. /\ entry \in SourceEntry
        /\ entry.lastSeen = now
        /\ entry.lastAlert = found.lastAlert
        /\ entry.ports = PrunePorts(found.ports, now, w)
    <2> HIDE DEF entry, found
    <2> QED BY <1>2, <1>3, <1>4, <1>5 DEF SourceEntry
  <1>7. ASSUME s \in DOMAIN pruned
        PROVE  /\ entry.lastAlert = sources[s].lastAlert
               /\ \A p : p \in DOMAIN entry.ports
                    <=> /\ p \in DOMAIN sources[s].ports
                        /\ ~OutsideWindow(now, sources[s].ports[p], w)
               /\ \A p \in DOMAIN entry.ports :
                    entry.ports[p] = sources[s].ports[p]
    <2>1. found.lastAlert = sources[s].lastAlert
            /\ found.ports = PrunePorts(sources[s].ports, now, w)
      BY <1>7, PrunedBuckets DEF FindOrCreateSource
    <2> HIDE DEF entry, found
    <2>2. \A p : p \in DOMAIN entry.ports
                  <=> p \in DOMAIN found.ports /\ ~OutsideWindow(now, found.ports[p], w)
      BY <1>6, PrunedPorts
    <2>3. \A p \in DOMAIN entry.ports : entry.ports[p] = found.ports[p]
      BY <1>6, PrunedPorts
    <2>4. \A p : p \in DOMAIN found.ports
                  <=> /\ p \in DOMAIN sources[s].ports
                      /\ ~OutsideWindow(now, sources[s].ports[p], w)
      BY <2>1, PrunedPorts
    <2>5. \A p \in DOMAIN found.ports : found.ports[p] = sources[s].ports[p]
      BY <2>1, PrunedPorts
    <2> QED BY <1>6, <2>1, <2>2, <2>3, <2>4, <2>5
  <1>8. ASSUME s \notin DOMAIN pruned
        PROVE  entry.lastAlert = 0 /\ DOMAIN entry.ports = {}
    <2>1. found = NewSource
      BY <1>8 DEF FindOrCreateSource
    <2> HIDE DEF entry, found
    <2>2. DOMAIN entry.ports \subseteq DOMAIN found.ports
      BY <1>6, PrunedPorts
    <2> QED BY <1>1, <1>6, <2>1, <2>2
  <1> QED BY <1>6, <1>7, <1>8

(* Storing a bucket under s leaves the other buckets alone.                *)
LEMMA PutEntry ==
  ASSUME NEW f, NEW k, NEW v
  PROVE  /\ DOMAIN Put(f, k, v) = DOMAIN f \cup {k}
         /\ Put(f, k, v)[k] = v
         /\ \A x \in DOMAIN f : x # k => Put(f, k, v)[x] = f[x]
         /\ Put(f, k, v) = [x \in DOMAIN f \cup {k} |-> Put(f, k, v)[x]]
  BY DEF Put

(* upsert_port sets one entry and no other.                                *)
LEMMA UpsertEntry ==
  ASSUME NEW f, NEW p, NEW t
  PROVE  /\ \A q : q \in DOMAIN UpsertPort(f, p, t) <=> q \in DOMAIN f \/ q = p
         /\ UpsertPort(f, p, t)[p] = t
         /\ \A q \in DOMAIN f : q # p => UpsertPort(f, p, t)[q] = f[q]
  BY DEF UpsertPort, Put

(* A bucket put into the list is a bucket of the list.                     *)
LEMMA PutBucket ==
  ASSUME NEW f, DOMAIN f \subseteq Sources, f \in [DOMAIN f -> SourceEntry],
         NEW s \in Sources, NEW e \in SourceEntry
  PROVE  /\ DOMAIN Put(f, s, e) \subseteq Sources
         /\ Put(f, s, e) \in [DOMAIN Put(f, s, e) -> SourceEntry]
  BY DEF Put

(* upsert_port leaves a list of ports.                                     *)
LEMMA UpsertPortTimes ==
  ASSUME NEW f \in PortTimes, NEW p \in Ports, NEW t \in Time
  PROVE  UpsertPort(f, p, t) \in PortTimes
  <1>1. PICK P \in SUBSET Ports : f \in [P -> Time]
    BY DEF PortTimes
  <1>2. UpsertPort(f, p, t) \in [P \cup {p} -> Time]
    BY <1>1 DEF UpsertPort, Put
  <1>3. P \cup {p} \in SUBSET Ports
    BY <1>1
  <1> QED BY <1>2, <1>3 DEF PortTimes

-----------------------------------------------------------------------------
(* The state after an observed SYN of source s whose port is recorded.     *)
LEMMA RecordedState ==
  ASSUME TypeOK, NEW s \in Sources, NEW p \in Ports, ObserveRecorded(s, p)
  PROVE  \E w \in Casts :
           LET pruned == PruneSources(now, w)
               entry == Seen(pruned, s, now, w)
               ports == UpsertPort(entry.ports, p, now)
               count == Cardinality(DOMAIN ports)
               raise == Raises(count, entry.lastAlert, now, w)
           IN  /\ DOMAIN sources' = DOMAIN pruned \cup {s}
               /\ \A x \in DOMAIN pruned : x # s => sources'[x] = pruned[x]
               /\ sources'[s] \in SourceEntry
               /\ sources'[s].lastSeen = now
               /\ sources'[s].ports = ports
               /\ sources'[s].lastAlert = IF raise THEN now ELSE entry.lastAlert
               /\ sources' \in [DOMAIN sources' -> SourceEntry]
               /\ alert' = IF raise THEN {[src |-> s, uniquePorts |-> count]} ELSE {}
               /\ revision' = revision + 1 /\ revision < MaxSyns
               /\ now' = now
  <1>1. PICK w \in Casts :
          LET pruned == PruneSources(now, w)
              entry == Seen(pruned, s, now, w)
              ports == UpsertPort(entry.ports, p, now)
              count == Cardinality(DOMAIN ports)
              raise == Raises(count, entry.lastAlert, now, w)
          IN  /\ StartObserve
              /\ sources' = Put(pruned, s,
                     [entry EXCEPT !.ports = ports,
                                   !.lastAlert = IF raise THEN now ELSE @])
              /\ alert' = IF raise THEN {[src |-> s, uniquePorts |-> count]} ELSE {}
    BY DEF ObserveRecorded
  <1> DEFINE pruned == PruneSources(now, w)
             entry == Seen(pruned, s, now, w)
             ports == UpsertPort(entry.ports, p, now)
             count == Cardinality(DOMAIN ports)
             raise == Raises(count, entry.lastAlert, now, w)
             stored == [entry EXCEPT !.ports = ports,
                                     !.lastAlert = IF raise THEN now ELSE @]
  <1>2. entry \in SourceEntry /\ entry.lastSeen = now
    BY SeenBucket
  <1>3. now \in Time
    BY DEF TypeOK
  <1>4. ports \in PortTimes
    BY <1>2, <1>3, UpsertPortTimes DEF SourceEntry
  <1>5. /\ stored \in SourceEntry
        /\ stored.lastSeen = now
        /\ stored.ports = ports
        /\ stored.lastAlert = IF raise THEN now ELSE entry.lastAlert
    <2> HIDE DEF entry, ports, raise
    <2> QED BY <1>2, <1>3, <1>4 DEF SourceEntry
  <1>6. sources' = Put(pruned, s, stored)
    BY <1>1
  <1>7. /\ DOMAIN pruned \subseteq Sources
        /\ pruned \in [DOMAIN pruned -> SourceEntry]
    BY PrunedBuckets
  <1>8. /\ alert' = IF raise THEN {[src |-> s, uniquePorts |-> count]} ELSE {}
        /\ StartObserve
    BY <1>1
  <1> HIDE DEF pruned, stored
  <1>9. /\ DOMAIN sources' = DOMAIN pruned \cup {s}
        /\ \A x \in DOMAIN pruned : x # s => sources'[x] = pruned[x]
        /\ sources'[s] = stored
    BY <1>6, PutEntry
  <1>10. sources' \in [DOMAIN sources' -> SourceEntry]
    BY <1>5, <1>6, <1>7, PutBucket
  <1> HIDE DEF ports, entry, count, raise
  <1>11. /\ DOMAIN sources' = DOMAIN pruned \cup {s}
         /\ \A x \in DOMAIN pruned : x # s => sources'[x] = pruned[x]
         /\ sources'[s] \in SourceEntry
         /\ sources'[s].lastSeen = now
         /\ sources'[s].ports = ports
         /\ sources'[s].lastAlert = IF raise THEN now ELSE entry.lastAlert
         /\ sources' \in [DOMAIN sources' -> SourceEntry]
         /\ alert' = IF raise THEN {[src |-> s, uniquePorts |-> count]} ELSE {}
         /\ revision' = revision + 1 /\ revision < MaxSyns
         /\ now' = now
    BY <1>5, <1>8, <1>9, <1>10 DEF StartObserve
  <1> QED BY <1>11 DEF pruned, entry, ports, count, raise

(* The state after a SYN whose port entry cannot be allocated.             *)
LEMMA PortLostState ==
  ASSUME TypeOK, NEW s \in Sources, NEW p \in Ports, ObservePortLost(s, p)
  PROVE  \E w \in Casts :
           LET pruned == PruneSources(now, w)
               entry == Seen(pruned, s, now, w)
           IN  /\ DOMAIN sources' = DOMAIN pruned \cup {s}
               /\ \A x \in DOMAIN pruned : x # s => sources'[x] = pruned[x]
               /\ sources'[s] = entry
               /\ sources' \in [DOMAIN sources' -> SourceEntry]
               /\ alert' = {}
               /\ revision' = revision + 1 /\ revision < MaxSyns
               /\ now' = now
  <1>1. PICK w \in Casts :
          /\ StartObserve
          /\ sources' = Put(PruneSources(now, w), s,
                            Seen(PruneSources(now, w), s, now, w))
          /\ alert' = {}
    BY DEF ObservePortLost
  <1> DEFINE pruned == PruneSources(now, w)
             entry == Seen(pruned, s, now, w)
  <1>2. entry \in SourceEntry
    BY SeenBucket
  <1>3. /\ DOMAIN pruned \subseteq Sources
        /\ pruned \in [DOMAIN pruned -> SourceEntry]
    BY PrunedBuckets
  <1>4. sources' = Put(pruned, s, entry)
    BY <1>1
  <1>5. alert' = {} /\ StartObserve
    BY <1>1
  <1> HIDE DEF pruned, entry
  <1>6. /\ DOMAIN sources' = DOMAIN pruned \cup {s}
        /\ \A x \in DOMAIN pruned : x # s => sources'[x] = pruned[x]
        /\ sources'[s] = entry
    BY <1>4, PutEntry
  <1>7. sources' \in [DOMAIN sources' -> SourceEntry]
    BY <1>2, <1>3, <1>4, PutBucket
  <1>8. /\ alert' = {} /\ now' = now
        /\ revision' = revision + 1 /\ revision < MaxSyns
    BY <1>5 DEF StartObserve
  <1> QED BY <1>6, <1>7, <1>8 DEF pruned, entry

-----------------------------------------------------------------------------
(* Type correctness, whatever the clock does.                              *)
LEMMA TypeInit == HInit => HTypeOK
  <1> SUFFICES ASSUME HInit PROVE HTypeOK
    OBVIOUS
  <1>1. DOMAIN sources = {} /\ sources \in [{} -> SourceEntry]
    BY DEF HInit, Init
  <1>2. now \in Time /\ revision \in 0..MaxSyns /\ alert = {}
    BY ScanAssumption DEF HInit, Init, Time
  <1> QED BY <1>1, <1>2 DEF HInit, HTypeOK, TypeOK

(* Every call keeps the types of detector and history.                     *)
LEMMA TypeStep == HTypeOK /\ [HNext]_hvars => HTypeOK'
  <1> SUFFICES ASSUME HTypeOK, [HNext]_hvars PROVE HTypeOK'
    OBVIOUS
  <1> USE DEF HTypeOK
  <1>1. CASE Tick /\ HSame
    BY <1>1 DEF Tick, HSame, TypeOK, Time
  <1>2. CASE ObserveNothing /\ HSame
    BY <1>2 DEF ObserveNothing, HSame, TypeOK, Time
  <1>3. ASSUME NEW s \in Sources, ObserveSourceLost(s), HSame PROVE HTypeOK'
    <2>1. PICK w \in Casts :
            StartObserve /\ sources' = PruneSources(now, w) /\ alert' = {}
      BY <1>3 DEF ObserveSourceLost
    <2>2. /\ DOMAIN sources' \subseteq Sources
          /\ sources' \in [DOMAIN sources' -> SourceEntry]
      BY <2>1, PrunedBuckets
    <2>3. revision' \in 0..MaxSyns /\ now' \in Time
      BY <2>1, ScanAssumption DEF StartObserve, TypeOK
    <2> QED BY <1>3, <2>1, <2>2, <2>3 DEF TypeOK, HSame, Time
  <1>4. ASSUME NEW s \in Sources, NEW p \in Ports, ObservePortLost(s, p), HSame
        PROVE  HTypeOK'
    <2>1. PICK w \in Casts :
            /\ DOMAIN sources' = DOMAIN PruneSources(now, w) \cup {s}
            /\ sources' \in [DOMAIN sources' -> SourceEntry]
            /\ alert' = {}
            /\ revision' = revision + 1 /\ revision < MaxSyns
            /\ now' = now
      BY <1>4, PortLostState
    <2>2. DOMAIN sources' \subseteq Sources
      BY <2>1, PrunedBuckets
    <2>3. revision' \in 0..MaxSyns
      BY <2>1, ScanAssumption DEF TypeOK
    <2> QED BY <1>4, <2>1, <2>2, <2>3 DEF TypeOK, HSame, Time
  <1>5. ASSUME NEW s \in Sources, NEW p \in Ports, HRecorded(s, p) PROVE HTypeOK'
    <2> DEFINE ports(w) == UpsertPort(Seen(PruneSources(now, w), s, now, w).ports, p, now)
               count(w) == Cardinality(DOMAIN ports(w))
    <2>1. PICK w \in Casts :
            /\ DOMAIN sources' = DOMAIN PruneSources(now, w) \cup {s}
            /\ sources'[s] \in SourceEntry
            /\ sources'[s].ports = ports(w)
            /\ sources' \in [DOMAIN sources' -> SourceEntry]
            /\ alert' = {} \/ alert' = {[src |-> s, uniquePorts |-> count(w)]}
            /\ revision' = revision + 1 /\ revision < MaxSyns
            /\ now' = now
      <3> HIDE DEF count
      <3> QED BY <1>5, RecordedState DEF HRecorded, count
    <2>2. DOMAIN sources' \subseteq Sources
      BY <2>1, PrunedBuckets
    <2>3. revision' \in 0..MaxSyns
      BY <2>1, ScanAssumption DEF TypeOK
    <2> HIDE DEF ports
    <2>4. ports(w) \in PortTimes
      BY <2>1 DEF SourceEntry
    <2>5. DOMAIN ports(w) \subseteq Ports
      BY <2>4 DEF PortTimes
    <2>6. count(w) \in Nat
      BY <2>5, ScanAssumption, FS_Subset, FS_CardinalityType
    <2> HIDE DEF count
    <2>7. \A a, b \in alert' : a \in ScanAlert /\ a = b
      BY <2>1, <2>6 DEF ScanAlert
    <2>8. touched' \in [Sources -> [Ports -> Time \cup {Never}]]
      BY <1>5 DEF HRecorded, TypeOK
    <2>9. alertedAt' \in [Sources -> Time \cup {Never}]
      BY <1>5 DEF HRecorded, TypeOK
    <2> QED BY <2>1, <2>2, <2>3, <2>7, <2>8, <2>9 DEF TypeOK, Time
  <1>6. CASE UNCHANGED hvars
    BY <1>6 DEF hvars, TypeOK, Time
  <1> QED BY <1>1, <1>2, <1>3, <1>4, <1>5, <1>6 DEF HNext

(* Every reachable state is well typed: bucket times lie on the explored   *)
(* clock, and at most one well-formed alert is returned per observation.   *)
THEOREM TypeCorrect == HSpec => []HTypeOK
  BY TypeInit, TypeStep, PTL DEF HSpec

-----------------------------------------------------------------------------
(* Bucket contents, whatever the clock does.                               *)
LEMMA TruthfulStep ==
  HTypeOK /\ BucketsTruthful /\ [HNext]_hvars => BucketsTruthful'
  <1> SUFFICES ASSUME HTypeOK, BucketsTruthful, [HNext]_hvars,
                      NEW x \in Sources, NEW q \in Ports,
                      x \in DOMAIN sources', q \in DOMAIN sources'[x].ports
               PROVE  sources'[x].ports[q] = touched'[x][q]
    BY DEF BucketsTruthful, Tracked
  <1>a. TypeOK /\ touched \in [Sources -> [Ports -> Time \cup {Never}]]
    BY DEF HTypeOK
  <1>b. ASSUME NEW w \in Casts, x \in DOMAIN PruneSources(now, w),
               sources'[x] = PruneSources(now, w)[x]
        PROVE  sources'[x].ports[q] = touched[x][q]
    BY <1>a, <1>b, PrunedBuckets, PrunedPorts DEF BucketsTruthful, Tracked
  <1>c. ASSUME NEW w \in Casts, NEW s \in Sources,
               NEW r \in DOMAIN Seen(PruneSources(now, w), s, now, w).ports,
               r \in Ports
        PROVE  Seen(PruneSources(now, w), s, now, w).ports[r] = touched[s][r]
    <2>1. s \in DOMAIN PruneSources(now, w)
      BY <1>a, <1>c, SeenBucket
    <2>2. s \in DOMAIN sources
      BY <1>a, <2>1, PrunedBuckets
    <2> QED BY <1>a, <1>c, <2>1, <2>2, SeenBucket DEF BucketsTruthful, Tracked
  <1>1. CASE Tick /\ HSame
    BY <1>1 DEF Tick, HSame, BucketsTruthful, Tracked
  <1>2. CASE ObserveNothing /\ HSame
    BY <1>2 DEF ObserveNothing, HSame, BucketsTruthful, Tracked
  <1>3. ASSUME NEW s \in Sources, ObserveSourceLost(s), HSame
        PROVE  sources'[x].ports[q] = touched'[x][q]
    BY <1>3, <1>b DEF ObserveSourceLost, HSame
  <1>4. ASSUME NEW s \in Sources, NEW p \in Ports, ObservePortLost(s, p), HSame
        PROVE  sources'[x].ports[q] = touched'[x][q]
    <2>1. PICK w \in Casts :
            /\ DOMAIN sources' = DOMAIN PruneSources(now, w) \cup {s}
            /\ \A y \in DOMAIN PruneSources(now, w) :
                 y # s => sources'[y] = PruneSources(now, w)[y]
            /\ sources'[s] = Seen(PruneSources(now, w), s, now, w)
      BY <1>a, <1>4, PortLostState
    <2>2. CASE x = s
      BY <1>4, <1>c, <2>1, <2>2 DEF HSame
    <2>3. CASE x # s
      BY <1>4, <1>b, <2>1, <2>3 DEF HSame
    <2> QED BY <2>2, <2>3
  <1>5. ASSUME NEW s \in Sources, NEW p \in Ports, HRecorded(s, p)
        PROVE  sources'[x].ports[q] = touched'[x][q]
    <2> DEFINE entry(w) == Seen(PruneSources(now, w), s, now, w)
    <2>1. PICK w \in Casts :
            /\ DOMAIN sources' = DOMAIN PruneSources(now, w) \cup {s}
            /\ \A y \in DOMAIN PruneSources(now, w) :
                 y # s => sources'[y] = PruneSources(now, w)[y]
            /\ sources'[s].ports = UpsertPort(entry(w).ports, p, now)
      BY <1>a, <1>5, RecordedState DEF HRecorded
    <2>2. touched' = [touched EXCEPT ![s][p] = now]
      BY <1>5 DEF HRecorded
    <2>3. CASE x = s
      <3> DEFINE before == entry(w).ports
      <3>1. sources'[s].ports = UpsertPort(before, p, now)
        BY <2>1
      <3>2. ASSUME NEW r \in Ports, r \in DOMAIN before
            PROVE  before[r] = touched[s][r]
        BY <1>c, <3>2
      <3> HIDE DEF before
      <3>3. CASE q = p
        BY <1>a, <2>2, <2>3, <3>1, <3>3, UpsertEntry
      <3>4. CASE q # p
        <4>1. q \in DOMAIN before /\ sources'[s].ports[q] = before[q]
          BY <2>3, <3>1, <3>4, UpsertEntry
        <4> QED BY <1>a, <2>2, <2>3, <3>2, <3>4, <4>1
      <3> QED BY <3>3, <3>4
    <2>4. CASE x # s
      <3>1. sources'[x].ports[q] = touched[x][q]
        BY <1>b, <2>1, <2>4
      <3> QED BY <1>a, <2>2, <2>4, <3>1
    <2> QED BY <2>3, <2>4
  <1>6. CASE UNCHANGED hvars
    BY <1>6 DEF hvars, BucketsTruthful, Tracked
  <1> QED BY <1>1, <1>2, <1>3, <1>4, <1>5, <1>6 DEF HNext

(* A bucket never holds a stale or a foreign time for a port: it holds the *)
(* time of the last recorded SYN, for every behaviour of the clock.        *)
THEOREM BucketsTruthfulAlways == HSpec => []BucketsTruthful
  <1>1. HInit => BucketsTruthful
    BY DEF HInit, Init, BucketsTruthful, Tracked
  <1> QED BY <1>1, TruthfulStep, TypeCorrect, PTL DEF HSpec

-----------------------------------------------------------------------------
(* With a clock that is set and never goes back.                           *)
ClockInv ==
  /\ now > Window
  /\ \A s \in Sources, p \in Ports : touched[s][p] <= now
  /\ \A s \in Sources : alertedAt[s] <= now
  /\ \A s \in DOMAIN sources :
       sources[s].lastSeen <= now /\ sources[s].lastAlert <= now

SaneInv ==
  /\ HTypeOK
  /\ BucketsTruthful
  /\ ClockInv
  /\ NoLivePortForgotten
  /\ CooldownKept
  /\ ScanReported

Live(s, p) == touched[s][p] # Never /\ now - touched[s][p] <= Window

(* What the types say, ready to be used.                                   *)
LEMMA TypeFacts ==
  ASSUME HTypeOK
  PROVE  /\ TypeOK
         /\ now \in Int /\ Window \in Nat /\ Never = -1
         /\ \A s \in Sources, p \in Ports : touched[s][p] \in Int
         /\ \A s \in Sources : alertedAt[s] \in Int
         /\ \A s \in DOMAIN sources :
              /\ s \in Sources
              /\ sources[s].lastSeen \in Int
              /\ sources[s].lastAlert \in Nat
              /\ sources[s].ports \in PortTimes
  BY ScanAssumption
     DEF HTypeOK, TypeOK, Time, Never, Promise!Never, SourceEntry

(* Pruning drops exactly the ports outside the window, and no bucket that  *)
(* still holds a live port.                                                *)
LEMMA PruneExact ==
  ASSUME HTypeOK, BucketsTruthful, ClockInv, NEW w \in Casts,
         NEW s \in DOMAIN sources, NEW p \in Ports
  PROVE  LET kept == PrunePorts(sources[s].ports, now, w)
         IN  /\ p \in DOMAIN kept
                  <=> Tracked(s, p) /\ now - touched[s][p] <= Window
             /\ p \in DOMAIN kept => s \in DOMAIN PruneSources(now, w)
  <1>1. Tracked(s, p) => sources[s].ports[p] = touched[s][p]
    BY TypeFacts DEF BucketsTruthful
  <1>2. Tracked(s, p) =>
          (OutsideWindow(now, sources[s].ports[p], w) <=> now - touched[s][p] > Window)
    BY <1>1, TypeFacts DEF ClockInv, OutsideWindow
  <1>3. p \in DOMAIN PrunePorts(sources[s].ports, now, w)
          <=> Tracked(s, p) /\ ~OutsideWindow(now, sources[s].ports[p], w)
    BY PrunedPorts DEF Tracked
  <1>4. p \in DOMAIN PrunePorts(sources[s].ports, now, w) => ~Idle(sources[s], now, w)
    BY DEF Idle
  <1>5. now - touched[s][p] <= Window <=> ~(now - touched[s][p] > Window)
    BY TypeFacts
  <1> QED BY <1>2, <1>3, <1>4, <1>5 DEF PruneSources

(* After pruning, a source either kept its bucket and its cooldown or has  *)
(* no alert inside the window.                                             *)
LEMMA PruneKeepsCooldown ==
  ASSUME HTypeOK, ClockInv, CooldownKept, NEW w \in Casts, NEW s \in Sources
  PROVE  LET pruned == PruneSources(now, w)
         IN  \/ s \in DOMAIN pruned /\ sources[s].lastAlert = alertedAt[s]
             \/ /\ s \in DOMAIN pruned => sources[s].lastAlert = 0
                /\ Promise!Quiet(s, now)
  <1>1. CASE s \in DOMAIN sources /\ sources[s].lastAlert = alertedAt[s]
    <2>1. s \in DOMAIN PruneSources(now, w) <=> ~Idle(sources[s], now, w)
      BY <1>1 DEF PruneSources
    <2>2. Idle(sources[s], now, w) => now - sources[s].lastAlert > Window
      BY <1>1, TypeFacts DEF Idle, OutsideWindow, ClockInv
    <2> QED BY <1>1, <2>1, <2>2 DEF Promise!Quiet
  <1>2. CASE /\ s \in DOMAIN sources => sources[s].lastAlert = 0
             /\ Promise!Quiet(s, now)
    BY <1>2 DEF PruneSources
  <1> QED BY <1>1, <1>2 DEF CooldownKept

(* What a recorded SYN leaves in the bucket of its source: exactly the     *)
(* live ports, and an alert exactly when the promise asks for one.         *)
LEMMA RecordedExact ==
  ASSUME SaneInv, NEW s \in Sources, NEW p \in Ports, HRecorded(s, p)
  PROVE  LET row == [touched[s] EXCEPT ![p] = now]
             count == Cardinality(Promise!LivePorts(row, now))
             report == count >= Threshold /\ Promise!Quiet(s, now)
         IN  /\ DOMAIN sources'[s].ports = Promise!LivePorts(row, now)
             /\ sources'[s].lastSeen = now
             /\ alert' = IF report THEN {[src |-> s, uniquePorts |-> count]} ELSE {}
             /\ sources'[s].lastAlert = now \/ ~report
             /\ ~report => \/ sources'[s].lastAlert = alertedAt[s]
                           \/ sources'[s].lastAlert = 0 /\ Promise!Quiet(s, now)
  <1> DEFINE row == [touched[s] EXCEPT ![p] = now]
             live == Promise!LivePorts(row, now)
             report == Cardinality(live) >= Threshold /\ Promise!Quiet(s, now)
             entry(w) == Seen(PruneSources(now, w), s, now, w)
             ports(w) == UpsertPort(entry(w).ports, p, now)
             count(w) == Cardinality(DOMAIN ports(w))
             raise(w) == Raises(count(w), entry(w).lastAlert, now, w)
  <1> USE DEF SaneInv
  <1>1. PICK w \in Casts :
          /\ DOMAIN sources' = DOMAIN PruneSources(now, w) \cup {s}
          /\ sources'[s] \in SourceEntry
          /\ sources'[s].lastSeen = now
          /\ sources'[s].ports = ports(w)
          /\ sources'[s].lastAlert = IF raise(w) THEN now ELSE entry(w).lastAlert
          /\ alert' = IF raise(w) THEN {[src |-> s, uniquePorts |-> count(w)]} ELSE {}
    <2>1. TypeOK /\ ObserveRecorded(s, p)
      BY TypeFacts DEF HRecorded
    <2> QED BY <2>1, RecordedState
  <1>2. row \in [Ports -> Int] /\ row[p] = now
          /\ \A q \in Ports : q # p => row[q] = touched[s][q]
    BY TypeFacts DEF HTypeOK, Time
  <1>3. \A q \in Ports : q \in live <=> q = p \/ Live(s, q)
    <2> HIDE DEF row
    <2>1. now # Never /\ now - now <= Window
      BY TypeFacts DEF ClockInv
    <2> QED BY <1>2, <2>1 DEF Promise!LivePorts, Live, Never
  <1>4. \A q \in Ports : q \in DOMAIN ports(w) <=> q = p \/ Live(s, q)
    <2> TAKE q \in Ports
    <2> DEFINE before == entry(w).ports
    <2>1. q \in DOMAIN ports(w) <=> q \in DOMAIN before \/ q = p
      BY UpsertEntry
    <2>2. q \in DOMAIN before <=> Live(s, q)
      <3>1. CASE s \in DOMAIN PruneSources(now, w)
        <4>1. s \in DOMAIN sources
          BY <3>1, TypeFacts, PrunedBuckets
        <4>2. q \in DOMAIN before
                <=> /\ q \in DOMAIN sources[s].ports
                    /\ ~OutsideWindow(now, sources[s].ports[q], w)
          BY <3>1, TypeFacts, SeenBucket
        <4>3. q \in DOMAIN before <=> Tracked(s, q) /\ now - touched[s][q] <= Window
          BY <4>1, <4>2, PrunedPorts, PruneExact
        <4>4. Tracked(s, q) => touched[s][q] # Never
          <5> SUFFICES ASSUME Tracked(s, q) PROVE touched[s][q] # Never
            OBVIOUS
          <5>1. sources[s].ports[q] \in Time
            BY <4>1, TypeFacts DEF PortTimes, Tracked
          <5> QED BY <5>1, TypeFacts DEF BucketsTruthful, Time
        <4> QED BY <4>3, <4>4 DEF Live, NoLivePortForgotten
      <3>2. CASE s \notin DOMAIN PruneSources(now, w)
        <4>1. q \notin DOMAIN before
          BY <3>2, TypeFacts, SeenBucket
        <4>2. ~Live(s, q)
          <5> SUFFICES ASSUME Live(s, q) PROVE FALSE
            OBVIOUS
          <5>1. Tracked(s, q) /\ now - touched[s][q] <= Window
            BY DEF Live, NoLivePortForgotten
          <5> QED BY <3>2, <5>1, PruneExact DEF Tracked
        <4> QED BY <4>1, <4>2
      <3> QED BY <3>1, <3>2
    <2> QED BY <2>1, <2>2
  <1>5. DOMAIN ports(w) \subseteq Ports
    BY <1>1 DEF SourceEntry, PortTimes
  <1>6. DOMAIN ports(w) = live
    BY <1>3, <1>4, <1>5 DEF Promise!LivePorts
  <1>7. raise(w) <=> report
    <2>1. entry(w).lastAlert = IF s \in DOMAIN PruneSources(now, w)
                                 THEN sources[s].lastAlert ELSE 0
      BY TypeFacts, SeenBucket
    <2>2. entry(w).lastAlert \in Int /\ entry(w).lastAlert <= now
      BY <2>1, TypeFacts, PrunedBuckets DEF ClockInv
    <2>3. OutsideWindow(now, entry(w).lastAlert, w)
            <=> now - entry(w).lastAlert > Window
      BY <2>2, TypeFacts DEF OutsideWindow
    <2>4. now - entry(w).lastAlert > Window <=> Promise!Quiet(s, now)
      <3>1. CASE /\ s \in DOMAIN PruneSources(now, w)
                 /\ sources[s].lastAlert = alertedAt[s]
        BY <2>1, <3>1, TypeFacts, PrunedBuckets DEF Promise!Quiet, Promise!Never
      <3>2. CASE /\ s \in DOMAIN PruneSources(now, w) => sources[s].lastAlert = 0
                 /\ Promise!Quiet(s, now)
        BY <2>1, <3>2, TypeFacts DEF ClockInv
      <3> QED BY <3>1, <3>2, PruneKeepsCooldown
    <2> HIDE DEF entry
    <2> QED BY <1>6, <2>3, <2>4 DEF Raises
  <1>8. ~report => \/ entry(w).lastAlert = alertedAt[s]
                   \/ entry(w).lastAlert = 0 /\ Promise!Quiet(s, now)
    BY TypeFacts, SeenBucket, PruneKeepsCooldown
  <1> HIDE DEF live, report, entry, ports, count, raise
  <1>9. /\ DOMAIN sources'[s].ports = live
        /\ sources'[s].lastSeen = now
        /\ alert' = IF report THEN {[src |-> s, uniquePorts |-> Cardinality(live)]} ELSE {}
        /\ sources'[s].lastAlert = IF report THEN now ELSE entry(w).lastAlert
    BY <1>1, <1>6, <1>7 DEF count
  <1> QED BY <1>8, <1>9 DEF live, report

(* The promise counts with its own instance of Cardinality.                *)
LEMMA SameCardinality == \A S : Promise!Cardinality(S) = Cardinality(S)
  BY DEF Promise!Cardinality, Cardinality

(* A recorded SYN does to the history what the promise says.               *)
LEMMA RecordedPromise ==
  ASSUME SaneInv, NEW s \in Sources, NEW p \in Ports, HRecorded(s, p)
  PROVE  Promise!Touch(s, p)
  <1> DEFINE row == [touched[s] EXCEPT ![p] = now]
             count == Cardinality(Promise!LivePorts(row, now))
             report == count >= Threshold /\ Promise!Quiet(s, now)
  <1>1. alert' = IF report THEN {[src |-> s, uniquePorts |-> count]} ELSE {}
    BY RecordedExact
  <1>2. /\ touched' = [touched EXCEPT ![s][p] = now]
        /\ alertedAt' = IF alert' = {} THEN alertedAt
                        ELSE [alertedAt EXCEPT ![s] = now]
        /\ now' = now
    BY DEF HRecorded, ObserveRecorded, StartObserve
  <1>3. touched' = [touched EXCEPT ![s] = row]
    BY <1>2 DEF SaneInv, HTypeOK
  <1>4. alertedAt \in [Sources -> Time \cup {Never}]
    BY DEF SaneInv, HTypeOK
  <1> HIDE DEF row, count
  <1>5. alertedAt' = [alertedAt EXCEPT ![s] = IF report THEN now ELSE @]
    BY <1>1, <1>2, <1>4
  <1> QED BY <1>1, <1>2, <1>3, <1>5, SameCardinality DEF Promise!Touch, row, count

(* Pruning alone, as when the bucket of a new source cannot be allocated,  *)
(* keeps every invariant that speaks of the buckets of other sources.      *)
LEMMA PruneKeepsOthers ==
  ASSUME SaneInv, NEW w \in Casts, NEW x \in Sources, now' = now,
         touched'[x] = touched[x], alertedAt'[x] = alertedAt[x],
         x \in DOMAIN sources' <=> x \in DOMAIN PruneSources(now, w),
         x \in DOMAIN sources' => sources'[x] = PruneSources(now, w)[x]
  PROVE  /\ x \in DOMAIN sources' => /\ sources'[x].lastSeen <= now
                                     /\ sources'[x].lastAlert <= now
         /\ \A q \in Ports : Live(x, q) =>
               x \in DOMAIN sources' /\ q \in DOMAIN sources'[x].ports
         /\ \/ x \in DOMAIN sources' /\ sources'[x].lastAlert = alertedAt[x]
            \/ /\ x \in DOMAIN sources' => sources'[x].lastAlert = 0
               /\ Promise!Quiet(x, now)
  <1> USE DEF SaneInv
  <1>1. x \in DOMAIN sources' =>
          /\ x \in DOMAIN sources
          /\ sources'[x].lastSeen = sources[x].lastSeen
          /\ sources'[x].lastAlert = sources[x].lastAlert
          /\ sources'[x].ports = PrunePorts(sources[x].ports, now, w)
    BY TypeFacts, PrunedBuckets
  <1>2. ASSUME NEW q \in Ports, Live(x, q)
        PROVE  x \in DOMAIN sources' /\ q \in DOMAIN sources'[x].ports
    <2>1. Tracked(x, q) /\ now - touched[x][q] <= Window
      BY <1>2 DEF Live, NoLivePortForgotten
    <2>2. /\ q \in DOMAIN PrunePorts(sources[x].ports, now, w)
          /\ x \in DOMAIN PruneSources(now, w)
      BY <2>1, PruneExact DEF Tracked
    <2> QED BY <1>1, <2>2
  <1>3. x \in DOMAIN sources' => /\ sources'[x].lastSeen <= now
                                /\ sources'[x].lastAlert <= now
    BY <1>1 DEF ClockInv
  <1>4. \/ x \in DOMAIN sources' /\ sources'[x].lastAlert = alertedAt[x]
        \/ /\ x \in DOMAIN sources' => sources'[x].lastAlert = 0
           /\ Promise!Quiet(x, now)
    BY <1>1, PruneKeepsCooldown
  <1> QED BY <1>2, <1>3, <1>4

(* A step that records nothing new leaves ScanReported alone.              *)
LEMMA SameReported ==
  ASSUME ScanReported, touched' = touched, alertedAt' = alertedAt
  PROVE  ScanReported'
  BY DEF ScanReported, Promise!LivePorts

(* A recorded SYN that fills the window has an alert inside it.            *)
LEMMA ReportedAfterTouch ==
  ASSUME SaneInv, NEW s \in Sources, NEW p \in Ports, Promise!Touch(s, p)
  PROVE  ScanReported'
  <1> DEFINE row == [touched[s] EXCEPT ![p] = now]
             count == Cardinality(Promise!LivePorts(row, now))
             report == count >= Threshold /\ Promise!Quiet(s, now)
  <1> USE DEF SaneInv
  <1>1. /\ touched' = [touched EXCEPT ![s] = row]
        /\ alertedAt' = [alertedAt EXCEPT ![s] = IF report THEN now ELSE @]
        /\ touched \in [Sources -> [Ports -> Time \cup {Never}]]
        /\ alertedAt \in [Sources -> Time \cup {Never}]
    BY SameCardinality DEF Promise!Touch, HTypeOK
  <1>2. SUFFICES ASSUME NEW x \in Sources, NEW q \in Ports,
                        touched'[x][q] # Never,
                        \A r \in Ports : touched'[x][r] <= touched'[x][q],
                        Cardinality(Promise!LivePorts(touched'[x], touched'[x][q]))
                          >= Threshold
                 PROVE  /\ alertedAt'[x] # Never
                        /\ touched'[x][q] - alertedAt'[x] <= Window
    BY DEF ScanReported
  <1>3. CASE x # s
    <2>1. touched'[x] = touched[x] /\ alertedAt'[x] = alertedAt[x]
      BY <1>1, <1>3
    <2> QED BY <1>2, <2>1 DEF ScanReported
  <1>4. CASE x = s
    <2>1. touched'[s] = row /\ alertedAt'[s] = IF report THEN now ELSE alertedAt[s]
      BY <1>1
    <2>2. row[p] = now /\ \A r \in Ports : row[r] <= now /\ row[r] \in Int
      BY <1>1, TypeFacts DEF ClockInv, Time
    <2>3. touched'[x][q] = now
      <3> HIDE DEF row
      <3> QED BY <1>2, <1>4, <2>1, <2>2, TypeFacts
    <2>4. count >= Threshold
      BY <1>2, <1>4, <2>1, <2>3
    <2> HIDE DEF row, count
    <2>5. CASE report
      BY <1>4, <2>1, <2>3, <2>5, TypeFacts DEF ClockInv
    <2>6. CASE ~report
      <3>1. ~Promise!Quiet(s, now)
        BY <2>4, <2>6
      <3> QED BY <1>4, <2>1, <2>3, <2>6, <3>1, TypeFacts
              DEF Promise!Quiet, Promise!Never
    <2> QED BY <2>5, <2>6
  <1> QED BY <1>3, <1>4

-----------------------------------------------------------------------------
(* The invariant of a sane clock holds at the start.                       *)
LEMMA SaneInit == WallClockSane /\ HInit => SaneInv
  <1> SUFFICES ASSUME WallClockSane, HInit PROVE SaneInv
    OBVIOUS
  <1>1. HTypeOK
    BY TypeInit
  <1>2. now = StartTime /\ now > Window /\ DOMAIN sources = {}
    BY DEF HInit, Init, WallClockSane
  <1>3. /\ \A s \in Sources, p \in Ports : touched[s][p] = Never
        /\ \A s \in Sources : alertedAt[s] = Never
    BY DEF HInit
  <1>4. ClockInv
    BY <1>2, <1>3, <1>1, TypeFacts DEF ClockInv
  <1>5. BucketsTruthful /\ NoLivePortForgotten /\ ScanReported
    BY <1>2, <1>3 DEF BucketsTruthful, Tracked, NoLivePortForgotten, ScanReported
  <1>6. CooldownKept
    BY <1>2, <1>3 DEF CooldownKept, Promise!Quiet, Never
  <1> QED BY <1>1, <1>4, <1>5, <1>6 DEF SaneInv

(* Without touched and alertedAt changing, it is enough that every source  *)
(* keeps its live ports and its cooldown.                                  *)
LEMMA SaneSameHistory ==
  ASSUME SaneInv, HTypeOK', BucketsTruthful', now' = now, HSame,
         \A x \in Sources :
           /\ x \in DOMAIN sources' => /\ sources'[x].lastSeen <= now
                                      /\ sources'[x].lastAlert <= now
           /\ \A q \in Ports : Live(x, q) =>
                 x \in DOMAIN sources' /\ q \in DOMAIN sources'[x].ports
           /\ \/ x \in DOMAIN sources' /\ sources'[x].lastAlert = alertedAt[x]
              \/ /\ x \in DOMAIN sources' => sources'[x].lastAlert = 0
                 /\ Promise!Quiet(x, now)
  PROVE  SaneInv'
  <1> USE DEF SaneInv
  <1>1. touched' = touched /\ alertedAt' = alertedAt
    BY DEF HSame
  <1>2. \A x \in DOMAIN sources' : x \in Sources
    BY DEF HTypeOK, TypeOK
  <1>3. ClockInv'
    BY <1>1, <1>2 DEF ClockInv
  <1>4. NoLivePortForgotten'
    BY <1>1 DEF NoLivePortForgotten, Tracked, Live, Never, Promise!Never
  <1>5. CooldownKept'
    BY <1>1 DEF CooldownKept, Promise!Quiet
  <1>6. ScanReported'
    BY <1>1, SameReported
  <1> QED BY <1>3, <1>4, <1>5, <1>6

(* Time passing makes nothing live again.                                  *)
LEMMA SaneTick ==
  ASSUME WallClockSane, SaneInv, HTypeOK', BucketsTruthful', Tick, HSame
  PROVE  SaneInv'
  <1> USE DEF SaneInv
  <1>1. PICK d \in Nat : now' = now + d
    BY DEF Tick, WallClockSane
  <1>2. now \in Int /\ now' \in Int /\ now' >= now
    BY <1>1, TypeFacts
  <1>3. touched' = touched /\ alertedAt' = alertedAt /\ sources' = sources
    BY DEF HSame, Tick
  <1>4. ClockInv'
    BY <1>2, <1>3, TypeFacts DEF ClockInv
  <1>5. NoLivePortForgotten'
    BY <1>2, <1>3, TypeFacts DEF NoLivePortForgotten, Tracked, Never, Promise!Never
  <1>6. CooldownKept'
    <2>1. \A s \in Sources : Promise!Quiet(s, now) => Promise!Quiet(s, now')
      BY <1>2, TypeFacts DEF Promise!Quiet
    <2> QED BY <1>3, <2>1 DEF CooldownKept, Promise!Quiet
  <1>7. ScanReported'
    BY <1>3, SameReported
  <1> QED BY <1>4, <1>5, <1>6, <1>7

(* A recorded SYN, with pruning, refresh and alert.                        *)
LEMMA SaneRecorded ==
  ASSUME SaneInv, HTypeOK', BucketsTruthful',
         NEW s \in Sources, NEW p \in Ports, HRecorded(s, p)
  PROVE  SaneInv'
  <1> DEFINE row == [touched[s] EXCEPT ![p] = now]
             count == Cardinality(Promise!LivePorts(row, now))
             report == count >= Threshold /\ Promise!Quiet(s, now)
  <1> USE DEF SaneInv
  <1>1. PICK w \in Casts :
          /\ DOMAIN sources' = DOMAIN PruneSources(now, w) \cup {s}
          /\ \A y \in DOMAIN PruneSources(now, w) :
               y # s => sources'[y] = PruneSources(now, w)[y]
          /\ now' = now
    <2>1. TypeOK /\ ObserveRecorded(s, p)
      BY TypeFacts DEF HRecorded
    <2> QED BY <2>1, RecordedState
  <1>2. /\ touched' = [touched EXCEPT ![s] = row]
        /\ alertedAt' = [alertedAt EXCEPT ![s] = IF report THEN now ELSE @]
    BY RecordedPromise, SameCardinality DEF Promise!Touch
  <1>3. /\ DOMAIN sources'[s].ports = Promise!LivePorts(row, now)
        /\ sources'[s].lastSeen = now
        /\ sources'[s].lastAlert = now \/ ~report
        /\ ~report => \/ sources'[s].lastAlert = alertedAt[s]
                      \/ sources'[s].lastAlert = 0 /\ Promise!Quiet(s, now)
    BY RecordedExact
  <1>4. \A r \in Ports : row[r] \in Int /\ row[r] <= now
    BY TypeFacts DEF ClockInv, HTypeOK, Time
  <1>5. /\ touched'[s] = row
        /\ alertedAt'[s] = IF report THEN now ELSE alertedAt[s]
        /\ \A x \in Sources : x # s => /\ touched'[x] = touched[x]
                                       /\ alertedAt'[x] = alertedAt[x]
    BY <1>2 DEF HTypeOK
  <1>6. s \in DOMAIN sources' /\ \A x \in DOMAIN sources' : x \in Sources
    BY <1>1 DEF HTypeOK, TypeOK
  <1> HIDE DEF row, count
  <1>7. \A x \in Sources : x # s =>
          /\ x \in DOMAIN sources' => /\ sources'[x].lastSeen <= now
                                     /\ sources'[x].lastAlert <= now
          /\ \A q \in Ports : Live(x, q) =>
                x \in DOMAIN sources' /\ q \in DOMAIN sources'[x].ports
          /\ \/ x \in DOMAIN sources' /\ sources'[x].lastAlert = alertedAt[x]
             \/ /\ x \in DOMAIN sources' => sources'[x].lastAlert = 0
                /\ Promise!Quiet(x, now)
    <2> TAKE x \in Sources
    <2> HAVE x # s
    <2>1. x \in DOMAIN sources' <=> x \in DOMAIN PruneSources(now, w)
      BY <1>1
    <2>2. x \in DOMAIN sources' => sources'[x] = PruneSources(now, w)[x]
      BY <1>1
    <2> QED BY <1>1, <1>5, <2>1, <2>2, PruneKeepsOthers
  <1>8. ClockInv'
    <2>1. sources'[s].lastSeen <= now /\ sources'[s].lastAlert <= now
      BY <1>3, TypeFacts DEF ClockInv
    <2>2. alertedAt'[s] <= now
      BY <1>5, TypeFacts DEF ClockInv
    <2> QED BY <1>1, <1>4, <1>5, <1>6, <1>7, <2>1, <2>2 DEF ClockInv
  <1>9. NoLivePortForgotten'
    BY <1>1, <1>3, <1>5, <1>6, <1>7
       DEF NoLivePortForgotten, Tracked, Live, Promise!LivePorts, Never, Promise!Never
  <1>10. CooldownKept'
    <2>1. CASE report
      BY <1>1, <1>3, <1>5, <1>6, <1>7, <2>1 DEF CooldownKept, Promise!Quiet
    <2>2. CASE ~report
      BY <1>1, <1>3, <1>5, <1>6, <1>7, <2>2 DEF CooldownKept, Promise!Quiet
    <2> QED BY <2>1, <2>2
  <1>11. ScanReported'
    BY RecordedPromise, ReportedAfterTouch
  <1> QED BY <1>8, <1>9, <1>10, <1>11

(* Every step of the detector keeps the invariant.                         *)
LEMMA SaneStep == WallClockSane /\ SaneInv /\ [HNext]_hvars => SaneInv'
  <1> SUFFICES ASSUME WallClockSane, SaneInv, [HNext]_hvars PROVE SaneInv'
    OBVIOUS
  <1>1. HTypeOK' /\ BucketsTruthful'
    BY TypeStep, TruthfulStep DEF SaneInv
  <1>2. CASE Tick /\ HSame
    BY <1>1, <1>2, SaneTick
  <1>3. ASSUME now' = now, sources' = sources, HSame PROVE SaneInv'
    <2>1. ClockInv' /\ NoLivePortForgotten'
      BY <1>3 DEF SaneInv, HSame, ClockInv, NoLivePortForgotten, Tracked,
                  Never, Promise!Never
    <2>2. CooldownKept' /\ ScanReported'
      BY <1>3, SameReported DEF SaneInv, HSame, CooldownKept, Promise!Quiet
    <2> QED BY <1>1, <2>1, <2>2 DEF SaneInv
  <1>4. CASE ObserveNothing /\ HSame
    BY <1>3, <1>4 DEF ObserveNothing
  <1>5. ASSUME NEW s \in Sources, ObserveSourceLost(s), HSame PROVE SaneInv'
    <2>1. PICK w \in Casts : now' = now /\ sources' = PruneSources(now, w)
      BY <1>5 DEF ObserveSourceLost, StartObserve
    <2>2. touched' = touched /\ alertedAt' = alertedAt
      BY <1>5 DEF HSame
    <2> QED BY <1>1, <1>5, <2>1, <2>2, PruneKeepsOthers, SaneSameHistory
  <1>6. ASSUME NEW s \in Sources, NEW p \in Ports, ObservePortLost(s, p), HSame
        PROVE  SaneInv'
    <2> DEFINE pruned(w) == PruneSources(now, w)
               entry(w) == Seen(pruned(w), s, now, w)
    <2>1. PICK w \in Casts :
            /\ DOMAIN sources' = DOMAIN pruned(w) \cup {s}
            /\ \A x \in DOMAIN pruned(w) : x # s => sources'[x] = pruned(w)[x]
            /\ sources'[s] = entry(w)
            /\ now' = now
      BY <1>6, TypeFacts, PortLostState DEF SaneInv
    <2>2. touched' = touched /\ alertedAt' = alertedAt
      BY <1>6 DEF HSame
    <2>3. ASSUME NEW x \in Sources, x # s
          PROVE  /\ x \in DOMAIN sources' => /\ sources'[x].lastSeen <= now
                                             /\ sources'[x].lastAlert <= now
                 /\ \A q \in Ports : Live(x, q) =>
                       x \in DOMAIN sources' /\ q \in DOMAIN sources'[x].ports
                 /\ \/ x \in DOMAIN sources' /\ sources'[x].lastAlert = alertedAt[x]
                    \/ /\ x \in DOMAIN sources' => sources'[x].lastAlert = 0
                       /\ Promise!Quiet(x, now)
      <3>1. x \in DOMAIN sources' <=> x \in DOMAIN pruned(w)
        BY <2>1, <2>3
      <3>2. x \in DOMAIN sources' => sources'[x] = pruned(w)[x]
        BY <2>1, <2>3
      <3> QED BY <2>1, <2>2, <3>1, <3>2, PruneKeepsOthers
    <2>4. /\ sources'[s].lastSeen <= now
          /\ sources'[s].lastAlert <= now
      BY <2>1, TypeFacts, PrunedBuckets, SeenBucket DEF SaneInv, ClockInv
    <2>5. ASSUME NEW q \in Ports, Live(s, q) PROVE q \in DOMAIN sources'[s].ports
      <3>1. Tracked(s, q) /\ now - touched[s][q] <= Window
        BY <2>5 DEF Live, SaneInv, NoLivePortForgotten
      <3>2. q \in DOMAIN PrunePorts(sources[s].ports, now, w) /\ s \in DOMAIN pruned(w)
        BY <3>1, PruneExact DEF SaneInv, Tracked
      <3>3. q \in DOMAIN sources[s].ports /\ ~OutsideWindow(now, sources[s].ports[q], w)
        BY <3>2, PrunedPorts
      <3> QED BY <2>1, <3>2, <3>3, TypeFacts, SeenBucket DEF SaneInv
    <2>6. \/ sources'[s].lastAlert = alertedAt[s]
          \/ sources'[s].lastAlert = 0 /\ Promise!Quiet(s, now)
      BY <2>1, TypeFacts, SeenBucket, PruneKeepsCooldown DEF SaneInv
    <2>7. s \in DOMAIN sources'
      BY <2>1
    <2> HIDE DEF pruned, entry
    <2>8. \A x \in Sources :
           /\ x \in DOMAIN sources' => /\ sources'[x].lastSeen <= now
                                      /\ sources'[x].lastAlert <= now
           /\ \A q \in Ports : Live(x, q) =>
                 x \in DOMAIN sources' /\ q \in DOMAIN sources'[x].ports
           /\ \/ x \in DOMAIN sources' /\ sources'[x].lastAlert = alertedAt[x]
              \/ /\ x \in DOMAIN sources' => sources'[x].lastAlert = 0
                 /\ Promise!Quiet(x, now)
      BY <2>3, <2>4, <2>5, <2>6, <2>7
    <2> QED BY <1>1, <1>6, <2>1, <2>8, SaneSameHistory
  <1>7. ASSUME NEW s \in Sources, NEW p \in Ports, HRecorded(s, p) PROVE SaneInv'
    BY <1>1, <1>7, SaneRecorded
  <1>8. CASE UNCHANGED hvars
    BY <1>3, <1>8 DEF hvars, HSame
  <1> QED BY <1>2, <1>4, <1>5, <1>6, <1>7, <1>8 DEF HNext

(* So it always holds.                                                     *)
LEMMA SaneAlways == ASSUME WallClockSane PROVE HSpec => []SaneInv
  <1>1. HInit => SaneInv
    BY SaneInit
  <1>2. SaneInv /\ [HNext]_hvars => SaneInv'
    BY SaneStep
  <1> QED BY <1>1, <1>2, PTL DEF HSpec

(* Pruning, dropping buckets and failed allocations never lose a port      *)
(* touched inside the window, for any window, threshold and traffic.       *)
THEOREM NoLivePortForgottenAlways ==
  ASSUME WallClockSane PROVE HSpec => []NoLivePortForgotten
  <1>1. SaneInv => NoLivePortForgotten
    BY DEF SaneInv
  <1> QED BY <1>1, SaneAlways, PTL

(* A source whose last window holds Threshold ports was reported inside    *)
(* that window.                                                            *)
THEOREM ScanReportedAlways ==
  ASSUME WallClockSane PROVE HSpec => []ScanReported
  <1>1. SaneInv => ScanReported
    BY DEF SaneInv
  <1> QED BY <1>1, SaneAlways, PTL

(* The cooldown survives its bucket.                                       *)
THEOREM CooldownKeptAlways ==
  ASSUME WallClockSane PROVE HSpec => []CooldownKept
  <1>1. SaneInv => CooldownKept
    BY DEF SaneInv
  <1> QED BY <1>1, SaneAlways, PTL

(* The bucket lists implement the sliding-window promise: every step of    *)
(* the detector is a step of ScanPromise or leaves its variables alone.    *)
THEOREM DetectorImplementsPromise ==
  ASSUME WallClockSane PROVE HSpec => ImplementsPromise
  <1>1. HInit => Promise!PromiseInit
    <2> SUFFICES ASSUME HInit PROVE Promise!PromiseInit
      OBVIOUS
    <2>1. now \in Nat
      BY ScanAssumption DEF HInit, Init
    <2> QED BY <2>1 DEF HInit, Init, Promise!PromiseInit, Never
  <1>2. SaneInv /\ SaneInv' /\ [HNext]_hvars => [Promise!PromiseNext]_(Promise!promiseVars)
    <2> SUFFICES ASSUME SaneInv, SaneInv', [HNext]_hvars
                 PROVE  Promise!PromiseNext \/ UNCHANGED Promise!promiseVars
      OBVIOUS
    <2>1. CASE Tick /\ HSame
      <3>1. PICK d \in Nat : now' = now + d
        BY <2>1 DEF Tick, WallClockSane
      <3>2. now \in Nat
        BY DEF SaneInv, HTypeOK, TypeOK, Time
      <3>3. Promise!PassTime
        BY <2>1, <3>1, <3>2 DEF Tick, HSame, Promise!PassTime
      <3> QED BY <3>3 DEF Promise!PromiseNext
    <2>2. ASSUME alert' = {}, now' = now, HSame PROVE Promise!PromiseNext
      BY <2>2 DEF HSame, Promise!PromiseNext, Promise!Overlook
    <2>3. CASE ObserveNothing /\ HSame
      BY <2>2, <2>3 DEF ObserveNothing
    <2>4. ASSUME NEW s \in Sources, ObserveSourceLost(s), HSame
          PROVE  Promise!PromiseNext
      BY <2>2, <2>4 DEF ObserveSourceLost, StartObserve
    <2>5. ASSUME NEW s \in Sources, NEW p \in Ports, ObservePortLost(s, p), HSame
          PROVE  Promise!PromiseNext
      BY <2>2, <2>5 DEF ObservePortLost, StartObserve
    <2>6. ASSUME NEW s \in Sources, NEW p \in Ports, HRecorded(s, p)
          PROVE  Promise!PromiseNext
      BY <2>6, RecordedPromise DEF Promise!PromiseNext
    <2>7. CASE UNCHANGED hvars
      BY <2>7 DEF hvars, Promise!promiseVars
    <2> QED BY <2>1, <2>3, <2>4, <2>5, <2>6, <2>7 DEF HNext
  <1> QED BY <1>1, <1>2, SaneAlways, PTL
          DEF HSpec, ImplementsPromise, Promise!PromiseSpec

(* No alert is raised for a source that was reported inside the window     *)
(* that ends now, the same second included.                                *)
THEOREM AlertSpacingAlways ==
  ASSUME WallClockSane PROVE HSpec => AlertSpacing
  <1> DEFINE Spaced ==
        revision' # revision => \A a \in alert' : Promise!Quiet(a.src, now)
  <1>1. SaneInv /\ [HNext]_hvars => [Spaced]_hvars
    <2> SUFFICES ASSUME SaneInv, HNext PROVE Spaced
      OBVIOUS
    <2>1. CASE revision' = revision
      BY <2>1
    <2>2. CASE alert' = {}
      BY <2>2
    <2>3. ASSUME NEW s \in Sources, NEW p \in Ports, HRecorded(s, p) PROVE Spaced
      <3>1. Promise!Touch(s, p)
        BY <2>3, RecordedPromise
      <3>2. PICK count : alert' = IF count >= Threshold /\ Promise!Quiet(s, now)
                                  THEN {[src |-> s, uniquePorts |-> count]} ELSE {}
        BY <3>1 DEF Promise!Touch
      <3>3. ASSUME NEW a \in alert' PROVE a.src = s /\ Promise!Quiet(s, now)
        BY <3>2, <3>3
      <3> QED BY <3>3
    <2> QED BY <2>1, <2>2, <2>3
            DEF HNext, Tick, ObserveNothing, ObserveSourceLost, ObservePortLost
  <1> QED BY <1>1, SaneAlways, PTL DEF HSpec, AlertSpacing

-----------------------------------------------------------------------------
(* The bucket of a source was last seen no earlier than anything it        *)
(* stores, so that a bucket which holds something live was seen inside     *)
(* the window.                                                             *)
Ordered(bucket) ==
  /\ bucket.lastAlert <= bucket.lastSeen
  /\ \A p \in DOMAIN bucket.ports : bucket.ports[p] <= bucket.lastSeen

SeenInv == \A s \in DOMAIN sources : Ordered(sources[s])

(* What MemoryBounded asks of one bucket.                                  *)
Fresh(bucket) ==
  /\ now - bucket.lastSeen <= Window
  /\ \A p \in DOMAIN bucket.ports : now - bucket.ports[p] <= Window

(* A bucket that survives pruning was seen inside the window, and keeps    *)
(* no port from outside it.                                                *)
LEMMA PrunedFresh ==
  ASSUME SaneInv, SeenInv, NEW w \in Casts,
         NEW s \in DOMAIN PruneSources(now, w)
  PROVE  Ordered(PruneSources(now, w)[s]) /\ Fresh(PruneSources(now, w)[s])
  <1> DEFINE old == sources[s]
             new == PruneSources(now, w)[s]
  <1>1. HTypeOK /\ ClockInv /\ BucketsTruthful
    BY DEF SaneInv
  <1>2. s \in DOMAIN sources /\ ~Idle(old, now, w)
    BY DEF PruneSources
  <1>3. /\ new.lastSeen = old.lastSeen
        /\ new.lastAlert = old.lastAlert
        /\ new.ports = PrunePorts(old.ports, now, w)
    BY <1>1, TypeFacts, PrunedBuckets
  <1>4. /\ old.lastSeen \in Int /\ old.lastAlert \in Int
        /\ old.lastSeen <= now /\ old.lastAlert <= now
        /\ old.lastAlert <= old.lastSeen
        /\ now \in Int /\ Window \in Int
    BY <1>1, <1>2, TypeFacts DEF ClockInv, SeenInv, Ordered
  <1>5. ASSUME NEW p \in DOMAIN old.ports
        PROVE  old.ports[p] \in Int /\ old.ports[p] <= old.lastSeen
    <2>1. old.ports[p] \in Time
      BY <1>1, <1>2, <1>5, TypeFacts DEF PortTimes
    <2> QED BY <1>2, <1>5, <2>1 DEF Time, SeenInv, Ordered
  <1>6. ASSUME NEW p \in DOMAIN new.ports
        PROVE  /\ p \in DOMAIN old.ports /\ new.ports[p] = old.ports[p]
               /\ now - new.ports[p] <= Window
    <2>1. /\ p \in DOMAIN old.ports /\ new.ports[p] = old.ports[p]
          /\ ~OutsideWindow(now, old.ports[p], w)
      BY <1>3, <1>6, PrunedPorts
    <2> HIDE DEF old, new
    <2>2. old.ports[p] \in Int /\ old.ports[p] <= now
      BY <1>4, <1>5, <2>1
    <2> QED BY <1>4, <2>1, <2>2 DEF OutsideWindow
  <1>7. Idle(old, now, w) <=> /\ DOMAIN new.ports = {}
                              /\ OutsideWindow(now, old.lastSeen, w)
                              /\ OutsideWindow(now, old.lastAlert, w)
    BY <1>3 DEF Idle
  <1> HIDE DEF old, new
  <1>8. now - old.lastSeen <= Window
    <2>1. CASE DOMAIN new.ports # {}
      <3>1. PICK p \in DOMAIN new.ports : TRUE
        BY <2>1
      <3> QED BY <1>4, <1>5, <1>6, <3>1
    <2>2. CASE ~OutsideWindow(now, old.lastSeen, w)
      BY <1>4, <2>2 DEF OutsideWindow
    <2>3. CASE ~OutsideWindow(now, old.lastAlert, w)
      BY <1>4, <2>3 DEF OutsideWindow
    <2> QED BY <1>2, <1>7, <2>1, <2>2, <2>3
  <1>9. Ordered(new)
    BY <1>3, <1>4, <1>5, <1>6 DEF Ordered
  <1>10. Fresh(new)
    BY <1>3, <1>6, <1>8 DEF Fresh
  <1> QED BY <1>9, <1>10 DEF new

(* The bucket an observed SYN works on keeps no port from outside the      *)
(* window either.                                                          *)
LEMMA SeenFresh ==
  ASSUME SaneInv, SeenInv, NEW w \in Casts, NEW s \in Sources
  PROVE  LET entry == Seen(PruneSources(now, w), s, now, w)
         IN  /\ entry.lastSeen = now
             /\ entry.lastAlert <= now
             /\ \A p \in DOMAIN entry.ports :
                  entry.ports[p] <= now /\ now - entry.ports[p] <= Window
  <1> DEFINE entry == Seen(PruneSources(now, w), s, now, w)
  <1>1. TypeOK /\ HTypeOK /\ ClockInv
    BY TypeFacts DEF SaneInv
  <1>2. now \in Nat /\ Window \in Nat
    BY <1>1, ScanAssumption DEF TypeOK, Time
  <1>3. entry.lastSeen = now
    BY <1>1, SeenBucket
  <1>4. CASE s \notin DOMAIN PruneSources(now, w)
    <2>1. entry.lastAlert = 0 /\ DOMAIN entry.ports = {}
      BY <1>1, <1>4, SeenBucket
    <2> QED BY <1>2, <1>3, <2>1
  <1>5. CASE s \in DOMAIN PruneSources(now, w)
    <2>1. s \in DOMAIN sources
      BY <1>1, <1>5, PrunedBuckets
    <2>2. entry.lastAlert = sources[s].lastAlert /\ sources[s].lastAlert <= now
      BY <1>1, <1>5, <2>1, SeenBucket DEF ClockInv
    <2>3. ASSUME NEW p \in DOMAIN entry.ports
          PROVE  entry.ports[p] <= now /\ now - entry.ports[p] <= Window
      <3>1. /\ p \in DOMAIN sources[s].ports
            /\ ~OutsideWindow(now, sources[s].ports[p], w)
            /\ entry.ports[p] = sources[s].ports[p]
        BY <1>1, <1>5, <2>3, SeenBucket
      <3>2. sources[s].ports[p] \in Int
        BY <1>1, <2>1, <3>1, TypeFacts DEF PortTimes, Time
      <3>3. sources[s].ports[p] <= now
        <4>1. sources[s].ports[p] <= sources[s].lastSeen
          BY <2>1, <3>1 DEF SeenInv, Ordered
        <4>2. sources[s].lastSeen \in Int /\ sources[s].lastSeen <= now
          BY <1>1, <2>1, TypeFacts DEF ClockInv
        <4> QED BY <1>2, <3>2, <4>1, <4>2
      <3> HIDE DEF entry
      <3> QED BY <1>2, <3>1, <3>2, <3>3 DEF OutsideWindow
    <2> QED BY <1>3, <2>2, <2>3
  <1> QED BY <1>4, <1>5

(* An observed SYN leaves every bucket ordered and fresh, whether its      *)
(* allocations succeed or fail.                                            *)
LEMMA ObservedFresh ==
  ASSUME SaneInv, SeenInv, HNext, revision' # revision
  PROVE  /\ now' = now
         /\ \A x \in DOMAIN sources' : Ordered(sources'[x]) /\ Fresh(sources'[x])
  <1> DEFINE entry(w, s) == Seen(PruneSources(now, w), s, now, w)
  <1>1. TypeOK /\ now \in Nat /\ Window \in Nat
    BY TypeFacts, ScanAssumption DEF SaneInv, TypeOK, Time
  <1>2. ASSUME NEW s \in Sources, ObserveSourceLost(s)
        PROVE  /\ now' = now
               /\ \A x \in DOMAIN sources' : Ordered(sources'[x]) /\ Fresh(sources'[x])
    <2>1. PICK w \in Casts : StartObserve /\ sources' = PruneSources(now, w)
      BY <1>2 DEF ObserveSourceLost
    <2> QED BY <2>1, PrunedFresh DEF StartObserve
  <1>3. ASSUME NEW s \in Sources, NEW w \in Casts,
               DOMAIN sources' = DOMAIN PruneSources(now, w) \cup {s},
               \A x \in DOMAIN PruneSources(now, w) :
                 x # s => sources'[x] = PruneSources(now, w)[x],
               Ordered(sources'[s]), Fresh(sources'[s]),
               NEW x \in DOMAIN sources'
        PROVE  Ordered(sources'[x]) /\ Fresh(sources'[x])
    <2>1. CASE x = s
      BY <1>3, <2>1
    <2>2. CASE x # s
      <3>1. x \in DOMAIN PruneSources(now, w) /\ sources'[x] = PruneSources(now, w)[x]
        BY <1>3, <2>2
      <3> QED BY <3>1, PrunedFresh
    <2> QED BY <2>1, <2>2
  <1>4. ASSUME NEW s \in Sources, NEW p \in Ports, ObservePortLost(s, p)
        PROVE  /\ now' = now
               /\ \A x \in DOMAIN sources' : Ordered(sources'[x]) /\ Fresh(sources'[x])
    <2>1. PICK w \in Casts :
            /\ DOMAIN sources' = DOMAIN PruneSources(now, w) \cup {s}
            /\ \A x \in DOMAIN PruneSources(now, w) :
                 x # s => sources'[x] = PruneSources(now, w)[x]
            /\ sources'[s] = entry(w, s)
            /\ now' = now
      BY <1>1, <1>4, PortLostState
    <2>2. Ordered(entry(w, s)) /\ Fresh(entry(w, s))
      <3>1. /\ entry(w, s).lastSeen = now
            /\ entry(w, s).lastAlert <= now
            /\ \A q \in DOMAIN entry(w, s).ports :
                 /\ entry(w, s).ports[q] <= now
                 /\ now - entry(w, s).ports[q] <= Window
        BY SeenFresh
      <3> HIDE DEF entry
      <3> QED BY <1>1, <3>1 DEF Ordered, Fresh
    <2> HIDE DEF entry
    <2> QED BY <1>3, <2>1, <2>2
  <1>5. ASSUME NEW s \in Sources, NEW p \in Ports, HRecorded(s, p)
        PROVE  /\ now' = now
               /\ \A x \in DOMAIN sources' : Ordered(sources'[x]) /\ Fresh(sources'[x])
    <2> DEFINE ports(w) == UpsertPort(entry(w, s).ports, p, now)
               raise(w) == Raises(Cardinality(DOMAIN ports(w)), entry(w, s).lastAlert, now, w)
    <2>1. PICK w \in Casts :
            /\ DOMAIN sources' = DOMAIN PruneSources(now, w) \cup {s}
            /\ \A x \in DOMAIN PruneSources(now, w) :
                 x # s => sources'[x] = PruneSources(now, w)[x]
            /\ sources'[s].lastSeen = now
            /\ sources'[s].ports = ports(w)
            /\ sources'[s].lastAlert = IF raise(w) THEN now ELSE entry(w, s).lastAlert
            /\ now' = now
      BY <1>1, <1>5, RecordedState DEF HRecorded
    <2>2. /\ entry(w, s).lastAlert <= now
          /\ \A q \in DOMAIN entry(w, s).ports :
               /\ entry(w, s).ports[q] <= now
               /\ now - entry(w, s).ports[q] <= Window
      BY SeenFresh
    <2> HIDE DEF entry, raise
    <2>3. ASSUME NEW q \in DOMAIN ports(w)
          PROVE  ports(w)[q] <= now /\ now - ports(w)[q] <= Window
      <3>1. CASE q = p
        BY <1>1, <3>1, UpsertEntry
      <3>2. CASE q # p
        <4>1. q \in DOMAIN entry(w, s).ports /\ ports(w)[q] = entry(w, s).ports[q]
          BY <2>3, <3>2, UpsertEntry
        <4> QED BY <2>2, <4>1
      <3> QED BY <3>1, <3>2
    <2> HIDE DEF ports
    <2>4. Ordered(sources'[s]) /\ Fresh(sources'[s])
      BY <1>1, <2>1, <2>2, <2>3 DEF Ordered, Fresh
    <2> QED BY <1>3, <2>1, <2>4
  <1>6. ~(Tick /\ HSame) /\ ~(ObserveNothing /\ HSame)
    BY DEF Tick, ObserveNothing
  <1> QED BY <1>2, <1>4, <1>5, <1>6 DEF HNext

(* No call stores anything newer than last_seen_at.                        *)
LEMMA SeenStep == SaneInv /\ SeenInv /\ [HNext]_hvars => SeenInv'
  <1> SUFFICES ASSUME SaneInv, SeenInv, [HNext]_hvars PROVE SeenInv'
    OBVIOUS
  <1>1. CASE sources' = sources
    BY <1>1 DEF SeenInv
  <1>2. CASE sources' # sources
    <2>1. HNext
      BY <1>2 DEF hvars
    <2>2. ASSUME StartObserve PROVE revision' # revision
      <3>1. revision \in Int
        BY TypeFacts, ScanAssumption DEF SaneInv, TypeOK
      <3> QED BY <2>2, <3>1 DEF StartObserve
    <2>3. \/ Tick \/ ObserveNothing \/ StartObserve
      BY <2>1 DEF HNext, HRecorded, ObserveSourceLost, ObservePortLost, ObserveRecorded
    <2>4. revision' # revision
      BY <1>2, <2>2, <2>3 DEF Tick, ObserveNothing
    <2> QED BY <2>1, <2>4, ObservedFresh DEF SeenInv
  <1> QED BY <1>1, <1>2

(* After every observed SYN, whatever became of its allocations, only      *)
(* sources and ports seen inside the window are stored.                    *)
THEOREM MemoryBoundedAlways ==
  ASSUME WallClockSane PROVE HSpec => MemoryBounded
  <1> DEFINE Bounded ==
        revision' # revision =>
          \A s \in DOMAIN sources' :
            /\ now - sources'[s].lastSeen <= Window
            /\ \A p \in DOMAIN sources'[s].ports :
                 now - sources'[s].ports[p] <= Window
  <1>1. HInit => SeenInv
    BY DEF HInit, Init, SeenInv
  <1>2. SaneInv /\ SeenInv /\ [HNext]_hvars => SeenInv'
    BY SeenStep
  <1>3. SaneInv /\ SeenInv /\ [HNext]_hvars => [Bounded]_hvars
    <2> SUFFICES ASSUME SaneInv, SeenInv, HNext, revision' # revision PROVE Bounded
      BY DEF hvars
    <2> QED BY ObservedFresh DEF Fresh
  <1> QED BY <1>1, <1>2, <1>3, SaneAlways, PTL DEF HSpec, MemoryBounded

-----------------------------------------------------------------------------
(* The loop of scan_snapshot_max_ports.  Inductions are over the least     *)
(* counterexample.                                                         *)

(* A set of numbers that is not empty has a least one.                     *)
LEMMA Least ==
  ASSUME NEW T, T \subseteq Nat, T # {}
  PROVE  \E n \in T : \A m \in T : n <= m
  <1>1. PICK n \in T : \A m \in T : ~(<<m, n>> \in OpToRel(<, Nat))
    <2>1. IsWellFoundedOn(OpToRel(<, Nat), Nat)
      BY NatLessThanWellFounded
    <2> HIDE DEF OpToRel
    <2> QED BY <2>1, WFMin
  <1>2. \A m \in Nat : m < n => <<m, n>> \in OpToRel(<, Nat)
    BY Zenon DEF OpToRel
  <1>3. \A m \in T : ~(m < n)
    BY <1>1, <1>2
  <1> QED BY <1>3

StartCount == [count |-> 0, maximum |-> 0]

Loop(f, n, snapshot, t, w) ==
  f = [i \in 0..n |-> IF i = 0 THEN StartCount
                      ELSE CountPort(f[i - 1], snapshot, i, t, w)]

(* The loop has a run of every length. *)
LEMMA LoopRuns ==
  ASSUME NEW snapshot, NEW t, NEW w, NEW n \in Nat
  PROVE  \E f : Loop(f, n, snapshot, t, w)
  <1> DEFINE T == {m \in Nat : ~\E f : Loop(f, m, snapshot, t, w)}
  <1>1. SUFFICES ASSUME T # {} PROVE FALSE
    OBVIOUS
  <1>2. PICK k \in T : \A m \in T : k <= m
    BY <1>1, Least
  <1>3. CASE k = 0
    <2> DEFINE f == [i \in 0..0 |-> StartCount]
    <2>1. Loop(f, 0, snapshot, t, w)
      BY DEF Loop
    <2> QED BY <1>2, <1>3, <2>1
  <1>4. CASE k # 0
    <2>1. k - 1 \in Nat /\ k - 1 \notin T
      BY <1>2, <1>4
    <2>2. PICK f : Loop(f, k - 1, snapshot, t, w)
      BY <2>1
    <2> DEFINE g == [i \in 0..k |-> IF i = k THEN CountPort(f[k - 1], snapshot, k, t, w) ELSE f[i]]
    <2>3. \A i \in 0..k : g[i] = IF i = 0 THEN StartCount
                                 ELSE CountPort(g[i - 1], snapshot, i, t, w)
      BY <1>2, <1>4, <2>2 DEF Loop
    <2>4. g = [i \in 0..k |-> g[i]]
      OBVIOUS
    <2> HIDE DEF g
    <2>5. Loop(g, k, snapshot, t, w)
      BY <2>3, <2>4 DEF Loop
    <2> QED BY <1>2, <2>5
  <1> QED BY <1>3, <1>4

(* Counted is a function that does, from each entry to the next, what the  *)
(* loop does.                                                              *)
LEMMA CountedLoop ==
  ASSUME NEW snapshot, NEW t, NEW w, Len(snapshot) \in Nat
  PROVE  Loop(Counted(snapshot, t, w), Len(snapshot), snapshot, t, w)
  <1>1. \E f : Loop(f, Len(snapshot), snapshot, t, w)
    BY LoopRuns
  <1>2. Counted(snapshot, t, w) = CHOOSE f : Loop(f, Len(snapshot), snapshot, t, w)
    BY DEF Counted, Loop, StartCount
  <1> QED BY <1>1, <1>2

Grouped(snapshot) ==
  \A i, k \in DOMAIN snapshot :
    snapshot[i].src = snapshot[k].src
      => \A j \in i..k : snapshot[j].src = snapshot[i].src

(* The entries of source s that are inside the window, of the first n. *)
Inside(snapshot, n, s, t, w) ==
  {j \in 1..n : snapshot[j].src = s /\ ~OutsideWindow(t, snapshot[j].seen, w)}

(* The counted entries of one source are finitely many.                    *)
LEMMA InsideCounts ==
  ASSUME NEW snapshot, NEW n \in Nat, NEW s, NEW t, NEW w
  PROVE  /\ IsFiniteSet(Inside(snapshot, n, s, t, w))
         /\ Cardinality(Inside(snapshot, n, s, t, w)) \in Nat
  <1>1. Inside(snapshot, n, s, t, w) \subseteq 1..n
    BY DEF Inside
  <1>2. IsFiniteSet(1..n)
    BY FS_Interval
  <1>3. IsFiniteSet(Inside(snapshot, n, s, t, w))
    BY <1>1, <1>2, FS_Subset
  <1> QED BY <1>3, FS_CardinalityType

(* One more entry counts for its own source, when it is live. *)
LEMMA InsideStep ==
  ASSUME NEW snapshot, NEW n \in Nat \ {0}, NEW s, NEW t, NEW w
  PROVE  Cardinality(Inside(snapshot, n, s, t, w)) =
           Cardinality(Inside(snapshot, n - 1, s, t, w))
             + IF snapshot[n].src = s /\ ~OutsideWindow(t, snapshot[n].seen, w)
               THEN 1 ELSE 0
  <1> DEFINE before == Inside(snapshot, n - 1, s, t, w)
             after == Inside(snapshot, n, s, t, w)
  <1>1. n - 1 \in Nat /\ \A j \in Nat : j \in 1..n <=> j \in 1..(n - 1) \/ j = n
    OBVIOUS
  <1>2. IsFiniteSet(before) /\ Cardinality(before) \in Nat
    BY <1>1, InsideCounts
  <1>3. n \notin before
    BY DEF Inside
  <1>4. CASE snapshot[n].src = s /\ ~OutsideWindow(t, snapshot[n].seen, w)
    <2>1. after = before \cup {n}
      BY <1>1, <1>4 DEF Inside
    <2> HIDE DEF before, after
    <2>2. Cardinality(after) = Cardinality(before) + 1
      BY <1>2, <1>3, <2>1, FS_AddElement
    <2> QED BY <1>4, <2>2 DEF before, after
  <1>5. CASE ~(snapshot[n].src = s /\ ~OutsideWindow(t, snapshot[n].seen, w))
    <2>1. after = before
      BY <1>1, <1>5 DEF Inside
    <2> HIDE DEF before, after
    <2>2. Cardinality(after) = Cardinality(before) + 0
      BY <1>2, <2>1
    <2> QED BY <1>5, <2>2 DEF before, after
  <1> QED BY <1>4, <1>5

(* Where the loop stands after n entries of an array that is grouped.      *)
RunExact(run, snapshot, n, t, w) ==
  LET count(s) == Cardinality(Inside(snapshot, n, s, t, w))
  IN  /\ run \in [count : Nat, maximum : Nat]
      /\ n > 0 => run.count = count(snapshot[n].src)
      /\ \A s : count(s) <= run.maximum
      /\ run.maximum = 0 \/ \E i \in 1..n : count(snapshot[i].src) = run.maximum

(* One more entry keeps the claim of the loop.                             *)
LEMMA RunExactStep ==
  ASSUME NEW S, NEW snapshot \in Seq(S), Grouped(snapshot), NEW t, NEW w,
         NEW n \in 1..Len(snapshot), NEW run, RunExact(run, snapshot, n - 1, t, w)
  PROVE  RunExact(CountPort(run, snapshot, n, t, w), snapshot, n, t, w)
  <1> DEFINE own == snapshot[n].src
             old(s) == Cardinality(Inside(snapshot, n - 1, s, t, w))
             new(s) == Cardinality(Inside(snapshot, n, s, t, w))
             live == ~OutsideWindow(t, snapshot[n].seen, w)
             next == CountPort(run, snapshot, n, t, w)
  <1>1. n \in Nat \ {0} /\ n - 1 \in Nat /\ n \in DOMAIN snapshot
    BY LenProperties
  <1>2. \A s : old(s) \in Nat /\ new(s) \in Nat
    BY <1>1, InsideCounts
  <1>3. /\ new(own) = old(own) + IF live THEN 1 ELSE 0
        /\ \A s : s # own => new(s) = old(s)
    <2>1. \A s : new(s) = old(s) + IF own = s /\ live THEN 1 ELSE 0
      BY <1>1, InsideStep
    <2> HIDE DEF new, old, live, own
    <2> QED BY <1>2, <2>1
  <1>4. CountedBefore(run, snapshot, n) = old(own)
    <2>1. CASE n > 1 /\ own = snapshot[n - 1].src
      BY <1>1, <2>1 DEF CountedBefore, RunExact
    <2>2. CASE ~(n > 1 /\ own = snapshot[n - 1].src)
      <3>1. ASSUME NEW j \in 1..(n - 1), snapshot[j].src = own PROVE FALSE
        <4>1. j \in DOMAIN snapshot /\ n - 1 \in j..n /\ n > 1
          BY <1>1, LenProperties
        <4>2. snapshot[n - 1].src = snapshot[j].src
          BY <1>1, <3>1, <4>1 DEF Grouped
        <4> QED BY <2>2, <3>1, <4>1, <4>2
      <3>2. Inside(snapshot, n - 1, own, t, w) = {}
        BY <3>1 DEF Inside
      <3>3. old(own) = 0
        BY <3>2, FS_EmptySet
      <3> QED BY <2>2, <3>3 DEF CountedBefore
    <2> QED BY <2>1, <2>2
  <1>5. /\ run \in [count : Nat, maximum : Nat]
        /\ \A s : old(s) <= run.maximum
        /\ run.maximum = 0 \/ \E i \in 1..(n - 1) : old(snapshot[i].src) = run.maximum
    BY DEF RunExact
  <1>6. next = [count |-> new(own),
                maximum |-> IF new(own) > run.maximum THEN new(own) ELSE run.maximum]
    <2>1. (IF OutsideWindow(t, snapshot[n].seen, w) THEN old(own) ELSE old(own) + 1) = new(own)
      <3> HIDE DEF old, new
      <3> QED BY <1>2, <1>3
    <2> HIDE DEF old, new
    <2> QED BY <1>4, <2>1 DEF CountPort
  <1>7. \A i \in 1..(n - 1) : i \in 1..n
    BY <1>1
  <1> HIDE DEF old, new, own, next, live
  <1>8. \A s : new(s) <= next.maximum
    <2> TAKE s
    <2>1. CASE s = own
      BY <1>2, <1>5, <1>6, <2>1
    <2>2. CASE s # own
      BY <1>2, <1>3, <1>5, <1>6, <2>2
    <2> QED BY <2>1, <2>2
  <1>9. next.maximum = 0 \/ \E i \in 1..n : new(snapshot[i].src) = next.maximum
    <2>1. CASE next.maximum = new(own)
      BY <1>1, <2>1 DEF own
    <2>2. CASE next.maximum # new(own) /\ run.maximum # 0
      <3>1. next.maximum = run.maximum /\ new(own) <= run.maximum
        BY <1>2, <1>5, <1>6, <2>2
      <3>2. PICK i \in 1..(n - 1) : old(snapshot[i].src) = run.maximum
        BY <1>5, <2>2
      <3>3. snapshot[i].src # own \/ new(own) = run.maximum
        BY <1>2, <1>3, <1>5, <3>1, <3>2
      <3> QED BY <1>3, <1>7, <2>2, <3>1, <3>2, <3>3
    <2>3. CASE next.maximum # new(own) /\ run.maximum = 0
      BY <1>2, <1>6, <2>3
    <2> QED BY <2>1, <2>2, <2>3
  <1>10. next \in [count : Nat, maximum : Nat] /\ next.count = new(own)
    BY <1>2, <1>5, <1>6
  <1> QED BY <1>8, <1>9, <1>10 DEF RunExact, next, new, own

(* scan_snapshot_max_ports returns the largest number of entries inside    *)
(* the window that one source has, for every array whose sources are       *)
(* grouped.                                                                *)
THEOREM MaxPortsExact ==
  ASSUME NEW S, NEW snapshot \in Seq(S), Grouped(snapshot), NEW t, NEW w
  PROVE  LET count(s) == Cardinality({i \in DOMAIN snapshot :
                           /\ snapshot[i].src = s
                           /\ ~OutsideWindow(t, snapshot[i].seen, w)})
             maximum == MaxPorts(snapshot, t, w)
         IN  /\ maximum \in Nat
             /\ \A s : count(s) <= maximum
             /\ maximum = 0 \/ \E i \in DOMAIN snapshot : count(snapshot[i].src) = maximum
  <1> DEFINE run == Counted(snapshot, t, w)
             T == {n \in 0..Len(snapshot) : ~RunExact(run[n], snapshot, n, t, w)}
  <1>1. Len(snapshot) \in Nat /\ DOMAIN snapshot = 1..Len(snapshot)
    BY LenProperties
  <1>2. \A n \in 0..Len(snapshot) :
          run[n] = IF n = 0 THEN StartCount ELSE CountPort(run[n - 1], snapshot, n, t, w)
    <2>1. Loop(run, Len(snapshot), snapshot, t, w)
      BY <1>1, CountedLoop
    <2> HIDE DEF run
    <2> QED BY <2>1 DEF Loop
  <1>3. T = {}
    <2> SUFFICES ASSUME T # {} PROVE FALSE
      OBVIOUS
    <2>1. PICK n \in T : \A m \in T : n <= m
      <3>1. T \subseteq Nat
        BY <1>1
      <3> HIDE DEF T
      <3> QED BY <3>1, Least
    <2>2. CASE n = 0
      <3>1. \A s : Inside(snapshot, 0, s, t, w) = {}
        BY DEF Inside
      <3>2. \A s : Cardinality(Inside(snapshot, 0, s, t, w)) = 0
        BY <3>1, FS_EmptySet
      <3>3. run[0] = StartCount
        BY <1>1, <1>2
      <3> HIDE DEF run
      <3>4. RunExact(run[0], snapshot, 0, t, w)
        BY <3>2, <3>3 DEF RunExact, StartCount
      <3> QED BY <2>1, <2>2, <3>4
    <2>3. CASE n # 0
      <3>1. n \in 1..Len(snapshot) /\ n - 1 \in 0..Len(snapshot) /\ n - 1 \notin T
        BY <1>1, <2>1, <2>3
      <3>2. RunExact(run[n - 1], snapshot, n - 1, t, w)
        BY <3>1
      <3>3. run[n] = CountPort(run[n - 1], snapshot, n, t, w)
        BY <1>2, <2>1, <2>3
      <3> HIDE DEF run
      <3>4. RunExact(run[n], snapshot, n, t, w)
        BY <3>1, <3>2, <3>3, RunExactStep
      <3> QED BY <2>1, <3>4 DEF T
    <2> QED BY <2>2, <2>3
  <1>4. RunExact(run[Len(snapshot)], snapshot, Len(snapshot), t, w)
    BY <1>1, <1>3
  <1>5. run[Len(snapshot)].maximum = MaxPorts(snapshot, t, w)
    BY DEF MaxPorts
  <1> HIDE DEF run
  <1> QED BY <1>1, <1>4, <1>5 DEF RunExact, Inside
-----------------------------------------------------------------------------
(* What the snapshots given to the display say about the history.  Both    *)
(* operators are told the history, since a snapshot outlives it.           *)

(* The array holds ports of sources, each once, one source after the       *)
(* other: order[i] is the source and port of entry i.                      *)
Lists(order, snapshot) ==
  /\ snapshot \in Seq([src : Sources, seen : Time])
  /\ Grouped(snapshot)
  /\ order \in Injection(DOMAIN snapshot, Sources \X Ports)
  /\ \A i \in DOMAIN snapshot : snapshot[i].src = order[i][1]

(* No entry is younger than the history.                                   *)
Sound(snapshot, times) ==
  \E order :
    /\ Lists(order, snapshot)
    /\ \A i \in DOMAIN snapshot :
         /\ times[order[i][1]][order[i][2]] # Never
         /\ snapshot[i].seen <= times[order[i][1]][order[i][2]]

(* All that is inside the window that ends at time t is there, as it is in *)
(* the history.                                                            *)
Current(snapshot, times, t) ==
  \E order :
    /\ Lists(order, snapshot)
    /\ \A i \in DOMAIN snapshot : snapshot[i].seen = times[order[i][1]][order[i][2]]
    /\ \A s \in Sources, p \in Ports :
         times[s][p] # Never /\ t - times[s][p] <= Window
           => \E i \in DOMAIN snapshot : order[i] = <<s, p>>

(* An entry of a snapshot and the node it was copied from.                 *)
LEMMA ListedEntry ==
  ASSUME NEW order, NEW x, Lists(order, x), NEW i \in DOMAIN x
  PROVE  /\ x[i] \in [src : Sources, seen : Time]
         /\ x[i].src = order[i][1] /\ x[i].src \in Sources
         /\ x[i].seen \in Time /\ x[i].seen \in Int
         /\ order[i][1] \in Sources /\ order[i][2] \in Ports
  <1> DEFINE E == [src : Sources, seen : Time]
  <1>1. x \in Seq(E)
    BY DEF Lists
  <1> HIDE DEF E
  <1>2. DOMAIN x = 1..Len(x)
    BY <1>1, LenProperties
  <1>3. x[i] \in E
    BY <1>1, <1>2, ElementOfSeq
  <1> USE DEF E
  <1>4. x[i].src \in Sources /\ x[i].seen \in Time
    BY <1>3
  <1>5. x[i].seen \in Int
    BY <1>4, ScanAssumption DEF Time
  <1>6. order[i] \in Sources \X Ports
    BY DEF Lists, Injection
  <1>7. x[i].src = order[i][1]
    BY DEF Lists
  <1> QED BY <1>3, <1>4, <1>5, <1>6, <1>7

(* A snapshot stays sound as the history goes on.                          *)
LEMMA SoundLater ==
  ASSUME NEW x, NEW old, NEW new, Sound(x, old),
         \A s \in Sources, p \in Ports :
           old[s][p] \in Int /\ new[s][p] \in Int /\ old[s][p] <= new[s][p]
             /\ (old[s][p] # Never => new[s][p] # Never)
  PROVE  Sound(x, new)
  <1>1. PICK order :
          /\ Lists(order, x)
          /\ \A i \in DOMAIN x : /\ old[order[i][1]][order[i][2]] # Never
                                 /\ x[i].seen <= old[order[i][1]][order[i][2]]
    BY DEF Sound
  <1>2. ASSUME NEW i \in DOMAIN x
        PROVE  /\ new[order[i][1]][order[i][2]] # Never
               /\ x[i].seen <= new[order[i][1]][order[i][2]]
    <2>1. x[i].seen \in Int /\ order[i][1] \in Sources /\ order[i][2] \in Ports
      BY <1>1, ListedEntry
    <2> QED BY <1>1, <2>1
  <1> QED BY <1>1, <1>2 DEF Sound

(* A current snapshot stays current while time passes.                     *)
LEMMA CurrentLater ==
  ASSUME NEW x, NEW times, NEW t \in Int, NEW u \in Int, t <= u, Current(x, times, t),
         \A s \in Sources, p \in Ports : times[s][p] \in Int
  PROVE  Current(x, times, u)
  <1>1. \A s \in Sources, p \in Ports : u - times[s][p] <= Window => t - times[s][p] <= Window
    BY ScanAssumption
  <1> QED BY <1>1 DEF Current

(* No step of the detector makes a snapshot unsound.                       *)
LEMMA SoundKept ==
  ASSUME SaneInv, [HNext]_hvars, NEW x, Sound(x, touched)
  PROVE  Sound(x, touched')
  <1>1. HTypeOK /\ ClockInv
    BY DEF SaneInv
  <1>2. CASE touched' = touched
    BY <1>2
  <1>3. ASSUME NEW s \in Sources, NEW p \in Ports, HRecorded(s, p)
        PROVE  Sound(x, touched')
    <2>1. touched' = [touched EXCEPT ![s][p] = now]
      BY <1>3 DEF HRecorded
    <2>2. \A r \in Sources, q \in Ports :
            /\ touched'[r][q] = IF r = s /\ q = p THEN now ELSE touched[r][q]
            /\ touched[r][q] \in Int /\ touched[r][q] <= now
      BY <1>1, <2>1, TypeFacts DEF HTypeOK, ClockInv
    <2>3. now \in Int /\ now # Never
      BY <1>1, TypeFacts DEF ClockInv
    <2>4. \A r \in Sources, q \in Ports :
            /\ touched[r][q] \in Int /\ touched'[r][q] \in Int
            /\ touched[r][q] <= touched'[r][q]
            /\ touched[r][q] # Never => touched'[r][q] # Never
      BY <2>2, <2>3
    <2> QED BY <2>4, SoundLater
  <1> QED BY <1>2, <1>3 DEF HNext, HSame, hvars

(* A snapshot stays current until a SYN is observed.                       *)
LEMMA CurrentKept ==
  ASSUME WallClockSane, SaneInv, [HNext]_hvars, revision' = revision,
         NEW x, Current(x, touched, now)
  PROVE  Current(x, touched', now')
  <1>1. HTypeOK /\ revision \in Int
    BY ScanAssumption DEF SaneInv, HTypeOK, TypeOK
  <1>2. ~StartObserve
    BY <1>1 DEF StartObserve
  <1>3. touched' = touched
    BY <1>2 DEF HNext, HSame, hvars, HRecorded, ObserveRecorded
  <1>4. now' \in Int /\ now <= now'
    <2>1. CASE Tick
      BY <1>1, <2>1, TypeFacts DEF Tick, WallClockSane
    <2>2. CASE now' = now
      BY <1>1, <2>2, TypeFacts
    <2> QED BY <1>2, <2>1, <2>2 DEF HNext, hvars, ObserveNothing, ObserveSourceLost,
                                    ObservePortLost, HRecorded, ObserveRecorded
  <1> QED BY <1>1, <1>3, <1>4, TypeFacts, CurrentLater

(* What scan_detector_snapshot copies is the window, whole.                *)
THEOREM SnapshotCurrent ==
  ASSUME SaneInv, IsFiniteSet(Sources), NEW x \in Snapshots
  PROVE  Sound(x, touched) /\ Current(x, touched, now)
  <1> DEFINE n == Cardinality(Nodes)
  <1>1. HTypeOK /\ BucketsTruthful /\ NoLivePortForgotten
    BY DEF SaneInv
  <1>2. PICK order \in Bijection(1..n, Nodes) : BucketByBucket(order) /\ x = SnapshotOf(order)
    BY DEF Snapshots
  <1>3. n \in Nat
    <2>1. IsFiniteSet(Sources \X Ports)
      BY ScanAssumption, FS_Product
    <2>2. Nodes \subseteq Sources \X Ports
      BY DEF Nodes
    <2> QED BY <2>1, <2>2, FS_Subset, FS_CardinalityType
  <1>4. /\ order \in [1..n -> Nodes]
        /\ \A i, j \in 1..n : order[i] = order[j] => i = j
        /\ \A node \in Nodes : \E i \in 1..n : order[i] = node
    BY <1>2 DEF Bijection, Injection, Surjection, IsInjective
  <1> HIDE DEF n
  <1>5. ASSUME NEW i \in 1..n
        PROVE  /\ order[i] \in Sources \X Ports
               /\ order[i][1] \in Sources /\ order[i][2] \in Ports
               /\ Tracked(order[i][1], order[i][2])
    BY <1>4 DEF Nodes
  <1>6. ASSUME NEW i \in 1..n
        PROVE  /\ sources[order[i][1]].ports[order[i][2]] = touched[order[i][1]][order[i][2]]
               /\ sources[order[i][1]].ports[order[i][2]] \in Time
    <2>1. order[i][1] \in DOMAIN sources /\ order[i][2] \in DOMAIN sources[order[i][1]].ports
      BY <1>5 DEF Tracked
    <2>2. sources[order[i][1]].ports \in PortTimes
      BY <1>1, <2>1, TypeFacts
    <2> QED BY <1>1, <1>5, <2>1, <2>2 DEF BucketsTruthful, PortTimes
  <1>7. /\ DOMAIN x = 1..n
        /\ \A i \in 1..n : x[i] = [src |-> order[i][1],
                                   seen |-> sources[order[i][1]].ports[order[i][2]]]
    BY <1>2, <1>4 DEF SnapshotOf
  <1>8. /\ \A i \in 1..n : x[i] \in [src : Sources, seen : Time]
        /\ \A i \in 1..n : /\ x[i].src = order[i][1]
                           /\ x[i].seen = touched[order[i][1]][order[i][2]]
                           /\ x[i].seen \in Time
    BY <1>5, <1>6, <1>7
  <1>9. x \in Seq([src : Sources, seen : Time])
    <2>1. x = [i \in 1..n |-> x[i]]
      BY <1>2, <1>4 DEF SnapshotOf
    <2> DEFINE E == [src : Sources, seen : Time]
    <2>2. x \in [1..n -> E]
      BY <1>8, <2>1
    <2> HIDE DEF E
    <2>3. x \in Seq(E)
      BY <1>3, <2>2, SeqDef
    <2> QED BY <2>3 DEF E
  <1>10. Grouped(x)
    <2> SUFFICES ASSUME NEW i \in 1..n, NEW k \in 1..n, x[i].src = x[k].src,
                        NEW j \in i..k
                 PROVE  x[j].src = x[i].src
      BY <1>7 DEF Grouped
    <2>1. j \in 1..n
      BY <1>3
    <2>2. DOMAIN order = 1..n
      BY <1>4
    <2>3. order[i][1] = order[k][1]
      BY <1>8
    <2>4. order[j][1] = order[i][1]
      BY <1>2, <2>2, <2>3 DEF BucketByBucket
    <2> QED BY <1>8, <2>1, <2>4
  <1>11. order \in Injection(DOMAIN x, Sources \X Ports)
    <2>1. order \in [1..n -> Sources \X Ports]
      BY <1>4, <1>5
    <2> QED BY <1>4, <1>7, <2>1 DEF Injection, IsInjective
  <1>12. Lists(order, x)
    BY <1>7, <1>8, <1>9, <1>10, <1>11 DEF Lists
  <1>13. Sound(x, touched)
    <2>1. \A i \in DOMAIN x : /\ touched[order[i][1]][order[i][2]] # Never
                              /\ x[i].seen <= touched[order[i][1]][order[i][2]]
      BY <1>1, <1>7, <1>8, TypeFacts DEF Time
    <2> QED BY <1>12, <2>1 DEF Sound
  <1>14. Current(x, touched, now)
    <2>1. ASSUME NEW s \in Sources, NEW p \in Ports,
                 touched[s][p] # Never, now - touched[s][p] <= Window
          PROVE  \E i \in DOMAIN x : order[i] = <<s, p>>
      <3>1. <<s, p>> \in Nodes
        BY <1>1, <2>1 DEF NoLivePortForgotten, Nodes
      <3> QED BY <1>4, <1>7, <3>1
    <2>2. \A i \in DOMAIN x : x[i].seen = touched[order[i][1]][order[i][2]]
      BY <1>7, <1>8
    <2> QED BY <1>12, <2>1, <2>2 DEF Current
  <1> QED BY <1>13, <1>14

(* The entries of source s in a snapshot that count at time now.           *)
Showing(snapshot, s, w) ==
  {i \in DOMAIN snapshot :
     snapshot[i].src = s /\ ~OutsideWindow(now, snapshot[i].seen, w)}

LiveCount(s) == Cardinality(Promise!LivePorts(touched[s], now))

(* The ports of a source inside the window are finitely many.              *)
LEMMA LiveCounts ==
  ASSUME HTypeOK, NEW s \in Sources
  PROVE  /\ IsFiniteSet(Promise!LivePorts(touched[s], now))
         /\ LiveCount(s) \in 0..Cardinality(Ports)
  <1>1. IsFiniteSet(Ports) /\ Promise!LivePorts(touched[s], now) \subseteq Ports
    BY ScanAssumption DEF Promise!LivePorts
  <1>2. /\ IsFiniteSet(Promise!LivePorts(touched[s], now))
        /\ LiveCount(s) <= Cardinality(Ports)
    BY <1>1, FS_Subset DEF LiveCount
  <1>3. LiveCount(s) \in Nat /\ Cardinality(Ports) \in Nat
    BY <1>1, <1>2, FS_CardinalityType DEF LiveCount
  <1> QED BY <1>2, <1>3

(* A sound snapshot shows no more ports of a source than are live.         *)
LEMMA SoundShowing ==
  ASSUME SaneInv, NEW x, NEW order, Lists(order, x),
         \A i \in DOMAIN x : /\ touched[order[i][1]][order[i][2]] # Never
                             /\ x[i].seen <= touched[order[i][1]][order[i][2]],
         NEW s \in Sources, NEW w
  PROVE  /\ [i \in Showing(x, s, w) |-> order[i][2]]
               \in Injection(Showing(x, s, w), Promise!LivePorts(touched[s], now))
         /\ Cardinality(Showing(x, s, w)) <= LiveCount(s)
  <1> DEFINE live == Promise!LivePorts(touched[s], now)
             port == [i \in Showing(x, s, w) |-> order[i][2]]
  <1>1. HTypeOK /\ ClockInv
    BY DEF SaneInv
  <1>2. /\ order \in [DOMAIN x -> Sources \X Ports]
        /\ \A i, j \in DOMAIN x : order[i] = order[j] => i = j
    BY DEF Lists, Injection, IsInjective
  <1>3. ASSUME NEW i \in Showing(x, s, w)
        PROVE  /\ i \in DOMAIN x /\ order[i] = <<s, order[i][2]>>
               /\ order[i][2] \in live
    <2>1. i \in DOMAIN x /\ x[i].src = s /\ ~OutsideWindow(now, x[i].seen, w)
      BY <1>3 DEF Showing
    <2>2. order[i] = <<s, order[i][2]>> /\ order[i][2] \in Ports /\ order[i][1] = s
      BY <1>2, <2>1 DEF Lists
    <2>3. x[i].seen \in Int
      BY <2>1, ListedEntry
    <2>4. /\ touched[s][order[i][2]] # Never
          /\ x[i].seen <= touched[s][order[i][2]]
      BY <2>1, <2>2
    <2>5. /\ touched[s][order[i][2]] \in Int /\ touched[s][order[i][2]] <= now
          /\ now \in Int /\ Window \in Int
      BY <1>1, <2>2, TypeFacts DEF ClockInv
    <2>6. now - touched[s][order[i][2]] <= Window
      BY <2>1, <2>3, <2>4, <2>5 DEF OutsideWindow
    <2> QED BY <2>1, <2>2, <2>4, <2>6 DEF Promise!LivePorts, Never
  <1>4. port \in Injection(Showing(x, s, w), live)
    <2>1. port \in [Showing(x, s, w) -> live]
      BY <1>3
    <2>2. \A i, j \in Showing(x, s, w) : port[i] = port[j] => i = j
      BY <1>2, <1>3
    <2> HIDE DEF port, live
    <2> QED BY <2>1, <2>2 DEF Injection, IsInjective
  <1>5. IsFiniteSet(live)
    BY <1>1, LiveCounts
  <1>6. Cardinality(Showing(x, s, w)) <= Cardinality(live)
    <2> HIDE DEF port, live
    <2> QED BY <1>4, <1>5, FS_Injection
  <1> QED BY <1>4, <1>6 DEF LiveCount

(* An old snapshot never shows more than is inside the window when it is   *)
(* shown.                                                                  *)
THEOREM SoundPage ==
  ASSUME SaneInv, NEW x, Sound(x, touched), NEW w
  PROVE  /\ MaxPorts(x, now, w) \in Nat
         /\ MaxPorts(x, now, w) = 0 \/ \E s \in Sources : MaxPorts(x, now, w) <= LiveCount(s)
  <1>1. PICK order :
          /\ Lists(order, x)
          /\ \A i \in DOMAIN x : /\ touched[order[i][1]][order[i][2]] # Never
                                 /\ x[i].seen <= touched[order[i][1]][order[i][2]]
    BY DEF Sound
  <1>2. /\ MaxPorts(x, now, w) \in Nat
        /\ \/ MaxPorts(x, now, w) = 0
           \/ \E i \in DOMAIN x : Cardinality(Showing(x, x[i].src, w)) = MaxPorts(x, now, w)
    BY <1>1, MaxPortsExact DEF Lists, Showing
  <1>3. \A i \in DOMAIN x : x[i].src \in Sources
    BY <1>1, ListedEntry
  <1>4. \A i \in DOMAIN x : Cardinality(Showing(x, x[i].src, w)) <= LiveCount(x[i].src)
    BY <1>1, <1>3, SoundShowing
  <1> QED BY <1>2, <1>3, <1>4

(* A current snapshot shows exactly the largest number of live ports that  *)
(* one source has.                                                         *)
THEOREM CurrentPage ==
  ASSUME SaneInv, NEW x, Current(x, touched, now), NEW w
  PROVE  /\ MaxPorts(x, now, w) \in Nat
         /\ \A s \in Sources : LiveCount(s) <= MaxPorts(x, now, w)
         /\ MaxPorts(x, now, w) = 0 \/ \E s \in Sources : LiveCount(s) = MaxPorts(x, now, w)
  <1>1. PICK order :
          /\ Lists(order, x)
          /\ \A i \in DOMAIN x : x[i].seen = touched[order[i][1]][order[i][2]]
          /\ \A s \in Sources, p \in Ports :
               touched[s][p] # Never /\ now - touched[s][p] <= Window
                 => \E i \in DOMAIN x : order[i] = <<s, p>>
    BY DEF Current
  <1>2. HTypeOK /\ ClockInv
    BY DEF SaneInv
  <1>3. \A i \in DOMAIN x : /\ x[i].src \in Sources /\ x[i].seen \in Time
                            /\ order[i][1] \in Sources /\ order[i][2] \in Ports
    BY <1>1, ListedEntry
  <1>4. \A i \in DOMAIN x : /\ touched[order[i][1]][order[i][2]] # Never
                            /\ x[i].seen <= touched[order[i][1]][order[i][2]]
    BY <1>1, <1>2, <1>3, TypeFacts DEF Time
  <1>5. ASSUME NEW s \in Sources
        PROVE  Cardinality(Showing(x, s, w)) = LiveCount(s)
    <2> DEFINE live == Promise!LivePorts(touched[s], now)
               port == [i \in Showing(x, s, w) |-> order[i][2]]
    <2>1. port \in Injection(Showing(x, s, w), live)
      BY <1>1, <1>4, SoundShowing
    <2>2. ASSUME NEW p \in live PROVE \E i \in Showing(x, s, w) : port[i] = p
      <3>1. p \in Ports /\ touched[s][p] # Never /\ now - touched[s][p] <= Window
        BY <2>2 DEF Promise!LivePorts, Never
      <3>2. PICK i \in DOMAIN x : order[i] = <<s, p>>
        BY <1>1, <3>1
      <3>3. x[i].src = s /\ x[i].seen = touched[s][p]
        BY <1>1, <3>2 DEF Lists
      <3>4. ~OutsideWindow(now, x[i].seen, w)
        BY <1>2, <3>1, <3>3, TypeFacts DEF OutsideWindow, ClockInv
      <3>5. i \in Showing(x, s, w)
        BY <3>3, <3>4 DEF Showing
      <3> QED BY <3>2, <3>5
    <2>3. IsFiniteSet(live)
      BY <1>2, LiveCounts
    <2> HIDE DEF port, live
    <2>4. port \in Surjection(Showing(x, s, w), live)
      BY <2>1, <2>2 DEF Injection, Surjection
    <2>5. Cardinality(Showing(x, s, w)) = Cardinality(live)
      BY <2>1, <2>3, <2>4, FS_Injection
    <2> QED BY <2>5 DEF live, LiveCount
  <1>6. /\ MaxPorts(x, now, w) \in Nat
        /\ \A s : Cardinality(Showing(x, s, w)) <= MaxPorts(x, now, w)
        /\ \/ MaxPorts(x, now, w) = 0
           \/ \E i \in DOMAIN x : Cardinality(Showing(x, x[i].src, w)) = MaxPorts(x, now, w)
    BY <1>1, MaxPortsExact DEF Lists, Showing
  <1> QED BY <1>3, <1>5, <1>6
=============================================================================
