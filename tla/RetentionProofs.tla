--------------------------- MODULE RetentionProofs ---------------------------
(***************************************************************************)
(* Proofs about the archive of ConnectionTracker, for every number of      *)
(* workers and keys: generations of a tuple stay in order, no archived row *)
(* is overwritten, and the tracker implements RetainedTable.               *)
(*                                                                         *)
(* These hold when packets are processed in time (Timely) and the limit is *)
(* out of reach (RoomForAll).  What carries them is Older: an archived     *)
(* generation was created before the live one of its tuple or, when there  *)
(* is none, before any packet that may still come.  For a row that timed   *)
(* out that is so because the shortest timeout is longer than the lag; for *)
(* a row that was split because the successor is stamped after it.         *)
(***************************************************************************)
EXTENDS ConnectionTrackerProofs

(* Packets are folded in no later than the shortest timeout after capture. *)
Timely == MaxLag * TickSeconds <= 15

RoomForAll == Cardinality(Keys) <= MaxConnections

InHand ==
    \A w \in Workers : pc[w] # "idle" => pkt[w].ts <= clock /\ clock - pkt[w].ts <= MaxLag

RowTimes == \A k \in LiveKeys : live[k].since # NoTime => live[k].at <= live[k].since

Older(h) ==
    IF h.key \in LiveKeys THEN CreatedBefore(h, live[h.key]) ELSE h.at + MaxLag < clock

OneEach(H) == \A g, h \in H : SameGeneration(g, h) => g = h

Archive ==
    /\ IsFiniteSet(historic) /\ Cardinality(historic) <= MaxHistoric
    /\ OneEach(historic)
    /\ \A h \in historic : Older(h)

RInv == TInv /\ InHand /\ RowTimes /\ Archive

-----------------------------------------------------------------------------
(* What a step does to rows and archive, whoever takes it.                 *)

SameElsewhere(R) == \A x \in Keys \ R : live'[x] = live[x]

Quiet ==
    /\ historic' = historic
    /\ \A k \in Keys : live'[k] = live[k] \/ SameRow(live[k], live'[k])

Opens(k) ==
    /\ live[k] = NoRow /\ live'[k] # NoRow
    /\ clock <= live'[k].at + MaxLag
    /\ SameElsewhere({k})
    /\ historic' = historic

Retires(R, now) ==
    historic' \in IF KeepHistoric
                  THEN EnforceHistoricLimit(InsertHistoric({Archived(k, live[k], now) : k \in R}))
                  ELSE {historic}

Splits(k) ==
    /\ live[k] # NoRow /\ live'[k] # NoRow
    /\ CreatedBefore(live[k], live'[k])
    /\ SameElsewhere({k})
    /\ \E now \in Time : Retires({k}, now)

TimesOut(R) ==
    /\ \A k \in R : live'[k] = NoRow /\ live[k].at + MaxLag < clock
    /\ SameElsewhere(R)
    /\ Retires(R, clock)

Clears ==
    /\ historic' = {}
    /\ \A k \in Keys : live'[k] = NoRow

(* Multiplying by the length of a tick keeps the order.                    *)
LEMMA Longer ==
    ASSUME NEW a \in Nat, NEW b \in Nat, NEW t \in Nat, a <= b
    PROVE  a * t <= b * t
<1>1. b = a + (b - a) /\ b - a \in Nat
  OBVIOUS
<1>2. b * t = a * t + (b - a) * t
  BY <1>1
<1>3. a * t \in Nat /\ (b - a) * t \in Nat
  BY <1>1
<1>4. QED BY <1>2, <1>3

(* A row that times out was created more than MaxLag ago.                  *)
LEMMA TimedOut ==
    ASSUME Timely, RInv, NEW k \in LiveKeys, ShouldCleanup(live[k], clock)
    PROVE  live[k].at + MaxLag < clock
<1> DEFINE ref == CleanupReference(live[k])
<1>1. clock \in Nat /\ live[k] \in Rows /\ MaxLag \in Nat /\ TickSeconds \in Nat
  BY LiveRow, LimitsAssumption DEF RInv, TInv, IInv, Typed, TypeInv, LiveKeys, Time
<1>2. live[k].at \in Nat /\ live[k].last \in Nat /\ live[k].since \in Nat \cup {NoTime}
  BY <1>1 DEF Rows, Time
<1>3. ref \in Nat /\ live[k].at <= ref
  BY <1>2 DEF CleanupReference, RInv, TInv, TerminalClockCoherent, RowTimes
<1>4. TimeoutSeconds(live[k].state) \in Nat /\ TimeoutSeconds(live[k].state) >= 15
  BY DEF TimeoutSeconds
<1> HIDE DEF ref
<1>5. Age(clock, ref) * TickSeconds > 15
  <2>1. Age(clock, ref) * TickSeconds > TimeoutSeconds(live[k].state)
    BY DEF ShouldCleanup, ref
  <2>2. Age(clock, ref) \in Nat
    BY <1>1, <1>3 DEF Age
  <2>3. Age(clock, ref) * TickSeconds \in Nat
    BY <1>1, <2>2
  <2>4. QED BY <1>4, <2>1, <2>3
<1>6. Age(clock, ref) > MaxLag
  <2>1. Age(clock, ref) \in Nat
    BY <1>1, <1>3 DEF Age
  <2>2. Age(clock, ref) <= MaxLag => Age(clock, ref) * TickSeconds <= MaxLag * TickSeconds
    BY <1>1, <2>1, Longer
  <2>3. Age(clock, ref) * TickSeconds \in Nat /\ MaxLag * TickSeconds \in Nat
    BY <1>1, <2>1
  <2>4. QED BY <1>1, <1>5, <2>1, <2>2, <2>3 DEF Timely
<1>7. QED BY <1>1, <1>2, <1>3, <1>6 DEF Age

(* A worker in the guard knows its packet's time.                          *)
LEMMA InHandNext ==
    ASSUME IInv, InHand, [Next]_vars
    PROVE  InHand'
<1>1. clock \in Nat /\ MaxLag \in Nat
  BY LimitsAssumption DEF IInv, Typed, TypeInv, Time
<1>2. pc \in [Workers -> Steps] /\ pkt \in [Workers -> Captured \cup {NoPacket}]
  BY DEF IInv, Typed, TypeInv
<1>3. \A w \in Workers : pc[w] # "idle" => pkt[w].ts \in Nat
  BY BusyWorker DEF IInv, Time
<1>4. ASSUME NEW w \in Workers, BeginIngest(w) PROVE InHand'
  <2>1. PICK p \in Packets, ts \in 0..clock :
          /\ clock - ts <= MaxLag
          /\ pkt' = [pkt EXCEPT ![w] = [body |-> p, ts |-> ts]]
          /\ pc' = [pc EXCEPT ![w] = IF HasCid(p) THEN "resolve" ELSE "classify"]
    BY <1>4 DEF BeginIngest
  <2>2. clock' = clock /\ pkt'[w].ts = ts
    BY <1>2, <1>4, <2>1 DEF BeginIngest
  <2>3. \A v \in Workers \ {w} : pc'[v] = pc[v] /\ pkt'[v] = pkt[v]
    BY <1>2, <2>1
  <2>4. QED BY <1>1, <2>1, <2>2, <2>3 DEF InHand
<1>5. ASSUME NEW w \in Workers, Ingest(w), ~BeginIngest(w) PROVE InHand'
  <2>1. clock' = clock /\ pc[w] # "idle"
    BY <1>5 DEF Ingest, ResolveConnectionKey, IgnoreLate, RequestSplit, PassToActive, DropAtCap,
                PassCap, MergeEntry, InsertEntry, CountCreated, IngestNewGeneration
  <2>2. \A v \in Workers : pc'[v] # "idle" => pkt'[v] = pkt[v] /\ pc[v] # "idle"
    BY <1>2, <1>5, <2>1
       DEF Ingest, ResolveConnectionKey, IgnoreLate, RequestSplit, PassToActive, DropAtCap,
           PassCap, MergeEntry, InsertEntry, CountCreated, IngestNewGeneration, Goto, Finish
  <2>3. QED BY <2>1, <2>2 DEF InHand
<1>6. CASE Cleanup \/ Clear \/ UNCHANGED vars
  BY <1>6 DEF Cleanup, Clear, vars, worker, InHand
<1>7. CASE Tick
  BY <1>1, <1>3, <1>7 DEF Tick, worker, InHand
<1>8. QED BY <1>4, <1>5, <1>6, <1>7 DEF Next

(* A row's terminal time is no earlier than its creation.                  *)
LEMMA RowTimesNext ==
    ASSUME RInv, [Next]_vars
    PROVE  RowTimes'
<1> SUFFICES ASSUME NEW k \in Keys, live'[k] # NoRow, live'[k].since # NoTime
             PROVE  live'[k].at <= live'[k].since
  BY DEF RowTimes, LiveKeys
<1>1. live[k] # NoRow => /\ live[k].at \in Nat /\ live[k].last \in Nat
                         /\ live[k].since \in Nat \cup {NoTime}
                         /\ live[k].at <= live[k].last
                         /\ live[k].since # NoTime => live[k].at <= live[k].since
  BY LiveRow DEF RInv, TInv, IInv, Typed, Rows, Time, RowTimes, LiveKeys, TerminalClockCoherent
<1>2. RowStep(k)
  BY EveryRowStep DEF RInv, TInv
<1>3. CASE live'[k] = live[k]
  BY <1>1, <1>3
<1>4. CASE \E p \in Bodies, at \in Time, ns \in Nat : live'[k] = CreateRow(p, at, ns)
  BY <1>4 DEF CreateRow, Time
<1>5. CASE live[k] # NoRow /\ \E p \in Bodies, ts \in Time : live'[k] = MergeRow(live[k], p, ts)
  <2>1. PICK p \in Bodies, ts \in Time : live'[k] = MergeRow(live[k], p, ts)
    BY <1>5
  <2>2. Later(live[k].last, ts) \in Nat /\ Later(live[k].last, ts) >= live[k].last
    BY <1>1, <1>5 DEF Later, Time
  <2>3. live'[k].at = live[k].at
        /\ (live'[k].since = live[k].since \/ live'[k].since = Later(live[k].last, ts))
    BY <2>1 DEF MergeRow
  <2>4. QED BY <1>1, <1>5, <2>2, <2>3
<1>6. QED BY <1>2, <1>3, <1>4, <1>5 DEF RowStep

-----------------------------------------------------------------------------
(* With the limit out of reach, no packet of a new tuple is refused.       *)
LEMMA NeverDropped ==
    ASSUME RoomForAll, IInv, NEW k \in Keys
    PROVE  /\ live[k] # NoRow => active_count - 1 < MaxConnections
           /\ live[k] = NoRow => active_count < MaxConnections
<1>1. active_count \in Int /\ active_count <= Cardinality(LiveKeys)
  BY WorkerSets, LiveKeysFinite DEF IInv, Accounting, CountAccounting, Typed, TypeInv
<1>2. IsFiniteSet(Keys) /\ Cardinality(Keys) \in Nat /\ LiveKeys \subseteq Keys
  BY KeysFinite, FS_CardinalityType DEF LiveKeys
<1>3. Cardinality(LiveKeys) \in Nat /\ Cardinality(LiveKeys) <= Cardinality(Keys)
      /\ (Cardinality(LiveKeys) = Cardinality(Keys) => LiveKeys = Keys)
  BY <1>2, FS_Subset, LiveKeysFinite
<1>4. live[k] = NoRow => LiveKeys # Keys
  BY DEF LiveKeys
<1>5. QED BY <1>1, <1>2, <1>3, <1>4, LimitsAssumption DEF RoomForAll

LEMMA SplitTable ==
    ASSUME RoomForAll, RInv, NEW w \in Workers, IngestNewGeneration(w)
    PROVE  Quiet \/ \E k \in Keys : Opens(k) \/ Splits(k)
<1> DEFINE k      == route[w]
           p      == pkt[w].body
           ts     == pkt[w].ts
           old    == live[k]
           splits == old # NoRow /\ StartsNewGeneration(old, p)
           base   == IF splits THEN NoRow ELSE old
           bumped == splits /\ ts <= old.at
           count  == IF splits THEN active_count - 1 ELSE active_count
           drops  == base = NoRow /\ count >= MaxConnections
           row    == IF drops THEN NoRow
                     ELSE IF base # NoRow THEN MergeRow(base, p, ts)
                     ELSE IF bumped THEN CreateRow(p, old.at, old.ns + 1)
                     ELSE CreateRow(p, ts, 0)
<1>1. pc[w] = "split" /\ WriteGuardFree /\ live' = [live EXCEPT ![k] = row]
      /\ historic' \in EnforceHistoricLimit(
           IF splits /\ KeepHistoric THEN InsertHistoric({Archived(k, old, ts)}) ELSE historic)
  BY DEF IngestNewGeneration
<1>2. p \in Bodies /\ ts \in Time /\ k \in Keys
  BY <1>1, BusyWorker DEF RInv, TInv, IInv
<1>3. old # NoRow => old \in Rows /\ old.at \in Time /\ old.ns \in Nat
  BY <1>2, LiveRow DEF RInv, TInv, IInv, Typed, Rows
<1>4. live'[k] = row /\ SameElsewhere({k})
  BY <1>1, <1>2 DEF RInv, TInv, IInv, Typed, TypeInv, SameElsewhere
<1>5. ~drops
  <2>1. active_count \in Int /\ MaxConnections \in Nat
    BY LimitsAssumption DEF RInv, TInv, IInv, Typed, TypeInv
  <2>2. old # NoRow => active_count - 1 < MaxConnections
    BY <1>2, NeverDropped DEF RInv, TInv
  <2>3. old = NoRow => active_count < MaxConnections
    BY <1>2, NeverDropped DEF RInv, TInv
  <2>4. QED BY <2>1, <2>2, <2>3
<1>6. clock \in Nat /\ MaxLag \in Nat /\ clock <= ts + MaxLag
  BY <1>1, <1>2, LimitsAssumption DEF RInv, TInv, IInv, Typed, TypeInv, InHand, Time
<1>7. historic' \in EnforceHistoricLimit(historic) => historic' = historic
  BY DEF EnforceHistoricLimit, RInv, Archive
<1>8. CASE ~splits /\ old # NoRow
  <2>1. row = MergeRow(old, p, ts) /\ historic' = historic
    BY <1>1, <1>5, <1>7, <1>8
  <2>2. row \in Rows /\ row.at = old.at /\ row.ns = old.ns
    <3>1. MergeRow(old, p, ts) \in Rows
      BY <1>2, <1>3, <1>8, MergeRowType
    <3>2. QED BY <2>1, <3>1 DEF MergeRow
  <2>3. SameRow(live[k], live'[k])
    BY <1>4, <1>8, <2>2, SentinelAssumption DEF SameRow
  <2>4. QED BY <1>4, <2>1, <2>3 DEF Quiet, SameElsewhere
<1>9. CASE ~splits /\ old = NoRow
  <2>1. row = CreateRow(p, ts, 0) /\ historic' = historic
    BY <1>1, <1>5, <1>7, <1>9
  <2>2. row # NoRow /\ row.at = ts
    <3>1. CreateRow(p, ts, 0) \in Rows
      BY <1>2, CreateRowType
    <3>2. QED BY <2>1, <3>1, SentinelAssumption DEF CreateRow
  <2>3. Opens(k)
    BY <1>4, <1>6, <1>9, <2>1, <2>2 DEF Opens
  <2>4. QED BY <1>2, <2>3
<1>10. CASE splits
  <2>1. row = IF bumped THEN CreateRow(p, old.at, old.ns + 1) ELSE CreateRow(p, ts, 0)
    BY <1>5, <1>10
  <2>2. row # NoRow /\ CreatedBefore(old, row)
    <3>1. CASE bumped
      <4>1. CreateRow(p, old.at, old.ns + 1) \in Rows
        BY <1>2, <1>3, <1>10, CreateRowType
      <4>2. QED BY <1>3, <1>10, <2>1, <3>1, <4>1, SentinelAssumption DEF CreateRow, CreatedBefore
    <3>2. CASE ~bumped
      <4>1. CreateRow(p, ts, 0) \in Rows
        BY <1>2, CreateRowType
      <4>2. old.at < ts
        BY <1>2, <1>3, <1>10, <3>2 DEF Time
      <4>3. QED BY <2>1, <3>2, <4>1, <4>2, SentinelAssumption DEF CreateRow, CreatedBefore
    <3>3. QED BY <3>1, <3>2
  <2>3. Retires({k}, ts)
    <3>1. {Archived(x, live[x], ts) : x \in {k}} = {Archived(k, old, ts)}
      OBVIOUS
    <3>2. QED BY <1>1, <1>7, <1>10, <3>1 DEF Retires
  <2>4. Splits(k)
    BY <1>2, <1>4, <1>10, <2>2, <2>3 DEF Splits
  <2>5. QED BY <1>2, <2>4
<1>11. QED BY <1>8, <1>9, <1>10

LEMMA ReaderTable ==
    ASSUME RInv, NEW w \in Workers, Ingest(w), ~IngestNewGeneration(w)
    PROVE  Quiet \/ \E k \in Keys : Opens(k)
<1>1. CASE InsertEntry(w)
  <2> DEFINE k == route[w]
             r == CreateRow(pkt[w].body, pkt[w].ts, 0)
  <2>1. pc[w] = "entry" /\ live[k] = NoRow /\ live' = [live EXCEPT ![k] = r]
        /\ historic' = historic
    BY <1>1 DEF InsertEntry
  <2>2. k \in Keys /\ pkt[w].ts \in Nat /\ r \in Rows
    BY <2>1, BusyWorker, CreateRowType DEF RInv, TInv, IInv, Time
  <2>3. clock \in Nat /\ MaxLag \in Nat /\ clock <= pkt[w].ts + MaxLag
    BY <2>1, <2>2, LimitsAssumption DEF RInv, TInv, IInv, Typed, TypeInv, InHand, Time
  <2>4. r.at = pkt[w].ts
    BY DEF CreateRow
  <2> HIDE DEF r
  <2>5. live'[k] = r /\ SameElsewhere({k})
    BY <2>1, <2>2 DEF RInv, TInv, IInv, Typed, TypeInv, SameElsewhere
  <2>6. Opens(k)
    BY <2>1, <2>2, <2>3, <2>4, <2>5, SentinelAssumption DEF Opens
  <2>7. QED BY <2>2, <2>6
<1>2. CASE MergeEntry(w)
  <2> DEFINE k == route[w]
             r == MergeRow(live[k], pkt[w].body, pkt[w].ts)
  <2>1. pc[w] = "entry" /\ live[k] # NoRow /\ live' = [live EXCEPT ![k] = r]
        /\ historic' = historic
    BY <1>2 DEF MergeEntry
  <2>2. k \in Keys /\ live[k] \in Rows /\ r \in Rows
    BY <2>1, BusyWorker, LiveRow, MergeRowType DEF RInv, TInv, IInv, Typed
  <2>3. r.at = live[k].at /\ r.ns = live[k].ns
    BY DEF MergeRow
  <2> HIDE DEF r
  <2>4. SameRow(live[k], r)
    BY <2>1, <2>2, <2>3, SentinelAssumption DEF SameRow
  <2>5. QED BY <2>1, <2>2, <2>4 DEF Quiet, RInv, TInv, IInv, Typed, TypeInv
<1>3. CASE ~InsertEntry(w) /\ ~MergeEntry(w)
  <2>1. live' = live /\ historic' = historic
    BY <1>3
       DEF Ingest, BeginIngest, ResolveConnectionKey, IgnoreLate, RequestSplit, PassToActive,
           DropAtCap, PassCap, CountCreated, table
  <2>2. QED BY <2>1 DEF Quiet
<1>4. QED BY <1>1, <1>2, <1>3

LEMMA CleanupTable ==
    ASSUME Timely, RInv, Cleanup
    PROVE  \E R \in SUBSET LiveKeys : TimesOut(R)
<1> DEFINE removed == {k \in LiveKeys : ShouldCleanup(live[k], clock)}
<1>1. /\ live' = [k \in Keys |-> IF k \in removed THEN NoRow ELSE live[k]]
      /\ Retires(removed, clock)
  BY DEF Cleanup, Retires
<1>2. \A k \in removed : live[k].at + MaxLag < clock
  BY TimedOut
<1>3. removed \in SUBSET LiveKeys /\ removed \subseteq Keys
  BY DEF LiveKeys
<1> HIDE DEF removed
<1>4. TimesOut(removed)
  BY <1>1, <1>2, <1>3 DEF TimesOut, SameElsewhere
<1>5. QED BY <1>3, <1>4

(* Every step of the tracker, as the archive sees it; time passes in quiet *)
(* ones only.                                                              *)
LEMMA TableStep ==
    ASSUME Timely, RoomForAll, RInv, [Next]_vars
    PROVE  /\ \/ Quiet
              \/ \E k \in Keys : Opens(k) \/ Splits(k)
              \/ \E R \in SUBSET LiveKeys : TimesOut(R)
              \/ Clears
           /\ clock' = clock \/ (Quiet /\ clock' = clock + 1)
<1>1. ASSUME NEW w \in Workers, Ingest(w)
      PROVE  clock' = clock /\ (Quiet \/ \E k \in Keys : Opens(k) \/ Splits(k))
  <2>1. clock' = clock
    BY <1>1
       DEF Ingest, BeginIngest, ResolveConnectionKey, IgnoreLate, RequestSplit, PassToActive,
           DropAtCap, PassCap, MergeEntry, InsertEntry, CountCreated, IngestNewGeneration
  <2>2. CASE IngestNewGeneration(w)
    BY <2>1, <2>2, SplitTable
  <2>3. CASE ~IngestNewGeneration(w)
    BY <1>1, <2>1, <2>3, ReaderTable
  <2>4. QED BY <2>2, <2>3
<1>2. CASE Cleanup
  BY <1>2, CleanupTable DEF Cleanup
<1>3. CASE Clear
  BY <1>3 DEF Clear, Clears
<1>4. CASE Tick \/ UNCHANGED vars
  BY <1>4 DEF Tick, vars, table, Quiet
<1>5. QED BY <1>1, <1>2, <1>3, <1>4 DEF Next

-----------------------------------------------------------------------------
(* The archive                                                             *)

LEMMA KeptArchive ==
    ASSUME NEW H, IsFiniteSet(H), OneEach(H), NEW K \in EnforceHistoricLimit(H)
    PROVE  K \subseteq H /\ IsFiniteSet(K) /\ Cardinality(K) <= MaxHistoric /\ OneEach(K)
<1>1. K \subseteq H /\ Cardinality(K) <= MaxHistoric
  BY LimitsAssumption DEF EnforceHistoricLimit
<1>2. QED BY <1>1, FS_Subset DEF OneEach

(* Stamps differ from those of the live rows about to be retired.          *)
LEMMA Distinct ==
    ASSUME RInv, NEW h \in historic, NEW k \in LiveKeys, NEW now
    PROVE  ~SameGeneration(h, Archived(k, live[k], now))
<1>1. h.key = k => CreatedBefore(h, live[k])
  BY DEF RInv, Archive, Older
<1>2. live[k].at \in Nat /\ live[k].ns \in Nat
  BY LiveRow DEF RInv, TInv, IInv, Typed, LiveKeys, Rows, Time
<1>3. QED BY <1>1, <1>2 DEF Archived, SameGeneration, CreatedBefore

(* Retiring rows adds them to the archive, and then trims it.              *)
LEMMA RetiredRows ==
    ASSUME RInv, NEW R \in SUBSET LiveKeys, NEW now, Retires(R, now)
    PROVE  LET New == {Archived(k, live[k], now) : k \in R}
               H   == IF KeepHistoric THEN historic \cup New ELSE historic
           IN  /\ historic' \in EnforceHistoricLimit(H)
               /\ IsFiniteSet(H) /\ OneEach(H)
               /\ historic' \subseteq H
               /\ IsFiniteSet(historic') /\ Cardinality(historic') <= MaxHistoric
               /\ OneEach(historic)'
<1> DEFINE New == {Archived(k, live[k], now) : k \in R}
           H   == IF KeepHistoric THEN historic \cup New ELSE historic
<1>1. historic' \in EnforceHistoricLimit(H)
  <2>1. InsertHistoric(New) = historic \cup New
    <3>1. \A h \in historic, g \in New : ~SameGeneration(h, g)
      BY Distinct
    <3>2. QED BY <3>1 DEF InsertHistoric
  <2>2. historic \in EnforceHistoricLimit(historic)
    BY DEF EnforceHistoricLimit, RInv, Archive
  <2>3. QED BY <2>1, <2>2 DEF Retires
<1>2. IsFiniteSet(H)
  <2>1. IsFiniteSet(R)
    BY LiveKeysFinite, FS_Subset
  <2>2. IsFiniteSet(New)
    <3> DEFINE f == [k \in R |-> Archived(k, live[k], now)]
    <3>1. f \in Surjection(R, New)
      BY DEF Surjection
    <3>2. QED BY <2>1, <3>1, FS_Surjection
  <2>3. IsFiniteSet(historic)
    BY DEF RInv, Archive
  <2> HIDE DEF New
  <2>4. QED BY <2>2, <2>3, FS_Union
<1>3. OneEach(H)
  <2>1. \A h \in historic, g \in New : ~SameGeneration(h, g) /\ ~SameGeneration(g, h)
    BY Distinct DEF SameGeneration
  <2>2. \A g, h \in New : SameGeneration(g, h) => g = h
    BY DEF SameGeneration, Archived
  <2>3. \A g, h \in historic : SameGeneration(g, h) => g = h
    BY DEF RInv, Archive, OneEach
  <2> HIDE DEF New
  <2>4. QED BY <2>1, <2>2, <2>3 DEF OneEach
<1> HIDE DEF H
<1>4. historic' \subseteq H /\ IsFiniteSet(historic') /\ Cardinality(historic') <= MaxHistoric
      /\ OneEach(historic')
  BY <1>1, <1>2, <1>3, KeptArchive
<1>5. OneEach(historic)'
  BY <1>4 DEF OneEach
<1>6. QED BY <1>1, <1>2, <1>3, <1>4, <1>5 DEF H

LEMMA QuietArchive == ASSUME RInv, [Next]_vars, Quiet, clock' \in {clock, clock + 1} PROVE Archive'
<1>1. LiveKeys' = LiveKeys /\ \A k \in LiveKeys : live'[k].at = live[k].at /\ live'[k].ns = live[k].ns
  BY DEF Quiet, SameRow, LiveKeys
<1>2. clock \in Nat /\ \A h \in historic : h.at \in Nat
  BY DEF RInv, TInv, IInv, Typed, TypeInv, HistoricRows, Time
<1>3. ASSUME NEW h \in historic PROVE Older(h)'
  BY <1>1, <1>2, LimitsAssumption DEF Older, CreatedBefore, RInv, Archive
<1>4. QED BY <1>3 DEF Quiet, Archive, RInv, OneEach

LEMMA OpensArchive ==
    ASSUME RInv, Typed', NEW k \in Keys, Opens(k), clock' = clock
    PROVE  Archive'
<1>1. LiveKeys' = LiveKeys \cup {k} /\ k \notin LiveKeys
  BY DEF Opens, SameElsewhere, LiveKeys
<1>2. clock \in Nat /\ MaxLag \in Nat /\ \A h \in historic : h.at \in Nat /\ h.key \in Keys
  BY LimitsAssumption DEF RInv, TInv, IInv, Typed, TypeInv, HistoricRows, Time
<1>3. live'[k].at \in Nat
  BY DEF Typed, TypeInv, Rows, Opens, Time
<1>4. ASSUME NEW h \in historic PROVE Older(h)'
  <2>1. CASE h.key = k
    BY <1>1, <1>2, <1>3, <2>1 DEF Older, CreatedBefore, RInv, Archive, Opens
  <2>2. CASE h.key # k
    BY <1>1, <1>2, <2>2 DEF Older, CreatedBefore, RInv, Archive, Opens, SameElsewhere
  <2>3. QED BY <2>1, <2>2
<1>5. QED BY <1>4 DEF Opens, Archive, RInv, OneEach

LEMMA SplitsArchive ==
    ASSUME RInv, Typed', NEW k \in Keys, Splits(k), clock' = clock
    PROVE  Archive'
<1>1. LiveKeys' = LiveKeys /\ k \in LiveKeys
  BY DEF Splits, SameElsewhere, LiveKeys
<1>2. PICK now \in Time : Retires({k}, now)
  BY DEF Splits
<1>3. historic' \subseteq historic \cup {Archived(k, live[k], now)}
      /\ IsFiniteSet(historic') /\ Cardinality(historic') <= MaxHistoric /\ OneEach(historic)'
  <2> DEFINE New == {Archived(x, live[x], now) : x \in {k}}
  <2>1. {k} \in SUBSET LiveKeys
    BY <1>1
  <2>2. historic' \subseteq (IF KeepHistoric THEN historic \cup New ELSE historic)
        /\ IsFiniteSet(historic') /\ Cardinality(historic') <= MaxHistoric /\ OneEach(historic)'
    BY <1>2, <2>1, RetiredRows
  <2>3. New = {Archived(k, live[k], now)}
    OBVIOUS
  <2> HIDE DEF New
  <2>4. QED BY <2>2, <2>3
<1>4. live[k].at \in Nat /\ live[k].ns \in Nat /\ live'[k].at \in Nat /\ live'[k].ns \in Nat
  BY LiveRow DEF Splits, RInv, TInv, IInv, Typed, TypeInv, Rows, Time
<1>5. \A h \in historic : h.at \in Nat /\ h.ns \in Nat /\ h.key \in Keys
  BY DEF RInv, TInv, IInv, Typed, TypeInv, HistoricRows, Time
<1>6. ASSUME NEW h \in historic PROVE Older(h)'
  <2>1. CASE h.key = k
    BY <1>1, <1>4, <1>5, <2>1 DEF Older, CreatedBefore, RInv, Archive, Splits
  <2>2. CASE h.key # k
    BY <1>1, <1>5, <2>2 DEF Older, CreatedBefore, RInv, Archive, Splits, SameElsewhere
  <2>3. QED BY <2>1, <2>2
<1>7. ASSUME NEW g, g = Archived(k, live[k], now)
      PROVE  Older(g)'
  <2>1. g.key = k /\ g.at = live[k].at /\ g.ns = live[k].ns
    BY <1>7 DEF Archived
  <2>2. QED BY <1>1, <2>1 DEF Splits, CreatedBefore, Older
<1>8. ASSUME NEW h \in historic' PROVE Older(h)'
  BY <1>3, <1>6, <1>7
<1>9. QED BY <1>3, <1>8 DEF Archive

LEMMA TimesOutArchive ==
    ASSUME RInv, NEW R \in SUBSET LiveKeys, TimesOut(R), clock' = clock
    PROVE  Archive'
<1> DEFINE New == {Archived(k, live[k], clock) : k \in R}
<1>1. LiveKeys' = LiveKeys \ R
  BY DEF TimesOut, SameElsewhere, LiveKeys
<1>2. historic' \subseteq historic \cup New
      /\ IsFiniteSet(historic') /\ Cardinality(historic') <= MaxHistoric /\ OneEach(historic)'
  BY RetiredRows DEF TimesOut
<1>3. clock \in Nat /\ MaxLag \in Nat /\ \A k \in R : live[k].at \in Nat /\ live[k].at + MaxLag < clock
  BY LiveRow, LimitsAssumption
     DEF TimesOut, RInv, TInv, IInv, Typed, TypeInv, Rows, Time, LiveKeys
<1>4. \A h \in historic : h.at \in Nat /\ h.ns \in Nat /\ h.key \in Keys
  BY DEF RInv, TInv, IInv, Typed, TypeInv, HistoricRows, Time
<1>5. ASSUME NEW h \in historic PROVE Older(h)'
  <2>1. CASE h.key \in R
    <3>1. h.at <= live[h.key].at
      BY <1>3, <1>4, <2>1 DEF Older, CreatedBefore, RInv, Archive
    <3>2. h.at + MaxLag < clock
      BY <1>3, <1>4, <2>1, <3>1
    <3>3. QED BY <1>1, <2>1, <3>2 DEF Older
  <2>2. CASE h.key \in LiveKeys \ R
    <3>1. live'[h.key] = live[h.key]
      BY <1>4, <2>2 DEF TimesOut, SameElsewhere
    <3>2. QED BY <1>1, <2>2, <3>1 DEF Older, CreatedBefore, RInv, Archive
  <2>3. CASE h.key \notin LiveKeys
    BY <1>1, <2>3 DEF Older, RInv, Archive
  <2>4. QED BY <2>1, <2>2, <2>3
<1>6. ASSUME NEW k \in R, NEW g, g = Archived(k, live[k], clock)
      PROVE  Older(g)'
  <2>1. g.key = k /\ g.at = live[k].at
    BY <1>6 DEF Archived
  <2>2. QED BY <1>1, <1>3, <2>1 DEF Older
<1>7. ASSUME NEW h \in historic' PROVE Older(h)'
  BY <1>2, <1>5, <1>6
<1>8. QED BY <1>2, <1>7 DEF Archive

LEMMA ArchiveNext ==
    ASSUME Timely, RoomForAll, RInv, [Next]_vars, Typed'
    PROVE  Archive'
<1>1. CASE Quiet
  BY <1>1, TableStep, QuietArchive
<1>2. ASSUME NEW k \in Keys, Opens(k) \/ Splits(k), clock' = clock PROVE Archive'
  BY <1>2, OpensArchive, SplitsArchive
<1>3. ASSUME NEW R \in SUBSET LiveKeys, TimesOut(R), clock' = clock PROVE Archive'
  BY <1>3, TimesOutArchive
<1>4. CASE Clears
  BY <1>4, FS_EmptySet, LimitsAssumption DEF Clears, Archive, OneEach
<1>5. QED BY <1>1, <1>2, <1>3, <1>4, TableStep

LEMMA InitRInv == Init => RInv
<1> SUFFICES ASSUME Init PROVE RInv
  OBVIOUS
<1>1. IInv
  BY TypedInit, AccountingInit DEF IInv
<1>2. LiveKeys = {}
  BY DEF Init, LiveKeys
<1>3. Archive
  BY FS_EmptySet, LimitsAssumption DEF Init, Archive, OneEach
<1>4. InHand
  BY DEF Init, InHand
<1>5. QED BY <1>1, <1>2, <1>3, <1>4 DEF RInv, TInv, TerminalClockCoherent, RowTimes

LEMMA RInvNext ==
    ASSUME Timely, RoomForAll
    PROVE  RInv /\ [Next]_vars => RInv'
<1> SUFFICES ASSUME RInv, [Next]_vars PROVE RInv'
  OBVIOUS
<1>1. TInv'
  BY IInvNext, CoherentNext DEF RInv, TInv
<1>2. Typed'
  BY <1>1 DEF TInv, IInv
<1>3. QED BY <1>1, <1>2, InHandNext, RowTimesNext, ArchiveNext DEF RInv, TInv

-----------------------------------------------------------------------------
(* The archive's invariant holds in every reachable state.                 *)
THEOREM ArchiveInductive ==
    ASSUME Timely, RoomForAll
    PROVE  Spec => []RInv
<1>1. RInv /\ [Next]_vars => RInv'
  BY RInvNext
<1>2. QED BY <1>1, InitRInv, PTL DEF Spec

(* Every archived generation of a tuple was created before the live one,   *)
(* although packets are folded in late and out of order.                   *)
THEOREM GenerationsInOrder ==
    ASSUME Timely, RoomForAll
    PROVE  Spec => []GenerationsOrdered
<1>1. RInv => GenerationsOrdered
  BY DEF RInv, Archive, Older, GenerationsOrdered
<1>2. QED BY <1>1, ArchiveInductive, PTL

(* No later generation of a tuple overwrites an archived row.              *)
THEOREM ArchiveImmutable ==
    ASSUME Timely, RoomForAll
    PROVE  Spec => HistoricImmutable
<1> DEFINE P == \A h \in historic : h \in historic' \/ \A g \in historic' : ~SameGeneration(h, g)
<1>1. ASSUME RInv, [Next]_vars PROVE P
  <2> SUFFICES ASSUME NEW h \in historic, NEW g \in historic', SameGeneration(h, g)
               PROVE  h = g
    OBVIOUS
  <2>1. ASSUME NEW R \in SUBSET LiveKeys, NEW now, Retires(R, now) PROVE h = g
    <3> DEFINE New == {Archived(k, live[k], now) : k \in R}
               H   == IF KeepHistoric THEN historic \cup New ELSE historic
    <3>1. OneEach(H) /\ historic' \subseteq H
      BY <1>1, <2>1, RetiredRows
    <3>2. h \in H /\ g \in H
      BY <3>1
    <3> HIDE DEF H
    <3>3. QED BY <3>1, <3>2 DEF OneEach
  <2>2. CASE historic' = historic
    BY <1>1, <2>2 DEF RInv, Archive, OneEach
  <2>3. CASE \E k \in Keys : Splits(k)
    <3>1. PICK k \in Keys, now \in Time : live[k] # NoRow /\ Retires({k}, now)
      BY <2>3 DEF Splits
    <3>2. {k} \in SUBSET LiveKeys
      BY <3>1 DEF LiveKeys
    <3>3. QED BY <2>1, <3>1, <3>2
  <2>4. CASE \E R \in SUBSET LiveKeys : TimesOut(R)
    BY <2>1, <2>4 DEF TimesOut
  <2>5. CASE Clears
    BY <2>5 DEF Clears
  <2>6. QED BY <1>1, <2>2, <2>3, <2>4, <2>5, TableStep DEF Quiet, Opens
<1>2. RInv /\ [Next]_vars => [P]_vars
  BY <1>1
<1>3. QED BY <1>2, ArchiveInductive, PTL DEF Spec, HistoricImmutable

-----------------------------------------------------------------------------
(* The refinement of RetainedTable                                         *)

Stamps(H) == {GenerationOf(h.key, h) : h \in H}

Active == {GenerationOf(k, live[k]) : k \in LiveKeys}

(* The instance counts as this module does.                                *)
LEMMA SameCardinality == ASSUME NEW S PROVE Retained!Cardinality(S) = Cardinality(S)
BY DEF Retained!Cardinality, Cardinality

(* Rows with one stamp each are as many as their stamps.                   *)
LEMMA StampCount ==
    ASSUME NEW H, IsFiniteSet(H), OneEach(H)
    PROVE  IsFiniteSet(Stamps(H)) /\ Cardinality(Stamps(H)) = Cardinality(H)
<1> DEFINE f == [h \in H |-> GenerationOf(h.key, h)]
<1>1. f \in Surjection(H, Stamps(H))
  BY DEF Surjection, Stamps
<1>2. f \in Injection(H, Stamps(H))
  BY <1>1 DEF Surjection, Injection, IsInjective, OneEach, SameGeneration, GenerationOf
<1>3. QED BY <1>1, <1>2, FS_Surjection

LEMMA TrimmedStamps ==
    ASSUME RInv, NEW R \in SUBSET LiveKeys, NEW now, Retires(R, now)
    PROVE  LET Old == {GenerationOf(k, live[k]) : k \in R}
           IN  Stamps(historic') \in IF KeepHistoric THEN Retained!Trimmed(Stamps(historic) \cup Old)
                                     ELSE {Stamps(historic)}
<1> DEFINE New == {Archived(k, live[k], now) : k \in R}
           H   == IF KeepHistoric THEN historic \cup New ELSE historic
           Old == {GenerationOf(k, live[k]) : k \in R}
<1>1. /\ historic' \in EnforceHistoricLimit(H)
      /\ IsFiniteSet(H) /\ OneEach(H)
      /\ historic' \subseteq H /\ IsFiniteSet(historic') /\ OneEach(historic)'
  BY RetiredRows
<1>2. OneEach(historic')
  BY <1>1 DEF OneEach
<1>3. CASE ~KeepHistoric
  <2>1. historic' = historic
    BY <1>1, <1>3 DEF EnforceHistoricLimit, RInv, Archive
  <2>2. QED BY <1>3, <2>1
<1>4. CASE KeepHistoric
  <2>1. Stamps(H) = Stamps(historic) \cup Old
    <3>1. Stamps(New) = Old
      <4>1. \A k \in R : LET g == Archived(k, live[k], now)
                        IN  GenerationOf(g.key, g) = GenerationOf(k, live[k])
        BY DEF Archived, GenerationOf
      <4>2. QED BY <4>1 DEF Stamps
    <3>2. Stamps(historic \cup New) = Stamps(historic) \cup Stamps(New)
      BY DEF Stamps
    <3>3. QED BY <1>4, <3>1, <3>2
  <2> HIDE DEF H, Old
  <2>2. Cardinality(Stamps(H)) = Cardinality(H)
        /\ Cardinality(Stamps(historic')) = Cardinality(historic')
    BY <1>1, <1>2, StampCount
  <2>3. Stamps(historic') \subseteq Stamps(H)
    BY <1>1 DEF Stamps
  <2>4. Stamps(historic') \in Retained!Trimmed(Stamps(H))
    <3>1. CASE Cardinality(H) <= MaxHistoric
      <4>1. historic' = H
        BY <1>1, <3>1 DEF EnforceHistoricLimit
      <4>2. Retained!Trimmed(Stamps(H)) = {Stamps(H)}
        BY <2>2, <3>1, SameCardinality DEF Retained!Trimmed
      <4>3. QED BY <4>1, <4>2
    <3>2. CASE ~(Cardinality(H) <= MaxHistoric)
      <4>1. Cardinality(historic') = MaxHistoric
        BY <1>1, <3>2 DEF EnforceHistoricLimit
      <4>2. QED BY <2>2, <2>3, <3>2, <4>1, SameCardinality DEF Retained!Trimmed
    <3>3. QED BY <3>1, <3>2
  <2>5. QED BY <1>4, <2>1, <2>4 DEF Old
<1>5. QED BY <1>3, <1>4

(* Each way the table changes is a step of RetainedTable.                  *)
LEMMA RetainedStep ==
    ASSUME Timely, RoomForAll, RInv, [Next]_vars
    PROVE  Retained!Next \/ UNCHANGED Retained!retained
<1> USE DEF Retained!retained
<1>1. CASE Quiet
  <2>1. Active' = Active
    BY <1>1 DEF Quiet, Active, LiveKeys, SameRow, GenerationOf
  <2>2. Stamps(historic)' = Stamps(historic)
    BY <1>1 DEF Quiet, Stamps
  <2>3. QED BY <2>1, <2>2 DEF Active, Stamps
<1>2. ASSUME NEW k \in Keys, Opens(k) PROVE Retained!Next
  <2> DEFINE g == GenerationOf(k, live'[k])
  <2>1. k \notin LiveKeys /\ LiveKeys' = LiveKeys \cup {k}
        /\ \A x \in LiveKeys : live'[x] = live[x]
    BY <1>2 DEF Opens, SameElsewhere, LiveKeys
  <2>2. Active' = Active \cup {g}
    BY <2>1 DEF Active
  <2>3. \A a \in Active : a.key # k
    BY <2>1 DEF Active, GenerationOf
  <2>4. g \in Active' \ Active
    BY <2>2, <2>3 DEF GenerationOf
  <2>5. g \notin Stamps(historic)
    <3>1. ASSUME NEW h \in historic, g = GenerationOf(h.key, h) PROVE FALSE
      <4>1. h.key = k /\ h.at = live'[k].at
        BY <3>1 DEF GenerationOf
      <4>2. h.at \in Nat /\ clock \in Nat /\ MaxLag \in Nat
        BY LimitsAssumption DEF RInv, TInv, IInv, Typed, TypeInv, HistoricRows, Time
      <4>3. h.at + MaxLag < clock
        BY <2>1, <4>1 DEF RInv, Archive, Older
      <4>4. QED BY <1>2, <4>1, <4>2, <4>3 DEF Opens
    <3>2. QED BY <3>1 DEF Stamps
  <2>6. Stamps(historic)' = Stamps(historic)
    BY <1>2 DEF Opens, Stamps
  <2>7. k \notin {a.key : a \in Active} /\ g.key = k
    BY <2>3 DEF GenerationOf
  <2> HIDE DEF g
  <2>8. Retained!Open(g)
    BY <2>2, <2>5, <2>6, <2>7 DEF Retained!Open, Retained!KeysOf, Active, Stamps
  <2>9. QED BY <2>4, <2>8 DEF Retained!Next, Active
<1>3. ASSUME NEW k \in Keys, Splits(k) PROVE Retained!Next
  <2> DEFINE old == GenerationOf(k, live[k])
             new == GenerationOf(k, live'[k])
  <2>1. k \in LiveKeys /\ LiveKeys' = LiveKeys
        /\ \A x \in LiveKeys \ {k} : live'[x] = live[x]
    BY <1>3 DEF Splits, SameElsewhere, LiveKeys
  <2>2. /\ live[k].at \in Nat /\ live[k].ns \in Nat
        /\ CreatedBefore(live[k], live'[k])
    BY <1>3, LiveRow DEF Splits, RInv, TInv, IInv, Typed, Rows, Time
  <2>3. old # new /\ old.key = k /\ new.key = k
    BY <2>2 DEF GenerationOf, CreatedBefore
  <2>4. \A a \in Active : a.key = k => a = old
    BY DEF Active, GenerationOf
  <2>5. old \in Active /\ Active' = (Active \ {old}) \cup {new}
    <3>1. Active = {GenerationOf(x, live[x]) : x \in LiveKeys \ {k}} \cup {old}
      BY <2>1 DEF Active
    <3>2. Active' = {GenerationOf(x, live[x]) : x \in LiveKeys \ {k}} \cup {new}
      BY <2>1 DEF Active
    <3>3. old \notin {GenerationOf(x, live[x]) : x \in LiveKeys \ {k}}
      BY DEF GenerationOf
    <3>4. QED BY <3>1, <3>2, <3>3
  <2>6. new \notin Active
    BY <2>3, <2>4
  <2>7. new \notin Stamps(historic)
    <3>1. ASSUME NEW h \in historic, new = GenerationOf(h.key, h) PROVE FALSE
      <4>1. h.key = k /\ h.at = live'[k].at /\ h.ns = live'[k].ns
        BY <3>1 DEF GenerationOf
      <4>2. h.at \in Nat /\ h.ns \in Nat
        BY DEF RInv, TInv, IInv, Typed, TypeInv, HistoricRows, Time
      <4>3. CreatedBefore(h, live[k])
        BY <2>1, <4>1 DEF RInv, Archive, Older
      <4>4. QED BY <2>2, <4>1, <4>2, <4>3 DEF CreatedBefore
    <3>2. QED BY <3>1 DEF Stamps
  <2>8. Stamps(historic') \in IF KeepHistoric THEN Retained!Trimmed(Stamps(historic) \cup {old})
                              ELSE {Stamps(historic)}
    <3>1. PICK now \in Time : Retires({k}, now)
      BY <1>3 DEF Splits
    <3>2. {k} \in SUBSET LiveKeys
      BY <2>1
    <3>3. {GenerationOf(x, live[x]) : x \in {k}} = {old}
      OBVIOUS
    <3> HIDE DEF old
    <3>4. QED BY <3>1, <3>2, <3>3, TrimmedStamps
  <2>9. {a.key : a \in {old}} = {a.key : a \in {new}}
    BY <2>3
  <2> HIDE DEF old, new
  <2>10. Active \ Active' = {old} /\ Active' \ Active = {new}
    BY <2>3, <2>5, <2>6
  <2>11. Cardinality({new}) = 1
    BY FS_Singleton
  <2>12. Retained!Retire({old}, {new})
    BY <2>3, <2>5, <2>6, <2>7, <2>8, <2>9, <2>11, SameCardinality
       DEF Retained!Retire, Retained!KeysOf, Active, Stamps
  <2>13. Retained!Retire(Active \ Active', Active' \ Active)
    BY <2>10, <2>12
  <2>14. QED BY <2>13 DEF Retained!Next, Active
<1>4. ASSUME NEW R \in SUBSET LiveKeys, TimesOut(R)
      PROVE  Retained!Next \/ UNCHANGED Retained!retained
  <2> DEFINE Old == {GenerationOf(k, live[k]) : k \in R}
  <2>1. LiveKeys' = LiveKeys \ R /\ \A x \in LiveKeys \ R : live'[x] = live[x]
    BY <1>4 DEF TimesOut, SameElsewhere, LiveKeys
  <2>2. Old \subseteq Active /\ Active' = Active \ Old
    <3>1. Active' = {GenerationOf(x, live[x]) : x \in LiveKeys \ R}
      BY <2>1 DEF Active
    <3>2. \A x, y \in LiveKeys : GenerationOf(x, live[x]) = GenerationOf(y, live[y]) => x = y
      BY DEF GenerationOf
    <3>3. QED BY <3>1, <3>2 DEF Active
  <2>3. Stamps(historic') \in IF KeepHistoric THEN Retained!Trimmed(Stamps(historic) \cup Old)
                              ELSE {Stamps(historic)}
    BY <1>4, TrimmedStamps DEF TimesOut
  <2>4. CASE R = {}
    <3>1. Old = {} /\ Active' = Active
      BY <2>2, <2>4
    <3>2. historic' = historic
      <4>1. {Archived(k, live[k], clock) : k \in R} = {}
        BY <2>4
      <4>2. InsertHistoric({}) = historic
        BY DEF InsertHistoric
      <4>3. QED BY <1>4, <4>1, <4>2 DEF TimesOut, Retires, EnforceHistoricLimit, RInv, Archive
    <3>3. QED BY <3>1, <3>2 DEF Active
  <2>5. CASE R # {}
    <3>1. Old # {}
      BY <2>5
    <3> HIDE DEF Old
    <3>2. Active \ Active' = Old /\ Active' \ Active = {}
      BY <2>2
    <3>3. Retained!Retire(Old, {})
      BY <2>2, <2>3, <3>1 DEF Retained!Retire, Active, Stamps
    <3>4. Retained!Retire(Active \ Active', Active' \ Active)
      BY <3>2, <3>3
    <3>5. QED BY <3>4 DEF Retained!Next, Active
  <2>6. QED BY <2>4, <2>5
<1>5. CASE Clears
  <2>1. Active' = {} /\ Stamps(historic)' = {}
    BY <1>5 DEF Clears, Active, Stamps, LiveKeys
  <2>2. QED BY <2>1 DEF Retained!Next, Retained!Empty, Active, Stamps
<1>6. QED BY <1>1, <1>2, <1>3, <1>4, <1>5, TableStep

(* The tracker implements RetainedTable: rows are retired into the archive *)
(* in one step, where only the limit and a clear remove them, and no new   *)
(* row takes the key of an archived one.                                   *)
THEOREM ImplementsRetainedTable ==
    ASSUME Timely, RoomForAll
    PROVE  Spec => KeepsRetainedTable
<1>1. Init => Retained!Init
  BY DEF Init, Retained!Init, LiveKeys
<1>2. RInv /\ [Next]_vars => [Retained!Next]_Retained!retained
  BY RetainedStep
<1>3. QED BY <1>1, <1>2, ArchiveInductive, PTL DEF Spec, KeepsRetainedTable, Retained!Spec
=============================================================================
