--------------------------- MODULE SideTableProofs ---------------------------
(***************************************************************************)
(* Proofs about the two maps beside the table of ConnectionTracker, for    *)
(* every number of workers, keys and ids: a connection id leads to a row,  *)
(* and a tombstone keeps delayed teardown traffic from opening one.        *)
(***************************************************************************)
EXTENDS RetentionProofs

(* Every tuple can have its tombstone: none is evicted before it expires.  *)
TombstonesForAll == Cardinality(Keys) <= MaxTombstones

-----------------------------------------------------------------------------
(* Connection ids                                                          *)

(* A worker past the resolution of its packet's key.                       *)
Resolved(w) == pc[w] \in {"classify", "cap", "entry", "count"}

RoutedByKind == \A w \in Workers : pc[w] # "idle" => (route[w] \in TcpKeys <=> IsTcp(pkt[w].body))

ResolvesOwnKey == \A w \in Workers : pc[w] = "resolve" => route[w] = pkt[w].body.key

MappedToQuic == \A c \in Cids : quic_map[c] # NoKey => quic_map[c] \notin TcpKeys

(* A worker that has yet to resolve its packet may be routed elsewhere, so *)
(* it vouches for no id.                                                   *)
IdsVouched ==
    \A c \in MappedCids(quic_map) :
      \/ quic_map[c] \in LiveKeys
      \/ \E w \in Workers : Resolved(w) /\ route[w] = quic_map[c]

QInv == IInv /\ RoutedByKind /\ ResolvesOwnKey /\ MappedToQuic /\ IdsVouched

(* What every step but the writers' does to the table.                     *)
LEMMA ReaderKeeps ==
    ASSUME IInv, NEW w \in Workers, Ingest(w), ~IngestNewGeneration(w)
    PROVE  LiveKeys \subseteq LiveKeys' /\ clock' = clock /\ historic' = historic /\ tombs' = tombs
<1>1. CASE InsertEntry(w)
  BY <1>1 DEF InsertEntry, LiveKeys, IInv, Typed, TypeInv
<1>2. CASE MergeEntry(w)
  <2> DEFINE k == route[w]
             r == MergeRow(live[k], pkt[w].body, pkt[w].ts)
  <2>1. pc[w] = "entry" /\ live[k] # NoRow /\ live' = [live EXCEPT ![k] = r]
    BY <1>2 DEF MergeEntry
  <2>2. r \in Rows
    BY <2>1, BusyWorker, LiveRow, MergeRowType DEF IInv, Typed
  <2> HIDE DEF r
  <2>3. LiveKeys \subseteq LiveKeys'
    BY <2>1, <2>2, SentinelAssumption DEF LiveKeys, IInv, Typed, TypeInv
  <2>4. QED BY <1>2, <2>3 DEF MergeEntry
<1>3. CASE ~InsertEntry(w) /\ ~MergeEntry(w)
  BY <1>3
     DEF Ingest, BeginIngest, ResolveConnectionKey, IgnoreLate, RequestSplit, PassToActive,
         DropAtCap, PassCap, CountCreated, table, LiveKeys
<1>4. QED BY <1>1, <1>2, <1>3

LEMMA ResolvesNext == ASSUME QInv, [Next]_vars PROVE ResolvesOwnKey'
<1>1. TypeInv
  BY DEF QInv, IInv, Typed
<1>2. ASSUME NEW w \in Workers, BeginIngest(w) PROVE ResolvesOwnKey'
  BY <1>1, <1>2 DEF BeginIngest, ResolvesOwnKey, QInv, TypeInv
<1>3. ASSUME NEW w \in Workers, Ingest(w), ~BeginIngest(w) PROVE ResolvesOwnKey'
  <2>1. \A v \in Workers : pc'[v] = "resolve" => pc[v] = "resolve" /\ route'[v] = route[v] /\ pkt'[v] = pkt[v]
    BY <1>1, <1>3
       DEF Ingest, ResolveConnectionKey, IgnoreLate, RequestSplit, PassToActive, DropAtCap,
           PassCap, MergeEntry, InsertEntry, CountCreated, IngestNewGeneration, Goto, Finish, TypeInv
  <2>2. QED BY <2>1 DEF ResolvesOwnKey, QInv
<1>4. CASE Cleanup \/ Clear \/ Tick \/ UNCHANGED vars
  BY <1>4 DEF Cleanup, Clear, Tick, vars, worker, ResolvesOwnKey, QInv
<1>5. QED BY <1>2, <1>3, <1>4 DEF Next

LEMMA RoutedNext == ASSUME QInv, [Next]_vars PROVE RoutedByKind' /\ MappedToQuic'
<1>1. TypeInv
  BY DEF QInv, IInv, Typed
<1>2. ASSUME NEW w \in Workers, Ingest(w) PROVE RoutedByKind' /\ MappedToQuic'
  <2>1. CASE BeginIngest(w)
    <3>1. PICK p \in Packets, ts \in 0..clock :
            /\ pkt' = [pkt EXCEPT ![w] = [body |-> p, ts |-> ts]]
            /\ route' = [route EXCEPT ![w] = p.key]
            /\ pc' = [pc EXCEPT ![w] = IF HasCid(p) THEN "resolve" ELSE "classify"]
      BY <2>1 DEF BeginIngest
    <3>2. quic_map' = quic_map
      BY <2>1 DEF BeginIngest, table
    <3>3. route'[w] = p.key /\ pkt'[w].body = p
          /\ \A v \in Workers \ {w} : pc'[v] = pc[v] /\ pkt'[v] = pkt[v] /\ route'[v] = route[v]
      BY <1>1, <3>1 DEF TypeInv
    <3>4. QED BY <3>2, <3>3 DEF RoutedByKind, MappedToQuic, QInv, IsTcp
  <2>2. CASE ResolveConnectionKey(w)
    <3> DEFINE p == pkt[w].body
    <3>1. pc[w] = "resolve" /\ pc' = [pc EXCEPT ![w] = "classify"] /\ pkt' = pkt
          /\ IF quic_map[p.id] # NoKey
             THEN route' = [route EXCEPT ![w] = quic_map[p.id]] /\ quic_map' = quic_map
             ELSE quic_map' = Associated(quic_map, p.id, p.key) /\ route' = route
      BY <2>2 DEF ResolveConnectionKey
    <3>2. ~IsTcp(p) /\ p.id \in Cids
      BY <3>1 DEF QInv, IInv, Typed, Busy, HasCid
    <3>3. RoutedByKind'
      BY <1>1, <3>1, <3>2 DEF RoutedByKind, MappedToQuic, QInv, TypeInv, Steps
    <3>4. MappedToQuic'
      BY <1>1, <3>1, <3>2 DEF MappedToQuic, QInv, Associated, IsTcp, TypeInv
    <3>5. QED BY <3>3, <3>4
  <2>3. CASE IngestNewGeneration(w)
    <3> DEFINE k == route[w]
               p == pkt[w].body
               splits == live[k] # NoRow /\ StartsNewGeneration(live[k], p)
               kept == IF splits THEN Unmapped(quic_map, {k}) ELSE quic_map
    <3>1. pc[w] = "split" /\ Finish(w)
          /\ quic_map' = IF HasCid(p) THEN Associated(kept, p.id, k) ELSE kept
      BY <2>3 DEF IngestNewGeneration
    <3>2. \A c \in Cids : kept[c] # NoKey => kept[c] \notin TcpKeys
      BY DEF MappedToQuic, QInv, Unmapped
    <3>3. HasCid(p) => p.id \in Cids /\ k \notin TcpKeys
      BY <3>1 DEF HasCid, QInv, RoutedByKind
    <3>4. kept \in [Cids -> Keys \cup {NoKey}]
      BY <1>1, UnmappedType DEF TypeInv
    <3> HIDE DEF kept
    <3>5. MappedToQuic'
      BY <3>1, <3>2, <3>3, <3>4 DEF MappedToQuic, Associated
    <3>6. RoutedByKind'
      BY <1>1, <3>1 DEF RoutedByKind, QInv, Finish, TypeInv
    <3>7. QED BY <3>5, <3>6
  <2>4. CASE ~BeginIngest(w) /\ ~ResolveConnectionKey(w) /\ ~IngestNewGeneration(w)
    <3>1. quic_map' = quic_map
      BY <1>2, <2>4
         DEF Ingest, IgnoreLate, RequestSplit, PassToActive, DropAtCap, PassCap, MergeEntry,
             InsertEntry, CountCreated, table
    <3>2. pc[w] # "idle"
      BY <1>2, <2>4
         DEF Ingest, IgnoreLate, RequestSplit, PassToActive, DropAtCap, PassCap, MergeEntry,
             InsertEntry, CountCreated
    <3>3. Finish(w) \/ \E step \in Steps : Goto(w, step)
      BY <1>2, <2>4
         DEF Ingest, IgnoreLate, RequestSplit, PassToActive, DropAtCap, PassCap, MergeEntry,
             InsertEntry, CountCreated, Steps
    <3>4. RoutedByKind'
      BY <1>1, <3>2, <3>3 DEF RoutedByKind, QInv, Finish, Goto, TypeInv
    <3>5. QED BY <3>1, <3>4 DEF MappedToQuic, QInv
  <2>5. QED BY <2>1, <2>2, <2>3, <2>4
<1>3. CASE Cleanup
  <2>1. UNCHANGED worker /\ \E K : quic_map' = Unmapped(quic_map, K)
    BY <1>3 DEF Cleanup
  <2>2. QED BY <2>1 DEF worker, RoutedByKind, MappedToQuic, QInv, Unmapped
<1>4. CASE Clear
  BY <1>4 DEF Clear, worker, RoutedByKind, MappedToQuic, QInv
<1>5. CASE Tick \/ UNCHANGED vars
  BY <1>5 DEF Tick, vars, table, worker, RoutedByKind, MappedToQuic, QInv
<1>6. QED BY <1>2, <1>3, <1>4, <1>5 DEF Next

(* A worker leaves a key only with its row in the table.                   *)
LEMMA ReaderVouches ==
    ASSUME RoomForAll, QInv, NEW w \in Workers, Ingest(w), ~IngestNewGeneration(w),
           quic_map' = quic_map
    PROVE  IdsVouched'
<1>1. TypeInv /\ LiveKeys \subseteq LiveKeys'
  BY ReaderKeeps DEF QInv, IInv, Typed
<1>2. Resolved(w) => route[w] \in LiveKeys' \/ (Resolved(w)' /\ route'[w] = route[w])
                     \/ IsTcp(pkt[w].body)
  <2> SUFFICES ASSUME Resolved(w), ~IsTcp(pkt[w].body)
               PROVE  route[w] \in LiveKeys' \/ (Resolved(w)' /\ route'[w] = route[w])
    OBVIOUS
  <2>1. route[w] \in Keys
    BY BusyWorker DEF Resolved, QInv, IInv
  <2>2. CASE PassToActive(w) \/ PassCap(w) \/ InsertEntry(w)
    BY <1>1, <2>2 DEF PassToActive, PassCap, InsertEntry, Goto, TypeInv, Resolved
  <2>3. CASE RequestSplit(w) \/ MergeEntry(w)
    BY <1>1, <2>1, <2>3 DEF RequestSplit, MergeEntry, LiveKeys
  <2>4. CASE IgnoreLate(w)
    BY <2>4 DEF IgnoreLate, IsRecentLatePacket, TeardownOnly
  <2>5. CASE DropAtCap(w)
    <3>1. live[route[w]] = NoRow /\ active_count >= MaxConnections /\ active_count \in Int
      BY <1>1, <2>5 DEF DropAtCap, AtCap, TypeInv
    <3>2. QED BY <2>1, <3>1, NeverDropped, LimitsAssumption DEF QInv
  <2>6. CASE CountCreated(w)
    BY <1>1, <2>6 DEF CountCreated, QInv, IInv, Accounting, OwedRows, Owing
  <2>7. CASE BeginIngest(w) \/ ResolveConnectionKey(w)
    BY <2>7 DEF BeginIngest, ResolveConnectionKey, Resolved
  <2>8. QED BY <2>2, <2>3, <2>4, <2>5, <2>6, <2>7 DEF Ingest
<1>3. \A v \in Workers \ {w} : pc'[v] = pc[v] /\ route'[v] = route[v]
  BY <1>1
     DEF Ingest, BeginIngest, ResolveConnectionKey, IgnoreLate, RequestSplit, PassToActive,
         DropAtCap, PassCap, MergeEntry, InsertEntry, CountCreated, Goto, Finish, TypeInv
<1>4. IsTcp(pkt[w].body) /\ Resolved(w) => route[w] \in TcpKeys
  BY DEF QInv, RoutedByKind, Resolved
<1>5. ASSUME NEW c \in Cids, quic_map[c] # NoKey
      PROVE  \/ quic_map[c] \in LiveKeys'
             \/ \E v \in Workers : Resolved(v)' /\ route'[v] = quic_map[c]
  <2>1. quic_map[c] \notin TcpKeys
    BY <1>5 DEF QInv, MappedToQuic
  <2>2. quic_map[c] \in LiveKeys \/ \E v \in Workers : Resolved(v) /\ route[v] = quic_map[c]
    BY <1>5 DEF QInv, IdsVouched, MappedCids
  <2>3. QED BY <1>1, <1>2, <1>3, <1>4, <2>1, <2>2 DEF Resolved
<1>6. QED BY <1>5 DEF IdsVouched, MappedCids

LEMMA ResolveVouches ==
    ASSUME QInv, NEW w \in Workers, ResolveConnectionKey(w)
    PROVE  IdsVouched'
<1> DEFINE p == pkt[w].body
<1>1. TypeInv
  BY DEF QInv, IInv, Typed
<1>2. pc[w] = "resolve" /\ pc' = [pc EXCEPT ![w] = "classify"] /\ live' = live
      /\ IF quic_map[p.id] # NoKey
         THEN route' = [route EXCEPT ![w] = quic_map[p.id]] /\ quic_map' = quic_map
         ELSE quic_map' = Associated(quic_map, p.id, p.key) /\ route' = route
  BY DEF ResolveConnectionKey
<1>3. LiveKeys' = LiveKeys
  BY <1>2 DEF LiveKeys
<1>4. \A v \in Workers : Resolved(v) => Resolved(v)' /\ route'[v] = route[v]
  BY <1>1, <1>2 DEF Resolved, TypeInv
<1>5. CASE quic_map' = quic_map
  BY <1>3, <1>4, <1>5 DEF QInv, IdsVouched, MappedCids
<1>6. CASE quic_map' = Associated(quic_map, p.id, p.key) /\ route' = route
  <2>1. Resolved(w)'
    BY <1>1, <1>2 DEF Resolved, TypeInv
  <2>2. \A c \in Cids : quic_map'[c] \in {p.key, quic_map[c], NoKey}
    BY <1>1, <1>6 DEF Associated, TypeInv
  <2>3. route[w] = p.key
    BY <1>2 DEF QInv, ResolvesOwnKey
  <2>4. QED BY <1>3, <1>4, <1>6, <2>1, <2>2, <2>3 DEF QInv, IdsVouched, MappedCids
<1>7. QED BY <1>2, <1>5, <1>6

(* A split leaves the row of its packet in the table, and no other out.    *)
LEMMA NewGenerationLive ==
    ASSUME RoomForAll, IInv, NEW w \in Workers, IngestNewGeneration(w)
    PROVE  LiveKeys \cup {route[w]} \subseteq LiveKeys'
<1> DEFINE k      == route[w]
           p      == pkt[w].body
           ts     == pkt[w].ts
           old    == live[k]
           splits == old # NoRow /\ StartsNewGeneration(old, p)
           base   == IF splits THEN NoRow ELSE old
           bumped == splits /\ ts <= old.at
           count  == IF splits THEN active_count - 1 ELSE active_count
           drops  == base = NoRow /\ count >= MaxConnections
           row    == IF drops THEN NoRow
                     ELSE IF base # NoRow THEN MergeRow(base, p, ts)
                     ELSE IF bumped THEN CreateRow(p, old.at, old.ns + 1)
                     ELSE CreateRow(p, ts, 0)
<1>1. pc[w] = "split" /\ live' = [live EXCEPT ![k] = row]
  BY DEF IngestNewGeneration
<1>2. p \in Bodies /\ ts \in Time /\ k \in Keys
  BY <1>1, BusyWorker DEF IInv
<1>3. old # NoRow => old \in Rows /\ old.at \in Time /\ old.ns + 1 \in Nat
  BY <1>2, LiveRow DEF IInv, Typed, Rows
<1>4. ~drops
  <2>1. active_count \in Int /\ MaxConnections \in Nat
    BY LimitsAssumption DEF IInv, Typed, TypeInv
  <2>2. (old # NoRow => active_count - 1 < MaxConnections)
        /\ (old = NoRow => active_count < MaxConnections)
    BY <1>2, NeverDropped
  <2>3. QED BY <2>1, <2>2
<1>5. row \in Rows
  BY <1>2, <1>3, <1>4, CreateRowType, MergeRowType
<1> HIDE DEF row
<1>6. QED BY <1>1, <1>2, <1>5, SentinelAssumption DEF LiveKeys, IInv, Typed, TypeInv

(* A writer finds nobody under the guard, so every id leads to a row.      *)
LEMMA WriterVouches ==
    ASSUME RoomForAll, QInv, [Next]_vars, WriteGuardFree,
           Cleanup \/ Clear \/ \E w \in Workers : IngestNewGeneration(w)
    PROVE  IdsVouched'
<1>1. \A c \in Cids : quic_map[c] # NoKey => quic_map[c] \in LiveKeys
  BY DEF WriteGuardFree, InGuard, QInv, IdsVouched, Resolved, MappedCids
<1>2. TypeInv
  BY DEF QInv, IInv, Typed
<1>3. CASE Cleanup
  <2>1. PICK R : /\ live' = [k \in Keys |-> IF k \in R THEN NoRow ELSE live[k]]
                 /\ quic_map' = Unmapped(quic_map, R)
    BY <1>3 DEF Cleanup
  <2>2. \A c \in Cids : quic_map'[c] # NoKey => quic_map'[c] = quic_map[c] /\ quic_map[c] \notin R
    BY <2>1 DEF Unmapped
  <2>3. \A k \in LiveKeys : k \notin R => k \in LiveKeys'
    BY <2>1 DEF LiveKeys
  <2>4. QED BY <1>1, <2>2, <2>3 DEF IdsVouched, MappedCids
<1>4. CASE Clear
  BY <1>4 DEF Clear, IdsVouched, MappedCids
<1>5. ASSUME NEW w \in Workers, IngestNewGeneration(w) PROVE IdsVouched'
  <2> DEFINE k == route[w]
             p == pkt[w].body
             splits == live[k] # NoRow /\ StartsNewGeneration(live[k], p)
             kept == IF splits THEN Unmapped(quic_map, {k}) ELSE quic_map
  <2>1. pc[w] = "split" /\ quic_map' = IF HasCid(p) THEN Associated(kept, p.id, k) ELSE kept
    BY <1>5 DEF IngestNewGeneration
  <2>2. LiveKeys \cup {k} \subseteq LiveKeys'
    BY <1>5, NewGenerationLive DEF QInv
  <2>3. kept \in [Cids -> Keys \cup {NoKey}] /\ \A c \in Cids : kept[c] \in {quic_map[c], NoKey}
    BY <1>2, UnmappedType DEF TypeInv, Unmapped
  <2> HIDE DEF kept
  <2>4. \A c \in Cids : quic_map'[c] \in {k, quic_map[c], NoKey}
    BY <2>1, <2>3 DEF Associated
  <2>5. QED BY <1>1, <2>2, <2>4 DEF IdsVouched, MappedCids
<1>6. QED BY <1>3, <1>4, <1>5

LEMMA QInvNext == ASSUME RoomForAll PROVE QInv /\ [Next]_vars => QInv'
<1> SUFFICES ASSUME QInv, [Next]_vars PROVE IdsVouched'
  BY IInvNext, RoutedNext, ResolvesNext DEF QInv
<1>1. ASSUME NEW w \in Workers, Ingest(w), ~IngestNewGeneration(w) PROVE IdsVouched'
  <2>1. CASE ResolveConnectionKey(w)
    BY <2>1, ResolveVouches
  <2>2. CASE ~ResolveConnectionKey(w)
    <3>1. quic_map' = quic_map
      BY <1>1, <2>2
         DEF Ingest, BeginIngest, IgnoreLate, RequestSplit, PassToActive, DropAtCap, PassCap,
             MergeEntry, InsertEntry, CountCreated, table
    <3>2. QED BY <1>1, <3>1, ReaderVouches
  <2>3. QED BY <2>1, <2>2
<1>2. CASE Cleanup \/ Clear \/ \E w \in Workers : IngestNewGeneration(w)
  <2>1. WriteGuardFree
    BY <1>2 DEF Cleanup, Clear, IngestNewGeneration
  <2>2. QED BY <1>2, <2>1, WriterVouches
<1>3. CASE Tick \/ UNCHANGED vars
  BY <1>3 DEF Tick, vars, table, worker, QInv, IdsVouched, MappedCids, LiveKeys, Resolved
<1>4. QED BY <1>1, <1>2, <1>3 DEF Next

(* A connection id always leads to the tuple of a live row, or of one a    *)
(* worker is about to create: no step that removes a row leaves an id that *)
(* leads to its tuple.                                                     *)
THEOREM IdsLeadToRows ==
    ASSUME RoomForAll
    PROVE  Spec => []IdsRouteToRows
<1>1. Init => QInv
  <2> SUFFICES ASSUME Init PROVE QInv
    OBVIOUS
  <2>1. IInv
    BY TypedInit, AccountingInit DEF IInv
  <2>2. QED
    BY <2>1 DEF Init, QInv, RoutedByKind, ResolvesOwnKey, MappedToQuic, IdsVouched, MappedCids
<1>2. QInv /\ [Next]_vars => QInv'
  BY QInvNext
<1>3. QInv => IdsRouteToRows
  BY DEF QInv, IdsVouched, IdsRouteToRows, Resolved, InGuard
<1>4. QED BY <1>1, <1>2, <1>3, PTL DEF Spec

-----------------------------------------------------------------------------
(* Tombstones                                                              *)

(* A closed generation whose teardown traffic may still be on its way.     *)
Recent(h) == IsTerminal(h.state) /\ IsRecent(clock + MaxLag, h.closed)

Covers(T, h) == T[h.key] # NoTime /\ h.closed <= T[h.key] + MaxLag

Tombed ==
    \A h \in historic : h.closed <= clock /\ (Recent(h) => Covers(tombs, h))

(* A teardown packet that has passed the tombstone found none it needed.   *)
Waiting ==
    \A w \in Workers :
      pc[w] \in {"cap", "entry"} /\ TeardownOnly(pkt[w].body) /\ live[route[w]] = NoRow
        => \A h \in historic : h.key = route[w] => ~Recent(h)

NeverSplits == \A w \in Workers : pc[w] = "split" => ~TeardownOnly(pkt[w].body)

PInv == IInv /\ InHand /\ NeverSplits /\ Tombed /\ Waiting

(* What has expired for a packet or a sweep has expired on the wall clock. *)
LEMMA Stale ==
    ASSUME NEW now \in Nat, NEW t \in Nat, NEW c \in Nat, clock \in Nat,
           now <= clock, c <= t + MaxLag, ~IsRecent(now, t)
    PROVE  ~IsRecent(clock + MaxLag, c)
<1>1. MaxLag \in Nat /\ TickSeconds \in Nat
  BY LimitsAssumption
<1> DEFINE a == Age(now, t)
           b == Age(clock + MaxLag, c)
<1>2. a \in Nat /\ b \in Nat
  BY <1>1 DEF Age
<1>3. a * TickSeconds \in Nat /\ b * TickSeconds \in Nat
  BY <1>1, <1>2
<1>4. a * TickSeconds > 30
  BY <1>3 DEF IsRecent, TombstoneSeconds
<1>5. a <= b
  <2>1. CASE now > t
    BY <1>1, <2>1 DEF Age
  <2>2. CASE ~(now > t)
    BY <1>2, <2>2 DEF Age
  <2>3. QED BY <2>1, <2>2
<1>6. a * TickSeconds <= b * TickSeconds
  BY <1>1, <1>2, <1>5, Longer
<1> HIDE DEF a
<1>7. b * TickSeconds > 30
  BY <1>3, <1>4, <1>6
<1>8. QED BY <1>3, <1>7 DEF IsRecent, TombstoneSeconds

LEMMA Ageing ==
    ASSUME NEW c \in Nat, clock \in Nat, IsRecent(clock + 1 + MaxLag, c)
    PROVE  IsRecent(clock + MaxLag, c)
<1>1. MaxLag \in Nat /\ TickSeconds \in Nat
  BY LimitsAssumption
<1> DEFINE a == Age(clock + MaxLag, c)
           b == Age(clock + 1 + MaxLag, c)
<1>2. a \in Nat /\ b \in Nat /\ a <= b
  BY <1>1 DEF Age
<1>3. a * TickSeconds \in Nat /\ b * TickSeconds \in Nat /\ a * TickSeconds <= b * TickSeconds
  BY <1>1, <1>2, Longer
<1>4. b * TickSeconds <= 30
  BY DEF IsRecent, TombstoneSeconds
<1> HIDE DEF b
<1>5. a * TickSeconds <= 30
  BY <1>3, <1>4
<1>6. QED BY <1>5 DEF IsRecent, TombstoneSeconds

(* Expiry is all that takes a tombstone away.                              *)
LEMMA PruneKeeps ==
    ASSUME TombstonesForAll, NEW T, NEW now, NEW U \in PruneRecentlyClosed(T, now), NEW x \in Keys
    PROVE  U[x] = IF T[x] # NoTime /\ IsRecent(now, T[x]) THEN T[x] ELSE NoTime
<1> DEFINE fresh   == {k \in Keys : T[k] # NoTime /\ IsRecent(now, T[k])}
           Only(K) == [k \in Keys |-> IF k \in K THEN T[k] ELSE NoTime]
<1>1. Cardinality(fresh) <= MaxTombstones
  <2>1. fresh \in SUBSET Keys
    OBVIOUS
  <2> HIDE DEF fresh
  <2>2. Cardinality(fresh) \in Nat /\ Cardinality(Keys) \in Nat
        /\ Cardinality(fresh) <= Cardinality(Keys)
    BY <2>1, KeysFinite, FS_Subset, FS_CardinalityType
  <2>3. QED BY <2>2, LimitsAssumption DEF TombstonesForAll
<1>2. U = Only(fresh)
  BY <1>1 DEF PruneRecentlyClosed
<1>3. QED BY <1>2

LEMMA StillCovered ==
    ASSUME TombstonesForAll, clock \in Nat, NEW now \in Nat, now <= clock,
           NEW T \in [Keys -> Time \cup {NoTime}], NEW U \in PruneRecentlyClosed(T, now),
           NEW h \in HistoricRows, Recent(h), Covers(T, h)
    PROVE  Covers(U, h)
<1>1. h.key \in Keys /\ h.closed \in Nat
  BY DEF HistoricRows, Time
<1>2. T[h.key] \in Nat
  BY <1>1 DEF Covers, Time
<1>3. IsRecent(now, T[h.key])
  BY <1>1, <1>2, Stale DEF Recent, Covers
<1>4. U[h.key] = T[h.key]
  BY <1>1, <1>3, PruneKeeps DEF Covers
<1>5. QED BY <1>4 DEF Covers

(* Retiring the rows of K at `now` leaves every recent one covered.        *)
LEMMA RetireTombed ==
    ASSUME TombstonesForAll, PInv, clock' = clock,
           NEW now \in Nat, now <= clock, clock <= now + MaxLag,
           NEW K \in SUBSET LiveKeys,
           tombs' \in PruneRecentlyClosed(RecordRecentlyClosed(K, now), now),
           historic' \subseteq historic \cup {Archived(k, live[k], now) : k \in K}
    PROVE  Tombed'
<1> DEFINE T == RecordRecentlyClosed(K, now)
<1>1. TypeInv /\ clock \in Nat /\ MaxLag \in Nat
  BY LimitsAssumption DEF PInv, IInv, Typed, TypeInv, Time
<1>2. T \in [Keys -> Time \cup {NoTime}]
  BY <1>1, RecordType DEF TypeInv, Time
<1>3. ASSUME NEW h \in historic \cup {Archived(k, live[k], now) : k \in K}
      PROVE  /\ h \in HistoricRows /\ h.closed <= clock
             /\ Recent(h) => Covers(T, h)
  <2>1. CASE h \in historic
    <3>1. h \in HistoricRows /\ h.closed <= clock /\ (Recent(h) => Covers(tombs, h))
      BY <1>1, <2>1 DEF TypeInv, PInv, Tombed
    <3>2. h.key \in Keys /\ h.closed \in Nat
      BY <3>1 DEF HistoricRows, Time
    <3>3. T[h.key] = tombs[h.key] \/ T[h.key] = now
      BY <3>2 DEF RecordRecentlyClosed
    <3>4. Recent(h) => Covers(T, h)
      BY <1>1, <3>1, <3>2, <3>3 DEF Covers, NoTime
    <3>5. QED BY <3>1, <3>4
  <2>2. CASE h \in {Archived(k, live[k], now) : k \in K}
    <3>1. PICK k \in K : h = Archived(k, live[k], now)
      BY <2>2
    <3>2. k \in Keys /\ live[k] \in Rows
      BY <1>1, LiveRow DEF LiveKeys
    <3>3. h \in HistoricRows
      BY <3>1, <3>2, ArchivedType DEF Time
    <3>4. h.key = k /\ h.closed = now /\ h.state = live[k].state
      BY <3>1 DEF Archived
    <3>5. Recent(h) => T[k] = now
      BY <3>2, <3>4 DEF Recent, RecordRecentlyClosed
    <3>6. Recent(h) => Covers(T, h)
      BY <1>1, <3>4, <3>5 DEF Covers, NoTime
    <3>7. QED BY <3>3, <3>4, <3>6
  <2>3. QED BY <2>1, <2>2
<1> HIDE DEF T
<1>4. ASSUME NEW h \in historic', Recent(h) PROVE Covers(tombs', h)
  BY <1>1, <1>2, <1>3, <1>4, StillCovered DEF T
<1>5. ASSUME NEW h \in historic' PROVE h.closed <= clock' /\ (Recent(h)' => Covers(tombs, h)')
  <2>1. h.closed <= clock'
    BY <1>3
  <2>2. Recent(h)' => Recent(h)
    BY DEF Recent
  <2>3. QED BY <1>4, <2>1, <2>2 DEF Covers
<1>6. QED BY <1>5 DEF Tombed

LEMMA TombedNext == ASSUME TombstonesForAll, PInv, [Next]_vars PROVE Tombed'
<1>1. TypeInv /\ clock \in Nat /\ MaxLag \in Nat
  BY LimitsAssumption DEF PInv, IInv, Typed, TypeInv, Time
<1>2. ASSUME NEW w \in Workers, IngestNewGeneration(w) PROVE Tombed'
  <2> DEFINE k      == route[w]
             p      == pkt[w].body
             ts     == pkt[w].ts
             splits == live[k] # NoRow /\ StartsNewGeneration(live[k], p)
             K      == IF splits THEN {k} ELSE {}
  <2>1. /\ pc[w] = "split" /\ clock' = clock
        /\ historic' \in EnforceHistoricLimit(
             IF splits /\ KeepHistoric THEN InsertHistoric({Archived(k, live[k], ts)}) ELSE historic)
        /\ tombs' \in PruneRecentlyClosed(
             IF splits THEN RecordRecentlyClosed({k}, ts) ELSE tombs, ts)
    BY <1>2 DEF IngestNewGeneration
  <2>2. k \in Keys /\ ts \in Nat /\ ts <= clock /\ clock <= ts + MaxLag
    BY <1>1, <2>1, BusyWorker DEF PInv, IInv, InHand, Time
  <2>3. K \in SUBSET LiveKeys
    BY <2>2 DEF LiveKeys
  <2>4. tombs' \in PruneRecentlyClosed(RecordRecentlyClosed(K, ts), ts)
    <3>1. RecordRecentlyClosed({}, ts) = tombs
      BY <1>1 DEF RecordRecentlyClosed, TypeInv
    <3>2. QED BY <2>1, <3>1
  <2>5. historic' \subseteq historic \cup {Archived(x, live[x], ts) : x \in K}
    BY <2>1 DEF EnforceHistoricLimit, InsertHistoric
  <2> HIDE DEF K
  <2>6. QED BY <2>1, <2>2, <2>3, <2>4, <2>5, RetireTombed
<1>3. CASE Cleanup
  <2> DEFINE removed == {k \in LiveKeys : ShouldCleanup(live[k], clock)}
  <2>1. /\ clock' = clock
        /\ historic' \in
             IF KeepHistoric
             THEN EnforceHistoricLimit(InsertHistoric({Archived(k, live[k], clock) : k \in removed}))
             ELSE {historic}
        /\ tombs' \in PruneRecentlyClosed(RecordRecentlyClosed(removed, clock), clock)
    BY <1>3 DEF Cleanup
  <2>2. removed \in SUBSET LiveKeys
    OBVIOUS
  <2> HIDE DEF removed
  <2>3. historic' \subseteq historic \cup {Archived(k, live[k], clock) : k \in removed}
    BY <2>1 DEF EnforceHistoricLimit, InsertHistoric
  <2>4. QED BY <1>1, <2>1, <2>2, <2>3, RetireTombed
<1>4. CASE Clear
  BY <1>4 DEF Clear, Tombed
<1>5. ASSUME NEW w \in Workers, Ingest(w), ~IngestNewGeneration(w) PROVE Tombed'
  <2>1. clock' = clock /\ historic' = historic /\ tombs' = tombs
    BY <1>5, ReaderKeeps DEF PInv
  <2>2. QED BY <2>1 DEF PInv, Tombed, Recent, Covers
<1>6. CASE Tick
  <2>1. clock' = clock + 1 /\ historic' = historic /\ tombs' = tombs
    BY <1>6 DEF Tick, table
  <2>2. ASSUME NEW h \in historic PROVE h.closed <= clock' /\ (Recent(h)' => Covers(tombs, h)')
    <3>1. h.closed \in Nat /\ h.closed <= clock /\ (Recent(h) => Covers(tombs, h))
      BY <1>1 DEF TypeInv, HistoricRows, Time, PInv, Tombed
    <3>2. Recent(h)' => Recent(h)
      BY <1>1, <2>1, <3>1, Ageing DEF Recent
    <3>3. QED BY <1>1, <2>1, <3>1, <3>2 DEF Covers
  <2>3. QED BY <2>1, <2>2 DEF Tombed
<1>7. CASE UNCHANGED vars
  BY <1>7 DEF vars, table, PInv, Tombed, Recent, Covers
<1>8. QED BY <1>2, <1>3, <1>4, <1>5, <1>6, <1>7 DEF Next

LEMMA NeverSplitsNext == ASSUME PInv, [Next]_vars PROVE NeverSplits'
<1>1. TypeInv
  BY DEF PInv, IInv, Typed
<1>2. ASSUME NEW w \in Workers, RequestSplit(w) PROVE NeverSplits'
  <2>1. StartsNewGeneration(live[route[w]], pkt[w].body) /\ Goto(w, "split")
    BY <1>2 DEF RequestSplit
  <2>2. ~TeardownOnly(pkt[w].body)
    BY <2>1 DEF StartsNewGeneration, TeardownOnly
  <2>3. QED BY <1>1, <2>1, <2>2 DEF Goto, NeverSplits, PInv, TypeInv
<1>3. ASSUME NEW w \in Workers, Ingest(w), ~RequestSplit(w) PROVE NeverSplits'
  <2>1. \A v \in Workers : pc'[v] = "split" => pc[v] = "split" /\ pkt'[v] = pkt[v]
    BY <1>1, <1>3
       DEF Ingest, BeginIngest, ResolveConnectionKey, IgnoreLate, PassToActive, DropAtCap,
           PassCap, MergeEntry, InsertEntry, CountCreated, IngestNewGeneration, Goto, Finish, TypeInv
  <2>2. QED BY <2>1 DEF NeverSplits, PInv
<1>4. CASE Cleanup \/ Clear \/ Tick \/ UNCHANGED vars
  BY <1>4 DEF Cleanup, Clear, Tick, vars, worker, NeverSplits, PInv
<1>5. QED BY <1>2, <1>3, <1>4 DEF Next

LEMMA WaitingNext == ASSUME PInv, [Next]_vars PROVE Waiting'
<1>1. TypeInv /\ clock \in Nat /\ MaxLag \in Nat
  BY LimitsAssumption DEF PInv, IInv, Typed, TypeInv, Time
<1>2. ASSUME NEW w \in Workers, PassToActive(w) PROVE Waiting'
  <2>1. /\ pc[w] = "classify" /\ Goto(w, "cap") /\ live' = live /\ historic' = historic
        /\ clock' = clock
        /\ live[route[w]] = NoRow => ~IsRecentLatePacket(route[w], pkt[w].body, pkt[w].ts)
    BY <1>2 DEF PassToActive, table
  <2>2. ASSUME TeardownOnly(pkt[w].body), live[route[w]] = NoRow,
               NEW h \in historic, h.key = route[w], Recent(h)
        PROVE  FALSE
    <3>1. Covers(tombs, h) /\ h.closed \in Nat /\ h.key \in Keys
      BY <1>1, <2>2 DEF PInv, Tombed, TypeInv, HistoricRows, Time
    <3>2. tombs[h.key] \in Nat
      BY <1>1, <3>1 DEF TypeInv, Covers, Time
    <3>3. pkt[w].ts \in Nat /\ pkt[w].ts <= clock
      BY <2>1, BusyWorker DEF PInv, IInv, InHand, Time
    <3>4. ~IsRecent(pkt[w].ts, tombs[h.key])
      BY <2>1, <2>2, <3>1 DEF IsRecentLatePacket, Covers
    <3>5. ~IsRecent(clock + MaxLag, h.closed)
      BY <1>1, <3>1, <3>2, <3>3, <3>4, Stale DEF Covers
    <3>6. QED BY <2>2, <3>5 DEF Recent
  <2>3. QED BY <1>1, <2>1, <2>2 DEF Waiting, PInv, Goto, Recent, TypeInv
<1>3. ASSUME NEW w \in Workers, Ingest(w), ~PassToActive(w), ~IngestNewGeneration(w)
      PROVE  Waiting'
  <2>1. LiveKeys \subseteq LiveKeys' /\ clock' = clock /\ historic' = historic
    BY <1>3, ReaderKeeps DEF PInv
  <2>2. \A v \in Workers : pc'[v] \in {"cap", "entry"}
           => pc[v] \in {"cap", "entry"} /\ pkt'[v] = pkt[v] /\ route'[v] = route[v]
    BY <1>1, <1>3
       DEF Ingest, BeginIngest, ResolveConnectionKey, IgnoreLate, RequestSplit, DropAtCap,
           PassCap, MergeEntry, InsertEntry, CountCreated, Goto, Finish, TypeInv
  <2>3. ASSUME NEW v \in Workers, pc'[v] \in {"cap", "entry"}, live'[route[v]] = NoRow
        PROVE  live[route[v]] = NoRow
    <3>1. route[v] \in Keys
      BY <2>2, <2>3, BusyWorker DEF PInv, IInv
    <3>2. QED BY <2>1, <2>3, <3>1 DEF LiveKeys
  <2>4. QED BY <2>1, <2>2, <2>3 DEF Waiting, PInv, Recent
<1>4. CASE Cleanup \/ Clear \/ \E w \in Workers : IngestNewGeneration(w)
  <2>1. WriteGuardFree
    BY <1>4 DEF Cleanup, Clear, IngestNewGeneration
  <2>2. \A v \in Workers : pc'[v] \notin {"cap", "entry"}
    BY <1>1, <1>4, <2>1
       DEF Cleanup, Clear, IngestNewGeneration, Finish, worker, WriteGuardFree, InGuard, TypeInv
  <2>3. QED BY <2>2 DEF Waiting
<1>5. CASE Tick
  <2>1. clock' = clock + 1 /\ UNCHANGED <<table, worker>>
    BY <1>5 DEF Tick
  <2>2. \A h \in historic : Recent(h)' => Recent(h)
    BY <1>1, <2>1, Ageing DEF Recent, TypeInv, HistoricRows, Time
  <2>3. QED BY <2>1, <2>2 DEF table, worker, Waiting, PInv
<1>6. CASE UNCHANGED vars
  BY <1>6 DEF vars, table, worker, Waiting, PInv, Recent
<1>7. QED BY <1>2, <1>3, <1>4, <1>5, <1>6 DEF Next

(* No delayed teardown packet opens a row while a generation of its tuple  *)
(* that closed a short time ago is still archived, however the workers,    *)
(* the cleanup and the splits overtake each other.                         *)
THEOREM NoPhantom ==
    ASSUME TombstonesForAll
    PROVE  Spec => NoPhantomRow
<1> DEFINE P(w) == LET k == route[w]
                   IN  (pkt[w] # NoPacket /\ TeardownOnly(pkt[w].body) /\ pc[w] # "idle"
                          /\ pc'[w] # pc[w] /\ live[k] = NoRow /\ live'[k] # NoRow)
                       => \A h \in historic : h.key = k /\ IsTerminal(h.state)
                                                => ~IsRecent(clock + MaxLag, h.closed)
<1>1. Init => PInv
  <2> SUFFICES ASSUME Init PROVE PInv
    OBVIOUS
  <2>1. IInv
    BY TypedInit, AccountingInit DEF IInv
  <2>2. QED BY <2>1 DEF Init, PInv, InHand, NeverSplits, Tombed, Waiting
<1>2. PInv /\ [Next]_vars => PInv'
  <2> SUFFICES ASSUME PInv, [Next]_vars PROVE PInv'
    OBVIOUS
  <2>1. IInv'
    BY IInvNext DEF PInv
  <2>2. InHand'
    BY InHandNext DEF PInv
  <2>3. QED BY <2>1, <2>2, NeverSplitsNext, TombedNext, WaitingNext DEF PInv
<1>3. ASSUME PInv, [Next]_vars, NEW w \in Workers PROVE P(w)
  <2> SUFFICES ASSUME TeardownOnly(pkt[w].body), pc[w] # "idle", pc'[w] # pc[w],
                      live[route[w]] = NoRow, live'[route[w]] # NoRow,
                      NEW h \in historic, h.key = route[w], Recent(h)
               PROVE  FALSE
    BY DEF Recent
  <2>1. TypeInv /\ route[w] \in Keys
    BY <1>3, BusyWorker DEF PInv, IInv, Typed
  <2>2. \A v \in Workers : Ingest(v) => v = w
    BY <2>1 DEF Ingest, BeginIngest, ResolveConnectionKey, IgnoreLate, RequestSplit, PassToActive,
           DropAtCap, PassCap, MergeEntry, InsertEntry, CountCreated, IngestNewGeneration, Goto,
           Finish, TypeInv
  <2>3. Ingest(w)
    BY <1>3, <2>2 DEF Next, Cleanup, Clear, Tick, vars, worker
  <2>4. InsertEntry(w) \/ IngestNewGeneration(w)
    BY <2>3
       DEF Ingest, BeginIngest, ResolveConnectionKey, IgnoreLate, RequestSplit, PassToActive,
           DropAtCap, PassCap, MergeEntry, CountCreated, table
  <2>5. CASE InsertEntry(w)
    BY <1>3, <2>5 DEF InsertEntry, PInv, Waiting
  <2>6. CASE IngestNewGeneration(w)
    BY <1>3, <2>6 DEF IngestNewGeneration, PInv, NeverSplits
  <2>7. QED BY <2>4, <2>5, <2>6
<1>4. PInv /\ [Next]_vars => [\A w \in Workers : P(w)]_vars
  BY <1>3
<1>5. QED BY <1>1, <1>2, <1>4, PTL DEF Spec, NoPhantomRow
=============================================================================
