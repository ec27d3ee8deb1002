----------------------- MODULE ConnectionTrackerProofs -----------------------
(***************************************************************************)
(* Proofs about ConnectionTracker, for every number of workers and keys    *)
(* and every value of the limits.                                          *)
(*                                                                         *)
(* The inductive invariant IInv has three parts: the variables are typed   *)
(* (a worker on its way holds a packet and a key), the counter equals the  *)
(* table less the rows still owed to it, each by a worker of its own, and  *)
(* the table leaves room for the inserts already admitted by the limit     *)
(* check.                                                                  *)
(***************************************************************************)
EXTENDS ConnectionTracker, FiniteSetTheorems, TLAPS

Bodies == TcpPackets \cup QuicPackets

Steps == {"idle", "resolve", "classify", "cap", "entry", "count", "split"}

(* Types, with active_count an integer: that it is never negative follows  *)
(* from the accounting only.                                               *)
TypeInv ==
    /\ live \in [Keys -> Rows \cup {NoRow}]
    /\ historic \subseteq HistoricRows
    /\ active_count \in Int
    /\ quic_map \in [Cids -> Keys \cup {NoKey}]
    /\ tombs \in [Keys -> Time \cup {NoTime}]
    /\ clock \in Time
    /\ pc \in [Workers -> Steps]
    /\ pkt \in [Workers -> Captured \cup {NoPacket}]
    /\ route \in [Workers -> Keys \cup {NoKey}]

Busy ==
    \A w \in Workers :
      /\ pc[w] # "idle" => pkt[w] \in Captured /\ route[w] \in Keys
      /\ pc[w] = "resolve" => HasCid(pkt[w].body)

Typed == TypeInv /\ Busy

-----------------------------------------------------------------------------
(* The state functions stay within the set of states.                      *)
LEMMA StateTypes ==
    ASSUME NEW s \in States, NEW p \in Bodies
    PROVE  NextState(s, p) \in States /\ FirstState(p) \in States
<1>1. CASE IsTcp(p)
  <2>1. UpdateTcpState(s, p.flags, p.out) \in States
    BY DEF UpdateTcpState, States, TcpStates
  <2>2. UpdateTcpState("Unknown", p.flags, p.out) \in States
    BY DEF UpdateTcpState, States, TcpStates
  <2>3. QED BY <1>1, <2>1, <2>2 DEF NextState, FirstState
<1>2. CASE ~IsTcp(p)
  <2>1. p.state \in States
    BY <1>2 DEF Bodies, TcpPackets, QuicPackets, IsTcp, States
  <2>2. MergeQuicState(s, p.state, p.close) \in States
    BY <2>1 DEF MergeQuicState, States, QuicStates
  <2>3. MergeQuicState(p.state, p.state, p.close) \in States
    BY <2>1 DEF MergeQuicState, States, QuicStates
  <2>4. QED BY <1>2, <2>2, <2>3 DEF NextState, FirstState
<1>3. QED BY <1>1, <1>2

LEMMA ObservedIdType ==
    ASSUME NEW p \in Bodies
    PROVE  ObservedId(p) \in PacketIds
BY KeysAssumption
   DEF ObservedId, PacketIds, IsTcp, Bodies, TcpPackets, QuicPackets

(* Creating and merging produce rows.                                      *)
LEMMA CreateRowType ==
    ASSUME NEW p \in Bodies, NEW at \in Time, NEW ns \in Nat
    PROVE  CreateRow(p, at, ns) \in Rows
<1>1. FirstState(p) \in States
  BY StateTypes DEF States, TcpStates
<1>2. (IF IsTerminal(FirstState(p)) THEN at ELSE NoTime) \in Time \cup {NoTime}
  OBVIOUS
<1>3. QED BY <1>1, <1>2, ObservedIdType DEF CreateRow, Rows

LEMMA MergeRowType ==
    ASSUME NEW r \in Rows, NEW p \in Bodies, NEW ts \in Time
    PROVE  MergeRow(r, p, ts) \in Rows
<1>1. r.state \in States /\ r.last \in Time /\ r.since \in Time \cup {NoTime}
      /\ r.id \in PacketIds /\ r.at \in Time /\ r.ns \in Nat
  BY DEF Rows
<1>2. NextState(r.state, p) \in States
  BY <1>1, StateTypes
<1>3. Later(r.last, ts) \in Time
  BY <1>1 DEF Later
<1> DEFINE since == IF ~IsTerminal(NextState(r.state, p)) THEN NoTime
                    ELSE IF ~IsTerminal(r.state) \/ r.since = NoTime THEN Later(r.last, ts)
                    ELSE r.since
           id == IF r.id = NoCid THEN ObservedId(p) ELSE r.id
<1>4. since \in Time \cup {NoTime}
  BY <1>1, <1>3
<1>5. id \in PacketIds
  BY <1>1, ObservedIdType
<1>6. MergeRow(r, p, ts) = [state |-> NextState(r.state, p), at |-> r.at, ns |-> r.ns,
                            last |-> Later(r.last, ts), since |-> since, id |-> id]
  BY DEF MergeRow, Rows
<1> HIDE DEF since, id
<1>7. QED BY <1>1, <1>2, <1>3, <1>4, <1>5, <1>6 DEF Rows

(* The maps beside the table keep their types through the helpers.         *)
LEMMA AssociatedType ==
    ASSUME NEW m \in [Cids -> Keys \cup {NoKey}], NEW c \in Cids, NEW k \in Keys
    PROVE  Associated(m, c, k) \in [Cids -> Keys \cup {NoKey}]
BY DEF Associated

LEMMA UnmappedType ==
    ASSUME NEW m \in [Cids -> Keys \cup {NoKey}], NEW K
    PROVE  Unmapped(m, K) \in [Cids -> Keys \cup {NoKey}]
BY DEF Unmapped

LEMMA HistoricLimitType ==
    ASSUME NEW H \in SUBSET HistoricRows, NEW K \in EnforceHistoricLimit(H)
    PROVE  K \subseteq HistoricRows
BY DEF EnforceHistoricLimit

LEMMA PruneType ==
    ASSUME NEW T \in [Keys -> Time \cup {NoTime}], NEW now,
           NEW U \in PruneRecentlyClosed(T, now)
    PROVE  U \in [Keys -> Time \cup {NoTime}]
<1> DEFINE Only(K) == [k \in Keys |-> IF k \in K THEN T[k] ELSE NoTime]
<1>1. \A K : Only(K) \in [Keys -> Time \cup {NoTime}]
  OBVIOUS
<1>2. \E K : U = Only(K)
  BY DEF PruneRecentlyClosed
<1>3. QED BY <1>1, <1>2

LEMMA RecordType ==
    ASSUME tombs \in [Keys -> Time \cup {NoTime}], NEW K, NEW now \in Time
    PROVE  RecordRecentlyClosed(K, now) \in [Keys -> Time \cup {NoTime}]
BY DEF RecordRecentlyClosed

LEMMA ArchivedType ==
    ASSUME NEW k \in Keys, NEW r \in Rows, NEW now \in Time
    PROVE  Archived(k, r, now) \in HistoricRows
<1>1. r.state \in States /\ r.at \in Time /\ r.ns \in Nat
  BY DEF Rows
<1>2. QED BY <1>1 DEF Archived, HistoricRows

LEMMA InsertHistoricType ==
    ASSUME historic \subseteq HistoricRows, NEW New \in SUBSET HistoricRows
    PROVE  InsertHistoric(New) \subseteq HistoricRows
BY DEF InsertHistoric

LEMMA LiveRow ==
    ASSUME TypeInv, NEW k \in Keys, live[k] # NoRow
    PROVE  live[k] \in Rows
BY DEF TypeInv

-----------------------------------------------------------------------------
(***************************************************************************)
(* Typed is inductive.  Each action is a step of the case split.           *)
(***************************************************************************)
LEMMA TypedInit == Init => Typed
<1> SUFFICES ASSUME Init PROVE Typed
  OBVIOUS
<1>1. clock \in Time /\ active_count \in Int
  BY DEF Init, Time
<1>2. historic \subseteq HistoricRows
  BY DEF Init
<1>3. pc \in [Workers -> Steps] /\ Busy
  BY DEF Init, Steps, Busy
<1>4. QED BY <1>1, <1>2, <1>3 DEF Init, Typed, TypeInv

(* A worker that moves on, its packet and route kept, stays busy.          *)
LEMMA GotoTyped ==
    ASSUME Typed, NEW w \in Workers, NEW step \in Steps \ {"resolve"},
           pc[w] # "idle", Goto(w, step)
    PROVE  /\ pc' \in [Workers -> Steps]
           /\ pkt' \in [Workers -> Captured \cup {NoPacket}]
           /\ route' \in [Workers -> Keys \cup {NoKey}]
           /\ Busy'
BY DEF Typed, TypeInv, Busy, Goto

LEMMA FinishTyped ==
    ASSUME Typed, NEW w \in Workers, Finish(w)
    PROVE  /\ pc' \in [Workers -> Steps]
           /\ pkt' \in [Workers -> Captured \cup {NoPacket}]
           /\ route' \in [Workers -> Keys \cup {NoKey}]
           /\ Busy'
BY DEF Typed, TypeInv, Busy, Finish, Steps

(* What a worker on its way holds.                                         *)
LEMMA BusyWorker ==
    ASSUME Typed, NEW w \in Workers, pc[w] # "idle"
    PROVE  pkt[w].body \in Bodies /\ pkt[w].ts \in Time /\ route[w] \in Keys
BY DEF Typed, Busy, Captured, Bodies

LEMMA TypedBegin ==
    ASSUME Typed, NEW w \in Workers, BeginIngest(w)
    PROVE  Typed'
<1>1. PICK p \in Packets, ts \in 0..clock :
        /\ pkt' = [pkt EXCEPT ![w] = [body |-> p, ts |-> ts]]
        /\ route' = [route EXCEPT ![w] = p.key]
        /\ pc' = [pc EXCEPT ![w] = IF HasCid(p) THEN "resolve" ELSE "classify"]
  BY DEF BeginIngest
<1>2. p \in Bodies /\ ts \in Time
  BY PacketsAssumption DEF Bodies, Time, Typed, TypeInv
<1>3. [body |-> p, ts |-> ts] \in Captured
  BY <1>2 DEF Captured, Bodies
<1>4. p.key \in Keys
  BY <1>2 DEF Bodies, TcpPackets, QuicPackets, Keys
<1>5. UNCHANGED <<table, clock>>
  BY DEF BeginIngest
<1> DEFINE c == [body |-> p, ts |-> ts]
           next == IF HasCid(p) THEN "resolve" ELSE "classify"
<1>6. c.body = p /\ next \in Steps /\ (next = "resolve" => HasCid(p))
  BY DEF Steps
<1>7. pkt' = [pkt EXCEPT ![w] = c] /\ pc' = [pc EXCEPT ![w] = next] /\ c \in Captured
  BY <1>1, <1>3
<1> HIDE DEF c, next
<1>8. pc' \in [Workers -> Steps] /\ pkt' \in [Workers -> Captured \cup {NoPacket}]
      /\ route' \in [Workers -> Keys \cup {NoKey}]
  BY <1>1, <1>4, <1>6, <1>7 DEF Typed, TypeInv
<1>9. Busy'
  <2> SUFFICES ASSUME NEW v \in Workers
               PROVE  /\ pc'[v] # "idle" => pkt'[v] \in Captured /\ route'[v] \in Keys
                      /\ pc'[v] = "resolve" => HasCid(pkt'[v].body)
    BY DEF Busy, HasCid, IsTcp
  <2>1. CASE v = w
    BY <1>1, <1>4, <1>6, <1>7, <2>1 DEF Typed, TypeInv
  <2>2. CASE v # w
    <3>1. pc'[v] = pc[v] /\ pkt'[v] = pkt[v] /\ route'[v] = route[v]
      BY <1>1, <1>7, <2>2 DEF Typed, TypeInv
    <3>2. QED BY <3>1 DEF Typed, Busy
  <2>3. QED BY <2>1, <2>2
<1>10. QED BY <1>5, <1>8, <1>9 DEF Typed, TypeInv, table

LEMMA TypedResolve ==
    ASSUME Typed, NEW w \in Workers, ResolveConnectionKey(w)
    PROVE  Typed'
<1> DEFINE p == pkt[w].body
<1>1. pc[w] = "resolve" /\ pc' = [pc EXCEPT ![w] = "classify"]
      /\ UNCHANGED <<live, historic, active_count, tombs, clock, pkt>>
  BY DEF ResolveConnectionKey
<1>2. p \in Bodies /\ route[w] \in Keys /\ p.id \in Cids
  BY <1>1, BusyWorker DEF Typed, Busy, HasCid
<1>3. p.key \in Keys
  BY <1>2 DEF Bodies, TcpPackets, QuicPackets, Keys
<1>4. CASE quic_map[p.id] # NoKey
  <2>1. route' = [route EXCEPT ![w] = quic_map[p.id]] /\ quic_map' = quic_map
    BY <1>4 DEF ResolveConnectionKey
  <2>2. quic_map[p.id] \in Keys
    BY <1>2, <1>4 DEF Typed, TypeInv
  <2>3. QED BY <1>1, <2>1, <2>2 DEF Typed, TypeInv, Busy, Steps, HasCid, IsTcp
<1>5. CASE quic_map[p.id] = NoKey
  <2>1. quic_map' = Associated(quic_map, p.id, p.key) /\ route' = route
    BY <1>5 DEF ResolveConnectionKey
  <2>2. quic_map' \in [Cids -> Keys \cup {NoKey}]
    BY <1>2, <1>3, <2>1, AssociatedType DEF Typed, TypeInv
  <2>3. QED BY <1>1, <2>1, <2>2 DEF Typed, TypeInv, Busy, Steps, HasCid, IsTcp
<1>6. QED BY <1>4, <1>5

LEMMA TypedInsert ==
    ASSUME Typed, NEW w \in Workers, InsertEntry(w)
    PROVE  Typed'
<1> DEFINE k == route[w]
           r == CreateRow(pkt[w].body, pkt[w].ts, 0)
<1>1. pc[w] = "entry" /\ Goto(w, "count") /\ live' = [live EXCEPT ![k] = r]
      /\ UNCHANGED <<historic, active_count, quic_map, tombs, clock>>
  BY DEF InsertEntry
<1>2. r \in Rows
  BY <1>1, BusyWorker, CreateRowType
<1> HIDE DEF r
<1>3. live' \in [Keys -> Rows \cup {NoRow}]
  BY <1>1, <1>2 DEF Typed, TypeInv
<1>4. QED BY <1>1, <1>3, GotoTyped DEF Typed, TypeInv, Steps

LEMMA TypedMerge ==
    ASSUME Typed, NEW w \in Workers, MergeEntry(w)
    PROVE  Typed'
<1> DEFINE k == route[w]
           r == MergeRow(live[k], pkt[w].body, pkt[w].ts)
<1>1. pc[w] = "entry" /\ live[k] # NoRow /\ Finish(w)
      /\ live' = [live EXCEPT ![k] = r]
      /\ UNCHANGED <<historic, active_count, quic_map, tombs, clock>>
  BY DEF MergeEntry
<1>2. k \in Keys
  BY <1>1, BusyWorker
<1>3. live[k] \in Rows
  BY <1>1, <1>2, LiveRow DEF Typed
<1>4. r \in Rows
  BY <1>1, <1>3, BusyWorker, MergeRowType
<1> HIDE DEF r
<1>5. live' \in [Keys -> Rows \cup {NoRow}]
  BY <1>1, <1>4 DEF Typed, TypeInv
<1>6. QED BY <1>1, <1>5, FinishTyped DEF Typed, TypeInv

LEMMA TypedSplit ==
    ASSUME Typed, NEW w \in Workers, IngestNewGeneration(w)
    PROVE  Typed'
<1> DEFINE k      == route[w]
           p      == pkt[w].body
           ts     == pkt[w].ts
           old    == live[k]
           splits == old # NoRow /\ StartsNewGeneration(old, p)
           base   == IF splits THEN NoRow ELSE old
           bumped == splits /\ ts <= old.at
           count  == IF splits THEN active_count - 1 ELSE active_count
           kept   == IF splits THEN Unmapped(quic_map, {k}) ELSE quic_map
           drops  == base = NoRow /\ count >= MaxConnections
           row    == IF drops THEN NoRow
                     ELSE IF base # NoRow THEN MergeRow(base, p, ts)
                     ELSE IF bumped THEN CreateRow(p, old.at, old.ns + 1)
                     ELSE CreateRow(p, ts, 0)
<1>1. pc[w] = "split" /\ Finish(w) /\ UNCHANGED clock
  BY DEF IngestNewGeneration
<1>2. p \in Bodies /\ ts \in Time /\ k \in Keys
  BY <1>1, BusyWorker
<1>3. old # NoRow => old \in Rows /\ old.at \in Time /\ old.ns \in Nat
  BY <1>2, LiveRow DEF Typed, Rows
<1>4. live' \in [Keys -> Rows \cup {NoRow}]
  <2>1. CreateRow(p, ts, 0) \in Rows
    BY <1>2, CreateRowType
  <2>2. bumped => CreateRow(p, old.at, old.ns + 1) \in Rows
    BY <1>2, <1>3, CreateRowType DEF Time
  <2>3. base # NoRow => MergeRow(base, p, ts) \in Rows
    BY <1>2, <1>3, MergeRowType
  <2>4. row \in Rows \cup {NoRow}
    BY <2>1, <2>2, <2>3
  <2>5. live' = [live EXCEPT ![k] = row]
    BY DEF IngestNewGeneration
  <2> HIDE DEF row
  <2>6. QED BY <2>4, <2>5 DEF Typed, TypeInv
<1>5. active_count' \in Int
  <2>1. active_count' = IF base = NoRow /\ ~drops THEN count + 1 ELSE count
    BY DEF IngestNewGeneration
  <2>2. QED BY <2>1 DEF Typed, TypeInv
<1>6. quic_map' \in [Cids -> Keys \cup {NoKey}]
  <2>1. kept \in [Cids -> Keys \cup {NoKey}]
    BY UnmappedType DEF Typed, TypeInv
  <2>2. quic_map' = IF HasCid(p) THEN Associated(kept, p.id, k) ELSE kept
    BY DEF IngestNewGeneration
  <2>3. QED BY <1>2, <2>1, <2>2, AssociatedType DEF HasCid
<1>7. historic' \subseteq HistoricRows
  <2> DEFINE H == IF splits /\ KeepHistoric THEN InsertHistoric({Archived(k, old, ts)})
                  ELSE historic
  <2>1. H \subseteq HistoricRows
    <3>1. CASE splits /\ KeepHistoric
      <4>1. {Archived(k, old, ts)} \subseteq HistoricRows
        BY <1>2, <1>3, <3>1, ArchivedType
      <4>2. QED BY <3>1, <4>1, InsertHistoricType DEF Typed, TypeInv
    <3>2. CASE ~(splits /\ KeepHistoric)
      BY <3>2 DEF Typed, TypeInv
    <3>3. QED BY <3>1, <3>2
  <2>2. historic' \in EnforceHistoricLimit(H)
    BY DEF IngestNewGeneration
  <2> HIDE DEF H
  <2>3. QED BY <2>1, <2>2, HistoricLimitType
<1>8. tombs' \in [Keys -> Time \cup {NoTime}]
  <2> DEFINE T == IF splits THEN RecordRecentlyClosed({k}, ts) ELSE tombs
  <2>1. T \in [Keys -> Time \cup {NoTime}]
    BY <1>2, RecordType DEF Typed, TypeInv
  <2>2. tombs' \in PruneRecentlyClosed(T, ts)
    BY DEF IngestNewGeneration
  <2> HIDE DEF T
  <2>3. QED BY <2>1, <2>2, PruneType
<1>9. QED BY <1>1, <1>4, <1>5, <1>6, <1>7, <1>8, FinishTyped DEF Typed, TypeInv

LEMMA KeysFinite == IsFiniteSet(Keys)
BY KeysAssumption, FS_Union DEF Keys

LEMMA LiveKeysFinite ==
    IsFiniteSet(LiveKeys) /\ Cardinality(LiveKeys) \in Nat
BY KeysFinite, FS_Subset, FS_CardinalityType DEF LiveKeys

LEMMA TypedCleanup == ASSUME Typed, Cleanup PROVE Typed'
<1> DEFINE removed == {k \in LiveKeys : ShouldCleanup(live[k], clock)}
<1>1. UNCHANGED <<clock, worker>>
  BY DEF Cleanup
<1>2. live' \in [Keys -> Rows \cup {NoRow}]
  <2>1. live' = [k \in Keys |-> IF k \in removed THEN NoRow ELSE live[k]]
    BY DEF Cleanup
  <2> HIDE DEF removed
  <2>2. QED BY <2>1 DEF Typed, TypeInv
<1>3. active_count' \in Int
  <2>1. removed \subseteq LiveKeys
    OBVIOUS
  <2>2. active_count' = active_count - Cardinality(removed)
    BY DEF Cleanup
  <2> HIDE DEF removed
  <2>3. Cardinality(removed) \in Nat
    BY <2>1, LiveKeysFinite, FS_Subset, FS_CardinalityType
  <2>4. QED BY <2>2, <2>3 DEF Typed, TypeInv
<1>4. quic_map' \in [Cids -> Keys \cup {NoKey}]
  BY UnmappedType DEF Cleanup, Typed, TypeInv
<1>5. historic' \subseteq HistoricRows
  <2> DEFINE New == {Archived(k, live[k], clock) : k \in removed}
  <2>1. New \subseteq HistoricRows
    <3> SUFFICES ASSUME NEW k \in removed
                 PROVE  Archived(k, live[k], clock) \in HistoricRows
      OBVIOUS
    <3>1. k \in Keys /\ live[k] # NoRow
      BY DEF LiveKeys
    <3>2. QED BY <3>1, LiveRow, ArchivedType DEF Typed, TypeInv
  <2>2. historic' \in IF KeepHistoric THEN EnforceHistoricLimit(InsertHistoric(New))
                      ELSE {historic}
    BY DEF Cleanup
  <2> HIDE DEF New
  <2>3. historic \subseteq HistoricRows
    BY DEF Typed, TypeInv
  <2>4. InsertHistoric(New) \subseteq HistoricRows
    BY <2>1, <2>3, InsertHistoricType
  <2>5. QED BY <2>2, <2>3, <2>4, HistoricLimitType
<1>6. tombs' \in [Keys -> Time \cup {NoTime}]
  <2> DEFINE T == RecordRecentlyClosed(removed, clock)
  <2>1. T \in [Keys -> Time \cup {NoTime}]
    BY RecordType DEF Typed, TypeInv
  <2>2. tombs' \in PruneRecentlyClosed(T, clock)
    BY DEF Cleanup
  <2> HIDE DEF T
  <2>3. QED BY <2>1, <2>2, PruneType
<1>7. QED
  BY <1>1, <1>2, <1>3, <1>4, <1>5, <1>6
     DEF Typed, TypeInv, Busy, worker, HasCid, IsTcp

LEMMA TypedClear == ASSUME Typed, Clear PROVE Typed'
<1>1. live' \in [Keys -> Rows \cup {NoRow}]
  BY DEF Clear
<1>2. active_count' \in Int /\ historic' \subseteq HistoricRows
  BY DEF Clear
<1>3. quic_map' \in [Cids -> Keys \cup {NoKey}] /\ tombs' \in [Keys -> Time \cup {NoTime}]
  BY DEF Clear
<1>4. QED BY <1>1, <1>2, <1>3 DEF Clear, Typed, TypeInv, Busy, worker, HasCid, IsTcp

LEMMA TypedNext == Typed /\ [Next]_vars => Typed'
<1> SUFFICES ASSUME Typed, [Next]_vars PROVE Typed'
  OBVIOUS
<1>1. ASSUME NEW w \in Workers, Ingest(w) PROVE Typed'
  <2>1. CASE BeginIngest(w)           BY <2>1, TypedBegin
  <2>2. CASE ResolveConnectionKey(w)  BY <2>2, TypedResolve
  <2>3. CASE IgnoreLate(w)
    BY <2>3, FinishTyped DEF IgnoreLate, table, Typed, TypeInv
  <2>4. CASE RequestSplit(w)
    BY <2>4, GotoTyped DEF RequestSplit, table, Typed, TypeInv, Steps
  <2>5. CASE PassToActive(w)
    BY <2>5, GotoTyped DEF PassToActive, table, Typed, TypeInv, Steps
  <2>6. CASE DropAtCap(w)
    BY <2>6, FinishTyped DEF DropAtCap, table, Typed, TypeInv
  <2>7. CASE PassCap(w)
    BY <2>7, GotoTyped DEF PassCap, table, Typed, TypeInv, Steps
  <2>8. CASE MergeEntry(w)            BY <2>8, TypedMerge
  <2>9. CASE InsertEntry(w)           BY <2>9, TypedInsert
  <2>10. CASE CountCreated(w)
    BY <2>10, FinishTyped DEF CountCreated, Typed, TypeInv
  <2>11. CASE IngestNewGeneration(w)  BY <2>11, TypedSplit
  <2>12. QED
    BY <1>1, <2>1, <2>2, <2>3, <2>4, <2>5, <2>6, <2>7, <2>8, <2>9, <2>10, <2>11 DEF Ingest
<1>2. CASE Cleanup  BY <1>2, TypedCleanup
<1>3. CASE Clear    BY <1>3, TypedClear
<1>4. CASE Tick
  BY <1>4 DEF Tick, table, worker, Typed, TypeInv, Busy, HasCid, IsTcp, Time
<1>5. CASE UNCHANGED vars
  BY <1>5 DEF vars, table, worker, Typed, TypeInv, Busy, HasCid, IsTcp
<1>6. QED BY <1>1, <1>2, <1>3, <1>4, <1>5 DEF Next

-----------------------------------------------------------------------------
(***************************************************************************)
(* The counter and the limit.                                              *)
(***************************************************************************)

(* Workers admitted by the limit check whose insert is still to come.      *)
Inserters == {w \in Workers : pc[w] = "entry" /\ live[route[w]] = NoRow}

(* An uncounted row is in the table, and it is owed by one worker only.    *)
OwedRows ==
    /\ \A w \in Owing : route[w] \in LiveKeys
    /\ \A v, w \in Owing : route[v] = route[w] => v = w

(* The table with every insert still to come respects the bound.           *)
Room == Cardinality(LiveKeys) + Cardinality(Inserters)
            <= MaxConnections + Cardinality(Workers) - 1

Accounting == OwedRows /\ CountAccounting /\ Room

IInv == Typed /\ Accounting

LEMMA DisjointWorkers ==
    ASSUME NEW A \in SUBSET Workers, NEW B \in SUBSET Workers, A \cap B = {}
    PROVE  /\ Cardinality(Workers) \in Nat \ {0}
           /\ IsFiniteSet(A) /\ Cardinality(A) \in Nat
           /\ IsFiniteSet(B) /\ Cardinality(B) \in Nat
           /\ Cardinality(A) + Cardinality(B) <= Cardinality(Workers)
<1>1. IsFiniteSet(Workers) /\ Cardinality(Workers) \in Nat \ {0}
  BY WorkersAssumption, FS_CardinalityType, FS_EmptySet
<1>2. IsFiniteSet(A) /\ IsFiniteSet(B) /\ Cardinality(A) \in Nat /\ Cardinality(B) \in Nat
  BY <1>1, FS_Subset, FS_CardinalityType
<1>3. Cardinality(A \cup B) = Cardinality(A) + Cardinality(B) - Cardinality(A \cap B)
  BY <1>2, FS_Union
<1>4. Cardinality(A \cup B) <= Cardinality(Workers)
  BY <1>1, FS_Subset
<1>5. Cardinality(A \cap B) = 0
  BY FS_EmptySet
<1>6. QED BY <1>1, <1>2, <1>3, <1>4, <1>5

LEMMA WorkerSets ==
    /\ Cardinality(Workers) \in Nat \ {0}
    /\ IsFiniteSet(Owing) /\ Cardinality(Owing) \in Nat
    /\ IsFiniteSet(Inserters) /\ Cardinality(Inserters) \in Nat
    /\ Cardinality(Owing) + Cardinality(Inserters) <= Cardinality(Workers)
<1>1. Owing \subseteq Workers /\ Inserters \subseteq Workers /\ Owing \cap Inserters = {}
  BY DEF Owing, Inserters
<1>2. QED BY <1>1, DisjointWorkers

LEMMA AccountingInit == Init => Accounting
<1> SUFFICES ASSUME Init PROVE Accounting
  OBVIOUS
<1>1. LiveKeys = {} /\ Owing = {} /\ Inserters = {}
  BY DEF Init, LiveKeys, Owing, Inserters
<1>2. Cardinality(Workers) \in Nat \ {0} /\ MaxConnections \in Nat
  BY WorkerSets, LimitsAssumption
<1>3. QED
  BY <1>1, <1>2, FS_EmptySet DEF Init, Accounting, OwedRows, CountAccounting, Room

(* A step that leaves rows, counter and both sets of workers alone.        *)
LEMMA Bystander ==
    ASSUME Accounting, LiveKeys' = LiveKeys, active_count' = active_count,
           Owing' = Owing, Inserters' \subseteq Inserters,
           \A v \in Owing : route'[v] = route[v]
    PROVE  Accounting'
<1>1. Cardinality(Inserters') <= Cardinality(Inserters) /\ Cardinality(Inserters') \in Nat
  BY WorkerSets, FS_Subset, FS_CardinalityType
<1>2. OwedRows'
  BY DEF Accounting, OwedRows
<1>3. CountAccounting'
  BY DEF Accounting, CountAccounting
<1>4. Room'
  BY <1>1, WorkerSets, LiveKeysFinite, LimitsAssumption DEF Accounting, Room
<1>5. QED BY <1>2, <1>3, <1>4 DEF Accounting

(* Reader steps before the limit check, and those that leave.              *)
LEMMA ReaderAccounting ==
    ASSUME IInv, NEW w \in Workers,
           \/ BeginIngest(w) \/ ResolveConnectionKey(w) \/ IgnoreLate(w)
           \/ RequestSplit(w) \/ PassToActive(w) \/ DropAtCap(w)
    PROVE  Accounting'
<1>1. live' = live /\ active_count' = active_count
  BY DEF BeginIngest, ResolveConnectionKey, IgnoreLate, RequestSplit, PassToActive,
         DropAtCap, table
<1>2. pc[w] \notin {"entry", "count"} /\ pc' \in [Workers -> Steps]
      /\ pc'[w] \notin {"entry", "count"}
      /\ \A v \in Workers \ {w} : pc'[v] = pc[v] /\ route'[v] = route[v]
  <2>1. CASE BeginIngest(w)
    BY <2>1 DEF BeginIngest, IInv, Typed, TypeInv, Steps
  <2>2. CASE ResolveConnectionKey(w)
    BY <2>2 DEF ResolveConnectionKey, IInv, Typed, TypeInv, Steps
  <2>3. CASE IgnoreLate(w)
    BY <2>3 DEF IgnoreLate, Finish, IInv, Typed, TypeInv, Steps
  <2>4. CASE RequestSplit(w)
    BY <2>4 DEF RequestSplit, Goto, IInv, Typed, TypeInv, Steps
  <2>5. CASE PassToActive(w)
    BY <2>5 DEF PassToActive, Goto, IInv, Typed, TypeInv, Steps
  <2>6. CASE DropAtCap(w)
    BY <2>6 DEF DropAtCap, Finish, IInv, Typed, TypeInv, Steps
  <2>7. QED BY <2>1, <2>2, <2>3, <2>4, <2>5, <2>6
<1>3. LiveKeys' = LiveKeys
  BY <1>1 DEF LiveKeys
<1>4. Owing' = Owing /\ Inserters' = Inserters
  BY <1>1, <1>2 DEF Owing, Inserters
<1>5. \A v \in Owing : route'[v] = route[v]
  BY <1>2 DEF Owing
<1>6. QED BY <1>1, <1>3, <1>4, <1>5, Bystander DEF IInv

(***************************************************************************)
(* Passing the limit check.  On a free slot the table holds at most        *)
(* MaxConnections - 1 counted rows, and every other row or insert beyond   *)
(* them belongs to another worker.                                         *)
(***************************************************************************)
LEMMA PassCapAccounting ==
    ASSUME IInv, NEW w \in Workers, PassCap(w)
    PROVE  Accounting'
<1>1. live' = live /\ active_count' = active_count /\ route' = route
      /\ pc[w] = "cap" /\ pc' = [pc EXCEPT ![w] = "entry"] /\ ~AtCap(route[w])
  BY DEF PassCap, Goto, table
<1>2. LiveKeys' = LiveKeys
  BY <1>1 DEF LiveKeys
<1>3. Owing' = Owing
  BY <1>1 DEF Owing, IInv, Typed, TypeInv
<1>4. CASE live[route[w]] # NoRow
  <2>1. Inserters' = Inserters
    BY <1>1, <1>4 DEF Inserters, IInv, Typed, TypeInv
  <2>2. QED BY <1>1, <1>2, <1>3, <2>1, Bystander DEF IInv
<1>5. CASE live[route[w]] = NoRow
  <2>1. active_count < MaxConnections
    BY <1>1, <1>5, LimitsAssumption DEF AtCap, IInv, Typed, TypeInv
  <2>2. Cardinality(Owing) + Cardinality(Inserters') <= Cardinality(Workers)
        /\ Cardinality(Inserters') \in Nat
    <3>1. Owing \subseteq Workers /\ Inserters' \subseteq Workers /\ Owing \cap Inserters' = {}
      BY <1>1, <1>3 DEF Owing, Inserters
    <3>2. QED BY <3>1, DisjointWorkers
  <2>3. Room'
    BY <1>2, <1>3, <2>1, <2>2, WorkerSets, LiveKeysFinite, LimitsAssumption
       DEF Room, IInv, Accounting, CountAccounting, Typed, TypeInv
  <2>4. QED BY <1>1, <1>2, <1>3, <2>3 DEF IInv, Accounting, OwedRows, CountAccounting
<1>6. QED BY <1>4, <1>5

LEMMA MergeAccounting ==
    ASSUME IInv, NEW w \in Workers, MergeEntry(w)
    PROVE  Accounting'
<1> DEFINE k == route[w]
           r == MergeRow(live[k], pkt[w].body, pkt[w].ts)
<1>1. pc[w] = "entry" /\ live[k] # NoRow /\ Finish(w) /\ live' = [live EXCEPT ![k] = r]
      /\ active_count' = active_count
  BY DEF MergeEntry
<1>2. k \in Keys /\ live[k] \in Rows /\ pkt[w].body \in Bodies /\ pkt[w].ts \in Time
  BY <1>1, BusyWorker, LiveRow DEF IInv, Typed
<1>3. r \in Rows
  BY <1>2, MergeRowType
<1> HIDE DEF r
<1>4. \A x \in Keys : live'[x] = NoRow <=> live[x] = NoRow
  BY <1>1, <1>2, <1>3, SentinelAssumption DEF IInv, Typed, TypeInv
<1>5. LiveKeys' = LiveKeys
  BY <1>4 DEF LiveKeys
<1>6. pc'[w] = "idle" /\ \A v \in Workers \ {w} : pc'[v] = pc[v] /\ route'[v] = route[v]
  BY <1>1 DEF Finish, IInv, Typed, TypeInv
<1>7. Owing' = Owing /\ \A v \in Owing : route'[v] = route[v]
  BY <1>1, <1>6 DEF Owing
<1>8. Inserters' \subseteq Inserters
  <2> SUFFICES ASSUME NEW v \in Inserters' PROVE v \in Inserters
    OBVIOUS
  <2>1. v \in Workers /\ pc'[v] = "entry" /\ live'[route'[v]] = NoRow
    BY DEF Inserters
  <2>2. v # w /\ pc[v] = "entry" /\ route'[v] = route[v]
    BY <1>6, <2>1
  <2>3. route[v] \in Keys
    BY <2>1, <2>2, BusyWorker DEF IInv
  <2>4. QED BY <1>4, <2>1, <2>2, <2>3 DEF Inserters
<1>9. QED BY <1>1, <1>5, <1>7, <1>8, Bystander DEF IInv

(* An insert turns an admitted worker into one that owes a row.            *)
LEMMA InsertAccounting ==
    ASSUME IInv, NEW w \in Workers, InsertEntry(w)
    PROVE  Accounting'
<1> DEFINE k == route[w]
           r == CreateRow(pkt[w].body, pkt[w].ts, 0)
<1>1. pc[w] = "entry" /\ live[k] = NoRow /\ pc' = [pc EXCEPT ![w] = "count"]
      /\ route' = route /\ live' = [live EXCEPT ![k] = r] /\ active_count' = active_count
  BY DEF InsertEntry, Goto
<1>2. k \in Keys /\ r \in Rows
  BY <1>1, BusyWorker, CreateRowType DEF IInv, Time
<1> HIDE DEF r
<1>3. k \notin LiveKeys /\ LiveKeys' = LiveKeys \cup {k}
  BY <1>1, <1>2, SentinelAssumption DEF LiveKeys, IInv, Typed, TypeInv
<1>4. w \notin Owing /\ Owing' = Owing \cup {w}
  BY <1>1 DEF Owing, IInv, Typed, TypeInv
<1>5. w \in Inserters /\ Inserters' \subseteq Inserters \ {w}
  <2>1. w \in Inserters
    BY <1>1 DEF Inserters
  <2> SUFFICES ASSUME NEW v \in Inserters' PROVE v \in Inserters \ {w}
    BY <2>1
  <2>2. v \in Workers /\ pc'[v] = "entry" /\ live'[route[v]] = NoRow
    BY <1>1 DEF Inserters
  <2>3. v # w /\ pc[v] = "entry"
    BY <1>1, <2>2 DEF IInv, Typed, TypeInv
  <2>4. route[v] \in Keys
    BY <2>2, <2>3, BusyWorker DEF IInv
  <2>5. live[route[v]] = NoRow
    BY <1>1, <2>2, <2>4 DEF IInv, Typed, TypeInv
  <2>6. QED BY <2>2, <2>3, <2>5 DEF Inserters
<1>6. Cardinality(LiveKeys') = Cardinality(LiveKeys) + 1
      /\ Cardinality(Owing') = Cardinality(Owing) + 1
  BY <1>3, <1>4, LiveKeysFinite, WorkerSets, FS_AddElement
<1>7. Cardinality(Inserters') <= Cardinality(Inserters) - 1
      /\ Cardinality(Inserters') \in Nat
  <2>1. IsFiniteSet(Inserters \ {w})
        /\ Cardinality(Inserters \ {w}) = Cardinality(Inserters) - 1
    BY <1>5, WorkerSets, FS_RemoveElement
  <2>2. QED BY <1>5, <2>1, WorkerSets, FS_Subset, FS_CardinalityType
<1>8. OwedRows'
  BY <1>1, <1>3, <1>4 DEF IInv, Accounting, OwedRows
<1>9. CountAccounting'
  BY <1>1, <1>6, WorkerSets, LiveKeysFinite
     DEF IInv, Accounting, CountAccounting, Typed, TypeInv
<1>10. Room'
  BY <1>6, <1>7, WorkerSets, LiveKeysFinite, LimitsAssumption DEF IInv, Accounting, Room
<1>11. QED BY <1>8, <1>9, <1>10 DEF Accounting

LEMMA CountAccountingStep ==
    ASSUME IInv, NEW w \in Workers, CountCreated(w)
    PROVE  Accounting'
<1>1. pc[w] = "count" /\ active_count' = active_count + 1 /\ live' = live
      /\ pc' = [pc EXCEPT ![w] = "idle"] /\ route' = [route EXCEPT ![w] = NoKey]
  BY DEF CountCreated, Finish
<1>2. LiveKeys' = LiveKeys
  BY <1>1 DEF LiveKeys
<1>3. w \in Owing /\ Owing' = Owing \ {w} /\ \A v \in Owing' : route'[v] = route[v]
  BY <1>1 DEF Owing, IInv, Typed, TypeInv
<1>4. Inserters' = Inserters
  BY <1>1 DEF Inserters, IInv, Typed, TypeInv
<1>5. Cardinality(Owing') = Cardinality(Owing) - 1
  BY <1>3, WorkerSets, FS_RemoveElement
<1>6. OwedRows'
  BY <1>2, <1>3 DEF IInv, Accounting, OwedRows
<1>7. CountAccounting'
  BY <1>1, <1>2, <1>5, WorkerSets, LiveKeysFinite
     DEF IInv, Accounting, CountAccounting, Typed, TypeInv
<1>8. QED BY <1>2, <1>4, <1>6, <1>7 DEF IInv, Accounting, Room

(* A writer runs with no worker under the guard: the counter is exact.     *)
LEMMA WriterAlone ==
    ASSUME WriteGuardFree
    PROVE  Owing = {} /\ Inserters = {}
BY DEF WriteGuardFree, InGuard, Owing, Inserters

LEMMA WriterAccounting ==
    ASSUME Owing' = {}, Inserters' = {},
           active_count' = Cardinality(LiveKeys'),
           Cardinality(LiveKeys') <= MaxConnections + Cardinality(Workers) - 1
    PROVE  Accounting'
<1>1. LiveKeys' \subseteq Keys
  BY DEF LiveKeys
<1>2. Cardinality(LiveKeys') \in Nat
  BY <1>1, KeysFinite, FS_Subset, FS_CardinalityType
<1>3. Cardinality({}) = 0
  BY FS_EmptySet
<1>4. OwedRows'
  BY DEF OwedRows
<1>5. CountAccounting' /\ Room'
  BY <1>2, <1>3, WorkerSets, LimitsAssumption DEF CountAccounting, Room
<1>6. QED BY <1>4, <1>5 DEF Accounting

LEMMA CleanupAccounting == ASSUME IInv, Cleanup PROVE Accounting'
<1> DEFINE removed == {k \in LiveKeys : ShouldCleanup(live[k], clock)}
<1>1. live' = [k \in Keys |-> IF k \in removed THEN NoRow ELSE live[k]]
      /\ active_count' = active_count - Cardinality(removed)
      /\ pc' = pc /\ WriteGuardFree
  BY DEF Cleanup, worker
<1>2. removed \subseteq LiveKeys
  OBVIOUS
<1> HIDE DEF removed
<1>3. Owing = {} /\ Inserters = {}
  BY <1>1, WriterAlone
<1>4. Owing' = {} /\ Inserters' = {}
  BY <1>1 DEF WriteGuardFree, InGuard, Owing, Inserters
<1>5. LiveKeys' = LiveKeys \ removed
  BY <1>1, <1>2 DEF LiveKeys
<1>6. Cardinality(LiveKeys') = Cardinality(LiveKeys) - Cardinality(removed)
      /\ Cardinality(removed) \in Nat
  <2>1. LiveKeys \cap removed = removed
    BY <1>2
  <2>2. Cardinality(LiveKeys \ removed) = Cardinality(LiveKeys) - Cardinality(removed)
    BY <2>1, LiveKeysFinite, FS_Difference
  <2>3. QED BY <1>2, <1>5, <2>2, LiveKeysFinite, FS_Subset, FS_CardinalityType
<1>7. active_count = Cardinality(LiveKeys)
      /\ Cardinality(LiveKeys) <= MaxConnections + Cardinality(Workers) - 1
  BY <1>3, FS_EmptySet, WorkerSets, LiveKeysFinite, LimitsAssumption
     DEF IInv, Accounting, CountAccounting, Room, Typed, TypeInv
<1>8. QED
  BY <1>1, <1>4, <1>6, <1>7, WriterAccounting, LiveKeysFinite, WorkerSets, LimitsAssumption

LEMMA ClearAccounting == ASSUME IInv, Clear PROVE Accounting'
<1>1. LiveKeys' = {} /\ active_count' = 0
  BY DEF Clear, LiveKeys
<1>2. Owing' = {} /\ Inserters' = {}
  BY DEF Clear, worker, WriteGuardFree, InGuard, Owing, Inserters
<1>3. QED
  BY <1>1, <1>2, WriterAccounting, FS_EmptySet, WorkerSets, LimitsAssumption

(***************************************************************************)
(* The split removes at most one row and creates at most one, and creates  *)
(* it only below the limit.                                                *)
(***************************************************************************)
LEMMA SplitAccounting ==
    ASSUME IInv, NEW w \in Workers, IngestNewGeneration(w)
    PROVE  Accounting'
<1> DEFINE k      == route[w]
           p      == pkt[w].body
           ts     == pkt[w].ts
           old    == live[k]
           splits == old # NoRow /\ StartsNewGeneration(old, p)
           base   == IF splits THEN NoRow ELSE old
           bumped == splits /\ ts <= old.at
           count  == IF splits THEN active_count - 1 ELSE active_count
           drops  == base = NoRow /\ count >= MaxConnections
           row    == IF drops THEN NoRow
                     ELSE IF base # NoRow THEN MergeRow(base, p, ts)
                     ELSE IF bumped THEN CreateRow(p, old.at, old.ns + 1)
                     ELSE CreateRow(p, ts, 0)
<1>1. pc[w] = "split" /\ Finish(w) /\ WriteGuardFree /\ live' = [live EXCEPT ![k] = row]
      /\ active_count' = IF base = NoRow /\ ~drops THEN count + 1 ELSE count
  BY DEF IngestNewGeneration
<1>2. p \in Bodies /\ ts \in Time /\ k \in Keys
  BY <1>1, BusyWorker DEF IInv
<1>3. old # NoRow => old \in Rows /\ old.at \in Time /\ old.ns \in Nat
  BY <1>2, LiveRow DEF IInv, Typed, Rows
<1>4. (drops => row = NoRow) /\ (~drops => row \in Rows)
  BY <1>2, <1>3, CreateRowType, MergeRowType DEF Time
<1>5. Owing = {} /\ Inserters = {}
  BY <1>1, WriterAlone
<1>6. Owing' = {} /\ Inserters' = {}
  <2>1. \A v \in Workers : pc'[v] \notin {"entry", "count"}
    BY <1>1 DEF WriteGuardFree, InGuard, Finish, IInv, Typed, TypeInv
  <2>2. QED BY <2>1 DEF Owing, Inserters
<1>7. active_count = Cardinality(LiveKeys)
      /\ Cardinality(LiveKeys) <= MaxConnections + Cardinality(Workers) - 1
  BY <1>5, FS_EmptySet, WorkerSets, LiveKeysFinite, LimitsAssumption
     DEF IInv, Accounting, CountAccounting, Room, Typed, TypeInv
<1> DEFINE others == LiveKeys \ {k}
<1>8. IsFiniteSet(others) /\ k \notin others
      /\ Cardinality(others) = IF old # NoRow THEN Cardinality(LiveKeys) - 1
                               ELSE Cardinality(LiveKeys)
  BY <1>2, LiveKeysFinite, FS_RemoveElement DEF LiveKeys
<1>9. LiveKeys' = IF drops THEN others ELSE others \cup {k}
  <2> HIDE DEF row, drops
  <2>1. CASE drops
    BY <1>1, <1>2, <1>4, <2>1 DEF LiveKeys, IInv, Typed, TypeInv
  <2>2. CASE ~drops
    BY <1>1, <1>2, <1>4, <2>2, SentinelAssumption DEF LiveKeys, IInv, Typed, TypeInv
  <2>3. QED BY <2>1, <2>2
<1> HIDE DEF others
<1>10. Cardinality(others \cup {k}) = Cardinality(others) + 1
  BY <1>8, FS_AddElement
<1>11. Cardinality(LiveKeys) \in Nat /\ Cardinality(Workers) \in Nat \ {0}
  BY LiveKeysFinite, WorkerSets
<1>12. CASE drops
  <2>1. count = Cardinality(others)
    BY <1>7, <1>8, <1>11, <1>12
  <2>2. active_count' = Cardinality(LiveKeys')
    BY <1>1, <1>9, <1>12, <2>1
  <2>3. Cardinality(LiveKeys') <= MaxConnections + Cardinality(Workers) - 1
    BY <1>7, <1>8, <1>9, <1>11, <1>12, LimitsAssumption
  <2>4. QED BY <1>6, <2>2, <2>3, WriterAccounting
<1>13. CASE ~drops /\ base = NoRow
  <2>1. count = Cardinality(others)
    BY <1>7, <1>8, <1>11, <1>13
  <2>2. active_count' = Cardinality(LiveKeys')
    BY <1>1, <1>9, <1>10, <1>13, <2>1
  <2>3. Cardinality(LiveKeys') <= MaxConnections + Cardinality(Workers) - 1
    BY <1>7, <1>8, <1>9, <1>10, <1>11, <1>13, <2>1, LimitsAssumption
  <2>4. QED BY <1>6, <2>2, <2>3, WriterAccounting
<1>14. CASE base # NoRow
  <2>1. ~drops /\ ~splits /\ old # NoRow /\ active_count' = active_count
    BY <1>1, <1>14
  <2>2. LiveKeys' = LiveKeys
    <3>1. k \in LiveKeys
      BY <1>2, <2>1 DEF LiveKeys
    <3>2. others \cup {k} = LiveKeys
      BY <3>1 DEF others
    <3>3. QED BY <1>9, <2>1, <3>2
  <2>3. QED BY <1>6, <1>7, <2>1, <2>2, WriterAccounting
<1>15. QED BY <1>12, <1>13, <1>14

LEMMA IInvNext == IInv /\ [Next]_vars => IInv'
<1> SUFFICES ASSUME IInv, [Next]_vars PROVE Accounting'
  BY TypedNext DEF IInv
<1>1. ASSUME NEW w \in Workers, Ingest(w) PROVE Accounting'
  <2>1. CASE \/ BeginIngest(w) \/ ResolveConnectionKey(w) \/ IgnoreLate(w)
             \/ RequestSplit(w) \/ PassToActive(w) \/ DropAtCap(w)
    BY <2>1, ReaderAccounting
  <2>2. CASE PassCap(w)              BY <2>2, PassCapAccounting
  <2>3. CASE MergeEntry(w)           BY <2>3, MergeAccounting
  <2>4. CASE InsertEntry(w)          BY <2>4, InsertAccounting
  <2>5. CASE CountCreated(w)         BY <2>5, CountAccountingStep
  <2>6. CASE IngestNewGeneration(w)  BY <2>6, SplitAccounting
  <2>7. QED BY <1>1, <2>1, <2>2, <2>3, <2>4, <2>5, <2>6 DEF Ingest
<1>2. CASE Cleanup  BY <1>2, CleanupAccounting
<1>3. CASE Clear    BY <1>3, ClearAccounting
<1>4. CASE Tick \/ UNCHANGED vars
  <2>1. UNCHANGED <<table, worker>>
    BY <1>4 DEF Tick, vars
  <2>2. LiveKeys' = LiveKeys /\ Owing' = Owing /\ Inserters' = Inserters
    BY <2>1 DEF table, worker, LiveKeys, Owing, Inserters
  <2>3. QED BY <2>1, <2>2, Bystander DEF IInv, table, worker
<1>5. QED BY <1>1, <1>2, <1>3, <1>4 DEF Next

(***************************************************************************)
(* The inductive invariant holds of every behaviour.                       *)
(***************************************************************************)
THEOREM Inductive == Spec => []IInv
<1>1. Init => IInv
  BY TypedInit, AccountingInit DEF IInv
<1>2. QED BY <1>1, IInvNext, PTL DEF Spec

(***************************************************************************)
(* Every variable keeps its type.  The counter is a natural number: each   *)
(* uncounted row is owed by a worker of its own, so there are never more   *)
(* of them than rows, and the unsigned fetch_sub cannot wrap.              *)
(***************************************************************************)
THEOREM TypeCorrect == Spec => []TypeOK
<1>1. IInv => TypeOK
  <2> SUFFICES ASSUME IInv PROVE TypeOK
    OBVIOUS
  <2> DEFINE f == [w \in Owing |-> route[w]]
  <2>1. f \in Injection(Owing, LiveKeys)
    BY DEF IInv, Accounting, OwedRows, Injection, IsInjective
  <2>2. Cardinality(Owing) <= Cardinality(LiveKeys)
    BY <2>1, LiveKeysFinite, FS_Injection
  <2>3. active_count \in Nat
    BY <2>2, LiveKeysFinite, WorkerSets
       DEF IInv, Accounting, CountAccounting, Typed, TypeInv
  <2>4. QED BY <2>3 DEF TypeOK, IInv, Typed, TypeInv, Steps
<1>2. QED BY <1>1, Inductive, PTL

(***************************************************************************)
(* The counter behind the limit check accounts for every row.              *)
(***************************************************************************)
THEOREM CountersAgree == Spec => []CountAccounting
<1>1. IInv => CountAccounting
  BY DEF IInv, Accounting
<1>2. QED BY <1>1, Inductive, PTL

(***************************************************************************)
(* However many workers race past the limit check, and however the race    *)
(* repeats, the table never holds more than max_connections rows plus one  *)
(* for each other worker.                                                  *)
(***************************************************************************)
THEOREM OvershootBounded == Spec => []CapOvershootBounded
<1>1. IInv => CapOvershootBounded
  BY WorkerSets, LiveKeysFinite, LimitsAssumption
     DEF IInv, Accounting, Room, CapOvershootBounded
<1>2. QED BY <1>1, Inductive, PTL

-----------------------------------------------------------------------------
(***************************************************************************)
(* Rows over time.                                                         *)
(***************************************************************************)

(* What a step may do to the row under a key: leave it, remove it, create  *)
(* it, or fold a packet into it.  Only the split replaces a row by another *)
(* generation, with another creation stamp.                                *)
RowStep(k) ==
    \/ live'[k] = live[k]
    \/ live'[k] = NoRow
    \/ \E p \in Bodies, at \in Time, ns \in Nat :
         /\ live'[k] = CreateRow(p, at, ns)
         /\ live[k] # NoRow => at # live[k].at \/ ns # live[k].ns
    \/ live[k] # NoRow /\ \E p \in Bodies, ts \in Time : live'[k] = MergeRow(live[k], p, ts)

LEMMA SplitRowStep ==
    ASSUME IInv, NEW w \in Workers, IngestNewGeneration(w), NEW x \in Keys
    PROVE  RowStep(x)
<1> DEFINE k      == route[w]
           p      == pkt[w].body
           ts     == pkt[w].ts
           old    == live[k]
           splits == old # NoRow /\ StartsNewGeneration(old, p)
           base   == IF splits THEN NoRow ELSE old
           bumped == splits /\ ts <= old.at
           count  == IF splits THEN active_count - 1 ELSE active_count
           drops  == base = NoRow /\ count >= MaxConnections
           row    == IF drops THEN NoRow
                     ELSE IF base # NoRow THEN MergeRow(base, p, ts)
                     ELSE IF bumped THEN CreateRow(p, old.at, old.ns + 1)
                     ELSE CreateRow(p, ts, 0)
<1>1. pc[w] = "split" /\ live' = [live EXCEPT ![k] = row]
  BY DEF IngestNewGeneration
<1>2. p \in Bodies /\ ts \in Time /\ k \in Keys
  BY <1>1, BusyWorker DEF IInv
<1>3. old # NoRow => old \in Rows /\ old.at \in Time /\ old.ns \in Nat
  BY <1>2, LiveRow DEF IInv, Typed, Rows
<1>4. x # k => live'[x] = live[x]
  BY <1>1 DEF IInv, Typed, TypeInv
<1>5. live'[k] = row
  BY <1>1, <1>2 DEF IInv, Typed, TypeInv
<1>6. ASSUME x = k PROVE RowStep(x)
  <2>1. CASE drops
    BY <1>5, <1>6, <2>1 DEF RowStep
  <2>2. CASE ~drops /\ base # NoRow
    <3>1. base = old /\ live'[x] = MergeRow(live[x], p, ts) /\ live[x] # NoRow
      BY <1>5, <1>6, <2>2
    <3>2. QED BY <1>2, <3>1 DEF RowStep
  <2>3. CASE ~drops /\ base = NoRow /\ bumped
    <3>1. live'[x] = CreateRow(p, old.at, old.ns + 1)
      BY <1>5, <1>6, <2>3
    <3>2. old.at \in Time /\ old.ns + 1 \in Nat /\ old.ns + 1 # old.ns
      BY <1>3, <2>3
    <3>3. QED BY <1>2, <1>6, <3>1, <3>2 DEF RowStep
  <2>4. CASE ~drops /\ base = NoRow /\ ~bumped
    <3>1. live'[x] = CreateRow(p, ts, 0)
      BY <1>5, <1>6, <2>4
    <3>2. live[x] # NoRow => ts # live[x].at
      BY <1>2, <1>3, <1>6, <2>4 DEF Time
    <3>3. QED BY <1>2, <3>1, <3>2 DEF RowStep
  <2>5. QED BY <2>1, <2>2, <2>3, <2>4
<1>7. QED BY <1>4, <1>6 DEF RowStep

LEMMA EveryRowStep ==
    ASSUME IInv, [Next]_vars, NEW x \in Keys
    PROVE  RowStep(x)
<1>1. ASSUME NEW w \in Workers, Ingest(w) PROVE RowStep(x)
  <2>1. CASE MergeEntry(w)
    <3>1. pc[w] = "entry" /\ live[route[w]] # NoRow
          /\ live' = [live EXCEPT ![route[w]] = MergeRow(@, pkt[w].body, pkt[w].ts)]
      BY <2>1 DEF MergeEntry
    <3>2. pkt[w].body \in Bodies /\ pkt[w].ts \in Time
      BY <3>1, BusyWorker DEF IInv
    <3>3. live'[x] = live[x] \/ (x = route[w] /\ live'[x] = MergeRow(live[x], pkt[w].body, pkt[w].ts))
      BY <3>1 DEF IInv, Typed, TypeInv
    <3>4. QED BY <3>1, <3>2, <3>3 DEF RowStep
  <2>2. CASE InsertEntry(w)
    <3>1. pc[w] = "entry" /\ live[route[w]] = NoRow
          /\ live' = [live EXCEPT ![route[w]] = CreateRow(pkt[w].body, pkt[w].ts, 0)]
      BY <2>2 DEF InsertEntry
    <3>2. pkt[w].body \in Bodies /\ pkt[w].ts \in Time
      BY <3>1, BusyWorker DEF IInv
    <3>3. live'[x] = live[x] \/ (x = route[w] /\ live'[x] = CreateRow(pkt[w].body, pkt[w].ts, 0))
      BY <3>1 DEF IInv, Typed, TypeInv
    <3>4. QED BY <3>1, <3>2, <3>3 DEF RowStep
  <2>3. CASE IngestNewGeneration(w)
    BY <2>3, SplitRowStep
  <2>4. CASE ~(MergeEntry(w) \/ InsertEntry(w) \/ IngestNewGeneration(w))
    <3>1. live' = live
      BY <1>1, <2>4
         DEF Ingest, BeginIngest, ResolveConnectionKey, IgnoreLate, RequestSplit,
             PassToActive, DropAtCap, PassCap, CountCreated, table
    <3>2. QED BY <3>1 DEF RowStep
  <2>5. QED BY <2>1, <2>2, <2>3, <2>4
<1>2. CASE Cleanup
  <2>1. live'[x] = NoRow \/ live'[x] = live[x]
    BY <1>2 DEF Cleanup
  <2>2. QED BY <2>1 DEF RowStep
<1>3. CASE Clear
  BY <1>3 DEF Clear, RowStep
<1>4. CASE Tick \/ UNCHANGED vars
  BY <1>4 DEF Tick, vars, table, RowStep
<1>5. QED BY <1>1, <1>2, <1>3, <1>4 DEF Next

(***************************************************************************)
(* The terminal clock of a row.                                            *)
(***************************************************************************)
RowCoherent(r) ==
    /\ IsTerminal(r.state) <=> r.since # NoTime
    /\ r.since <= r.last
    /\ r.at <= r.last

LEMMA CreateCoherent ==
    ASSUME NEW p \in Bodies, NEW at \in Time, NEW ns \in Nat
    PROVE  RowCoherent(CreateRow(p, at, ns))
BY DEF CreateRow, RowCoherent, NoTime, Time

LEMMA MergeCoherent ==
    ASSUME NEW r \in Rows, RowCoherent(r), NEW p \in Bodies, NEW ts \in Time
    PROVE  RowCoherent(MergeRow(r, p, ts))
<1>1. r.last \in Time /\ r.since \in Time \cup {NoTime} /\ r.at \in Time
  BY DEF Rows
<1>2. Later(r.last, ts) \in Time /\ Later(r.last, ts) >= r.last
  BY <1>1 DEF Later, Time
<1>3. QED BY <1>1, <1>2 DEF MergeRow, RowCoherent, NoTime, Time

(* No packet takes a row out of a terminal state.                          *)
LEMMA TerminalStays ==
    ASSUME NEW s \in States, IsTerminal(s), NEW p \in Bodies
    PROVE  IsTerminal(NextState(s, p))
<1>1. CASE IsTcp(p)
  <2>1. IsTerminal(UpdateTcpState(s, p.flags, p.out))
    BY DEF UpdateTcpState, IsTerminal
  <2>2. QED BY <1>1, <2>1 DEF NextState
<1>2. CASE ~IsTcp(p)
  <2>1. p.state \in QuicStates
    BY <1>2 DEF Bodies, TcpPackets, QuicPackets, IsTcp
  <2>2. IsTerminal(MergeQuicState(s, p.state, p.close))
    BY <2>1 DEF MergeQuicState, IsTerminal, QuicPriority, QuicStates
  <2>3. QED BY <1>2, <2>2 DEF NextState
<1>3. QED BY <1>1, <1>2

TInv == IInv /\ TerminalClockCoherent

LEMMA CoherentNext == TInv /\ [Next]_vars => TerminalClockCoherent'
<1> SUFFICES ASSUME TInv, [Next]_vars, NEW k \in Keys, live'[k] # NoRow
             PROVE  RowCoherent(live'[k])
  BY DEF TerminalClockCoherent, RowCoherent, LiveKeys
<1>1. live[k] # NoRow => live[k] \in Rows /\ RowCoherent(live[k])
  BY LiveRow DEF TInv, IInv, Typed, TerminalClockCoherent, RowCoherent, LiveKeys
<1>2. RowStep(k)
  BY EveryRowStep DEF TInv
<1>3. CASE live'[k] = live[k]
  BY <1>1, <1>3
<1>4. CASE \E p \in Bodies, at \in Time, ns \in Nat : live'[k] = CreateRow(p, at, ns)
  BY <1>4, CreateCoherent
<1>5. CASE live[k] # NoRow /\ \E p \in Bodies, ts \in Time : live'[k] = MergeRow(live[k], p, ts)
  BY <1>1, <1>5, MergeCoherent
<1>6. QED BY <1>2, <1>3, <1>4, <1>5 DEF RowStep

(***************************************************************************)
(* A row has a terminal time exactly while it is terminal, and that time   *)
(* is not in the row's future.                                             *)
(***************************************************************************)
THEOREM ClockCoherent == Spec => []TerminalClockCoherent
<1>1. Init => TerminalClockCoherent
  BY DEF Init, TerminalClockCoherent, LiveKeys
<1>2. TInv /\ [Next]_vars => TInv'
  BY CoherentNext, IInvNext DEF TInv
<1>3. Init => IInv
  BY TypedInit, AccountingInit DEF IInv
<1>4. QED BY <1>1, <1>2, <1>3, PTL DEF Spec, TInv

(***************************************************************************)
(* While one generation stays in the table it stays terminal once it is,   *)
(* and its cleanup deadline does not move: no retransmitted teardown       *)
(* packet, in any state and of any kind, postpones its archival.           *)
(***************************************************************************)
THEOREM ClockNeverRestarts == Spec => TerminalClockNeverRestarts
<1> DEFINE Kept(k) == SameRow(live[k], live'[k]) /\ IsTerminal(live[k].state)
                        => IsTerminal(live'[k].state) /\ live'[k].since = live[k].since
<1>1. ASSUME TInv, [Next]_vars, NEW k \in Keys PROVE Kept(k)
  <2> SUFFICES ASSUME SameRow(live[k], live'[k]), IsTerminal(live[k].state)
               PROVE  IsTerminal(live'[k].state) /\ live'[k].since = live[k].since
    OBVIOUS
  <2>1. live[k] # NoRow /\ live'[k] # NoRow /\ live[k].at = live'[k].at
        /\ live[k].ns = live'[k].ns
    BY DEF SameRow
  <2>2. live[k] \in Rows /\ live[k].since # NoTime
    BY <1>1, <2>1, LiveRow DEF TInv, IInv, Typed, TerminalClockCoherent, LiveKeys
  <2>3. live[k].state \in States
    BY <2>2 DEF Rows
  <2>4. RowStep(k)
    BY <1>1, EveryRowStep DEF TInv
  <2>5. ASSUME NEW p \in Bodies, NEW at \in Time, NEW ns \in Nat,
               live'[k] = CreateRow(p, at, ns)
        PROVE  at = live[k].at /\ ns = live[k].ns
    BY <2>1, <2>5 DEF CreateRow
  <2>6. CASE live'[k] = live[k]
    BY <2>6
  <2>7. ASSUME NEW p \in Bodies, NEW ts \in Time, live'[k] = MergeRow(live[k], p, ts)
        PROVE  IsTerminal(live'[k].state) /\ live'[k].since = live[k].since
    BY <2>2, <2>3, <2>7, TerminalStays DEF MergeRow
  <2>8. QED BY <2>1, <2>4, <2>5, <2>6, <2>7 DEF RowStep
<1>2. Spec => []TInv
  BY Inductive, ClockCoherent, PTL DEF TInv
<1>3. TInv /\ [Next]_vars => [\A k \in Keys : Kept(k)]_vars
  BY <1>1
<1>4. QED BY <1>2, <1>3, PTL DEF Spec, TerminalClockNeverRestarts

(***************************************************************************)
(* The row a worker was routed to neither leaves the table nor becomes     *)
(* another generation until the worker has released the read guard.        *)
(***************************************************************************)
THEOREM RowHeld == Spec => RowHeldByReader
<1> DEFINE Held(w) == InGuard(w) /\ live[route[w]] # NoRow
                        => SameRow(live[route[w]], live'[route[w]])
<1>1. ASSUME IInv, [Next]_vars, NEW w \in Workers PROVE Held(w)
  <2> SUFFICES ASSUME InGuard(w), live[route[w]] # NoRow
               PROVE  SameRow(live[route[w]], live'[route[w]])
    OBVIOUS
  <2> DEFINE k == route[w]
  <2>1. k \in Keys
    BY <1>1, BusyWorker DEF InGuard, IInv
  <2>2. ~WriteGuardFree
    BY DEF WriteGuardFree
  <2>3. ASSUME NEW v \in Workers, Ingest(v) PROVE SameRow(live[k], live'[k])
    <3>1. CASE MergeEntry(v)
      <4> DEFINE j == route[v]
                 r == MergeRow(live[j], pkt[v].body, pkt[v].ts)
      <4>1. pc[v] = "entry" /\ live[j] # NoRow /\ live' = [live EXCEPT ![j] = r]
        BY <3>1 DEF MergeEntry
      <4>2. r.at = live[j].at /\ r.ns = live[j].ns
        BY DEF MergeRow
      <4>3. j \in Keys /\ live[j] \in Rows /\ r \in Rows
        BY <1>1, <4>1, BusyWorker, LiveRow, MergeRowType DEF IInv, Typed
      <4>4. r # NoRow
        BY <4>3, SentinelAssumption
      <4> HIDE DEF r
      <4>5. live'[k] = live[k] \/ (k = j /\ live'[k] = r)
        BY <1>1, <2>1, <4>1 DEF IInv, Typed, TypeInv
      <4>6. QED BY <4>1, <4>2, <4>4, <4>5 DEF SameRow
    <3>2. CASE InsertEntry(v)
      BY <1>1, <3>2 DEF InsertEntry, SameRow, IInv, Typed, TypeInv
    <3>3. CASE IngestNewGeneration(v)
      BY <2>2, <3>3 DEF IngestNewGeneration
    <3>4. CASE ~(MergeEntry(v) \/ InsertEntry(v) \/ IngestNewGeneration(v))
      BY <2>3, <3>4
         DEF Ingest, BeginIngest, ResolveConnectionKey, IgnoreLate, RequestSplit,
             PassToActive, DropAtCap, PassCap, CountCreated, table, SameRow
    <3>5. QED BY <3>1, <3>2, <3>3, <3>4
  <2>4. CASE Cleanup \/ Clear
    BY <2>2, <2>4 DEF Cleanup, Clear
  <2>5. CASE Tick \/ UNCHANGED vars
    BY <2>5 DEF Tick, vars, table, SameRow
  <2>6. QED BY <1>1, <2>3, <2>4, <2>5 DEF Next
<1>2. IInv /\ [Next]_vars => [\A w \in Workers : Held(w)]_vars
  BY <1>1
<1>3. QED BY <1>2, Inductive, PTL DEF Spec, RowHeldByReader

(***************************************************************************)
(* What a worker that passed the generation check still knows of its row,  *)
(* as long as it is the only worker.                                       *)
(***************************************************************************)
StillSameSession ==
    \A w \in Workers :
      pc[w] \in {"cap", "entry"} /\ live[route[w]] # NoRow
        => ~StartsNewGeneration(live[route[w]], pkt[w].body)

LEMMA SameSessionNext ==
    ASSUME \A v, w \in Workers : v = w, IInv, StillSameSession, [Next]_vars
    PROVE  StillSameSession'
<1>1. TypeInv
  BY DEF IInv, Typed
<1> SUFFICES ASSUME NEW w \in Workers, pc'[w] \in {"cap", "entry"}, live'[route'[w]] # NoRow
             PROVE  ~StartsNewGeneration(live'[route'[w]], pkt'[w].body)
  BY DEF StillSameSession, StartsNewGeneration
<1>2. ASSUME NEW v \in Workers, Ingest(v)
      PROVE  ~StartsNewGeneration(live'[route'[w]], pkt'[w].body)
  <2>1. v = w
    OBVIOUS
  <2>2. CASE PassToActive(v)
    BY <2>1, <2>2 DEF PassToActive, Goto, table
  <2>3. CASE PassCap(v)
    BY <2>1, <2>3 DEF PassCap, Goto, table, StillSameSession
  <2>4. CASE ~PassToActive(v) /\ ~PassCap(v)
    <3>1. pc'[w] \in {"resolve", "classify", "idle", "split", "count"}
      BY <1>1, <1>2, <2>1, <2>4
         DEF Ingest, BeginIngest, ResolveConnectionKey, IgnoreLate, RequestSplit, DropAtCap,
             MergeEntry, InsertEntry, CountCreated, IngestNewGeneration, Goto, Finish, TypeInv
    <3>2. QED BY <3>1
  <2>5. QED BY <2>2, <2>3, <2>4
<1>3. CASE Cleanup \/ Clear
  <2>1. UNCHANGED worker /\ WriteGuardFree
    BY <1>3 DEF Cleanup, Clear
  <2>2. QED BY <2>1 DEF worker, WriteGuardFree, InGuard
<1>4. CASE Tick \/ UNCHANGED vars
  <2>1. UNCHANGED <<table, worker>>
    BY <1>4 DEF Tick, vars
  <2>2. QED BY <2>1 DEF table, worker, StillSameSession
<1>5. QED BY <1>2, <1>3, <1>4 DEF Next

(***************************************************************************)
(* On a machine with one packet processor a new session is never merged    *)
(* into the connection it replaces: the only way to break the promise of   *)
(* is_closing_or_terminal is a second processor between check and merge.   *)
(***************************************************************************)
THEOREM OneWorkerNeverMerges ==
    ASSUME \A v, w \in Workers : v = w
    PROVE  Spec => NewSessionNeverMerged
<1>1. Init => StillSameSession
  BY DEF Init, StillSameSession
<1>2. IInv /\ StillSameSession /\ [Next]_vars => StillSameSession'
  BY SameSessionNext
<1>3. StillSameSession
        => \A w \in Workers : MergeEntry(w) => ~StartsNewGeneration(live[route[w]], pkt[w].body)
  BY DEF StillSameSession, MergeEntry
<1>4. QED BY <1>1, <1>2, <1>3, Inductive, PTL DEF Spec, NewSessionNeverMerged
=============================================================================
