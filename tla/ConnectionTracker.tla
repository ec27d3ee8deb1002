-------------------------- MODULE ConnectionTracker --------------------------
(***************************************************************************)
(* The live connection table of rustnet-core (network/tracker.rs), shared  *)
(* by several packet workers, a cleanup thread and the UI's clear key.     *)
(*                                                                         *)
(* A worker folds one packet at a time into the table (`ingest_at`).  It   *)
(* holds the `lifecycle` read guard for the whole of an ordinary update,   *)
(* so several workers interleave between their map and counter accesses:   *)
(* those accesses are the steps below.  `cleanup`, `clear` and the         *)
(* generation split hold the write guard, so each of them is one step that *)
(* needs every worker outside the guard.                                   *)
(*                                                                         *)
(* Time is counted in ticks of TickSeconds; comparisons with the source's  *)
(* timeouts are made in seconds.  Creation times carry the nanoseconds the *)
(* split path adds to keep two generations of a tuple apart.               *)
(***************************************************************************)
EXTENDS ConnectionStates, FiniteSets

CONSTANTS
    Workers,            \* packet processor threads
    TcpKeys,            \* flow keys of TCP packets
    QuicKeys,           \* flow keys of UDP packets that carry QUIC
    Cids,               \* QUIC connection ids
    Packets,            \* the parsed packets the wire may offer
    MaxConnections,     \* TrackerConfig::max_connections
    MaxHistoric,        \* TrackerConfig::max_historic
    MaxQuicMappings,    \* TrackerConfig::max_quic_mappings
    MaxTombstones,      \* max(max_historic, RECENTLY_CLOSED_MIN_ENTRIES)
    KeepHistoric,       \* TrackerConfig::keep_historic
    TickSeconds,        \* length of a clock tick
    MaxLag,             \* bound: ticks between capture and ingest of a packet
    MaxClock,           \* bound: last tick
    CaptureUntil,       \* bound: last tick at which workers take packets
    MaxBumps,           \* bound: split-path nanoseconds on a row still taking packets
    NoRow, NoKey, NoCid, NoPacket

Keys == TcpKeys \cup QuicKeys

Time == Nat

NoTime == -1

(* A QUIC packet's connection id: one that marks it for connection         *)
(* tracking (client Initial), one seen but not usable, or none at all.     *)
PacketIds == Cids \cup {"opaque", NoCid}

TcpPackets == [key : TcpKeys, flags : TcpFlags, out : BOOLEAN, payload : BOOLEAN]

QuicPackets == [key : QuicKeys, id : PacketIds, state : QuicStates, close : CloseFrames]

Captured == [body : TcpPackets \cup QuicPackets, ts : Time]

(***************************************************************************)
(* A row of the table.  `since` is Connection::terminal_since, `id` the    *)
(* connection id a QUIC row was first seen with.                           *)
(***************************************************************************)
Rows == [state : States, at : Time, ns : Nat, last : Time,
         since : Time \cup {NoTime}, id : PacketIds]

HistoricRows == [key : Keys, at : Time, ns : Nat, closed : Time, state : States]

ASSUME WorkersAssumption == IsFiniteSet(Workers) /\ Workers # {}

ASSUME KeysAssumption ==
    /\ IsFiniteSet(TcpKeys) /\ IsFiniteSet(QuicKeys)
    /\ TcpKeys \cap QuicKeys = {}

ASSUME PacketsAssumption == Packets \subseteq TcpPackets \cup QuicPackets

ASSUME LimitsAssumption ==
    /\ MaxConnections \in Nat /\ MaxHistoric \in Nat /\ MaxTombstones \in Nat
    /\ MaxQuicMappings \in Nat
    /\ KeepHistoric \in BOOLEAN
    /\ TickSeconds \in Nat \ {0}
    /\ MaxLag \in Nat /\ MaxClock \in Nat /\ CaptureUntil \in Nat /\ MaxBumps \in Nat

ASSUME SentinelAssumption ==
    /\ NoRow \notin Rows
    /\ NoKey \notin Keys
    /\ NoCid \notin Cids
    /\ NoPacket \notin Captured

VARIABLES
    live,           \* the active table: [Keys -> Rows or NoRow]
    historic,       \* the archive: a set of HistoricRows, one per <<key, at, ns>>
    active_count,   \* the atomic counter behind the max_connections check
    quic_map,       \* connection id -> key
    tombs,          \* recently_closed: key -> closing time or NoTime
    clock,          \* the wall clock, in ticks
    pc,             \* where each worker stands in ingest_at
    pkt,            \* the packet each worker is folding in
    route           \* the key its packet was resolved to

table == <<live, historic, active_count, quic_map, tombs>>
worker == <<pc, pkt, route>>
vars == <<table, clock, worker>>

-----------------------------------------------------------------------------
(* Rows and packets                                                        *)

IsTcp(p) == p.key \in TcpKeys

LiveKeys == {k \in Keys : live[k] # NoRow}

(* duration_since(..).unwrap_or_default(): a time in the future has age 0. *)
Age(now, t) == IF now > t THEN now - t ELSE 0

(* Later(a, b): the time of a row moves forward only.                      *)
Later(a, b) == IF a > b THEN a ELSE b

ObservedId(p) == IF IsTcp(p) THEN NoCid ELSE p.id

(* parsed_quic_id: the id that coalesces packets of one QUIC connection.   *)
HasCid(p) == ~IsTcp(p) /\ p.id \in Cids

FirstState(p) ==
    IF IsTcp(p) THEN UpdateTcpState("Unknown", p.flags, p.out)
    ELSE MergeQuicState(p.state, p.state, p.close)

NextState(s, p) ==
    IF IsTcp(p) THEN UpdateTcpState(s, p.flags, p.out)
    ELSE MergeQuicState(s, p.state, p.close)

(* Mutant of CreateRow: a row born terminal gets no terminal time.         *)
CreateRowNoClock(p, at, ns) ==
    [state |-> FirstState(p), at |-> at, ns |-> ns, last |-> at,
     since |-> NoTime, id |-> ObservedId(p)]

(* Mutant of CreateRow: the split's extra nanosecond is lost.              *)
CreateRowUnbumped(p, at, ns) ==
    [state |-> FirstState(p), at |-> at, ns |-> 0, last |-> at,
     since |-> IF IsTerminal(FirstState(p)) THEN at ELSE NoTime,
     id |-> ObservedId(p)]

(* create_connection_from_packet, at creation stamp <<at, ns>>.            *)
CreateRow(p, at, ns) ==
    [state |-> FirstState(p), at |-> at, ns |-> ns, last |-> at,
     since |-> IF IsTerminal(FirstState(p)) THEN at ELSE NoTime,
     id |-> ObservedId(p)]

(* Mutant of MergeRow: every packet of a terminal row restarts its clock.  *)
MergeRowRestarts(r, p, ts) ==
    LET s    == NextState(r.state, p)
        seen == Later(r.last, ts)
    IN  [state |-> s, at |-> r.at, ns |-> r.ns, last |-> seen,
         since |-> IF IsTerminal(s) THEN seen ELSE NoTime,
         id |-> IF r.id = NoCid THEN ObservedId(p) ELSE r.id]

(***************************************************************************)
(* merge_packet_into_connection: every packet refreshes last_activity, but *)
(* the terminal clock starts once and stays while the row is terminal.     *)
(***************************************************************************)
MergeRow(r, p, ts) ==
    LET s    == NextState(r.state, p)
        seen == Later(r.last, ts)
    IN  [state |-> s, at |-> r.at, ns |-> r.ns, last |-> seen,
         since |-> IF ~IsTerminal(s) THEN NoTime
                   ELSE IF ~IsTerminal(r.state) \/ r.since = NoTime THEN seen
                   ELSE r.since,
         id |-> IF r.id = NoCid THEN ObservedId(p) ELSE r.id]

(* Teardown traffic that must not start a row of its own.                  *)
TeardownOnly(p) ==
    /\ IsTcp(p)
    /\ ~p.flags.syn
    /\ p.flags.fin \/ p.flags.rst \/ (p.flags.ack /\ ~p.payload)

TombstoneSeconds == 30

IsRecent(now, t) == Age(now, t) * TickSeconds <= TombstoneSeconds

IsRecentLatePacket(k, p, ts) ==
    /\ TeardownOnly(p)
    /\ tombs[k] # NoTime
    /\ IsRecent(ts, tombs[k])

(* A SYN, or a different QUIC connection id, on a row that is closing.     *)
StartsNewGeneration(r, p) ==
    /\ IsClosingOrTerminal(r.state)
    /\ IF IsTcp(p) THEN p.flags.syn
       ELSE p.id \in Cids /\ r.id \in Cids /\ p.id # r.id

CleanupReference(r) == IF IsTerminal(r.state) /\ r.since # NoTime THEN r.since ELSE r.last

(* Mutant of ShouldCleanup: terminal rows are left for the split path.     *)
ShouldCleanupUnlessTerminal(r, now) ==
    /\ ~IsTerminal(r.state)
    /\ Age(now, r.last) * TickSeconds > TimeoutSeconds(r.state)

ShouldCleanup(r, now) ==
    Age(now, CleanupReference(r)) * TickSeconds > TimeoutSeconds(r.state)

-----------------------------------------------------------------------------
(* The maps beside the active table                                        *)

Archived(k, r, now) ==
    [key |-> k, at |-> r.at, ns |-> r.ns, closed |-> now, state |-> r.state]

(* Mutant of SameGeneration: HistoricKey without created_nanos.            *)
SameTuple(h, g) == h.key = g.key

SameGeneration(h, g) == h.key = g.key /\ h.at = g.at /\ h.ns = g.ns

(* historic.insert of every row of New: an equal HistoricKey is replaced.  *)
InsertHistoric(New) ==
    {h \in historic : \A g \in New : ~SameGeneration(h, g)} \cup New

(* Mutant of EnforceHistoricLimit: the archive may exceed its limit by one.*)
EnforceHistoricLimitLate(H) ==
    IF Cardinality(H) <= MaxHistoric + 1 THEN {H}
    ELSE {K \in SUBSET H : Cardinality(K) = MaxHistoric}

(***************************************************************************)
(* The archives that may be left of H once enforce_historic_limit has      *)
(* evicted the oldest-closed rows; rows closed at one time fall in any     *)
(* order.                                                                  *)
(***************************************************************************)
EnforceHistoricLimit(H) ==
    IF Cardinality(H) <= MaxHistoric THEN {H}
    ELSE {K \in SUBSET H :
            /\ Cardinality(K) = MaxHistoric
            /\ \A old \in H \ K, kept \in K : old.closed <= kept.closed}

(* The tombstones left after expiry and the capacity eviction.             *)
PruneRecentlyClosed(T, now) ==
    LET fresh   == {k \in Keys : T[k] # NoTime /\ IsRecent(now, T[k])}
        Only(K) == [k \in Keys |-> IF k \in K THEN T[k] ELSE NoTime]
    IN  IF Cardinality(fresh) <= MaxTombstones THEN {Only(fresh)}
        ELSE {Only(K) : K \in {L \in SUBSET fresh :
                /\ Cardinality(L) = MaxTombstones
                /\ \A old \in fresh \ L, kept \in L : T[old] <= T[kept]}}

(* Mutant of RecordRecentlyClosed: an older tombstone is not refreshed.    *)
RecordFirstClosed(K, now) ==
    [k \in Keys |-> IF k \in K /\ IsTerminal(live[k].state) /\ tombs[k] = NoTime
                    THEN now ELSE tombs[k]]

(* record_recently_closed for every key of K that is live and terminal.    *)
RecordRecentlyClosed(K, now) ==
    [k \in Keys |-> IF k \in K /\ IsTerminal(live[k].state) THEN now ELSE tombs[k]]

MappedCids(m) == {c \in Cids : m[c] # NoKey}

(* Mutant of Unmapped: removed rows keep their ids.                        *)
UnmappedNothing(m, K) == m

Unmapped(m, K) == [c \in Cids |-> IF m[c] \in K THEN NoKey ELSE m[c]]

(* Inserting c -> k; a full map is cleared wholesale first.                *)
Associated(m, c, k) ==
    IF Cardinality(MappedCids(m)) >= MaxQuicMappings
    THEN [d \in Cids |-> IF d = c THEN k ELSE NoKey]
    ELSE [m EXCEPT ![c] = k]

-----------------------------------------------------------------------------
(* Ingest under the lifecycle read guard                                   *)

InGuard(w) == pc[w] \in {"resolve", "classify", "cap", "entry", "count"}

(* Mutant of WriteGuardFree: no lifecycle lock.                            *)
NoLifecycleLock == TRUE

(* The write guard is granted when no worker holds the read guard.         *)
WriteGuardFree == \A w \in Workers : ~InGuard(w)

Goto(w, step) ==
    /\ pc' = [pc EXCEPT ![w] = step]
    /\ UNCHANGED <<pkt, route>>

(* Leaving ingest_at releases the read guard and forgets the packet.       *)
Finish(w) ==
    /\ pc' = [pc EXCEPT ![w] = "idle"]
    /\ pkt' = [pkt EXCEPT ![w] = NoPacket]
    /\ route' = [route EXCEPT ![w] = NoKey]

(***************************************************************************)
(* A worker takes a packet captured up to MaxLag ticks ago and acquires    *)
(* the read guard.  Only packets with a QUIC id touch the id map.          *)
(***************************************************************************)
BeginIngest(w) ==
    /\ pc[w] = "idle"
    /\ clock <= CaptureUntil
    /\ \E p \in Packets, ts \in 0..clock :
         /\ clock - ts <= MaxLag
         /\ live[p.key] # NoRow => live[p.key].ns < MaxBumps
         /\ pkt' = [pkt EXCEPT ![w] = [body |-> p, ts |-> ts]]
         /\ route' = [route EXCEPT ![w] = p.key]
         /\ pc' = [pc EXCEPT ![w] = IF HasCid(p) THEN "resolve" ELSE "classify"]
    /\ UNCHANGED <<table, clock>>

(* resolve_connection_key: follow the id's mapping or create it.           *)
ResolveConnectionKey(w) ==
    LET p == pkt[w].body
    IN  /\ pc[w] = "resolve"
        /\ pc' = [pc EXCEPT ![w] = "classify"]
        /\ IF quic_map[p.id] # NoKey
           THEN /\ route' = [route EXCEPT ![w] = quic_map[p.id]]
                /\ UNCHANGED quic_map
           ELSE /\ quic_map' = Associated(quic_map, p.id, p.key)
                /\ UNCHANGED route
        /\ UNCHANGED <<live, historic, active_count, tombs, clock, pkt>>

(* Mutant of IgnoreLate: the loop continues without taking the packet off. *)
IgnoreLateRetries(w) ==
    LET k == route[w]
    IN  /\ pc[w] = "classify"
        /\ live[k] = NoRow
        /\ IsRecentLatePacket(k, pkt[w].body, pkt[w].ts)
        /\ Goto(w, "classify")
        /\ UNCHANGED <<table, clock>>

(* A delayed teardown packet of a recently archived tuple is dropped.      *)
IgnoreLate(w) ==
    LET k == route[w]
    IN  /\ pc[w] = "classify"
        /\ live[k] = NoRow
        /\ IsRecentLatePacket(k, pkt[w].body, pkt[w].ts)
        /\ Finish(w)
        /\ UNCHANGED <<table, clock>>

(* The read guard is dropped; the write guard is requested.                *)
RequestSplit(w) ==
    LET k == route[w]
    IN  /\ pc[w] = "classify"
        /\ live[k] # NoRow
        /\ StartsNewGeneration(live[k], pkt[w].body)
        /\ Goto(w, "split")
        /\ UNCHANGED <<table, clock>>

PassToActive(w) ==
    LET k == route[w]
    IN  /\ pc[w] = "classify"
        /\ IF live[k] = NoRow
           THEN ~IsRecentLatePacket(k, pkt[w].body, pkt[w].ts)
           ELSE ~StartsNewGeneration(live[k], pkt[w].body)
        /\ Goto(w, "cap")
        /\ UNCHANGED <<table, clock>>

(* Mutant of AtCap: the limit is off by one.                               *)
AtCapLate(k) == active_count > MaxConnections /\ live[k] = NoRow

(***************************************************************************)
(* ingest_into_active, first half: at the limit only an existing row may   *)
(* still be updated.  The count is read here and acted on two steps later. *)
(***************************************************************************)
AtCap(k) == active_count >= MaxConnections /\ live[k] = NoRow

DropAtCap(w) ==
    /\ pc[w] = "cap"
    /\ AtCap(route[w])
    /\ Finish(w)
    /\ UNCHANGED <<table, clock>>

PassCap(w) ==
    /\ pc[w] = "cap"
    /\ ~AtCap(route[w])
    /\ Goto(w, "entry")
    /\ UNCHANGED <<table, clock>>

(* Mutant of MergeEntry: `created` is set on the merge path too.           *)
MergeEntryCounted(w) ==
    LET k == route[w]
    IN  /\ pc[w] = "entry"
        /\ live[k] # NoRow
        /\ live' = [live EXCEPT ![k] = MergeRow(@, pkt[w].body, pkt[w].ts)]
        /\ Goto(w, "count")
        /\ UNCHANGED <<historic, active_count, quic_map, tombs, clock>>

(* entry(key).and_modify: fold the packet into the row found under the key.*)
MergeEntry(w) ==
    LET k == route[w]
    IN  /\ pc[w] = "entry"
        /\ live[k] # NoRow
        /\ live' = [live EXCEPT ![k] = MergeRow(@, pkt[w].body, pkt[w].ts)]
        /\ Finish(w)
        /\ UNCHANGED <<historic, active_count, quic_map, tombs, clock>>

(* entry(key).or_insert_with; the counter follows in a step of its own.    *)
InsertEntry(w) ==
    LET k == route[w]
    IN  /\ pc[w] = "entry"
        /\ live[k] = NoRow
        /\ live' = [live EXCEPT ![k] = CreateRow(pkt[w].body, pkt[w].ts, 0)]
        /\ Goto(w, "count")
        /\ UNCHANGED <<historic, active_count, quic_map, tombs, clock>>

(* Mutant of CountCreated: the fetch_add is missing.                       *)
CountCreatedLost(w) ==
    /\ pc[w] = "count"
    /\ Finish(w)
    /\ UNCHANGED <<table, clock>>

CountCreated(w) ==
    /\ pc[w] = "count"
    /\ active_count' = active_count + 1
    /\ Finish(w)
    /\ UNCHANGED <<live, historic, quic_map, tombs, clock>>

-----------------------------------------------------------------------------
(* Writers: each runs alone                                                *)

(***************************************************************************)
(* ingest_new_generation.  The row may have changed while the worker       *)
(* waited for the write guard, so the decision is taken again.  A split    *)
(* archives the closing row and frees its slot before the packet goes      *)
(* through the ordinary limit check.                                       *)
(***************************************************************************)
IngestNewGeneration(w) ==
    LET k      == route[w]
        p      == pkt[w].body
        ts     == pkt[w].ts
        old    == live[k]
        splits == old # NoRow /\ StartsNewGeneration(old, p)
        base   == IF splits THEN NoRow ELSE old
        bumped == splits /\ ts <= old.at
        count  == IF splits THEN active_count - 1 ELSE active_count
        kept   == IF splits THEN Unmapped(quic_map, {k}) ELSE quic_map
        drops  == base = NoRow /\ count >= MaxConnections
    IN  /\ pc[w] = "split"
        /\ WriteGuardFree
        /\ live' = [live EXCEPT ![k] =
             IF drops THEN NoRow
             ELSE IF base # NoRow THEN MergeRow(base, p, ts)
             ELSE IF bumped THEN CreateRow(p, old.at, old.ns + 1)
             ELSE CreateRow(p, ts, 0)]
        /\ active_count' = IF base = NoRow /\ ~drops THEN count + 1 ELSE count
        /\ quic_map' = IF HasCid(p) THEN Associated(kept, p.id, k) ELSE kept
        /\ historic' \in EnforceHistoricLimit(
             IF splits /\ KeepHistoric THEN InsertHistoric({Archived(k, old, ts)}) ELSE historic)
        /\ tombs' \in PruneRecentlyClosed(
             IF splits THEN RecordRecentlyClosed({k}, ts) ELSE tombs, ts)
        /\ Finish(w)
        /\ UNCHANGED clock

(* cleanup(now): archive every row whose protocol timeout has passed.      *)
Cleanup ==
    LET removed == {k \in LiveKeys : ShouldCleanup(live[k], clock)}
    IN  /\ WriteGuardFree
        /\ live' = [k \in Keys |-> IF k \in removed THEN NoRow ELSE live[k]]
        /\ active_count' = active_count - Cardinality(removed)
        /\ historic' \in
             IF KeepHistoric
             THEN EnforceHistoricLimit(
                    InsertHistoric({Archived(k, live[k], clock) : k \in removed}))
             ELSE {historic}
        /\ quic_map' = Unmapped(quic_map, removed)
        /\ tombs' \in PruneRecentlyClosed(RecordRecentlyClosed(removed, clock), clock)
        /\ UNCHANGED <<clock, worker>>

(* clear(): the UI's "clear all".                                          *)
Clear ==
    /\ WriteGuardFree
    /\ live' = [k \in Keys |-> NoRow]
    /\ active_count' = 0
    /\ historic' = {}
    /\ quic_map' = [c \in Cids |-> NoKey]
    /\ tombs' = [k \in Keys |-> NoTime]
    /\ UNCHANGED <<clock, worker>>

(* Time passes; no packet in hand gets older than MaxLag.                  *)
Tick ==
    /\ clock < MaxClock
    /\ \A w \in Workers : pc[w] # "idle" => clock + 1 - pkt[w].ts <= MaxLag
    /\ clock' = clock + 1
    /\ UNCHANGED <<table, worker>>

-----------------------------------------------------------------------------
Init ==
    /\ live = [k \in Keys |-> NoRow]
    /\ historic = {}
    /\ active_count = 0
    /\ quic_map = [c \in Cids |-> NoKey]
    /\ tombs = [k \in Keys |-> NoTime]
    /\ clock = 0
    /\ pc = [w \in Workers |-> "idle"]
    /\ pkt = [w \in Workers |-> NoPacket]
    /\ route = [w \in Workers |-> NoKey]

Ingest(w) ==
    \/ BeginIngest(w)
    \/ ResolveConnectionKey(w)
    \/ IgnoreLate(w)
    \/ RequestSplit(w)
    \/ PassToActive(w)
    \/ DropAtCap(w)
    \/ PassCap(w)
    \/ MergeEntry(w)
    \/ InsertEntry(w)
    \/ CountCreated(w)
    \/ IngestNewGeneration(w)

Next ==
    \/ \E w \in Workers : Ingest(w)
    \/ Cleanup
    \/ Clear
    \/ Tick

Spec == Init /\ [][Next]_vars

(***************************************************************************)
(* Fairness: threads run, so a step that stays enabled is taken, and the   *)
(* cleanup thread and the clock never stop.  The write guard is only free  *)
(* now and then; the standard library's RwLock parks new readers behind a  *)
(* waiting writer, which makes a writer that is granted the guard again    *)
(* and again get it in the end (strong fairness).                          *)
(***************************************************************************)
UnderGuard(w) ==
    \/ ResolveConnectionKey(w) \/ IgnoreLate(w) \/ RequestSplit(w) \/ PassToActive(w)
    \/ DropAtCap(w) \/ PassCap(w) \/ MergeEntry(w) \/ InsertEntry(w) \/ CountCreated(w)

Fairness ==
    /\ \A w \in Workers : WF_vars(UnderGuard(w)) /\ SF_vars(IngestNewGeneration(w))
    /\ SF_vars(Cleanup)
    /\ WF_vars(Tick)

FairSpec == Spec /\ Fairness

-----------------------------------------------------------------------------
(* Properties                                                              *)

(* Every variable has its type; active_count (a usize) never underflows.   *)
TypeOK ==
    /\ live \in [Keys -> Rows \cup {NoRow}]
    /\ historic \subseteq HistoricRows
    /\ active_count \in Nat
    /\ quic_map \in [Cids -> Keys \cup {NoKey}]
    /\ tombs \in [Keys -> Time \cup {NoTime}]
    /\ clock \in Time
    /\ pc \in [Workers -> {"idle", "resolve", "classify", "cap", "entry", "count", "split"}]
    /\ pkt \in [Workers -> Captured \cup {NoPacket}]
    /\ route \in [Workers -> Keys \cup {NoKey}]

(* Workers that have inserted a row they have not counted yet.             *)
Owing == {w \in Workers : pc[w] = "count"}

(***************************************************************************)
(* The counter behind the limit check equals the size of the table but for *)
(* the rows whose creator is still between its insert and its fetch_add:   *)
(* no path (late packet, drop, split, cleanup, clear) leaks or repays a    *)
(* slot twice, whatever the interleaving.                                  *)
(***************************************************************************)
CountAccounting == active_count + Cardinality(Owing) = Cardinality(LiveKeys)

(***************************************************************************)
(* Checking the limit and inserting are separate steps, so the table may   *)
(* exceed max_connections, but only by the other workers that passed the   *)
(* check on the same free slot.                                            *)
(***************************************************************************)
CapOvershootBounded ==
    Cardinality(LiveKeys) <= MaxConnections + Cardinality(Workers) - 1

(* Creation stamps compare as instants with nanoseconds.                   *)
CreatedBefore(a, b) == a.at < b.at \/ (a.at = b.at /\ a.ns < b.ns)

(***************************************************************************)
(* Every archived generation of a tuple was created before the live one.   *)
(* So a live row never shares its HistoricKey with the archive, although   *)
(* packets are processed out of capture order and batches share a time.    *)
(* Needs MaxLag ticks to be no longer than the shortest cleanup timeout,   *)
(* and the limit out of reach: once the successor of a split is dropped,   *)
(* an older packet may open the next row.                                  *)
(***************************************************************************)
GenerationsOrdered ==
    \A h \in historic : h.key \in LiveKeys => CreatedBefore(h, live[h.key])

(***************************************************************************)
(* An archived row never changes: it is evicted or cleared, but no later   *)
(* generation of its tuple overwrites it.                                  *)
(***************************************************************************)
HistoricImmutable ==
    [][\A h \in historic : h \in historic' \/ \A g \in historic' : ~SameGeneration(h, g)]_vars

(***************************************************************************)
(* A row has a terminal time exactly while its state is terminal, and that *)
(* time is one at which the row was seen.                                  *)
(***************************************************************************)
TerminalClockCoherent ==
    \A k \in LiveKeys :
      /\ IsTerminal(live[k].state) <=> live[k].since # NoTime
      /\ live[k].since <= live[k].last
      /\ live[k].at <= live[k].last

SameRow(r, s) == r # NoRow /\ s # NoRow /\ r.at = s.at /\ r.ns = s.ns

(***************************************************************************)
(* Retransmitted teardown packets do not postpone archival: while one      *)
(* generation stays in the table, a terminal row stays terminal and its    *)
(* cleanup deadline does not move.                                         *)
(***************************************************************************)
TerminalClockNeverRestarts ==
    [][\A k \in Keys :
         SameRow(live[k], live'[k]) /\ IsTerminal(live[k].state)
           => IsTerminal(live'[k].state) /\ live'[k].since = live[k].since]_vars

(***************************************************************************)
(* Delayed teardown traffic creates no phantom row: no row is started by a *)
(* teardown-only packet while the archive still holds a terminal           *)
(* generation of its tuple closed within the tombstone time, less the lag. *)
(* (Wall clock and capture times mix: cleanup dates and expires tombstones *)
(* by the one, the split and the packets by the other.)                    *)
(***************************************************************************)
NoPhantomRow ==
    [][\A w \in Workers :
         LET k == route[w]
         IN  (pkt[w] # NoPacket /\ TeardownOnly(pkt[w].body) /\ pc[w] # "idle" /\ pc'[w] # pc[w]
                /\ live[k] = NoRow /\ live'[k] # NoRow)
             => \A h \in historic : h.key = k /\ IsTerminal(h.state)
                                      => ~IsRecent(clock + MaxLag, h.closed)]_vars

(***************************************************************************)
(* What a worker found under the read guard stays: a row it was routed to  *)
(* is neither removed nor replaced by another generation until the worker  *)
(* has left, so a packet is never folded into a generation other than the  *)
(* one it was classified against.                                          *)
(***************************************************************************)
RowHeldByReader ==
    [][\A w \in Workers :
         InGuard(w) /\ live[route[w]] # NoRow => SameRow(live[route[w]], live'[route[w]])]_vars

(***************************************************************************)
(* types.rs, is_closing_or_terminal: "a strong new-session signal should   *)
(* start a fresh generation instead of being merged into this connection". *)
(* The decision and the merge are separate accesses, so another worker can *)
(* create the row closed, from a RST, or close it, in between.             *)
(***************************************************************************)
NewSessionNeverMerged ==
    [][\A w \in Workers :
         MergeEntry(w) => ~StartsNewGeneration(live[route[w]], pkt[w].body)]_vars

(***************************************************************************)
(* A QUIC id leads to the tuple of a live row, or of the row a worker      *)
(* under the guard is about to create: archiving, splitting and clearing   *)
(* leave no id behind, so a later connection that reuses an id is never    *)
(* filed under a tuple whose connection is gone.  (A packet dropped at     *)
(* max_connections leaves its id mapped, so the limit must be out of reach *)
(* here.)                                                                  *)
(***************************************************************************)
IdsRouteToRows ==
    \A c \in MappedCids(quic_map) :
      \/ quic_map[c] \in LiveKeys
      \/ \E w \in Workers : InGuard(w) /\ route[w] = quic_map[c]

GenerationOf(k, r) == [key |-> k, at |-> r.at, ns |-> r.ns]

Retained == INSTANCE RetainedTable WITH
    RetainKeys <- Keys,
    RetainLimit <- MaxHistoric,
    Retains <- KeepHistoric,
    active <- {GenerationOf(k, live[k]) : k \in LiveKeys},
    archive <- {GenerationOf(h.key, h) : h \in historic}

(***************************************************************************)
(* The tracker keeps the promises of RetainedTable: cleanup and the split  *)
(* move rows into the archive in one step, the archive stays within        *)
(* max_historic, and no new row takes the HistoricKey of an archived one.  *)
(***************************************************************************)
KeepsRetainedTable == Retained!Spec

(* No worker is left waiting for the write guard or half way through.      *)
EveryPacketLeaves == \A w \in Workers : pc[w] # "idle" ~> pc[w] = "idle"

(***************************************************************************)
(* Once capture stops the table drains: every row is archived in the end,  *)
(* and no slot of the limit and no id mapping of a tracked row is leaked.  *)
(***************************************************************************)
TableDrains == <>[](LiveKeys = {} /\ active_count = 0)
=============================================================================
