-------------------------- MODULE ProcessAttribution --------------------------
(***************************************************************************)
(* How a row of the connection table gets its process on Linux: processes  *)
(* open sockets and call into the kernel, where the eBPF programs record   *)
(* them (SocketTracker); packets start rows; the enrichment thread (app.rs)*)
(* asks EnhancedLinuxProcessLookup (linux/enhanced.rs) about rows without  *)
(* a process, which answers from its cache, from socket_map or from the    *)
(* last scan of /proc, and sweeps old records out of socket_map.           *)
(*                                                                         *)
(* A flow is one use a socket can be put to: the kernel call that is       *)
(* traced, the socket as the programs find it, the destination given, and  *)
(* the source address its packets carry.                                   *)
(***************************************************************************)
EXTENDS SocketTracker

CONSTANTS
    Flows,              \* the flows processes may open
    Environments,       \* what the kernel and our privileges may allow
    Nobody,
    NoRow, Pending,     \* no row; a row without a process
    NoAnswer,
    CleanupInterval,    \* CleanupConfig::cleanup_interval_secs, in ticks
    StaleThreshold,     \* CleanupConfig::stale_threshold_secs
    CacheTtl,           \* how long after a refresh cached answers count
    RefreshInterval,    \* the enrichment thread refreshes when more have passed
    MaxOpens,           \* bound: sockets opened
    MaxTuples           \* bound: different tuples they use

Calls == {"connect", "accept", "send", "ping", "forward"}

FlowRecords == [call : Calls, sk : Sockets \cup {NoSocket}, msg : Messages,
                src : V4 \cup V6, dst : V4 \cup V6 \cup {Zero}]

CORE_CAPABILITIES ==
    {"TCP_V4_CONNECT", "TCP_V6_CONNECT", "TCP_ACCEPT", "UDP_V4_SEND", "UDP_V6_SEND"}

Capabilities == CORE_CAPABILITIES \cup {"ICMP_V4_SEND", "ICMP_V6_SEND"}

(* Which parts of the loader succeed: privileges, kernel BTF, the required *)
(* programs of each backend, and the optional ping programs.               *)
EnvironmentRecords == [privileged : BOOLEAN, btf : BOOLEAN, fentry : BOOLEAN,
                       kprobe : BOOLEAN, ping : SUBSET {"ICMP_V4_SEND", "ICMP_V6_SEND"}]

EbpfQualities == {"ExactTuple", "WildcardLocalAddress"}

Qualities == EbpfQualities \cup {"ProcfsExact", "ProcfsRelaxed"}

ASSUME IntervalsAssumption ==
    /\ CleanupInterval \in Nat \ {0} /\ StaleThreshold \in Nat
    /\ CacheTtl \in Nat \ {0} /\ RefreshInterval \in Nat
    /\ CacheTtl <= RefreshInterval
    /\ MaxAge >= StaleThreshold + CleanupInterval
    /\ MaxOpens \in Nat /\ MaxTuples \in Nat

ASSUME AnswerAssumption == NoAnswer \notin [pid : Procs, quality : Qualities, age : Nat]

ASSUME EnvironmentsAssumption == Environments \subseteq EnvironmentRecords

VARIABLES
    loaded,         \* the backend and capabilities try_load came back with
    owner,          \* who has each flow open
    called,         \* flows whose traced call has returned
    recorded,       \* observer: open flows with a record of theirs in socket_map
    opens,          \* the tuples of the sockets opened so far
    rows,           \* the connection table: what each row knows of its process
    table,          \* LinuxProcessLookup's socket table, as last scanned
    cache,          \* the unified cache of answers
    pc, asking,     \* the enrichment thread: where it is and on which row
    doomed,         \* the keys its sweep found to be stale
    sinceCleanup, sinceRefresh, cacheAge    \* ticks since last_cleanup and so on

kernel == <<owner, called, opens>>
thread == <<pc, asking, doomed>>
clocks == <<sinceCleanup, sinceRefresh, cacheAge>>
vars == <<socket_map, loaded, kernel, recorded, rows, table, cache, thread, clocks>>

-----------------------------------------------------------------------------
(* Tuples                                                                  *)

(* The destination as the packets carry it.                                *)
Plain(a) == IF a \in MappedV4 THEN a.mapped ELSE a

(* An unbound socket, whose record carries no local address.               *)
Unbound(f) == f.sk.rcv_saddr = Zero /\ f.sk.v6_rcv_saddr = Zero

(* The destination the kernel sends to.                                    *)
Peer(f) ==
    IF f.msg # NoName THEN f.msg.addr
    ELSE IF f.sk.family = "AF_INET" THEN f.sk.daddr ELSE f.sk.v6_daddr

(***************************************************************************)
(* What the kernel guarantees of a traced socket: its packets leave from   *)
(* the address it is bound to, a dual-stack socket with an IPv4 peer has   *)
(* both families' fields in agreement, and only sends name a destination   *)
(* (a ping socket refuses a mapped one).                                   *)
(***************************************************************************)
Consistent(f) ==
    LET v4    == f.sk.family = "AF_INET" \/ Peer(f) \in MappedV4
        bound == IF v4 THEN f.sk.rcv_saddr ELSE f.sk.v6_rcv_saddr
    IN  /\ f.sk # NoSocket
        /\ f.src \in IF v4 THEN V4 ELSE V6
        /\ f.dst = Plain(Peer(f))
        /\ bound \in {f.src, Zero} /\ (bound = Zero => Unbound(f))
        /\ f.sk.v6_daddr \in MappedV4 => f.sk.daddr = Plain(f.sk.v6_daddr)
        /\ f.call \in {"connect", "accept"} => f.msg = NoName
        /\ f.sk.family = "AF_INET" \/ f.call = "ping" => Peer(f) \notin MappedV4

ASSUME FlowsAssumption ==
    /\ Flows \subseteq FlowRecords
    /\ \A f \in Flows : f.call # "forward" => Consistent(f)

(***************************************************************************)
(* The row the packets of a flow belong to.  ICMP rows carry no ports, and *)
(* the echo identifier beside the tuple.                                   *)
(***************************************************************************)
ConnOf(f) ==
    LET ping  == f.call = "ping"
        rport == IF f.msg = NoName THEN f.sk.dport ELSE f.msg.port
    IN  [protocol |-> IF ping THEN "ICMP" ELSE IF f.call = "send" THEN "UDP" ELSE "TCP",
         local |-> f.src, remote |-> f.dst,
         lport |-> IF ping THEN 0 ELSE f.sk.num,
         rport |-> IF ping THEN 0 ELSE rport,
         icmp_id |-> IF ping THEN f.sk.num ELSE 0]

Conns == {ConnOf(f) : f \in Flows}

ASSUME RowsAssumption == NoRow \notin Conns

IsV4(c) == c.local \in V4

(* ConnectionKey::from_connection; `v` is the variant of its SocketAddrs.  *)
from_connection(c) ==
    [protocol |-> c.protocol, v |-> IF IsV4(c) THEN 4 ELSE 6,
     local |-> c.local, lport |-> c.lport, remote |-> c.remote, rport |-> c.rport]

ConnectionKeys == {from_connection(c) : c \in Conns}

(* ConnKey::new_v4, new_v6, new_icmp_v4 and new_icmp_v6                    *)
ConnKey(c) ==
    [saddr |-> c.local, daddr |-> c.remote,
     sport |-> IF c.protocol = "ICMP" THEN c.icmp_id ELSE c.lport, dport |-> c.rport,
     proto |-> IF c.protocol # "ICMP" THEN c.protocol ELSE IF IsV4(c) THEN "ICMP" ELSE "ICMPV6",
     family |-> IF IsV4(c) THEN "AF_INET" ELSE "AF_INET6"]

-----------------------------------------------------------------------------
(* The kernel side                                                         *)

(* EbpfLoader::try_load: the best backend the environment allows.          *)
try_load(env) ==
    IF ~env.privileged \/ ~env.btf \/ (~env.fentry /\ ~env.kprobe)
    THEN [backend |-> "Procfs", capabilities |-> {}]
    ELSE [backend |-> IF env.fentry THEN "EbpfFentry" ELSE "EbpfKprobe",
          capabilities |-> CORE_CAPABILITIES \cup env.ping]

EbpfLoaded == loaded.backend # "Procfs"

(* What the programs that are attached store when f's call is made.        *)
TracedKeys(f) ==
    CASE ~EbpfLoaded -> <<>>
      [] EbpfLoaded /\ f.call = "connect" ->
           IF loaded.backend = "EbpfFentry" THEN FentryConnectKeys(f.sk)
           ELSE KprobeConnectKeys(f.sk)
      [] EbpfLoaded /\ f.call = "accept" -> AcceptKeys(f.sk)
      [] EbpfLoaded /\ f.call = "send" -> SendKeys(f.sk, f.msg)
      [] EbpfLoaded /\ f.call = "ping" ->
           IF f.sk.family = "AF_INET"
           THEN IF "ICMP_V4_SEND" \in loaded.capabilities THEN PingV4Keys(f.sk, f.msg) ELSE <<>>
           ELSE IF "ICMP_V6_SEND" \in loaded.capabilities THEN PingV6Keys(f.sk, f.msg) ELSE <<>>
      [] EbpfLoaded /\ f.call = "forward" -> <<>>

OpenFlows == {f \in Flows : owner[f] # Nobody}

(* No two processes share a local port.                                    *)
PortFree(f, p) ==
    \A g \in OpenFlows :
      owner[g] = p \/ ConnOf(g).protocol # ConnOf(f).protocol \/ g.sk.num # f.sk.num

(* A process opens a socket; nothing is traced yet.                        *)
Open(f, p) ==
    /\ f.call # "forward"
    /\ Len(opens) < MaxOpens
    /\ Cardinality(ToSet(opens) \cup {ConnOf(f)}) <= MaxTuples
    /\ owner[f] = Nobody
    /\ \A g \in OpenFlows : ConnOf(g) # ConnOf(f)
    /\ PortFree(f, p)
    /\ owner' = [owner EXCEPT ![f] = p]
    /\ opens' = Append(opens, ConnOf(f))
    /\ UNCHANGED <<socket_map, loaded, called, recorded, rows, table, cache, thread, clocks>>

(***************************************************************************)
(* The traced call is made and its programs run.  Sends may be repeated.   *)
(* The observer notes whether a record of this call is now in the map.     *)
(***************************************************************************)
Call(f) ==
    LET p    == owner[f]
        keys == TracedKeys(f)
    IN  /\ p # Nobody
        /\ f.call # "send" => f \notin called
        /\ called' = called \cup {f}
        /\ socket_map' = Stored(socket_map, keys, p)
        /\ recorded' = IF keys # <<>> /\ Last(keys) \in DOMAIN socket_map'
                       THEN recorded \cup {f} ELSE recorded
        /\ UNCHANGED <<loaded, owner, opens, rows, table, cache, thread, clocks>>

(* Nothing is traced when a socket is closed: its record stays behind.     *)
Close(f) ==
    /\ owner[f] # Nobody
    /\ owner' = [owner EXCEPT ![f] = Nobody]
    /\ called' = called \ {f}
    /\ recorded' = recorded \ {f}
    /\ UNCHANGED <<socket_map, loaded, opens, rows, table, cache, thread, clocks>>

(* A fexit program runs when the SYN is already on the wire, and a peer may*)
(* speak first; a kprobe runs, and a ping is sent, after the record.       *)
MayBeSeen(f) ==
    \/ f.call \in {"accept", "send", "forward"}
    \/ f.call = "connect" /\ loaded.backend # "EbpfKprobe"
    \/ f \in called

(* The tracker starts a row for a flow's packet; one row at a time is held *)
(* by the enrichment thread, whose iter_mut keeps its shard locked.        *)
Packet(f) ==
    LET c == ConnOf(f)
    IN  /\ owner[f] # Nobody \/ f.call = "forward"
        /\ MayBeSeen(f)
        /\ rows[c] = NoRow
        /\ rows' = [rows EXCEPT ![c] = Pending]
        /\ UNCHANGED <<socket_map, loaded, kernel, recorded, table, cache, thread, clocks>>

(* Cleanup, a split or a clear takes the row away.                         *)
RowGone(c) ==
    /\ rows[c] # NoRow
    /\ pc # "idle" => asking # c
    /\ rows' = [rows EXCEPT ![c] = NoRow]
    /\ UNCHANGED <<socket_map, loaded, kernel, recorded, table, cache, thread, clocks>>

-----------------------------------------------------------------------------
(* Lookups                                                                 *)

RequiredCapability(c) ==
    CASE c.protocol = "TCP"  -> IF IsV4(c) THEN "TCP_V4_CONNECT" ELSE "TCP_V6_CONNECT"
      [] c.protocol = "UDP"  -> IF IsV4(c) THEN "UDP_V4_SEND" ELSE "UDP_V6_SEND"
      [] c.protocol = "ICMP" -> IF IsV4(c) THEN "ICMP_V4_SEND" ELSE "ICMP_V6_SEND"

(* The key of a socket bound to no local address.                          *)
WildcardKey(c) == [ConnKey(c) EXCEPT !.saddr = Zero]

(* The exact tuple is tried first.                                         *)
KeyFound(c) == IF ConnKey(c) \in DOMAIN socket_map THEN ConnKey(c) ELSE WildcardKey(c)

(* LibbpfSocketTracker::lookup and lookup_icmp.                            *)
try_ebpf_lookup(c) ==
    IF RequiredCapability(c) \notin loaded.capabilities
       \/ KeyFound(c) \notin DOMAIN socket_map
    THEN NoAnswer
    ELSE [pid |-> socket_map[KeyFound(c)].tgid, age |-> 0,
          quality |-> IF KeyFound(c) = ConnKey(c) THEN "ExactTuple" ELSE "WildcardLocalAddress"]

(* How /proc/net shows the socket of an open flow.                         *)
SocketEntry(f) ==
    LET v4 == f.sk.family = "AF_INET"
    IN  [protocol |-> ConnOf(f).protocol, v |-> IF v4 THEN 4 ELSE 6,
         local |-> IF v4 THEN f.sk.rcv_saddr ELSE f.sk.v6_rcv_saddr, lport |-> f.sk.num,
         remote |-> IF v4 THEN f.sk.daddr ELSE f.sk.v6_daddr, rport |-> f.sk.dport]

ListenerEntry(f) == [SocketEntry(f) EXCEPT !.local = Zero, !.remote = Zero, !.rport = 0]

(* A child that waits to be accepted belongs to no process yet.            *)
EntriesOf(f) ==
    IF f.call = "accept"
    THEN {ListenerEntry(f)} \cup (IF f \in called THEN {SocketEntry(f)} ELSE {})
    ELSE IF f.call \in {"connect", "send"} THEN {SocketEntry(f)} ELSE {}

(* build_process_map: sockets of /proc/net joined with the descriptors of  *)
(* every process.                                                          *)
build_process_map ==
    [k \in UNION {EntriesOf(f) : f \in OpenFlows} |->
        owner[CHOOSE f \in OpenFlows : k \in EntriesOf(f)]]

(* relaxed_lookup: two candidates with different owners give no answer.    *)
RelaxedOwners(key) ==
    {table[k] : k \in DOMAIN table \cap
        {[key EXCEPT !.local = Zero],
         [key EXCEPT !.remote = Zero, !.rport = 0],
         [key EXCEPT !.local = Zero, !.remote = Zero, !.rport = 0]}}

(* LinuxProcessLookup::lookup_match                                        *)
lookup_match(c) ==
    LET key    == from_connection(c)
        owners == RelaxedOwners(key)
    IN  IF key \in DOMAIN table THEN [pid |-> table[key], quality |-> "ProcfsExact", age |-> 0]
        ELSE IF c.protocol \in {"TCP", "UDP"} /\ Cardinality(owners) = 1
             THEN [pid |-> CHOOSE p \in owners : TRUE, quality |-> "ProcfsRelaxed", age |-> 0]
             ELSE NoAnswer

(* lookup_process_enhanced: eBPF first, /proc as the fallback.             *)
lookup_process_enhanced(c) ==
    LET ebpf == try_ebpf_lookup(c)
    IN  IF ebpf # NoAnswer THEN ebpf ELSE lookup_match(c)

(* The cache counts for CacheTtl ticks after a refresh, and is filled at   *)
(* any time.                                                               *)
CacheHit(c) == cacheAge < CacheTtl /\ cache[from_connection(c)] # NoAnswer

AnswerFor(c) ==
    IF CacheHit(c) THEN cache[from_connection(c)] ELSE lookup_process_enhanced(c)

-----------------------------------------------------------------------------
(* The enrichment thread                                                   *)

(* Mutant of StaleKeys: the sweep keeps records for another interval.      *)
StaleKeysLate ==
    {k \in DOMAIN socket_map : socket_map[k].age > StaleThreshold + CleanupInterval}

StaleKeys == {k \in DOMAIN socket_map : socket_map[k].age > StaleThreshold}

CleanupDue == sinceCleanup >= CleanupInterval

(***************************************************************************)
(* get_process_attribution begins with maybe_cleanup_ebpf_map.  The sweep  *)
(* reads the keys one by one and collects the stale ones before it deletes *)
(* any, and the programs keep storing.                                     *)
(***************************************************************************)
StartCleanup(c) ==
    /\ pc = "idle"
    /\ rows[c] = Pending
    /\ CleanupDue
    /\ sinceCleanup' = 0
    /\ asking' = c
    /\ IF EbpfLoaded
       THEN pc' = "delete" /\ doomed' = StaleKeys
       ELSE pc' = "answer" /\ UNCHANGED doomed
    /\ UNCHANGED <<socket_map, loaded, kernel, recorded, rows, table, cache,
                   sinceRefresh, cacheAge>>

(* Mutant of DeleteStale: only IPv4 keys are rebuilt for the deletion.     *)
DeleteStaleV4 ==
    LET rebuilt == {k \in doomed : k.family = "AF_INET"}
    IN  /\ pc = "delete"
        /\ pc' = "answer"
        /\ doomed' = {}
        /\ socket_map' = Without(socket_map, rebuilt)
        /\ recorded' = {f \in recorded : Last(TracedKeys(f)) \notin rebuilt}
        /\ UNCHANGED <<loaded, kernel, rows, table, cache, asking, clocks>>

(* The collected keys are deleted, whatever is stored under them by now.   *)
DeleteStale ==
    /\ pc = "delete"
    /\ pc' = "answer"
    /\ doomed' = {}
    /\ socket_map' = Without(socket_map, doomed)
    /\ recorded' = {f \in recorded : Last(TracedKeys(f)) \notin doomed}
    /\ UNCHANGED <<loaded, kernel, rows, table, cache, asking, clocks>>

(* The rest of get_process_attribution, and the row takes the answer.      *)
Attribute(c) ==
    LET answer == AnswerFor(c)
    IN  /\ \/ pc = "idle" /\ rows[c] = Pending /\ ~CleanupDue
           \/ pc = "answer" /\ asking = c
        /\ pc' = "idle"
        /\ asking' = NoRow
        /\ cache' = IF answer = NoAnswer THEN cache
                    ELSE [cache EXCEPT ![from_connection(c)] = answer]
        /\ rows' = IF answer = NoAnswer THEN rows
                   ELSE [rows EXCEPT ![c] = answer.pid]
        /\ UNCHANGED <<socket_map, loaded, kernel, recorded, table, doomed, clocks>>

RefreshDue == pc = "idle" /\ sinceRefresh > RefreshInterval

EmptyCache == [k \in ConnectionKeys |-> NoAnswer]

(* Mutant of Refresh: the "optional" clearing is left out.                 *)
RefreshKeepsCache ==
    /\ RefreshDue
    /\ sinceRefresh' = 0
    /\ cacheAge' = 0
    /\ table' = build_process_map
    /\ UNCHANGED <<socket_map, loaded, kernel, recorded, rows, thread, cache, sinceCleanup>>

(* EnhancedLinuxProcessLookup::refresh                                     *)
Refresh ==
    /\ RefreshDue
    /\ sinceRefresh' = 0
    /\ cacheAge' = 0
    /\ table' = build_process_map
    /\ cache' = EmptyCache
    /\ UNCHANGED <<socket_map, loaded, kernel, recorded, rows, thread, sinceCleanup>>

(* /proc could not be scanned: table and cache stay as they were.          *)
RefreshFails ==
    /\ RefreshDue
    /\ sinceRefresh' = 0
    /\ UNCHANGED <<socket_map, loaded, kernel, recorded, rows, table, cache, thread,
                   sinceCleanup, cacheAge>>

Capped(n, cap) == IF n < cap THEN n + 1 ELSE cap

(* Time passes.  A lookup is short against the tick.                       *)
Tick ==
    /\ pc = "idle"
    /\ socket_map' = Aged(socket_map)
    /\ cache' = [k \in ConnectionKeys |->
         IF cache[k] = NoAnswer THEN NoAnswer
         ELSE [cache[k] EXCEPT !.age = Capped(@, CacheTtl)]]
    /\ sinceCleanup' = Capped(sinceCleanup, CleanupInterval)
    /\ sinceRefresh' = Capped(sinceRefresh, RefreshInterval + 1)
    /\ cacheAge' = Capped(cacheAge, CacheTtl)
    /\ UNCHANGED <<loaded, kernel, recorded, rows, table, thread>>

-----------------------------------------------------------------------------
(* last_cleanup and the cache's last_refresh start an hour in the past; the*)
(* table has been scanned when the lookup was made.                        *)
Init ==
    /\ loaded \in {try_load(env) : env \in Environments}
    /\ socket_map = [k \in {} |-> [tgid |-> Nobody, age |-> 0]]
    /\ owner = [f \in Flows |-> Nobody]
    /\ called = {} /\ recorded = {}
    /\ opens = <<>>
    /\ rows = [c \in Conns |-> NoRow]
    /\ table = build_process_map
    /\ cache = EmptyCache
    /\ pc = "idle" /\ asking = NoRow /\ doomed = {}
    /\ sinceCleanup = CleanupInterval
    /\ sinceRefresh = 0
    /\ cacheAge = CacheTtl

Enrich ==
    \/ \E c \in Conns : StartCleanup(c) \/ Attribute(c)
    \/ DeleteStale

Next ==
    \/ \E f \in Flows, p \in Procs : Open(f, p)
    \/ \E f \in Flows : Call(f) \/ Close(f) \/ Packet(f)
    \/ \E c \in Conns : RowGone(c)
    \/ Enrich
    \/ Refresh
    \/ RefreshFails
    \/ Tick

Spec == Init /\ [][Next]_vars

(***************************************************************************)
(* The thread passes over all rows without a process every two seconds and *)
(* never blocks for good; time passes.                                     *)
(***************************************************************************)
Fairness == WF_vars(Enrich) /\ WF_vars(Tick)

FairSpec == Spec /\ Fairness

-----------------------------------------------------------------------------
(* Properties                                                              *)

Answers == [pid : Procs, quality : Qualities, age : 0..CacheTtl]

(* Every variable has its type, and the map stays within its capacity.     *)
TypeOK ==
    /\ SocketMapOK
    /\ loaded.capabilities \subseteq Capabilities
    /\ owner \in [Flows -> Procs \cup {Nobody}]
    /\ recorded \subseteq called /\ called \subseteq OpenFlows
    /\ ToSet(opens) \subseteq Conns /\ Len(opens) <= MaxOpens
    /\ rows \in [Conns -> {NoRow, Pending} \cup Procs]
    /\ \A k \in DOMAIN table : table[k] \in Procs
    /\ cache \in [ConnectionKeys -> Answers \cup {NoAnswer}]
    /\ pc \in {"idle", "delete", "answer"}
    /\ asking \in Conns \cup {NoRow} /\ (pc = "idle" <=> asking = NoRow)
    /\ doomed \subseteq ConnKeys
    /\ sinceCleanup \in 0..CleanupInterval
    /\ sinceRefresh \in 0..(RefreshInterval + 1)
    /\ cacheAge \in 0..CacheTtl

(***************************************************************************)
(* The programs and user space agree on the tuple: while a record of an    *)
(* open flow is in socket_map, the tuple its packets carry leads to its    *)
(* process, for every family, dual-stack sockets, sends with and without a *)
(* destination, accepts and pings.  Only the record of an earlier, bound   *)
(* socket on the same tuple, which is tried first, can hide the one of an  *)
(* unbound socket.                                                         *)
(***************************************************************************)
RecordedFlowsFound ==
    \A f \in recorded :
      LET answer == try_ebpf_lookup(ConnOf(f))
      IN  /\ answer # NoAnswer
          /\ answer.pid = owner[f] \/ (Unbound(f) /\ answer.quality = "ExactTuple")

(***************************************************************************)
(* Records are not removed when sockets close, and a row may ask before    *)
(* its own flow is recorded: it is then told who used the tuple before.    *)
(* But never from a record older than the threshold and one sweep interval,*)
(* although sweeps only happen inside lookups.                             *)
(***************************************************************************)
AnswersRecent ==
    [][\A c \in Conns :
         Attribute(c) /\ ~CacheHit(c) /\ try_ebpf_lookup(c) # NoAnswer
           => socket_map[KeyFound(c)].age < StaleThreshold + CleanupInterval]_vars

(***************************************************************************)
(* An answer out of the cache was looked up less than CacheTtl ago, so a   *)
(* row is not given the process of an earlier use of its tuple for longer. *)
(***************************************************************************)
CacheAnswersFresh ==
    [][\A c \in Conns : Attribute(c) /\ CacheHit(c) => AnswerFor(c).age < CacheTtl]_vars

NobodyAsks == \A c \in Conns : rows[c] # Pending

(***************************************************************************)
(* socket_map does not stay full of old records, which would leave the     *)
(* programs unable to record new flows: as long as some row is without a   *)
(* process, there comes a time without old records.  (With nobody asking,  *)
(* nothing sweeps; but then nothing is missed.)                            *)
(***************************************************************************)
StaleRecordsLeave == (StaleKeys # {}) ~> (StaleKeys = {} \/ NobodyAsks)
=============================================================================
