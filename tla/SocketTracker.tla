---------------------------- MODULE SocketTracker ----------------------------
(***************************************************************************)
(* The eBPF programs of rustnet-host and the map they fill                 *)
(* (linux/ebpf/programs).  A program runs inside a kernel call on a socket *)
(* and records the calling process under the tuple it reads from the       *)
(* socket; user space looks the process up under the tuple it reads from   *)
(* packets (ProcessAttribution).                                           *)
(*                                                                         *)
(* Addresses are members of small sets; ::ffff:a.b.c.d is [mapped |-> a].  *)
(* A record keeps the age of its timestamp instead of the timestamp.       *)
(***************************************************************************)
EXTENDS Integers, FiniteSets, Sequences, SequencesExt

CONSTANTS
    Procs,          \* thread groups (tgid)
    V4, V6,         \* IPv4 and IPv6 addresses
    Zero,           \* the all-zero address, of either family
    Ports,          \* local and remote ports, ICMP echo identifiers
    NoSocket,       \* a null struct sock pointer
    NoName,         \* msg_name is null
    NoKey,          \* the program returns without storing
    MAX_ENTRIES,    \* capacity of socket_map
    MaxAge          \* bound: ages are counted up to here

MappedV4 == [mapped : V4]

(***************************************************************************)
(* The fields of struct sock that the programs read.  A dual-stack socket  *)
(* talking to an IPv4 peer has the IPv6 family, the mapped peer, and the   *)
(* plain IPv4 addresses mirrored into the IPv4 fields.                     *)
(***************************************************************************)
Sockets == [family : {"AF_INET", "AF_INET6"}, num : Ports, dport : Ports \cup {0},
            rcv_saddr : V4 \cup {Zero}, daddr : V4 \cup {Zero},
            v6_rcv_saddr : V6 \cup MappedV4 \cup {Zero},
            v6_daddr : V6 \cup MappedV4 \cup {Zero}]

(* msghdr: the destination given to sendto.                                *)
Messages == [addr : V4 \cup V6 \cup MappedV4, port : Ports] \cup {NoName}

(* struct conn_key                                                         *)
ConnKeys == [saddr : V4 \cup V6 \cup MappedV4 \cup {Zero},
             daddr : V4 \cup V6 \cup MappedV4 \cup {Zero},
             sport : Ports, dport : Ports \cup {0},
             proto : {"TCP", "UDP", "ICMP", "ICMPV6"}, family : {"AF_INET", "AF_INET6"}]

(* struct conn_info                                                        *)
ConnInfos == [tgid : Procs, age : 0..MaxAge]

ASSUME ProcsAssumption == IsFiniteSet(Procs)

ASSUME AddressAssumption ==
    /\ V4 \cap V6 = {}
    /\ Zero \notin V4 \cup V6 \cup MappedV4
    /\ V6 \cap MappedV4 = {}
    /\ 0 \notin Ports

ASSUME NullAssumption ==
    /\ NoSocket \notin Sockets
    /\ NoName \notin [addr : V4 \cup V6 \cup MappedV4, port : Ports \cup {0}]
    /\ NoKey \notin ConnKeys

ASSUME CapacityAssumption == MAX_ENTRIES \in Nat /\ MaxAge \in Nat

VARIABLE socket_map

-----------------------------------------------------------------------------
(* The key each program builds                                             *)

(* fill_socket_v4_addresses and fill_socket_ports on a zeroed key.         *)
fill_socket_v4(sk, proto) ==
    [saddr |-> sk.rcv_saddr, daddr |-> sk.daddr, sport |-> sk.num, dport |-> sk.dport,
     proto |-> proto, family |-> "AF_INET"]

(* fill_socket_v6_addresses and fill_socket_ports on a zeroed key.         *)
fill_socket_v6(sk, proto) ==
    [saddr |-> sk.v6_rcv_saddr, daddr |-> sk.v6_daddr, sport |-> sk.num, dport |-> sk.dport,
     proto |-> proto, family |-> "AF_INET6"]

tcp_socket_is_v4_mapped(sk) == sk.v6_daddr \in MappedV4

(* Mutant of track_tcp_socket: the hook's family decides, not the socket.  *)
track_tcp_socket_by_family(sk) ==
    IF sk = NoSocket THEN NoKey
    ELSE IF sk.family = "AF_INET6" THEN fill_socket_v6(sk, "TCP") ELSE fill_socket_v4(sk, "TCP")

(* track_tcp_socket, which track_accepted_socket passes the child socket.  *)
track_tcp_socket(sk) ==
    IF sk = NoSocket THEN NoKey
    ELSE IF sk.family = "AF_INET6" /\ ~tcp_socket_is_v4_mapped(sk)
         THEN fill_socket_v6(sk, "TCP") ELSE fill_socket_v4(sk, "TCP")

(* A destination in msg_name replaces the one the socket is connected to.  *)
Addressed(key, msg) ==
    IF msg = NoName THEN key ELSE [key EXCEPT !.daddr = msg.addr, !.dport = msg.port]

track_udp_v4(sk, msg) ==
    LET key == Addressed(fill_socket_v4(sk, "UDP"), msg)
    IN  IF key.daddr = Zero THEN NoKey ELSE key

(* Unlike the IPv4 program it stores a send without a destination.         *)
track_udp_v6(sk, msg) == Addressed(fill_socket_v6(sk, "UDP"), msg)

(* A ping socket's number is the echo identifier; there is no remote port. *)
track_ping_v4(sk, msg) ==
    LET key == [Addressed(fill_socket_v4(sk, "ICMP"), msg) EXCEPT !.dport = 0]
    IN  IF key.daddr = Zero THEN NoKey ELSE key

track_ping_v6(sk, msg) ==
    [Addressed(fill_socket_v6(sk, "ICMPV6"), msg) EXCEPT !.dport = 0]

-----------------------------------------------------------------------------
(* The programs of the two backends                                        *)

(* Sending to ::ffff:a.b.c.d, udpv6_sendmsg calls udp_sendmsg with the     *)
(* IPv4 destination.                                                       *)
V4Message(sk, msg) ==
    IF msg = NoName THEN [addr |-> sk.v6_daddr.mapped, port |-> sk.dport]
    ELSE [addr |-> msg.addr.mapped, port |-> msg.port]

SendsV4(sk, msg) == (IF msg = NoName THEN sk.v6_daddr ELSE msg.addr) \in MappedV4

(* socket_tracker_fentry.bpf.c: tcp_v6_connect ends in tcp_connect or, for *)
(* a mapped peer, in tcp_v4_connect and then tcp_connect: two programs run.*)
FentryConnectKeys(sk) ==
    IF sk.family = "AF_INET6" THEN <<track_tcp_socket(sk), track_tcp_socket(sk)>>
    ELSE <<track_tcp_socket(sk)>>

(* socket_tracker_kprobe.bpf.c: tcp_connect is the tail of every connect.  *)
KprobeConnectKeys(sk) == <<track_tcp_socket(sk)>>

(* inet_csk_accept, of which exactly one variant is loaded.                *)
AcceptKeys(sk) == <<track_tcp_socket(sk)>>

SendKeys(sk, msg) ==
    IF sk.family = "AF_INET" THEN <<track_udp_v4(sk, msg)>>
    ELSE IF SendsV4(sk, msg)
         THEN <<track_udp_v6(sk, msg), track_udp_v4(sk, V4Message(sk, msg))>>
         ELSE <<track_udp_v6(sk, msg)>>

PingV4Keys(sk, msg) == <<track_ping_v4(sk, msg)>>

PingV6Keys(sk, msg) == <<track_ping_v6(sk, msg)>>

-----------------------------------------------------------------------------
(* The map                                                                 *)

(* Mutant of store_connection: BPF_NOEXIST for BPF_ANY.                    *)
store_connection_noexist(map, key, p) ==
    IF key = NoKey \/ key \in DOMAIN map \/ Cardinality(DOMAIN map) >= MAX_ENTRIES
    THEN map
    ELSE [k \in DOMAIN map \cup {key} |-> IF k = key THEN [tgid |-> p, age |-> 0] ELSE map[k]]

(* Mutant of store_connection: the map grows past its capacity.            *)
store_connection_grown(map, key, p) ==
    IF key = NoKey THEN map
    ELSE [k \in DOMAIN map \cup {key} |-> IF k = key THEN [tgid |-> p, age |-> 0] ELSE map[k]]

(* bpf_map_update_elem with BPF_ANY: a full hash map refuses a new key, and*)
(* the programs ignore the error.                                          *)
store_connection(map, key, p) ==
    IF key = NoKey \/ (key \notin DOMAIN map /\ Cardinality(DOMAIN map) >= MAX_ENTRIES)
    THEN map
    ELSE [k \in DOMAIN map \cup {key} |-> IF k = key THEN [tgid |-> p, age |-> 0] ELSE map[k]]

(* The programs of one kernel call by process p, in order: two at most.    *)
Stored(map, keys, p) ==
    CASE Len(keys) = 0 -> map
      [] Len(keys) = 1 -> store_connection(map, keys[1], p)
      [] Len(keys) = 2 -> store_connection(store_connection(map, keys[1], p), keys[2], p)

Aged(map) ==
    [k \in DOMAIN map |->
        [map[k] EXCEPT !.age = IF @ < MaxAge THEN @ + 1 ELSE @]]

Without(map, keys) == [k \in DOMAIN map \ keys |-> map[k]]

SocketMapOK ==
    /\ DOMAIN socket_map \subseteq ConnKeys
    /\ Cardinality(DOMAIN socket_map) <= MAX_ENTRIES
    /\ \A k \in DOMAIN socket_map : socket_map[k] \in ConnInfos
=============================================================================
