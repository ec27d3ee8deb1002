----------------------- MODULE ProcessAttributionProofs -----------------------
(***************************************************************************)
(* Proofs about ProcessAttribution and the programs of SocketTracker, for  *)
(* all flows, processes, environments, intervals and map sizes: the tuple  *)
(* of a packet leads to the record its socket's program stored.            *)
(*                                                                         *)
(* The programs and user space build their keys independently; that they   *)
(* agree (KeysAgree) is a fact about the two translations.  The inductive  *)
(* invariant adds that the record under an open flow's key is its owner's: *)
(* another process cannot overwrite it, since every key carries the local  *)
(* port (KeysCarryPort), which no two processes share (PortsOwned).        *)
(***************************************************************************)
EXTENDS ProcessAttribution, FiniteSetTheorems, TLAPS

Backends ==
    /\ loaded.backend \in {"EbpfFentry", "EbpfKprobe"} => CORE_CAPABILITIES \subseteq loaded.capabilities
    /\ loaded.backend \in {"EbpfFentry", "EbpfKprobe", "Procfs"}

PortsOwned ==
    \A f, g \in OpenFlows :
      ConnOf(f).protocol = ConnOf(g).protocol /\ f.sk.num = g.sk.num => owner[f] = owner[g]

(* The record of f that its packets can lead to.                           *)
HasRecord(f) ==
    LET keys == TracedKeys(f)
    IN  /\ keys # <<>>
        /\ Last(keys) \in DOMAIN socket_map
        /\ socket_map[Last(keys)].tgid = owner[f]

IInv ==
    /\ Backends
    /\ owner \in [Flows -> Procs \cup {Nobody}]
    /\ NoKey \notin DOMAIN socket_map
    /\ \A k \in DOMAIN socket_map : socket_map[k] \in ConnInfos
    /\ PortsOwned
    /\ recorded \subseteq OpenFlows
    /\ \A f \in recorded : HasRecord(f)

-----------------------------------------------------------------------------
(* The keys                                                                *)

(* Storing a key replaces its record, if there is room, and no other.      *)
LEMMA StoreOne ==
    ASSUME NEW m, NEW k, NEW p \in Procs, NoKey \notin DOMAIN m,
           \A x \in DOMAIN m : m[x] \in ConnInfos
    PROVE  LET r == store_connection(m, k, p)
           IN  /\ NoKey \notin DOMAIN r
               /\ \A x \in DOMAIN r : r[x] \in ConnInfos
               /\ DOMAIN m \subseteq DOMAIN r
               /\ \A x \in DOMAIN m : x # k => r[x] = m[x]
               /\ k \in DOMAIN r => r[k].tgid = p
BY CapacityAssumption DEF store_connection, ConnInfos

(* The programs of one call leave the records of other keys alone, and the *)
(* last key, if it is stored, has the caller's.                            *)
LEMMA StoreAll ==
    ASSUME NEW m, NEW keys, NEW p \in Procs, NoKey \notin DOMAIN m,
           \A x \in DOMAIN m : m[x] \in ConnInfos,
           Len(keys) \in {0, 1, 2}
    PROVE  LET r == Stored(m, keys, p)
           IN  /\ NoKey \notin DOMAIN r
               /\ \A x \in DOMAIN r : r[x] \in ConnInfos
               /\ DOMAIN m \subseteq DOMAIN r
               /\ \A x \in DOMAIN m :
                    r[x] = m[x] \/ (r[x].tgid = p /\ \E i \in 1..Len(keys) : x = keys[i])
               /\ Len(keys) # 0 /\ Last(keys) \in DOMAIN r => r[Last(keys)].tgid = p
<1>1. CASE Len(keys) = 0
  BY <1>1 DEF Stored
<1>2. CASE Len(keys) = 1
  BY <1>2, StoreOne DEF Stored, Last
<1>3. CASE Len(keys) = 2
  <2> DEFINE one == store_connection(m, keys[1], p)
             two == store_connection(one, keys[2], p)
  <2>1. Stored(m, keys, p) = two
    BY <1>3 DEF Stored
  <2>2. /\ NoKey \notin DOMAIN one
        /\ \A x \in DOMAIN one : one[x] \in ConnInfos
        /\ DOMAIN m \subseteq DOMAIN one
        /\ \A x \in DOMAIN m : x # keys[1] => one[x] = m[x]
        /\ keys[1] \in DOMAIN one => one[keys[1]].tgid = p
    BY StoreOne
  <2> HIDE DEF one
  <2>3. /\ NoKey \notin DOMAIN two
        /\ \A x \in DOMAIN two : two[x] \in ConnInfos
        /\ DOMAIN one \subseteq DOMAIN two
        /\ \A x \in DOMAIN one : x # keys[2] => two[x] = one[x]
        /\ keys[2] \in DOMAIN two => two[keys[2]].tgid = p
    BY <2>2, StoreOne
  <2> HIDE DEF two
  <2>4. Last(keys) = keys[2]
    BY <1>3 DEF Last
  <2>5. \A x \in DOMAIN m :
          two[x] = m[x] \/ (two[x].tgid = p /\ \E i \in 1..Len(keys) : x = keys[i])
    BY <1>3, <2>2, <2>3
  <2>6. QED BY <2>1, <2>2, <2>3, <2>4, <2>5
<1>4. QED BY <1>1, <1>2, <1>3

(* The protocol of a key, as a row has it.                                 *)
ProtocolOf(k) == IF k.proto = "ICMPV6" THEN "ICMP" ELSE k.proto

Stores(f, k) == k # NoKey /\ \E i \in 1..Len(TracedKeys(f)) : k = TracedKeys(f)[i]

LEMMA FlowTypes ==
    ASSUME NEW f \in Flows
    PROVE  /\ f.call \in Calls
           /\ f.call # "forward" => f.sk \in Sockets /\ Consistent(f)
           /\ f.msg \in Messages
BY FlowsAssumption DEF FlowRecords, Consistent

(* At most two programs run in a call, and every key they store carries    *)
(* the flow's protocol and local port (or echo identifier).                *)
LEMMA KeysCarryPort ==
    ASSUME Backends, NEW f \in Flows
    PROVE  /\ Len(TracedKeys(f)) \in {0, 1, 2}
           /\ \A k : Stores(f, k) =>
                k.sport = f.sk.num /\ ProtocolOf(k) = ConnOf(f).protocol
<1>1. CASE TracedKeys(f) = <<>>
  BY <1>1 DEF Stores
<1>2. CASE f.call \in {"connect", "accept"}
  <2>1. ConnOf(f).protocol = "TCP"
    BY <1>2 DEF ConnOf
  <2>2. track_tcp_socket(f.sk) # NoKey =>
          track_tcp_socket(f.sk).sport = f.sk.num /\ track_tcp_socket(f.sk).proto = "TCP"
    BY DEF track_tcp_socket, fill_socket_v4, fill_socket_v6
  <2>3. TracedKeys(f) \in {<<>>, <<track_tcp_socket(f.sk)>>,
                           <<track_tcp_socket(f.sk), track_tcp_socket(f.sk)>>}
    BY <1>2 DEF TracedKeys, FentryConnectKeys, KprobeConnectKeys, AcceptKeys
  <2>4. QED BY <2>1, <2>2, <2>3 DEF Stores, ProtocolOf
<1>3. CASE f.call = "send"
  <2>1. ConnOf(f).protocol = "UDP"
    BY <1>3 DEF ConnOf
  <2>2. ASSUME NEW sk, NEW msg
        PROVE  /\ track_udp_v4(sk, msg) # NoKey =>
                    track_udp_v4(sk, msg).sport = sk.num /\ track_udp_v4(sk, msg).proto = "UDP"
               /\ track_udp_v6(sk, msg).sport = sk.num /\ track_udp_v6(sk, msg).proto = "UDP"
    BY DEF track_udp_v4, track_udp_v6, fill_socket_v4, fill_socket_v6, Addressed
  <2> DEFINE v4   == track_udp_v4(f.sk, f.msg)
             v6   == track_udp_v6(f.sk, f.msg)
             both == track_udp_v4(f.sk, V4Message(f.sk, f.msg))
  <2>3. TracedKeys(f) \in {<<>>, <<v4>>, <<v6>>, <<v6, both>>}
    BY <1>3 DEF TracedKeys, SendKeys
  <2>4. \A k \in {v4, v6, both} : k # NoKey => k.sport = f.sk.num /\ k.proto = "UDP"
    BY <2>2
  <2> HIDE DEF v4, v6, both
  <2>5. Len(TracedKeys(f)) \in {0, 1, 2}
        /\ \A i \in 1..Len(TracedKeys(f)) : TracedKeys(f)[i] \in {v4, v6, both}
    BY <2>3
  <2>6. QED BY <2>1, <2>4, <2>5 DEF Stores, ProtocolOf
<1>4. CASE f.call = "ping"
  <2>1. ConnOf(f).protocol = "ICMP"
    BY <1>4 DEF ConnOf
  <2> DEFINE v4 == track_ping_v4(f.sk, f.msg)
             v6 == track_ping_v6(f.sk, f.msg)
  <2>2. \A k \in {v4, v6} : k # NoKey => k.sport = f.sk.num /\ k.proto \in {"ICMP", "ICMPV6"}
    BY DEF track_ping_v4, track_ping_v6, fill_socket_v4, fill_socket_v6, Addressed
  <2>3. TracedKeys(f) \in {<<>>, <<v4>>, <<v6>>}
    BY <1>4 DEF TracedKeys, PingV4Keys, PingV6Keys
  <2> HIDE DEF v4, v6
  <2>4. Len(TracedKeys(f)) \in {0, 1, 2}
        /\ \A i \in 1..Len(TracedKeys(f)) : TracedKeys(f)[i] \in {v4, v6}
    BY <2>3
  <2>5. QED BY <2>1, <2>2, <2>4 DEF Stores, ProtocolOf
<1>5. CASE f.call = "forward"
  BY <1>1, <1>5 DEF TracedKeys
<1>6. QED BY <1>2, <1>3, <1>4, <1>5, FlowTypes DEF Calls

(* Some program ran iff the list is not empty.                             *)
LEMMA KeysHaveLength ==
    ASSUME Backends, NEW f \in Flows, TracedKeys(f) # <<>>
    PROVE  Len(TracedKeys(f)) \in {1, 2}
<1>1. EbpfLoaded /\ f.call \in {"connect", "accept", "send", "ping"}
  BY FlowTypes DEF TracedKeys, Calls
<1>2. \E a, b : TracedKeys(f) = <<a>> \/ TracedKeys(f) = <<a, b>>
  BY <1>1 DEF TracedKeys, FentryConnectKeys, KprobeConnectKeys, AcceptKeys, SendKeys,
             PingV4Keys, PingV6Keys
<1>3. QED BY <1>2

(* The key the last program of a call stores is the one user space builds  *)
(* from the flow's packets, or that with the local address left out if the *)
(* socket is not bound, and user space asks for it.                        *)
LEMMA KeysAgree ==
    ASSUME Backends, NEW f \in Flows, TracedKeys(f) # <<>>, Last(TracedKeys(f)) # NoKey
    PROVE  LET k == Last(TracedKeys(f))
           IN  /\ k = ConnKey(ConnOf(f)) \/ (Unbound(f) /\ k = WildcardKey(ConnOf(f)))
               /\ RequiredCapability(ConnOf(f)) \in loaded.capabilities
<1> DEFINE k == Last(TracedKeys(f))
           v4 == f.sk.family = "AF_INET" \/ Peer(f) \in MappedV4
<1>1. EbpfLoaded /\ f.call # "forward" /\ CORE_CAPABILITIES \subseteq loaded.capabilities
  BY DEF TracedKeys, Backends, EbpfLoaded
<1>2. f.sk \in Sockets /\ Consistent(f) /\ f.msg \in Messages /\ f.call \in Calls
  BY <1>1, FlowTypes
<1>3. (v4 <=> IsV4(ConnOf(f))) /\ ConnOf(f).local = f.src /\ ConnOf(f).remote = f.dst
  BY <1>2, AddressAssumption DEF Consistent, IsV4, ConnOf
<1>4. CASE f.call \in {"connect", "accept"}
  <2>1. k = track_tcp_socket(f.sk)
    BY <1>1, <1>4 DEF TracedKeys, FentryConnectKeys, KprobeConnectKeys, AcceptKeys, Last
  <2>2. f.msg = NoName /\ f.sk # NoSocket
    BY <1>2, <1>4 DEF Consistent
  <2>3. ConnOf(f).protocol = "TCP" /\ ConnOf(f).lport = f.sk.num /\ ConnOf(f).rport = f.sk.dport
    BY <1>4, <2>2 DEF ConnOf
  <2>4. k = IF v4 THEN fill_socket_v4(f.sk, "TCP") ELSE fill_socket_v6(f.sk, "TCP")
    BY <1>2, <2>1, <2>2 DEF track_tcp_socket, tcp_socket_is_v4_mapped, Peer, Sockets
  <2>5. f.dst = IF v4 THEN f.sk.daddr ELSE f.sk.v6_daddr
    BY <1>2, <2>2 DEF Consistent, Peer, Plain
  <2>6. QED
    BY <1>1, <1>2, <1>3, <2>3, <2>4, <2>5
       DEF fill_socket_v4, fill_socket_v6, ConnKey, WildcardKey, Consistent,
           RequiredCapability, CORE_CAPABILITIES
<1>5. CASE f.call = "send"
  <2> DEFINE rport == IF f.msg = NoName THEN f.sk.dport ELSE f.msg.port
  <2>1. ConnOf(f).protocol = "UDP" /\ ConnOf(f).lport = f.sk.num /\ ConnOf(f).rport = rport
    BY <1>5 DEF ConnOf
  <2>2. CASE f.sk.family = "AF_INET"
    <3>1. k = track_udp_v4(f.sk, f.msg)
      BY <1>1, <1>5, <2>2 DEF TracedKeys, SendKeys, Last
    <3>2. f.dst = Peer(f)
      BY <1>2, <2>2 DEF Consistent, Plain
    <3>3. k = [saddr |-> f.sk.rcv_saddr, daddr |-> f.dst, sport |-> f.sk.num, dport |-> rport,
               proto |-> "UDP", family |-> "AF_INET"]
      BY <2>2, <3>1, <3>2 DEF track_udp_v4, Addressed, fill_socket_v4, Peer
    <3>4. QED
      BY <1>1, <1>2, <1>3, <2>1, <2>2, <3>3
         DEF ConnKey, WildcardKey, Consistent, RequiredCapability, CORE_CAPABILITIES
  <2>3. CASE f.sk.family # "AF_INET" /\ Peer(f) \in MappedV4
    <3>1. SendsV4(f.sk, f.msg)
      BY <2>3 DEF SendsV4, Peer
    <3>2. k = track_udp_v4(f.sk, V4Message(f.sk, f.msg))
      BY <1>1, <1>5, <2>3, <3>1 DEF TracedKeys, SendKeys, Last
    <3>3. f.dst = Peer(f).mapped
      BY <1>2, <2>3 DEF Consistent, Plain
    <3>4. V4Message(f.sk, f.msg) = [addr |-> f.dst, port |-> rport]
      BY <2>3, <3>3 DEF V4Message, Peer
    <3>5. V4Message(f.sk, f.msg) # NoName
      <4>1. f.dst \in V4
        BY <2>3, <3>3 DEF MappedV4
      <4>2. rport \in Ports \cup {0}
        BY <1>2 DEF Messages, Sockets
      <4> HIDE DEF rport
      <4>3. QED BY <3>4, <4>1, <4>2, NullAssumption
    <3>6. k = [saddr |-> f.sk.rcv_saddr, daddr |-> f.dst, sport |-> f.sk.num, dport |-> rport,
               proto |-> "UDP", family |-> "AF_INET"]
      <4> DEFINE m == V4Message(f.sk, f.msg)
      <4>1. m # NoName /\ m.addr = f.dst /\ m.port = rport
        BY <3>4, <3>5
      <4>2. k = track_udp_v4(f.sk, m)
        BY <3>2
      <4> HIDE DEF m, rport
      <4>3. QED BY <4>1, <4>2 DEF track_udp_v4, Addressed, fill_socket_v4
    <3>7. QED
      BY <1>1, <1>2, <1>3, <2>1, <2>3, <3>6
         DEF ConnKey, WildcardKey, Consistent, RequiredCapability, CORE_CAPABILITIES
  <2>4. CASE ~v4
    <3>1. ~SendsV4(f.sk, f.msg)
      BY <2>4 DEF SendsV4, Peer
    <3>2. k = track_udp_v6(f.sk, f.msg)
      BY <1>1, <1>5, <2>4, <3>1 DEF TracedKeys, SendKeys, Last
    <3>3. f.dst = Peer(f)
      BY <1>2, <2>4 DEF Consistent, Plain
    <3>4. k = [saddr |-> f.sk.v6_rcv_saddr, daddr |-> f.dst, sport |-> f.sk.num, dport |-> rport,
               proto |-> "UDP", family |-> "AF_INET6"]
      BY <2>4, <3>2, <3>3 DEF track_udp_v6, Addressed, fill_socket_v6, Peer
    <3>5. QED
      BY <1>1, <1>2, <1>3, <2>1, <2>4, <3>4
         DEF ConnKey, WildcardKey, Consistent, RequiredCapability, CORE_CAPABILITIES
  <2>5. QED BY <2>2, <2>3, <2>4
<1>6. CASE f.call = "ping"
  <2>1. ConnOf(f).protocol = "ICMP" /\ ConnOf(f).icmp_id = f.sk.num /\ ConnOf(f).rport = 0
    BY <1>6 DEF ConnOf
  <2>2. Peer(f) \notin MappedV4 /\ f.dst = Peer(f)
    BY <1>2, <1>6 DEF Consistent, Plain
  <2>3. CASE f.sk.family = "AF_INET"
    <3>1. k = track_ping_v4(f.sk, f.msg) /\ "ICMP_V4_SEND" \in loaded.capabilities
      BY <1>1, <1>6, <2>3 DEF TracedKeys, PingV4Keys, Last
    <3>2. k = [saddr |-> f.sk.rcv_saddr, daddr |-> f.dst, sport |-> f.sk.num, dport |-> 0,
               proto |-> "ICMP", family |-> "AF_INET"]
      BY <2>2, <2>3, <3>1 DEF track_ping_v4, Addressed, fill_socket_v4, Peer
    <3>3. QED
      BY <1>2, <1>3, <2>1, <2>3, <3>1, <3>2 DEF ConnKey, WildcardKey, Consistent, RequiredCapability
  <2>4. CASE f.sk.family # "AF_INET"
    <3>1. k = track_ping_v6(f.sk, f.msg) /\ "ICMP_V6_SEND" \in loaded.capabilities
      BY <1>1, <1>6, <2>4 DEF TracedKeys, PingV6Keys, Last
    <3>2. k = [saddr |-> f.sk.v6_rcv_saddr, daddr |-> f.dst, sport |-> f.sk.num, dport |-> 0,
               proto |-> "ICMPV6", family |-> "AF_INET6"]
      BY <2>2, <2>4, <3>1 DEF track_ping_v6, Addressed, fill_socket_v6, Peer
    <3>3. QED
      BY <1>2, <1>3, <2>1, <2>2, <2>4, <3>1, <3>2 DEF ConnKey, WildcardKey, Consistent, RequiredCapability
  <2>5. QED BY <2>3, <2>4
<1>7. QED BY <1>1, <1>2, <1>4, <1>5, <1>6 DEF Calls

-----------------------------------------------------------------------------
(* The inductive invariant                                                 *)

LEMMA InitIInv == Init => IInv
<1> SUFFICES ASSUME Init PROVE IInv
  OBVIOUS
<1>1. Backends
  BY DEF Init, Backends, try_load
<1>2. owner \in [Flows -> Procs \cup {Nobody}] /\ OpenFlows = {} /\ recorded = {}
  BY DEF Init, OpenFlows
<1>3. DOMAIN socket_map = {}
  BY DEF Init
<1>4. QED BY <1>1, <1>2, <1>3 DEF IInv, PortsOwned

(* Opening a socket takes a port that is free or the process's own.        *)
LEMMA OpenStep ==
    ASSUME IInv, NEW f \in Flows, NEW p \in Procs, Open(f, p)
    PROVE  IInv'
<1>1. owner[f] = Nobody /\ owner' = [owner EXCEPT ![f] = p] /\ PortFree(f, p)
      /\ UNCHANGED <<socket_map, loaded, recorded>>
  BY DEF Open
<1>2. \A g \in Flows : owner'[g] = IF g = f THEN p ELSE owner[g]
  BY <1>1 DEF IInv
<1>3. PortsOwned'
  BY <1>1, <1>2 DEF IInv, PortsOwned, OpenFlows, PortFree
<1>4. \A g \in recorded : g # f /\ g \in OpenFlows'
  BY <1>1, <1>2 DEF IInv, OpenFlows
<1>5. \A g \in Flows : TracedKeys(g)' = TracedKeys(g)
  BY <1>1 DEF TracedKeys, EbpfLoaded
<1>6. \A g \in recorded : HasRecord(g)'
  BY <1>1, <1>2, <1>4, <1>5 DEF IInv, HasRecord, OpenFlows
<1>7. owner' \in [Flows -> Procs \cup {Nobody}] /\ Backends'
  BY <1>1 DEF IInv, Backends
<1>8. QED BY <1>1, <1>3, <1>4, <1>6, <1>7 DEF IInv

(* The programs of a call write the caller's records only: the record of a *)
(* flow with the same key is overwritten by its own process.               *)
LEMMA CallStep ==
    ASSUME IInv, NEW f \in Flows, Call(f)
    PROVE  IInv'
<1> DEFINE p    == owner[f]
           keys == TracedKeys(f)
           new  == Stored(socket_map, keys, p)
<1>1. /\ p # Nobody /\ socket_map' = new
      /\ recorded' = IF keys # <<>> /\ Last(keys) \in DOMAIN socket_map'
                     THEN recorded \cup {f} ELSE recorded
      /\ UNCHANGED <<loaded, owner>>
  BY DEF Call
<1>2. Len(keys) \in {0, 1, 2}
  BY KeysCarryPort DEF IInv
<1>3. /\ NoKey \notin DOMAIN new
      /\ \A x \in DOMAIN new : new[x] \in ConnInfos
      /\ DOMAIN socket_map \subseteq DOMAIN new
      /\ \A x \in DOMAIN socket_map :
           new[x] = socket_map[x] \/ (new[x].tgid = p /\ \E i \in 1..Len(keys) : x = keys[i])
      /\ Len(keys) # 0 /\ Last(keys) \in DOMAIN new => new[Last(keys)].tgid = p
  <2>1. p \in Procs
    BY <1>1 DEF IInv
  <2>2. QED BY <1>2, <2>1, StoreAll DEF IInv
<1>4. \A g \in Flows : TracedKeys(g)' = TracedKeys(g)
  BY <1>1 DEF TracedKeys, EbpfLoaded
<1>5. OpenFlows' = OpenFlows /\ Backends' /\ PortsOwned' /\ f \in OpenFlows
  BY <1>1 DEF IInv, OpenFlows, Backends, PortsOwned
<1>6. ASSUME NEW g \in recorded PROVE HasRecord(g)'
  <2> DEFINE k == Last(TracedKeys(g))
  <2>1. TracedKeys(g) # <<>> /\ k \in DOMAIN socket_map /\ socket_map[k].tgid = owner[g]
        /\ g \in OpenFlows
    BY <1>6 DEF IInv, HasRecord
  <2>2. CASE new[k] = socket_map[k]
    BY <1>1, <1>3, <1>4, <2>1, <2>2 DEF HasRecord, OpenFlows
  <2>3. CASE new[k].tgid = p /\ \E i \in 1..Len(keys) : k = keys[i]
    <3>1. k # NoKey
      BY <2>1 DEF IInv
    <3>2. Stores(f, k)
      BY <2>3, <3>1 DEF Stores
    <3>3. Len(TracedKeys(g)) \in {1, 2}
      <4>1. CASE g.call = "forward"
        BY <2>1, <4>1 DEF TracedKeys
      <4>2. QED BY <2>1, KeysHaveLength DEF IInv, OpenFlows
    <3>4. Stores(g, k)
      BY <3>1, <3>3 DEF Stores, Last
    <3>5. ConnOf(f).protocol = ConnOf(g).protocol /\ f.sk.num = g.sk.num
      BY <2>1, <3>2, <3>4, KeysCarryPort DEF IInv, OpenFlows
    <3>6. owner[g] = p
      BY <1>5, <2>1, <3>5 DEF IInv, PortsOwned
    <3>7. QED BY <1>1, <1>3, <1>4, <2>1, <2>3, <3>6 DEF HasRecord, OpenFlows
  <2>4. QED BY <1>3, <2>1, <2>2, <2>3
<1>7. keys # <<>> /\ Last(keys) \in DOMAIN new => HasRecord(f)'
  BY <1>1, <1>2, <1>3, <1>4, KeysHaveLength DEF HasRecord, IInv
<1>8. \A g \in recorded' : g \in OpenFlows' /\ HasRecord(g)'
  BY <1>1, <1>5, <1>6, <1>7 DEF IInv
<1>9. QED BY <1>1, <1>3, <1>5, <1>8 DEF IInv

(* A closed flow has no record to find.                                    *)
LEMMA CloseStep ==
    ASSUME IInv, NEW f \in Flows, Close(f)
    PROVE  IInv'
<1>1. owner' = [owner EXCEPT ![f] = Nobody] /\ recorded' = recorded \ {f}
      /\ UNCHANGED <<socket_map, loaded>>
  BY DEF Close
<1>2. \A g \in Flows : owner'[g] = IF g = f THEN Nobody ELSE owner[g]
  BY <1>1 DEF IInv
<1>3. OpenFlows' = OpenFlows \ {f}
  BY <1>2 DEF OpenFlows
<1>4. PortsOwned'
  BY <1>2, <1>3 DEF IInv, PortsOwned, OpenFlows
<1>5. \A g \in Flows : TracedKeys(g)' = TracedKeys(g)
  BY <1>1 DEF TracedKeys, EbpfLoaded
<1>6. \A g \in recorded' : HasRecord(g)' /\ g \in OpenFlows'
  BY <1>1, <1>2, <1>3, <1>5 DEF IInv, HasRecord, OpenFlows
<1>7. owner' \in [Flows -> Procs \cup {Nobody}] /\ Backends'
  BY <1>1 DEF IInv, Backends
<1>8. QED BY <1>1, <1>4, <1>6, <1>7 DEF IInv

(* The sweep forgets the records it deletes, and no others.                *)
LEMMA DeleteStaleStep ==
    ASSUME IInv, DeleteStale
    PROVE  IInv'
<1>1. /\ socket_map' = Without(socket_map, doomed)
      /\ recorded' = {f \in recorded : Last(TracedKeys(f)) \notin doomed}
      /\ UNCHANGED <<loaded, owner>>
  BY DEF DeleteStale, kernel
<1>2. /\ DOMAIN socket_map' = DOMAIN socket_map \ doomed
      /\ \A k \in DOMAIN socket_map' : socket_map'[k] = socket_map[k]
  BY <1>1 DEF Without
<1>3. OpenFlows' = OpenFlows /\ Backends' /\ PortsOwned'
  BY <1>1 DEF IInv, OpenFlows, Backends, PortsOwned
<1>4. \A g \in Flows : TracedKeys(g)' = TracedKeys(g)
  BY <1>1 DEF TracedKeys, EbpfLoaded
<1>5. \A g \in recorded' : HasRecord(g)'
  BY <1>1, <1>2, <1>4 DEF IInv, HasRecord, OpenFlows
<1>6. QED BY <1>1, <1>2, <1>3, <1>5 DEF IInv

(* Steps that leave owners, backend and processes in the map alone; ageing *)
(* touches the times only.                                                 *)
LEMMA OtherSteps ==
    ASSUME IInv, UNCHANGED <<loaded, owner, recorded>>,
           UNCHANGED socket_map \/ socket_map' = Aged(socket_map)
    PROVE  IInv'
<1>1. /\ DOMAIN socket_map' = DOMAIN socket_map
      /\ \A k \in DOMAIN socket_map :
           socket_map'[k] \in ConnInfos /\ socket_map'[k].tgid = socket_map[k].tgid
  <2>1. CASE socket_map' = Aged(socket_map)
    <3>1. DOMAIN socket_map' = DOMAIN socket_map
      BY <2>1 DEF Aged
    <3>2. \A k \in DOMAIN socket_map :
            socket_map'[k] = [socket_map[k] EXCEPT !.age = IF @ < MaxAge THEN @ + 1 ELSE @]
      BY <2>1 DEF Aged
    <3>3. \A r \in ConnInfos :
            LET s == [r EXCEPT !.age = IF @ < MaxAge THEN @ + 1 ELSE @]
            IN  s \in ConnInfos /\ s.tgid = r.tgid
      BY CapacityAssumption DEF ConnInfos
    <3>4. QED BY <3>1, <3>2, <3>3 DEF IInv
  <2>2. QED BY <2>1 DEF IInv
<1>2. OpenFlows' = OpenFlows /\ Backends' /\ PortsOwned'
  BY DEF IInv, OpenFlows, Backends, PortsOwned
<1>3. \A g \in Flows : TracedKeys(g)' = TracedKeys(g)
  BY DEF TracedKeys, EbpfLoaded
<1>4. \A g \in recorded : HasRecord(g)'
  BY <1>1, <1>2, <1>3 DEF IInv, HasRecord, OpenFlows
<1>5. QED BY <1>1, <1>2, <1>4 DEF IInv

-----------------------------------------------------------------------------
(* IInv holds in every reachable state: ports have one owner, and a flow   *)
(* counted as recorded has its process under the key it stores.            *)
THEOREM Inductive == Spec => []IInv
<1>1. Init => IInv
  BY InitIInv
<1>2. IInv /\ [Next]_vars => IInv'
  <2>1. SUFFICES ASSUME IInv, [Next]_vars PROVE IInv'
    OBVIOUS
  <2>2. ASSUME NEW f \in Flows, NEW p \in Procs, Open(f, p) PROVE IInv'
    BY <2>1, <2>2, OpenStep
  <2>3. ASSUME NEW f \in Flows, Call(f) PROVE IInv'
    BY <2>1, <2>3, CallStep
  <2>4. ASSUME NEW f \in Flows, Close(f) PROVE IInv'
    BY <2>1, <2>4, CloseStep
  <2>5. CASE DeleteStale
    BY <2>1, <2>5, DeleteStaleStep
  <2>6. ASSUME NEW f \in Flows, Packet(f) PROVE IInv'
    BY <2>1, <2>6, OtherSteps DEF Packet, kernel
  <2>7. ASSUME NEW c \in Conns, RowGone(c) \/ StartCleanup(c) \/ Attribute(c) PROVE IInv'
    BY <2>1, <2>7, OtherSteps DEF RowGone, StartCleanup, Attribute, kernel
  <2>8. CASE Refresh \/ RefreshFails \/ Tick \/ UNCHANGED vars
    BY <2>1, <2>8, OtherSteps DEF Refresh, RefreshFails, Tick, vars, kernel
  <2>9. QED BY <2>1, <2>2, <2>3, <2>4, <2>5, <2>6, <2>7, <2>8 DEF Next, Enrich
<1>3. QED BY <1>1, <1>2, PTL DEF Spec

(* While a record of an open flow is in socket_map, the lookup with the    *)
(* tuple of its packets finds its process, for every family, call and      *)
(* backend; unless an unbound socket's is hidden by an exact match.        *)
THEOREM RecordedFound == Spec => []RecordedFlowsFound
<1>1. IInv => RecordedFlowsFound
  <2>1. SUFFICES ASSUME IInv, NEW f \in recorded
                 PROVE  LET answer == try_ebpf_lookup(ConnOf(f))
                        IN  /\ answer # NoAnswer
                            /\ \/ answer.pid = owner[f]
                               \/ Unbound(f) /\ answer.quality = "ExactTuple"
    BY DEF RecordedFlowsFound
  <2> DEFINE k == Last(TracedKeys(f))
             c == ConnOf(f)
  <2>2. /\ f \in Flows /\ TracedKeys(f) # <<>>
        /\ k \in DOMAIN socket_map /\ socket_map[k].tgid = owner[f] /\ k # NoKey
    BY <2>1 DEF IInv, HasRecord, OpenFlows
  <2>3. /\ k = ConnKey(c) \/ (Unbound(f) /\ k = WildcardKey(c))
        /\ RequiredCapability(c) \in loaded.capabilities
    BY <2>1, <2>2, KeysAgree DEF IInv
  <2> HIDE DEF k, c
  <2>4. KeyFound(c) \in DOMAIN socket_map
    BY <2>2, <2>3 DEF KeyFound
  <2>5. try_ebpf_lookup(c) =
          [pid |-> socket_map[KeyFound(c)].tgid, age |-> 0,
           quality |-> IF KeyFound(c) = ConnKey(c) THEN "ExactTuple" ELSE "WildcardLocalAddress"]
    BY <2>3, <2>4 DEF try_ebpf_lookup
  <2>6. try_ebpf_lookup(c) # NoAnswer
    <3>1. socket_map[KeyFound(c)].tgid \in Procs
      BY <2>1, <2>4 DEF IInv, ConnInfos
    <3>2. QED BY <2>5, <3>1, AnswerAssumption DEF Qualities, EbpfQualities
  <2>7. CASE k = ConnKey(c)
    BY <2>2, <2>5, <2>6, <2>7 DEF KeyFound, c
  <2>8. CASE Unbound(f) /\ k = WildcardKey(c)
    BY <2>2, <2>5, <2>6, <2>8 DEF KeyFound, c
  <2>9. QED BY <2>3, <2>7, <2>8
<1>2. QED BY <1>1, Inductive, PTL

-----------------------------------------------------------------------------
(* Ages                                                                    *)

Empty == DOMAIN socket_map = {}

(***************************************************************************)
(* A sweep leaves no record older than the threshold, so until the next    *)
(* one is due a record exceeds it by at most the time since.  Without the  *)
(* programs the map is empty.                                              *)
(***************************************************************************)
RecordAges ==
    /\ sinceCleanup \in Nat
    /\ pc # "idle" => sinceCleanup = 0
    /\ pc # "delete" => doomed = {}
    /\ sinceCleanup < CleanupInterval =>
         \A k \in DOMAIN socket_map \ doomed : socket_map[k].age <= StaleThreshold + sinceCleanup
    /\ EbpfLoaded \/ Empty

(* An answer in the cache is no older than the last refresh.               *)
CacheAges ==
    /\ cacheAge \in Nat
    /\ cache = [k \in ConnectionKeys |-> cache[k]]
    /\ \A k \in ConnectionKeys :
         cache[k] # NoAnswer => /\ "age" \in DOMAIN cache[k]
                                /\ cache[k].age \in Nat /\ cache[k].age <= cacheAge

AInv == IInv /\ RecordAges /\ CacheAges

LEMMA InitAInv == Init => AInv
<1> SUFFICES ASSUME Init PROVE AInv
  OBVIOUS
<1>1. RecordAges
  BY IntervalsAssumption DEF Init, RecordAges, Empty
<1>2. CacheAges
  BY IntervalsAssumption DEF Init, CacheAges, EmptyCache
<1>3. QED BY <1>1, <1>2, InitIInv DEF AInv

(* A record is new, or is left as it was.                                  *)
LEMMA StoredAges ==
    ASSUME NEW m, NEW keys, NEW p, Len(keys) \in {0, 1, 2}
    PROVE  LET r == Stored(m, keys, p)
           IN  \A x \in DOMAIN r : r[x].age = 0 \/ (x \in DOMAIN m /\ r[x] = m[x])
<1>1. ASSUME NEW n, NEW k
      PROVE  LET r == store_connection(n, k, p)
             IN  \A x \in DOMAIN r : r[x].age = 0 \/ (x \in DOMAIN n /\ r[x] = n[x])
  BY DEF store_connection
<1>2. CASE Len(keys) = 0
  BY <1>2 DEF Stored
<1>3. CASE Len(keys) = 1
  BY <1>1, <1>3 DEF Stored
<1>4. CASE Len(keys) = 2
  <2> DEFINE one == store_connection(m, keys[1], p)
             two == store_connection(one, keys[2], p)
  <2>1. Stored(m, keys, p) = two
    BY <1>4 DEF Stored
  <2>2. \A x \in DOMAIN one : one[x].age = 0 \/ (x \in DOMAIN m /\ one[x] = m[x])
    BY <1>1
  <2> HIDE DEF one
  <2>3. \A x \in DOMAIN two : two[x].age = 0 \/ (x \in DOMAIN one /\ two[x] = one[x])
    BY <1>1
  <2> HIDE DEF two
  <2>4. QED BY <2>1, <2>2, <2>3
<1>5. QED BY <1>2, <1>3, <1>4

LEMMA CallAges ==
    ASSUME AInv, NEW f \in Flows, Call(f)
    PROVE  RecordAges'
<1> DEFINE r == Stored(socket_map, TracedKeys(f), owner[f])
<1>1. socket_map' = r /\ UNCHANGED <<loaded, pc, doomed, sinceCleanup>>
  BY DEF Call, thread, clocks
<1>2. \A x \in DOMAIN r : r[x].age = 0 \/ (x \in DOMAIN socket_map /\ r[x] = socket_map[x])
  BY KeysCarryPort, StoredAges DEF AInv, IInv
<1>3. ~EbpfLoaded => r = socket_map
  <2>1. ~EbpfLoaded => TracedKeys(f) = <<>>
    BY DEF TracedKeys
  <2>2. QED BY <2>1 DEF Stored
<1> HIDE DEF r
<1>4. QED BY <1>1, <1>2, <1>3, IntervalsAssumption DEF AInv, RecordAges, EbpfLoaded, Empty

LEMMA StartCleanupAges ==
    ASSUME AInv, NEW c \in Conns, StartCleanup(c)
    PROVE  RecordAges'
<1>1. sinceCleanup' = 0 /\ UNCHANGED <<socket_map, loaded>>
  BY DEF StartCleanup
<1>2. \A k \in DOMAIN socket_map : socket_map[k].age \in Int
  BY CapacityAssumption DEF AInv, IInv, ConnInfos
<1>3. CASE EbpfLoaded
  <2>1. pc' = "delete" /\ doomed' = StaleKeys
    BY <1>3 DEF StartCleanup
  <2>2. \A k \in DOMAIN socket_map \ StaleKeys : socket_map[k].age <= StaleThreshold
    BY <1>2, IntervalsAssumption DEF StaleKeys
  <2>3. QED BY <1>1, <1>3, <2>1, <2>2, IntervalsAssumption DEF RecordAges, EbpfLoaded
<1>4. CASE ~EbpfLoaded
  <2>1. pc' = "answer" /\ doomed' = doomed /\ pc = "idle"
    BY <1>4 DEF StartCleanup
  <2>2. QED BY <1>1, <1>4, <2>1 DEF AInv, RecordAges, EbpfLoaded, Empty
<1>5. QED BY <1>3, <1>4

LEMMA DeleteStaleAges ==
    ASSUME AInv, DeleteStale
    PROVE  RecordAges'
<1>1. /\ pc = "delete" /\ pc' = "answer" /\ doomed' = {}
      /\ socket_map' = [k \in DOMAIN socket_map \ doomed |-> socket_map[k]]
      /\ UNCHANGED <<loaded, sinceCleanup>>
  BY DEF DeleteStale, Without, clocks
<1>2. QED BY <1>1 DEF AInv, RecordAges, EbpfLoaded, Empty

LEMMA TickAges ==
    ASSUME AInv, Tick
    PROVE  RecordAges' /\ CacheAges'
<1>1. /\ pc = "idle" /\ socket_map' = Aged(socket_map)
      /\ sinceCleanup' = Capped(sinceCleanup, CleanupInterval)
      /\ cacheAge' = Capped(cacheAge, CacheTtl)
      /\ UNCHANGED <<loaded, pc, doomed>>
  BY DEF Tick, thread
<1>2. RecordAges'
  <2>1. /\ DOMAIN socket_map' = DOMAIN socket_map
        /\ \A k \in DOMAIN socket_map : socket_map'[k].age <= socket_map[k].age + 1
                                         /\ socket_map'[k].age \in Int /\ socket_map[k].age \in Int
    <3>1. \A r \in ConnInfos :
            LET s == [r EXCEPT !.age = IF @ < MaxAge THEN @ + 1 ELSE @]
            IN  s.age <= r.age + 1 /\ s.age \in Int /\ r.age \in Int
      BY CapacityAssumption DEF ConnInfos
    <3>2. QED BY <1>1, <3>1 DEF Aged, AInv, IInv
  <2>2. sinceCleanup' \in Nat
        /\ (sinceCleanup' < CleanupInterval =>
              sinceCleanup < CleanupInterval /\ sinceCleanup' = sinceCleanup + 1)
    <3>1. sinceCleanup \in Nat /\ CleanupInterval \in Nat
      BY IntervalsAssumption DEF AInv, RecordAges
    <3>2. sinceCleanup' = IF sinceCleanup < CleanupInterval THEN sinceCleanup + 1
                          ELSE CleanupInterval
      BY <1>1 DEF Capped
    <3>3. QED BY <3>1, <3>2
  <2>3. sinceCleanup' < CleanupInterval =>
          \A k \in DOMAIN socket_map : socket_map'[k].age <= StaleThreshold + sinceCleanup'
    BY <1>1, <2>1, <2>2, IntervalsAssumption DEF AInv, RecordAges
  <2>4. QED BY <1>1, <2>1, <2>2, <2>3 DEF AInv, RecordAges, EbpfLoaded, Empty
<1>3. CacheAges'
  <2>1. cache' = [k \in ConnectionKeys |->
                    IF cache[k] = NoAnswer THEN NoAnswer
                    ELSE [cache[k] EXCEPT !.age = Capped(@, CacheTtl)]]
    BY DEF Tick
  <2>2. ASSUME NEW k \in ConnectionKeys, cache'[k] # NoAnswer
        PROVE  /\ "age" \in DOMAIN cache'[k]
               /\ cache'[k].age \in Nat /\ cache'[k].age <= cacheAge'
    <3>1. cache[k] # NoAnswer
      BY <2>1, <2>2
    <3>2. "age" \in DOMAIN cache[k] /\ cache[k].age \in Nat /\ cache[k].age <= cacheAge
      BY <3>1 DEF AInv, CacheAges
    <3>3. cache'[k] = [cache[k] EXCEPT !.age = Capped(@, CacheTtl)]
      BY <2>1, <3>1
    <3>4. "age" \in DOMAIN cache'[k] /\ cache'[k].age = Capped(cache[k].age, CacheTtl)
      BY <3>2, <3>3
    <3>5. QED BY <1>1, <3>2, <3>4, IntervalsAssumption DEF Capped, AInv, CacheAges
  <2>3. cacheAge' \in Nat
    BY <1>1, IntervalsAssumption DEF Capped, AInv, CacheAges
  <2>4. QED BY <2>1, <2>2, <2>3 DEF CacheAges
<1>4. QED BY <1>2, <1>3

LEMMA AttributeAges ==
    ASSUME AInv, NEW c \in Conns, Attribute(c)
    PROVE  RecordAges' /\ CacheAges'
<1> DEFINE answer == AnswerFor(c)
           key    == from_connection(c)
<1>1. /\ pc # "delete" /\ pc' = "idle"
      /\ cache' = IF answer = NoAnswer THEN cache ELSE [cache EXCEPT ![key] = answer]
      /\ UNCHANGED <<socket_map, loaded, doomed, sinceCleanup, cacheAge>>
  BY DEF Attribute, clocks
<1>2. RecordAges'
  BY <1>1 DEF AInv, RecordAges, EbpfLoaded, Empty
<1>3. key \in ConnectionKeys
  BY DEF ConnectionKeys
<1>4. answer # NoAnswer =>
        "age" \in DOMAIN answer /\ answer.age \in Nat /\ answer.age <= cacheAge
  <2>1. CASE CacheHit(c)
    BY <1>3, <2>1 DEF AnswerFor, CacheHit, AInv, CacheAges
  <2>2. CASE ~CacheHit(c)
    <3>1. lookup_process_enhanced(c) # NoAnswer =>
            "age" \in DOMAIN lookup_process_enhanced(c) /\ lookup_process_enhanced(c).age = 0
      <4>1. try_ebpf_lookup(c) # NoAnswer =>
              "age" \in DOMAIN try_ebpf_lookup(c) /\ try_ebpf_lookup(c).age = 0
        BY DEF try_ebpf_lookup
      <4>2. lookup_match(c) # NoAnswer =>
              "age" \in DOMAIN lookup_match(c) /\ lookup_match(c).age = 0
        BY DEF lookup_match
      <4>3. QED BY <4>1, <4>2 DEF lookup_process_enhanced
    <3>2. QED BY <2>2, <3>1 DEF AnswerFor, AInv, CacheAges
  <2>3. QED BY <2>1, <2>2
<1> HIDE DEF answer, key
<1>5. cache' = [k \in ConnectionKeys |-> IF k = key /\ answer # NoAnswer THEN answer ELSE cache[k]]
  BY <1>1, <1>3 DEF AInv, CacheAges
<1>6. CacheAges'
  BY <1>1, <1>4, <1>5 DEF AInv, CacheAges
<1>7. QED BY <1>2, <1>6

LEMMA RefreshAges ==
    ASSUME AInv, Refresh
    PROVE  RecordAges' /\ CacheAges'
<1>1. cache' = EmptyCache /\ cacheAge' = 0
      /\ UNCHANGED <<socket_map, loaded, pc, doomed, sinceCleanup>>
  BY DEF Refresh, thread
<1>2. QED BY <1>1 DEF AInv, RecordAges, CacheAges, EmptyCache, EbpfLoaded, Empty

(* AInv holds in every reachable state: no record outlives the threshold   *)
(* and the time since the last sweep, no cached answer the last refresh.   *)
THEOREM InductiveAges == Spec => []AInv
<1>1. Init => AInv
  BY InitAInv
<1>2. AInv /\ IInv' /\ [Next]_vars => AInv'
  <2>1. SUFFICES ASSUME AInv, [Next]_vars PROVE RecordAges' /\ CacheAges'
    BY DEF AInv
  <2>2. UNCHANGED <<cache, cacheAge>> => CacheAges'
    BY <2>1 DEF AInv, CacheAges
  <2>3. UNCHANGED <<socket_map, loaded, pc, doomed, sinceCleanup>> => RecordAges'
    BY <2>1 DEF AInv, RecordAges, EbpfLoaded, Empty
  <2>4. ASSUME NEW f \in Flows, NEW p \in Procs, Open(f, p) PROVE RecordAges' /\ CacheAges'
    BY <2>2, <2>3, <2>4 DEF Open, thread, clocks
  <2>5. ASSUME NEW f \in Flows, Call(f) PROVE RecordAges' /\ CacheAges'
    BY <2>1, <2>2, <2>5, CallAges DEF Call, clocks
  <2>6. ASSUME NEW f \in Flows, Close(f) \/ Packet(f) PROVE RecordAges' /\ CacheAges'
    BY <2>2, <2>3, <2>6 DEF Close, Packet, thread, clocks
  <2>7. ASSUME NEW c \in Conns, RowGone(c) PROVE RecordAges' /\ CacheAges'
    BY <2>2, <2>3, <2>7 DEF RowGone, thread, clocks
  <2>8. ASSUME NEW c \in Conns, StartCleanup(c) PROVE RecordAges' /\ CacheAges'
    BY <2>1, <2>2, <2>8, StartCleanupAges DEF StartCleanup
  <2>9. ASSUME NEW c \in Conns, Attribute(c) PROVE RecordAges' /\ CacheAges'
    BY <2>1, <2>9, AttributeAges
  <2>10. CASE DeleteStale
    BY <2>1, <2>2, <2>10, DeleteStaleAges DEF DeleteStale, clocks
  <2>11. CASE Refresh
    BY <2>1, <2>11, RefreshAges
  <2>12. CASE RefreshFails \/ UNCHANGED vars
    BY <2>2, <2>3, <2>12 DEF RefreshFails, vars, thread, clocks
  <2>13. CASE Tick
    BY <2>1, <2>13, TickAges
  <2>14. QED
    BY <2>1, <2>4, <2>5, <2>6, <2>7, <2>8, <2>9, <2>10, <2>11, <2>12, <2>13 DEF Next, Enrich
<1>3. QED BY <1>1, <1>2, Inductive, PTL DEF Spec

(* No row is given an answer out of a record older than the threshold and  *)
(* one sweep interval, although only lookups sweep.                        *)
THEOREM RecordsRecent == Spec => AnswersRecent
<1> DEFINE Recent(c) == Attribute(c) /\ ~CacheHit(c) /\ try_ebpf_lookup(c) # NoAnswer
                          => socket_map[KeyFound(c)].age < StaleThreshold + CleanupInterval
<1>1. ASSUME AInv, NEW c \in Conns PROVE Recent(c)
  <2>1. SUFFICES ASSUME Attribute(c), try_ebpf_lookup(c) # NoAnswer
                 PROVE  socket_map[KeyFound(c)].age < StaleThreshold + CleanupInterval
    OBVIOUS
  <2>2. KeyFound(c) \in DOMAIN socket_map
    BY <2>1 DEF try_ebpf_lookup
  <2>3. doomed = {} /\ sinceCleanup < CleanupInterval /\ sinceCleanup \in Nat
    BY <1>1, <2>1, IntervalsAssumption DEF Attribute, CleanupDue, AInv, RecordAges
  <2>4. socket_map[KeyFound(c)].age <= StaleThreshold + sinceCleanup
        /\ socket_map[KeyFound(c)].age \in Int
    BY <1>1, <2>2, <2>3, CapacityAssumption DEF AInv, RecordAges, IInv, ConnInfos
  <2>5. QED BY <2>3, <2>4, IntervalsAssumption
<1>2. AInv /\ [Next]_vars => [\A c \in Conns : Recent(c)]_vars
  BY <1>1
<1>3. QED BY <1>2, InductiveAges, PTL DEF Spec, AnswersRecent

(* No row is given a cached answer that was looked up CacheTtl ago.        *)
THEOREM CacheFresh == Spec => CacheAnswersFresh
<1> DEFINE FreshFor(c) == Attribute(c) /\ CacheHit(c) => AnswerFor(c).age < CacheTtl
<1>1. ASSUME AInv, NEW c \in Conns PROVE FreshFor(c)
  <2>1. from_connection(c) \in ConnectionKeys
    BY DEF ConnectionKeys
  <2>2. QED BY <1>1, <2>1, IntervalsAssumption DEF CacheHit, AnswerFor, AInv, CacheAges
<1>2. AInv /\ [Next]_vars => [\A c \in Conns : FreshFor(c)]_vars
  BY <1>1
<1>3. QED BY <1>2, InductiveAges, PTL DEF Spec, CacheAnswersFresh

-----------------------------------------------------------------------------
(* Types.  They need what the programs store to be keys, and the map to be *)
(* finite, so that a full map refuses a key at its capacity.               *)

Bounded(m) ==
    DOMAIN m \subseteq ConnKeys /\ IsFiniteSet(DOMAIN m) /\ Cardinality(DOMAIN m) <= MAX_ENTRIES

TInv ==
    /\ IInv
    /\ TypeOK
    /\ IsFiniteSet(DOMAIN socket_map)
    /\ opens \in Seq(Conns)

LEMMA SocketKeys ==
    ASSUME NEW sk \in Sockets, NEW proto \in {"TCP", "UDP", "ICMP", "ICMPV6"}
    PROVE  fill_socket_v4(sk, proto) \in ConnKeys /\ fill_socket_v6(sk, proto) \in ConnKeys
BY DEF Sockets, ConnKeys, fill_socket_v4, fill_socket_v6

LEMMA AddressedKeys ==
    ASSUME NEW key \in ConnKeys, NEW msg,
           msg = NoName \/ (msg.addr \in V4 \cup V6 \cup MappedV4 /\ msg.port \in Ports \cup {0})
    PROVE  Addressed(key, msg) \in ConnKeys
BY DEF Addressed, ConnKeys

LEMMA MessageFields ==
    ASSUME NEW msg \in Messages
    PROVE  msg = NoName \/ (msg.addr \in V4 \cup V6 \cup MappedV4 /\ msg.port \in Ports \cup {0})
BY DEF Messages

(* Whatever the programs of a call store is a key.                         *)
LEMMA KeysTyped ==
    ASSUME Backends, NEW f \in Flows
    PROVE  \A i \in 1..Len(TracedKeys(f)) : TracedKeys(f)[i] \in ConnKeys \cup {NoKey}
<1>1. CASE TracedKeys(f) = <<>>
  BY <1>1
<1>2. CASE f.call \in {"connect", "accept"}
  <2>1. track_tcp_socket(f.sk) \in ConnKeys
    BY <1>2, FlowTypes, SocketKeys DEF track_tcp_socket, Consistent
  <2>2. TracedKeys(f) \in {<<>>, <<track_tcp_socket(f.sk)>>,
                           <<track_tcp_socket(f.sk), track_tcp_socket(f.sk)>>}
    BY <1>2 DEF TracedKeys, FentryConnectKeys, KprobeConnectKeys, AcceptKeys
  <2>3. QED BY <2>1, <2>2
<1>3. CASE f.call = "send"
  <2> DEFINE v4   == track_udp_v4(f.sk, f.msg)
             v6   == track_udp_v6(f.sk, f.msg)
             both == track_udp_v4(f.sk, V4Message(f.sk, f.msg))
  <2>1. f.sk \in Sockets /\ f.msg \in Messages
    BY <1>3, FlowTypes
  <2>2. v4 \in ConnKeys \cup {NoKey} /\ v6 \in ConnKeys
    <3>1. Addressed(fill_socket_v4(f.sk, "UDP"), f.msg) \in ConnKeys
          /\ Addressed(fill_socket_v6(f.sk, "UDP"), f.msg) \in ConnKeys
      BY <2>1, SocketKeys, AddressedKeys, MessageFields
    <3>2. QED BY <3>1 DEF track_udp_v4, track_udp_v6
  <2>3. SendsV4(f.sk, f.msg) => both \in ConnKeys \cup {NoKey}
    <3>1. SUFFICES ASSUME SendsV4(f.sk, f.msg) PROVE both \in ConnKeys \cup {NoKey}
      OBVIOUS
    <3>2. \A a \in MappedV4 : a.mapped \in V4
      BY DEF MappedV4
    <3>3. f.sk.dport \in Ports \cup {0}
      BY <2>1 DEF Sockets
    <3> DEFINE msg == V4Message(f.sk, f.msg)
    <3>4. msg.addr \in V4 \cup V6 \cup MappedV4 /\ msg.port \in Ports \cup {0}
      <4>1. CASE f.msg = NoName
        BY <3>1, <3>2, <3>3, <4>1 DEF SendsV4, V4Message
      <4>2. CASE f.msg # NoName
        BY <2>1, <3>1, <3>2, <4>2, MessageFields DEF SendsV4, V4Message
      <4>3. QED BY <4>1, <4>2
    <3>5. Addressed(fill_socket_v4(f.sk, "UDP"), msg) \in ConnKeys
      BY <2>1, <3>4, SocketKeys, AddressedKeys
    <3>6. QED BY <3>5 DEF track_udp_v4
  <2>4. TracedKeys(f) \in {<<>>, <<v4>>, <<v6>>}
        \/ (SendsV4(f.sk, f.msg) /\ TracedKeys(f) = <<v6, both>>)
    BY <1>3 DEF TracedKeys, SendKeys
  <2> HIDE DEF v4, v6, both
  <2>5. QED BY <2>2, <2>3, <2>4
<1>4. CASE f.call = "ping"
  <2> DEFINE v4 == track_ping_v4(f.sk, f.msg)
             v6 == track_ping_v6(f.sk, f.msg)
  <2>1. f.sk \in Sockets /\ f.msg \in Messages
    BY <1>4, FlowTypes
  <2>2. Addressed(fill_socket_v4(f.sk, "ICMP"), f.msg) \in ConnKeys
        /\ Addressed(fill_socket_v6(f.sk, "ICMPV6"), f.msg) \in ConnKeys
    BY <2>1, SocketKeys, AddressedKeys, MessageFields
  <2>3. \A key \in ConnKeys : [key EXCEPT !.dport = 0] \in ConnKeys
    BY DEF ConnKeys
  <2>4. v4 \in ConnKeys \cup {NoKey} /\ v6 \in ConnKeys
    BY <2>2, <2>3 DEF track_ping_v4, track_ping_v6
  <2>5. TracedKeys(f) \in {<<>>, <<v4>>, <<v6>>}
    BY <1>4 DEF TracedKeys, PingV4Keys, PingV6Keys
  <2> HIDE DEF v4, v6
  <2>6. QED BY <2>4, <2>5
<1>5. CASE f.call = "forward"
  BY <1>1, <1>5 DEF TracedKeys
<1>6. QED BY <1>2, <1>3, <1>4, <1>5, FlowTypes DEF Calls

(* The map takes no key past its capacity.                                 *)
LEMMA StoreBounded ==
    ASSUME NEW m, NEW key \in ConnKeys \cup {NoKey}, NEW p, Bounded(m)
    PROVE  Bounded(store_connection(m, key, p))
<1> DEFINE r == store_connection(m, key, p)
<1>1. CASE r = m
  BY <1>1
<1>2. CASE key \in DOMAIN m
  BY <1>2 DEF store_connection, Bounded
<1>3. CASE key \notin DOMAIN m /\ r # m
  <2>1. key # NoKey /\ ~(Cardinality(DOMAIN m) >= MAX_ENTRIES)
    BY <1>3 DEF store_connection
  <2>2. DOMAIN r = DOMAIN m \cup {key}
    BY <1>3, <2>1 DEF store_connection
  <2>3. IsFiniteSet(DOMAIN m) /\ Cardinality(DOMAIN m) \in Nat
    BY FS_CardinalityType DEF Bounded
  <2>4. IsFiniteSet(DOMAIN r) /\ Cardinality(DOMAIN r) = Cardinality(DOMAIN m) + 1
    BY <1>3, <2>2, <2>3, FS_AddElement
  <2>5. QED BY <2>1, <2>2, <2>3, <2>4, CapacityAssumption DEF Bounded
<1>4. QED BY <1>1, <1>2, <1>3

LEMMA StoredBounded ==
    ASSUME NEW m, NEW keys, NEW p, Bounded(m), Len(keys) \in {0, 1, 2},
           \A i \in 1..Len(keys) : keys[i] \in ConnKeys \cup {NoKey}
    PROVE  Bounded(Stored(m, keys, p))
<1>1. CASE Len(keys) = 0
  BY <1>1 DEF Stored
<1>2. CASE Len(keys) = 1
  BY <1>2, StoreBounded DEF Stored
<1>3. CASE Len(keys) = 2
  <2> DEFINE one == store_connection(m, keys[1], p)
  <2>1. Bounded(one)
    BY <1>3, StoreBounded
  <2> HIDE DEF one
  <2>2. Bounded(store_connection(one, keys[2], p))
    BY <1>3, <2>1, StoreBounded
  <2>3. Stored(m, keys, p) = store_connection(one, keys[2], p)
    BY <1>3 DEF Stored, one
  <2>4. QED BY <2>2, <2>3
<1>4. QED BY <1>1, <1>2, <1>3

(* A record leads to a process, and so does a line of the scanned table.   *)
LEMMA AnswersTyped ==
    ASSUME TInv, NEW c \in Conns
    PROVE  AnswerFor(c) \in Answers \cup {NoAnswer}
<1>0. 0 \in 0..CacheTtl
  BY IntervalsAssumption
<1>1. try_ebpf_lookup(c) \in Answers \cup {NoAnswer}
  <2>1. CASE KeyFound(c) \notin DOMAIN socket_map
    BY <2>1 DEF try_ebpf_lookup
  <2>2. CASE KeyFound(c) \in DOMAIN socket_map
    <3>1. socket_map[KeyFound(c)].tgid \in Procs
      BY <2>2 DEF TInv, IInv, ConnInfos
    <3>2. QED BY <1>0, <3>1 DEF try_ebpf_lookup, Answers, Qualities, EbpfQualities
  <2>3. QED BY <2>1, <2>2
<1>2. lookup_match(c) \in Answers \cup {NoAnswer}
  <2> DEFINE owners == RelaxedOwners(from_connection(c))
  <2>1. \A k \in DOMAIN table : table[k] \in Procs
    BY DEF TInv, TypeOK
  <2>2. owners \subseteq Procs
    BY <2>1 DEF RelaxedOwners
  <2>3. Cardinality(owners) = 1 => (CHOOSE p \in owners : TRUE) \in Procs
    <3>1. Cardinality(owners) = 1 => owners # {}
      BY FS_EmptySet
    <3>2. QED BY <2>2, <3>1
  <2> HIDE DEF owners
  <2>4. QED BY <1>0, <2>1, <2>3 DEF lookup_match, owners, Answers, Qualities
<1>3. CacheHit(c) => cache[from_connection(c)] \in Answers
  BY DEF CacheHit, TInv, TypeOK, ConnectionKeys
<1>4. QED BY <1>1, <1>2, <1>3 DEF AnswerFor, lookup_process_enhanced

(* What the steps outside the kernel leave alone.                          *)
KernelTypes == Bounded(socket_map) /\ IInv /\ opens \in Seq(Conns) /\ Len(opens) <= MaxOpens
               /\ recorded \subseteq called /\ called \subseteq OpenFlows
               /\ loaded.capabilities \subseteq Capabilities

UserTypes ==
    /\ rows \in [Conns -> {NoRow, Pending} \cup Procs]
    /\ \A k \in DOMAIN table : table[k] \in Procs
    /\ cache \in [ConnectionKeys -> Answers \cup {NoAnswer}]
    /\ pc \in {"idle", "delete", "answer"}
    /\ asking \in Conns \cup {NoRow} /\ (pc = "idle" <=> asking = NoRow)
    /\ doomed \subseteq ConnKeys
    /\ sinceCleanup \in 0..CleanupInterval
    /\ sinceRefresh \in 0..(RefreshInterval + 1)
    /\ cacheAge \in 0..CacheTtl

LEMMA TypesSplit == TInv <=> KernelTypes /\ UserTypes
<1>1. opens \in Seq(Conns) => ToSet(opens) \subseteq Conns
  BY DEF ToSet
<1>2. QED BY <1>1 DEF TInv, TypeOK, SocketMapOK, KernelTypes, UserTypes, Bounded, IInv

LEMMA InitTypes == Init => TInv
<1> SUFFICES ASSUME Init PROVE TInv
  OBVIOUS
<1>1. OpenFlows = {} /\ DOMAIN socket_map = {}
  BY DEF Init, OpenFlows
<1>2. Bounded(socket_map)
  BY <1>1, FS_EmptySet, CapacityAssumption DEF Bounded
<1>3. loaded.capabilities \subseteq Capabilities
  <2>1. PICK env \in Environments : loaded = try_load(env)
    BY DEF Init
  <2>2. env.ping \subseteq Capabilities
    BY EnvironmentsAssumption DEF EnvironmentRecords, Capabilities
  <2>3. QED BY <2>1, <2>2 DEF try_load, Capabilities
<1>4. KernelTypes
  BY <1>1, <1>2, <1>3, InitIInv, IntervalsAssumption DEF Init, KernelTypes
<1>5. DOMAIN table = {}
  BY <1>1 DEF Init, build_process_map
<1>6. sinceCleanup \in 0..CleanupInterval /\ sinceRefresh \in 0..(RefreshInterval + 1)
      /\ cacheAge \in 0..CacheTtl
  BY IntervalsAssumption DEF Init
<1>7. UserTypes
  BY <1>5, <1>6 DEF Init, UserTypes, EmptyCache
<1>8. QED BY <1>4, <1>7, TypesSplit

LEMMA OpenTypes ==
    ASSUME TInv, IInv', NEW f \in Flows, NEW p \in Procs, Open(f, p)
    PROVE  TInv'
<1>1. KernelTypes /\ UserTypes
  BY TypesSplit
<1>2. /\ Len(opens) < MaxOpens /\ opens' = Append(opens, ConnOf(f))
      /\ owner' = [owner EXCEPT ![f] = p] /\ owner[f] = Nobody
      /\ UNCHANGED <<socket_map, loaded, called, recorded, rows, table, cache, thread, clocks>>
  BY DEF Open
<1>3. opens' \in Seq(Conns) /\ Len(opens') <= MaxOpens
  <2>1. ConnOf(f) \in Conns
    BY DEF Conns
  <2>2. QED BY <1>1, <1>2, <2>1, IntervalsAssumption DEF KernelTypes
<1>4. OpenFlows \subseteq OpenFlows'
  BY <1>2 DEF OpenFlows, TInv, IInv
<1>5. KernelTypes'
  BY <1>1, <1>2, <1>3, <1>4 DEF KernelTypes, Bounded
<1>6. UserTypes'
  BY <1>1, <1>2 DEF UserTypes, thread, clocks
<1>7. QED BY <1>5, <1>6, TypesSplit, PTL

LEMMA CallTypes ==
    ASSUME TInv, IInv', NEW f \in Flows, Call(f)
    PROVE  TInv'
<1>1. KernelTypes /\ UserTypes /\ Backends
  BY TypesSplit DEF TInv, IInv
<1>2. /\ owner[f] # Nobody /\ called' = called \cup {f}
      /\ socket_map' = Stored(socket_map, TracedKeys(f), owner[f])
      /\ recorded' \in {recorded, recorded \cup {f}}
      /\ UNCHANGED <<loaded, owner, opens, rows, table, cache, thread, clocks>>
  BY DEF Call
<1>3. Bounded(socket_map')
  BY <1>1, <1>2, KeysTyped, KeysCarryPort, StoredBounded DEF KernelTypes
<1>4. OpenFlows' = OpenFlows /\ f \in OpenFlows
  BY <1>2 DEF OpenFlows
<1>5. KernelTypes'
  BY <1>1, <1>2, <1>3, <1>4 DEF KernelTypes, Bounded
<1>6. UserTypes'
  BY <1>1, <1>2 DEF UserTypes, thread, clocks
<1>7. QED BY <1>5, <1>6, TypesSplit, PTL

LEMMA CloseTypes ==
    ASSUME TInv, IInv', NEW f \in Flows, Close(f)
    PROVE  TInv'
<1>1. KernelTypes /\ UserTypes
  BY TypesSplit
<1>2. /\ owner' = [owner EXCEPT ![f] = Nobody]
      /\ called' = called \ {f} /\ recorded' = recorded \ {f}
      /\ UNCHANGED <<socket_map, loaded, opens, rows, table, cache, thread, clocks>>
  BY DEF Close
<1>3. OpenFlows' = OpenFlows \ {f}
  BY <1>2 DEF OpenFlows, TInv, IInv
<1>4. KernelTypes'
  BY <1>1, <1>2, <1>3 DEF KernelTypes, Bounded
<1>5. UserTypes'
  BY <1>1, <1>2 DEF UserTypes, thread, clocks
<1>6. QED BY <1>4, <1>5, TypesSplit, PTL

LEMMA DeleteStaleTypes ==
    ASSUME TInv, IInv', DeleteStale
    PROVE  TInv'
<1>1. KernelTypes /\ UserTypes
  BY TypesSplit
<1>2. /\ pc = "delete" /\ pc' = "answer" /\ doomed' = {}
      /\ socket_map' = Without(socket_map, doomed)
      /\ recorded' \subseteq recorded
      /\ UNCHANGED <<loaded, owner, called, opens, rows, table, cache, asking, clocks>>
  BY DEF DeleteStale, kernel
<1>3. DOMAIN socket_map' \subseteq DOMAIN socket_map
  BY <1>2 DEF Without
<1>4. Bounded(socket_map')
  <2>1. IsFiniteSet(DOMAIN socket_map) /\ Cardinality(DOMAIN socket_map) \in Nat
        /\ Cardinality(DOMAIN socket_map) <= MAX_ENTRIES /\ DOMAIN socket_map \subseteq ConnKeys
    BY <1>1, FS_CardinalityType DEF KernelTypes, Bounded
  <2>2. IsFiniteSet(DOMAIN socket_map')
        /\ Cardinality(DOMAIN socket_map') <= Cardinality(DOMAIN socket_map)
    BY <1>3, <2>1, FS_Subset
  <2>3. Cardinality(DOMAIN socket_map') \in Nat
    BY <2>2, FS_CardinalityType
  <2>4. QED BY <1>3, <2>1, <2>2, <2>3, CapacityAssumption DEF Bounded
<1>5. KernelTypes'
  <2>1. OpenFlows' = OpenFlows
    BY <1>2 DEF OpenFlows
  <2>2. QED BY <1>1, <1>2, <1>4, <2>1 DEF KernelTypes, Bounded
<1>6. UserTypes'
  BY <1>1, <1>2 DEF UserTypes, clocks
<1>7. QED BY <1>5, <1>6, TypesSplit, PTL

(* Steps of the tracker and of the enrichment thread.                      *)
LEMMA RowTypes ==
    ASSUME TInv, IInv', NEW c \in Conns, NEW f \in Flows,
           Packet(f) \/ RowGone(c) \/ StartCleanup(c) \/ Attribute(c)
    PROVE  TInv'
<1>1. KernelTypes /\ UserTypes
  BY TypesSplit
<1>2. UNCHANGED <<socket_map, loaded, kernel, recorded, table, sinceRefresh, cacheAge>>
  BY DEF Packet, RowGone, StartCleanup, Attribute, clocks
<1>3. KernelTypes'
  BY <1>1, <1>2 DEF KernelTypes, Bounded, kernel, OpenFlows
<1>4. ASSUME Packet(f) \/ RowGone(c) PROVE UserTypes'
  <2>1. ConnOf(f) \in Conns
    BY DEF Conns
  <2>2. rows' \in [Conns -> {NoRow, Pending} \cup Procs]
    BY <1>1, <1>4, <2>1 DEF Packet, RowGone, UserTypes
  <2>3. UNCHANGED <<table, cache, thread, clocks>>
    BY <1>4 DEF Packet, RowGone
  <2>4. QED BY <1>1, <2>2, <2>3 DEF UserTypes, thread, clocks
<1>5. ASSUME StartCleanup(c) PROVE UserTypes'
  <2>1. c # NoRow
    BY RowsAssumption
  <2>2. StaleKeys \subseteq ConnKeys
    BY <1>1 DEF KernelTypes, Bounded, StaleKeys
  <2>3. 0 \in 0..CleanupInterval
    BY IntervalsAssumption
  <2>4. pc' \in {"delete", "answer"} /\ asking' = c /\ doomed' \in {doomed, StaleKeys}
        /\ sinceCleanup' = 0 /\ UNCHANGED <<rows, table, cache, sinceRefresh, cacheAge>>
    BY <1>5 DEF StartCleanup
  <2>5. QED BY <1>1, <2>1, <2>2, <2>3, <2>4 DEF UserTypes
<1>6. ASSUME Attribute(c) PROVE UserTypes'
  <2> DEFINE answer == AnswerFor(c)
             key    == from_connection(c)
  <2>1. answer \in Answers \cup {NoAnswer} /\ key \in ConnectionKeys
    BY AnswersTyped DEF ConnectionKeys
  <2>2. pc' = "idle" /\ asking' = NoRow /\ UNCHANGED <<table, doomed, clocks>>
        /\ cache' \in {cache, [cache EXCEPT ![key] = answer]}
        /\ (answer = NoAnswer => rows' = rows)
        /\ (answer # NoAnswer => rows' = [rows EXCEPT ![c] = answer.pid])
    BY <1>6 DEF Attribute
  <2> HIDE DEF answer, key
  <2>3. cache' \in [ConnectionKeys -> Answers \cup {NoAnswer}]
    BY <1>1, <2>1, <2>2 DEF UserTypes
  <2>4. answer # NoAnswer => answer.pid \in Procs
    BY <2>1 DEF Answers
  <2>5. rows' \in [Conns -> {NoRow, Pending} \cup Procs]
    BY <1>1, <2>2, <2>4 DEF UserTypes
  <2>6. QED BY <1>1, <2>2, <2>3, <2>5 DEF UserTypes, clocks
<1>7. UserTypes'
  BY <1>4, <1>5, <1>6
<1>8. QED BY <1>3, <1>7, TypesSplit, PTL

(* Refreshes and time.                                                     *)
LEMMA ClockTypes ==
    ASSUME TInv, IInv', Refresh \/ RefreshFails \/ Tick
    PROVE  TInv'
<1>1. KernelTypes /\ UserTypes
  BY TypesSplit
<1>2. /\ UNCHANGED <<loaded, kernel, recorded, rows, thread>>
      /\ UNCHANGED socket_map \/ socket_map' = Aged(socket_map)
  BY DEF Refresh, RefreshFails, Tick
<1>3. KernelTypes'
  <2>1. DOMAIN socket_map' = DOMAIN socket_map
    BY <1>2 DEF Aged
  <2>2. OpenFlows' = OpenFlows
    BY <1>2 DEF OpenFlows, kernel
  <2>3. QED BY <1>1, <1>2, <2>1, <2>2 DEF KernelTypes, Bounded, kernel
<1>4. ASSUME Refresh \/ RefreshFails PROVE UserTypes'
  <2>1. \A k \in DOMAIN build_process_map : build_process_map[k] \in Procs
    <3>1. SUFFICES ASSUME NEW k \in UNION {EntriesOf(f) : f \in OpenFlows}
                   PROVE  owner[CHOOSE f \in OpenFlows : k \in EntriesOf(f)] \in Procs
      BY DEF build_process_map
    <3>2. \E f \in OpenFlows : k \in EntriesOf(f)
      OBVIOUS
    <3>3. \A f \in OpenFlows : owner[f] \in Procs
      BY DEF OpenFlows, TInv, IInv
    <3>4. QED BY <3>2, <3>3
  <2>2. EmptyCache \in [ConnectionKeys -> Answers \cup {NoAnswer}]
    BY DEF EmptyCache
  <2>3. 0 \in 0..(RefreshInterval + 1) /\ 0 \in 0..CacheTtl
    BY IntervalsAssumption
  <2>4. /\ UNCHANGED <<rows, thread, sinceCleanup>> /\ sinceRefresh' = 0
        /\ cacheAge' \in {0, cacheAge} /\ table' \in {table, build_process_map}
        /\ cache' \in {cache, EmptyCache}
    BY <1>4 DEF Refresh, RefreshFails
  <2>5. table' = table \/ table' = build_process_map
    BY <2>4
  <2>6. QED BY <1>1, <2>1, <2>2, <2>3, <2>4, <2>5 DEF UserTypes, thread
<1>5. ASSUME Tick PROVE UserTypes'
  <2>1. \A cap \in Nat : \A n \in 0..cap : Capped(n, cap) \in 0..cap
    BY DEF Capped
  <2>2. CleanupInterval \in Nat /\ RefreshInterval + 1 \in Nat /\ CacheTtl \in Nat
    BY IntervalsAssumption
  <2>3. /\ sinceCleanup' \in 0..CleanupInterval
        /\ sinceRefresh' \in 0..(RefreshInterval + 1)
        /\ cacheAge' \in 0..CacheTtl
    BY <1>1, <1>5, <2>1, <2>2 DEF Tick, UserTypes
  <2>4. \A a \in Answers : [a EXCEPT !.age = Capped(@, CacheTtl)] \in Answers
    BY <2>1, <2>2 DEF Answers
  <2>5. cache' \in [ConnectionKeys -> Answers \cup {NoAnswer}]
    BY <1>1, <1>5, <2>4 DEF Tick, UserTypes
  <2>6. UNCHANGED <<rows, table, thread>>
    BY <1>5 DEF Tick
  <2>7. QED BY <1>1, <2>3, <2>5, <2>6 DEF UserTypes, thread
<1>6. UserTypes'
  BY <1>4, <1>5
<1>7. QED BY <1>3, <1>6, TypesSplit, PTL

(* Every variable keeps its type, socket_map its capacity, and the thread  *)
(* holds a row exactly while it is in a lookup.                            *)
THEOREM TypeCorrect == Spec => []TypeOK
<1>1. Init => TInv
  BY InitTypes
<1>2. TInv /\ IInv' /\ [Next]_vars => TInv'
  <2>1. SUFFICES ASSUME TInv, IInv', [Next]_vars PROVE TInv'
    OBVIOUS
  <2>2. ASSUME NEW f \in Flows, NEW p \in Procs, Open(f, p) PROVE TInv'
    BY <2>1, <2>2, OpenTypes
  <2>3. ASSUME NEW f \in Flows, Call(f) PROVE TInv'
    BY <2>1, <2>3, CallTypes
  <2>4. ASSUME NEW f \in Flows, Close(f) PROVE TInv'
    BY <2>1, <2>4, CloseTypes
  <2>5. ASSUME NEW f \in Flows, Packet(f) PROVE TInv'
    <3>1. ConnOf(f) \in Conns
      BY DEF Conns
    <3>2. QED BY <2>1, <2>5, <3>1, RowTypes
  <2>6. ASSUME NEW c \in Conns, RowGone(c) \/ StartCleanup(c) \/ Attribute(c) PROVE TInv'
    <3>1. Flows # {}
      BY DEF Conns
    <3>2. QED BY <2>1, <2>6, <3>1, RowTypes
  <2>7. CASE DeleteStale
    BY <2>1, <2>7, DeleteStaleTypes
  <2>8. CASE Refresh \/ RefreshFails \/ Tick
    BY <2>1, <2>8, ClockTypes
  <2>9. CASE UNCHANGED vars
    <3>1. UNCHANGED <<socket_map, loaded, owner, called, opens, recorded, rows, table, cache,
                      pc, asking, doomed, sinceCleanup, sinceRefresh, cacheAge>>
      BY <2>9 DEF vars, kernel, thread, clocks
    <3>2. QED BY <2>1, <3>1 DEF TInv, TypeOK, SocketMapOK, OpenFlows
  <2>10. QED BY <2>1, <2>2, <2>3, <2>4, <2>5, <2>6, <2>7, <2>8, <2>9 DEF Next, Enrich
<1>3. TInv => TypeOK
  BY DEF TInv
<1>4. QED BY <1>1, <1>2, <1>3, Inductive, PTL DEF Spec
=============================================================================
