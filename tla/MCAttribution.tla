---------------------------- MODULE MCAttribution ----------------------------
(***************************************************************************)
(* The TLC instance of ProcessAttribution.                                 *)
(***************************************************************************)
EXTENDS ProcessAttribution, TLC

CONSTANTS p1, p2, a4, b4, a6, b6

V4Sock(l, r, port) ==
    [family |-> "AF_INET", num |-> 1, dport |-> port, rcv_saddr |-> l, daddr |-> r,
     v6_rcv_saddr |-> Zero, v6_daddr |-> Zero]

V6Sock(l, r, port) ==
    [family |-> "AF_INET6", num |-> 1, dport |-> port, rcv_saddr |-> Zero, daddr |-> Zero,
     v6_rcv_saddr |-> l, v6_daddr |-> r]

MappedOf(a) == IF a = Zero THEN Zero ELSE [mapped |-> a]

DualSock(l, r, port) ==
    [family |-> "AF_INET6", num |-> 1, dport |-> port, rcv_saddr |-> l, daddr |-> r,
     v6_rcv_saddr |-> MappedOf(l), v6_daddr |-> MappedOf(r)]

Flow(call, sk, msg, src, dst) == [call |-> call, sk |-> sk, msg |-> msg, src |-> src, dst |-> dst]

To(a) == [addr |-> a, port |-> 2]

(* One flow of every shape the programs tell apart.                        *)
Shapes == {
    Flow("connect", V6Sock(a6, b6, 2), NoName, a6, b6),
    Flow("connect", DualSock(a4, b4, 2), NoName, a4, b4),
    Flow("accept", DualSock(a4, b4, 2), NoName, a4, b4),
    Flow("send", V4Sock(a4, b4, 2), NoName, a4, b4),
    Flow("send", V6Sock(Zero, Zero, 0), To(b6), a6, b6),
    Flow("send", DualSock(Zero, Zero, 0), To([mapped |-> b4]), a4, b4),
    Flow("ping", V4Sock(Zero, Zero, 0), To(b4), a4, b4),
    Flow("ping", V6Sock(a6, Zero, 0), To(b6), a6, b6),
    Flow("forward", V4Sock(a4, b4, 1), NoName, a4, b4)}

Env(fentry, kprobe, ping) ==
    [privileged |-> TRUE, btf |-> TRUE, fentry |-> fentry, kprobe |-> kprobe, ping |-> ping]

Kernels == {Env(TRUE, TRUE, {"ICMP_V4_SEND", "ICMP_V6_SEND"}), Env(FALSE, TRUE, {}),
            Env(FALSE, FALSE, {})}
=============================================================================
