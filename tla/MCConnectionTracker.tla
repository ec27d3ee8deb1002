------------------------ MODULE MCConnectionTracker ------------------------
(***************************************************************************)
(* TLC instances of ConnectionTracker.                                     *)
(***************************************************************************)
EXTENDS ConnectionTracker, TLC

CONSTANTS w1, w2, t1, t2, t3, q1, q2, c1, c2

NoFlags == [syn |-> FALSE, ack |-> FALSE, fin |-> FALSE, rst |-> FALSE]

Segment(k, flags, out, payload) ==
    [key |-> k, flags |-> flags, out |-> out, payload |-> payload]

Syn(k)  == Segment(k, [NoFlags EXCEPT !.syn = TRUE], TRUE, FALSE)
Ack(k)  == Segment(k, [NoFlags EXCEPT !.ack = TRUE], FALSE, FALSE)
Data(k) == Segment(k, [NoFlags EXCEPT !.ack = TRUE], FALSE, TRUE)
Fin(k)  == Segment(k, [NoFlags EXCEPT !.ack = TRUE, !.fin = TRUE], FALSE, FALSE)
Rst(k)  == Segment(k, [NoFlags EXCEPT !.rst = TRUE], FALSE, FALSE)

(* One tuple that opens, is reset and is reused, with delayed teardown.    *)
ReuseMix == {Syn(t1), Ack(t1), Rst(t1)}

Datagram(k, id, state, close) ==
    [key |-> k, id |-> id, state |-> state, close |-> close]

(* Client Initials of two connections, one seen from two addresses; short  *)
(* header data; a close.                                                   *)
QuicMix == {Datagram(q1, c1, "QuicInitial", "none"), Datagram(q2, c1, "QuicInitial", "none"),
            Datagram(q1, c2, "QuicInitial", "none"), Datagram(q1, "opaque", "QuicConnected", "none"),
            Datagram(q1, NoCid, "QuicInitial", "noError")}

(* More flows than slots, and rows that close.                             *)
FloodMix == {Syn(t1), Rst(t1), Syn(t2), Syn(t3)}

Symmetry == Permutations(Workers)
=============================================================================
