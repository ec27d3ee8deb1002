-------------------------- MODULE ConnectionStates --------------------------
(***************************************************************************)
(* The protocol states a tracked connection moves through, as the pure     *)
(* functions of rustnet-core see them: merge.rs `update_tcp_state` and the *)
(* state part of `merge_quic_info`, types.rs `is_terminal`,                *)
(* `is_closing_or_terminal` and `get_timeout`.                             *)
(*                                                                         *)
(* A row's state is one string: a TCP state or a QUIC state.  QUIC's       *)
(* `connection_close` flag is folded into the state: merging a close frame *)
(* always leaves the row in Draining or Closed, and no other packet leaves *)
(* those two.                                                              *)
(***************************************************************************)
EXTENDS Integers

TcpStates ==
    {"Unknown", "SynSent", "SynReceived", "Established", "FinWait1", "FinWait2",
     "CloseWait", "LastAck", "TimeWait", "Closing", "Closed"}

QuicStates ==
    {"QuicUnknown", "QuicInitial", "QuicHandshaking", "QuicConnected",
     "QuicDraining", "QuicClosed"}

States == TcpStates \cup QuicStates

TcpFlags == [syn : BOOLEAN, ack : BOOLEAN, fin : BOOLEAN, rst : BOOLEAN]

(***************************************************************************)
(* The state after one observed TCP segment.  RST wins over everything:    *)
(* every other arm of the match requires a clear RST flag.                 *)
(***************************************************************************)
UpdateTcpState(s, f, out) ==
    LET syn    == f.syn /\ ~f.ack /\ ~f.fin
        synAck == f.syn /\ f.ack /\ ~f.fin
        ack    == ~f.syn /\ f.ack /\ ~f.fin
        fin    == ~f.syn /\ f.fin
    IN  CASE f.rst                                      -> "Closed"
          [] ~f.rst /\ s = "Unknown" /\ syn             -> IF out THEN "SynSent" ELSE "SynReceived"
          [] ~f.rst /\ s = "Unknown" /\ ~f.syn /\ f.ack -> "Established"
          [] ~f.rst /\ s = "SynSent" /\ synAck /\ ~out  -> "Established"
          [] ~f.rst /\ s = "SynReceived" /\ ack /\ out  -> "Established"
          [] ~f.rst /\ s = "Established" /\ fin         -> IF out THEN "FinWait1" ELSE "CloseWait"
          [] ~f.rst /\ s = "FinWait1" /\ ack /\ ~out    -> "FinWait2"
          [] ~f.rst /\ s = "FinWait1" /\ fin /\ ~out    -> "Closing"
          [] ~f.rst /\ s = "FinWait2" /\ fin /\ ~out    -> "TimeWait"
          [] ~f.rst /\ s = "CloseWait" /\ fin /\ out    -> "LastAck"
          [] ~f.rst /\ s = "LastAck" /\ ack /\ ~out     -> "Closed"
          [] ~f.rst /\ s = "Closing" /\ ack /\ ~out     -> "TimeWait"
          [] OTHER                                      -> s

(* The order QuicConnectionState::priority gives the observed states.      *)
QuicPriority(s) ==
    CASE s = "QuicUnknown"     -> 0
      [] s = "QuicInitial"     -> 1
      [] s = "QuicHandshaking" -> 2
      [] s = "QuicConnected"   -> 3
      [] s = "QuicDraining"    -> 4
      [] OTHER                 -> 5

(***************************************************************************)
(* Merging the state of one QUIC packet: forward by priority, except that  *)
(* a CONNECTION_CLOSE frame assigns the state its frame type stands for    *)
(* (a NO_ERROR transport close drains, every other close closes).          *)
(***************************************************************************)
CloseFrames == {"none", "noError", "error"}

(* Mutant of MergeQuicState: the last observed state wins.                 *)
MergeQuicStateLast(s, observed, close) ==
    CASE close = "noError" -> "QuicDraining"
      [] close = "error"   -> "QuicClosed"
      [] OTHER             -> observed

MergeQuicState(s, observed, close) ==
    CASE close = "noError" -> "QuicDraining"
      [] close = "error"   -> "QuicClosed"
      [] OTHER             -> IF QuicPriority(observed) > QuicPriority(s) THEN observed ELSE s

IsTerminal(s) == s \in {"TimeWait", "Closed", "QuicDraining", "QuicClosed"}

(* QUIC rows close in one step, TCP rows through the four-way teardown.    *)
IsClosingOrTerminal(s) ==
    \/ IsTerminal(s)
    \/ s \in {"FinWait1", "FinWait2", "CloseWait", "LastAck", "Closing"}

(***************************************************************************)
(* Seconds a row in state s stays live past its cleanup reference time:    *)
(* the values for a TCP row without application data and a QUIC row        *)
(* without an advertised idle timeout.                                     *)
(***************************************************************************)
TimeoutSeconds(s) ==
    CASE s \in {"Closed", "QuicDraining", "QuicClosed"}   -> 15
      [] s \in {"TimeWait", "Closing"}                    -> 30
      [] s \in {"FinWait1", "FinWait2", "CloseWait", "LastAck",
                "SynSent", "SynReceived", "QuicInitial", "QuicHandshaking"} -> 60
      [] s \in {"Unknown", "QuicUnknown"}                 -> 120
      [] s = "QuicConnected"                              -> 180
      [] OTHER                                            -> 300
=============================================================================
