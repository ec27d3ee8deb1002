----------------------------- MODULE RecordQueue -----------------------------
(***************************************************************************)
(* What the packet export promises: one bounded first-in first-out queue.  *)
(*                                                                         *)
(* A packet that finds room is numbered and waits; only the front leaves,  *)
(* unchanged, and it is written or given up.  A written packet's comment   *)
(* is about the connection generation it was queued under, or there is     *)
(* none.  How long packets wait, and what makes them go, is left open.     *)
(***************************************************************************)
EXTENDS Integers, FiniteSets, Sequences

CONSTANTS Capacity, NoComment

VARIABLES waiting, written, failed, line

left == <<written, failed>>
vars == <<waiting, left, line>>

NextNumber == Cardinality(written \cup failed) + Len(waiting) + 1

Put ==
    LET n == Len(waiting) + 1
    IN  /\ n <= Capacity
        /\ Len(waiting') = n
        /\ waiting' = Append(waiting, waiting'[n])
        /\ waiting'[n].n = NextNumber
        /\ UNCHANGED <<left, line>>

FrontLeaves ==
    /\ waiting # <<>>
    /\ waiting' = Tail(waiting)

Write ==
    /\ FrontLeaves
    /\ written' = written \cup {Head(waiting).n}
    /\ \E c \in {NoComment, Head(waiting).gen} :
         line' = [belongs |-> Head(waiting).belongs, gen |-> Head(waiting).gen, comment |-> c]
    /\ UNCHANGED failed

GiveUp ==
    /\ FrontLeaves
    /\ failed' = failed \cup {Head(waiting).n}
    /\ UNCHANGED <<written, line>>

Init ==
    /\ waiting = <<>>
    /\ written = {} /\ failed = {}
    /\ line = [belongs |-> NoComment, gen |-> NoComment, comment |-> NoComment]

Next == Put \/ Write \/ GiveUp

Spec == Init /\ [][Next]_vars
=============================================================================
