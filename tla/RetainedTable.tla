---------------------------- MODULE RetainedTable ----------------------------
(***************************************************************************)
(* What the connection tracker promises the rest of the program: a table   *)
(* of active generations and an archive of retired ones.                   *)
(*                                                                         *)
(* A generation is a flow key with the creation stamp that tells it from   *)
(* earlier and later uses of the same tuple.  Retiring moves generations   *)
(* into the archive in one step, where only the archive limit or a clear   *)
(* removes them; a new generation is never mistaken for an archived one.   *)
(***************************************************************************)
EXTENDS Integers, FiniteSets

CONSTANTS RetainKeys, RetainLimit, Retains

Generations == [key : RetainKeys, at : Nat, ns : Nat]

VARIABLES active, archive

retained == <<active, archive>>

KeysOf(G) == {g.key : g \in G}

(* The archives of at most RetainLimit generations that A may shrink to.   *)
Trimmed(A) ==
    IF Cardinality(A) <= RetainLimit THEN {A}
    ELSE {B \in SUBSET A : Cardinality(B) = RetainLimit}

(* A first packet of a tuple without an active generation.                 *)
Open(g) ==
    /\ g.key \notin KeysOf(active)
    /\ g \notin archive
    /\ active' = active \cup {g}
    /\ UNCHANGED archive

(* Generations time out together, or one makes room for New, its successor.*)
Retire(Old, New) ==
    /\ Old # {} /\ Old \subseteq active
    /\ New = {} \/ (Cardinality(New) = 1 /\ KeysOf(New) = KeysOf(Old))
    /\ active' = (active \ Old) \cup New
    /\ archive' \in IF Retains THEN Trimmed(archive \cup Old) ELSE {archive}
    /\ New \cap (archive \cup Old) = {}

Empty ==
    /\ active' = {}
    /\ archive' = {}

Init ==
    /\ active = {}
    /\ archive = {}

Next ==
    \/ \E g \in active' \ active : Open(g)
    \/ Retire(active \ active', active' \ active)
    \/ Empty

Spec == Init /\ [][Next]_retained
=============================================================================
