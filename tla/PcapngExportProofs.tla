-------------------------- MODULE PcapngExportProofs --------------------------
(***************************************************************************)
(* Proofs about PcapngExport, for every number of processors and keys and  *)
(* every limit: records leave in the order they were queued, the retry     *)
(* queue stays within its limits, and no comment comes from a generation   *)
(* that took the tuple over later.                                         *)
(*                                                                         *)
(* The byte counter is what makes the limits hard to prove: it is a sum    *)
(* over the queue, added to at one end and subtracted from at the other.   *)
(* The invariant says that a list of partial sums exists (Weighs), from    *)
(* each record to the end of the queue: taking the front away drops the    *)
(* first of them, and a new record is added to all.                        *)
(***************************************************************************)
EXTENDS PcapngExport, OrderLemmas, SequenceTheorems

InHand == \A w \in Processors : pc[w] \in {"lookup", "send"} => hand[w] \in Packets

(* t[i] are the bytes from the i-th record of s to its end.                *)
PartialSums(s, t) ==
    /\ t \in [1..(Len(s) + 1) -> Nat]
    /\ t[Len(s) + 1] = 0
    /\ \A i \in 1..Len(s) : t[i] = s[i].size + t[i + 1]

(* b is the size of s in bytes.                                            *)
Weighs(s, b) == \E t : PartialSums(s, t) /\ b = t[1]

InLine ==
    LET out == Cardinality(Out)
    IN  /\ out \in Nat /\ Out = 1..out
        /\ written \cap failed = {}
        /\ \A i \in 1..Len(pending) : pending[i].n = out + i
        /\ \A i \in 1..Len(tx) : tx[i].n = out + Len(pending) + i
        /\ queued = out + Len(pending) + Len(tx)

WithinLimits ==
    /\ ex_pc = "open" => pending = <<>>
    /\ ex_pc = "recv" => Len(pending) <= RetryRecords /\ pending_bytes <= RetryBytes
    /\ Len(pending) <= RetryRecords + 1

Typed ==
    /\ owner \in [Keys -> Nat]
    /\ attributed \subseteq {k \in Keys : owner[k] # None}
    /\ generations \in Nat /\ taken \in Nat /\ queued \in Nat
    /\ pc \in [Processors -> {"recv", "lookup", "send", "exit"}]
    /\ hand \in [Processors -> Packets \cup {NoRecord}]
    /\ tx \in Seq(Records) /\ Len(tx) <= QueueLimit
    /\ pending \in Seq(Records) /\ pending_bytes \in Nat
    /\ ex_pc \in {"open", "recv", "flush", "enforce", "force", "done"}
    /\ draining \in BOOLEAN /\ stopping \in BOOLEAN
    /\ written \subseteq Nat /\ failed \subseteq Nat /\ line \in Lines

IInv ==
    /\ Typed /\ InHand
    /\ InLine
    /\ Weighs(pending, pending_bytes) /\ WithinLimits
    /\ CommentFromQueueTime

-----------------------------------------------------------------------------
(* Weights                                                                 *)

(* The limits are natural numbers, and so are all sizes.                   *)
LEMMA Limits ==
    /\ QueueLimit \in Nat /\ RetryRecords \in Nat /\ RetryRecords # 0
    /\ RetryBytes \in Nat /\ AttributionWait \in Nat
    /\ \A r \in Records : r.size \in Nat /\ r.n \in Nat
<1>1. \A x \in Sizes : x \in Nat
  BY ExportAssumption
<1>2. \A r \in Records : r.size \in Sizes /\ r.n \in Nat
  BY DEF Records
<1>3. QED BY <1>1, <1>2, ExportAssumption

LEMMA EmptyWeighs == Weighs(<<>>, 0) /\ \A b : Weighs(<<>>, b) => b = 0
<1> DEFINE t == [i \in 1..1 |-> 0]
<1>1. PartialSums(<<>>, t) /\ t[1] = 0
  BY DEF PartialSums
<1> HIDE DEF t
<1>2. Weighs(<<>>, 0)
  BY <1>1 DEF Weighs
<1>3. \A b : Weighs(<<>>, b) => b = 0
  BY DEF Weighs, PartialSums
<1>4. QED BY <1>2, <1>3

(* A record at the end adds its size.                                      *)
LEMMA AppendWeighs ==
    ASSUME NEW s \in Seq(Records), NEW r \in Records, NEW b, Weighs(s, b)
    PROVE  b \in Nat /\ Weighs(Append(s, r), b + r.size)
<1>1. PICK t : PartialSums(s, t) /\ b = t[1]
  BY DEF Weighs
<1>2. r.size \in Nat /\ Len(s) \in Nat
  BY Limits
<1> DEFINE u == [i \in 1..(Len(s) + 2) |-> IF i = Len(s) + 2 THEN 0 ELSE t[i] + r.size]
<1>3. Len(Append(s, r)) = Len(s) + 1
      /\ \A i \in 1..Len(s) : Append(s, r)[i] = s[i]
      /\ Append(s, r)[Len(s) + 1] = r
  OBVIOUS
<1>4. t \in [1..(Len(s) + 1) -> Nat] /\ t[Len(s) + 1] = 0
      /\ \A i \in 1..Len(s) : t[i] = s[i].size + t[i + 1]
  BY <1>1 DEF PartialSums
<1>5. \A i \in 1..Len(s) : s[i].size \in Nat
  BY Limits
<1>6. u \in [1..(Len(s) + 2) -> Nat] /\ u[Len(s) + 2] = 0 /\ u[1] = b + r.size
  BY <1>1, <1>2, <1>4
<1>7. u[Len(s) + 1] = r.size + u[Len(s) + 2]
  BY <1>2, <1>4
<1>8. ASSUME NEW i \in 1..Len(s)
      PROVE  u[i] = s[i].size + u[i + 1]
  <2>1. i \in Nat /\ i # Len(s) + 2 /\ i + 1 # Len(s) + 2
        /\ i \in 1..(Len(s) + 2) /\ i + 1 \in 1..(Len(s) + 2) /\ i + 1 \in 1..(Len(s) + 1)
    BY <1>2
  <2>2. u[i] = t[i] + r.size /\ u[i + 1] = t[i + 1] + r.size
    BY <2>1
  <2>3. t[i] = s[i].size + t[i + 1] /\ s[i].size \in Nat /\ t[i + 1] \in Nat
    BY <1>4, <1>5, <2>1
  <2> HIDE DEF u
  <2>4. QED BY <1>2, <2>2, <2>3
<1> HIDE DEF u
<1>9. PartialSums(Append(s, r), u)
  BY <1>2, <1>3, <1>6, <1>7, <1>8 DEF PartialSums
<1>10. b \in Nat
  BY <1>1, <1>2, <1>4
<1>11. QED BY <1>6, <1>9, <1>10 DEF Weighs

(* Taking the front away subtracts its size, and never more than there is. *)
LEMMA TailWeighs ==
    ASSUME NEW s \in Seq(Records), s # <<>>, NEW b, Weighs(s, b)
    PROVE  b - Head(s).size \in Nat /\ Weighs(Tail(s), b - Head(s).size)
<1>1. PICK t : PartialSums(s, t) /\ b = t[1]
  BY DEF Weighs
<1>2. /\ Len(s) \in Nat \ {0} /\ Head(s) = s[1] /\ Len(Tail(s)) = Len(s) - 1
      /\ \A i \in 1..Len(Tail(s)) : Tail(s)[i] = s[i + 1]
  OBVIOUS
<1>3. Head(s).size \in Nat
  BY <1>2, Limits
<1>4. t \in [1..(Len(s) + 1) -> Nat] /\ t[Len(s) + 1] = 0
      /\ \A i \in 1..Len(s) : t[i] = s[i].size + t[i + 1]
  BY <1>1 DEF PartialSums
<1>5. t[1] = Head(s).size + t[2] /\ t[2] \in Nat
  BY <1>2, <1>4
<1> DEFINE u == [i \in 1..Len(s) |-> t[i + 1]]
<1>6. u \in [1..Len(s) -> Nat] /\ u[Len(s)] = 0 /\ u[1] = t[2]
  BY <1>2, <1>4
<1>7. \A i \in 1..(Len(s) - 1) : u[i] = s[i + 1].size + u[i + 1]
  BY <1>2, <1>4
<1> HIDE DEF u
<1>8. PartialSums(Tail(s), u)
  BY <1>2, <1>6, <1>7 DEF PartialSums
<1>9. b - Head(s).size = t[2]
  BY <1>1, <1>3, <1>5
<1>10. QED BY <1>5, <1>6, <1>8, <1>9 DEF Weighs

(* Time passing changes no size.                                           *)
LEMMA SameSizesWeigh ==
    ASSUME NEW s \in Seq(Records), NEW z \in Seq(Records), Len(z) = Len(s),
           \A i \in 1..Len(s) : z[i].size = s[i].size,
           NEW b, Weighs(s, b)
    PROVE  Weighs(z, b)
BY DEF Weighs, PartialSums

(* f adds the sizes up from the end, as BytesOf does.                      *)
SizesFrom(s, f) ==
    f = [i \in 1..(Len(s) + 1) |->
           IF i = Len(s) + 1 THEN 0 ELSE s[i].size + f[i + 1]]

LEMMA BytesOfDef == \A s : BytesOf(s) = (CHOOSE f : SizesFrom(s, f))[1]
BY DEF BytesOf, SizesFrom

(* There is one way to add up: the last record at which two sums differ    *)
(* has none after it to make them differ.                                  *)
LEMMA SizesUnique ==
    ASSUME NEW s \in Seq(Records), NEW t, PartialSums(s, t), NEW f, SizesFrom(s, f)
    PROVE  f[1] = t[1]
<1>1. Len(s) \in Nat /\ \A i \in 1..Len(s) : s[i].size \in Nat
  BY Limits
<1>2. t \in [1..(Len(s) + 1) -> Nat] /\ t[Len(s) + 1] = 0
      /\ \A i \in 1..Len(s) : t[i] = s[i].size + t[i + 1]
  BY DEF PartialSums
<1>3. DOMAIN f = 1..(Len(s) + 1) /\ f[Len(s) + 1] = 0
      /\ \A i \in 1..Len(s) : f[i] = s[i].size + f[i + 1]
  BY <1>1 DEF SizesFrom
<1> DEFINE Wrong == {i \in 1..(Len(s) + 1) : f[i] # t[i]}
<1>4. ASSUME Wrong # {} PROVE FALSE
  <2>1. Wrong \in SUBSET Nat /\ Len(s) + 1 \in Nat /\ \A i \in Wrong : i <= Len(s) + 1
    BY <1>1
  <2>2. PICK m \in Wrong : \A i \in Wrong : i <= m
    BY <1>4, <2>1, Largest
  <2>3. m # Len(s) + 1
    BY <1>2, <1>3
  <2>4. m \in 1..Len(s) /\ m + 1 \in 1..(Len(s) + 1)
    BY <1>1, <2>3
  <2>5. f[m + 1] = t[m + 1]
    BY <2>2, <2>4
  <2>6. QED BY <1>2, <1>3, <2>4, <2>5
<1>5. \A i \in 1..(Len(s) + 1) : f[i] = t[i]
  BY <1>4
<1> HIDE DEF Wrong
<1>6. QED BY <1>1, <1>5

(* A queue that weighs b is b bytes long: the partial sums are the ones    *)
(* BytesOf computes.                                                       *)
LEMMA WeighsBytes ==
    ASSUME NEW s \in Seq(Records), NEW b, Weighs(s, b)
    PROVE  b = BytesOf(s)
<1>1. PICK t : PartialSums(s, t) /\ b = t[1]
  BY DEF Weighs
<1>2. SizesFrom(s, t)
  <2>1. t = [i \in 1..(Len(s) + 1) |-> t[i]] /\ Len(s) \in Nat
    BY <1>1 DEF PartialSums
  <2>2. \A i \in 1..(Len(s) + 1) :
          t[i] = IF i = Len(s) + 1 THEN 0 ELSE s[i].size + t[i + 1]
    <3>1. Len(s) \in Nat /\ t[Len(s) + 1] = 0
          /\ \A i \in 1..Len(s) : t[i] = s[i].size + t[i + 1]
      BY <1>1 DEF PartialSums
    <3>2. \A i \in 1..(Len(s) + 1) : i = Len(s) + 1 \/ (i \in 1..Len(s) /\ i # Len(s) + 1)
      BY <3>1
    <3>3. QED BY <3>1, <3>2
  <2>3. QED BY <2>1, <2>2 DEF SizesFrom
<1>3. SizesFrom(s, CHOOSE f : SizesFrom(s, f))
  BY <1>2
<1>4. t[1] = (CHOOSE f : SizesFrom(s, f))[1]
  BY <1>1, <1>3, SizesUnique
<1>5. QED BY <1>1, <1>4, BytesOfDef

-----------------------------------------------------------------------------
LEMMA InitIInv == Init => IInv
<1> SUFFICES ASSUME Init PROVE IInv
  OBVIOUS
<1> USE DEF Init
<1>1. Typed
  <2>1. <<>> \in Seq(Records) /\ Len(<<>>) = 0 /\ 0 <= QueueLimit
    BY Limits
  <2>2. tx \in Seq(Records) /\ Len(tx) <= QueueLimit /\ pending \in Seq(Records)
    BY <2>1
  <2>3. line \in Lines
    BY DEF Lines, None
  <2>4. owner \in [Keys -> Nat] /\ pc \in [Processors -> {"recv", "lookup", "send", "exit"}]
        /\ hand \in [Processors -> Packets \cup {NoRecord}]
    BY DEF None
  <2>5. QED BY <2>2, <2>3, <2>4 DEF Typed
<1>2. InHand /\ CommentFromQueueTime
  BY DEF InHand, CommentFromQueueTime, None
<1>3. InLine
  BY FS_EmptySet DEF InLine, Out
<1>4. Weighs(pending, pending_bytes) /\ WithinLimits
  BY EmptyWeighs, Limits DEF WithinLimits
<1>5. QED BY <1>1, <1>2, <1>3, <1>4 DEF IInv

-----------------------------------------------------------------------------
(* The connection table and the processors                                 *)

LEMMA TableStep ==
    ASSUME IInv, NEW k \in Keys, Attribute(k) \/ Archive(k)
    PROVE  IInv'
<1>1. UNCHANGED <<generations, pc, hand, taken, tx, queued, ex_pc, pending, pending_bytes,
                  draining, written, failed, line, stopping>>
  BY DEF Attribute, Archive, processor, channel, exporter, output
<1>2. Typed'
  <2>1. owner' \in [Keys -> Nat] /\ attributed' \subseteq {x \in Keys : owner'[x] # None}
    BY DEF Attribute, Archive, IInv, Typed, None
  <2>2. QED BY <1>1, <2>1 DEF IInv, Typed
<1>3. InHand' /\ InLine' /\ WithinLimits' /\ CommentFromQueueTime'
  BY <1>1 DEF IInv, InHand, InLine, Out, WithinLimits, CommentFromQueueTime
<1>4. Weighs(pending, pending_bytes)'
  BY <1>1 DEF IInv
<1>5. QED BY <1>2, <1>3, <1>4 DEF IInv

(* Steps that leave the channel and the export thread alone.               *)
LEMMA ProcessorKeeps ==
    ASSUME IInv, Typed', InHand',
           UNCHANGED <<tx, queued, ex_pc, pending, pending_bytes, written, failed, line>>
    PROVE  IInv'
<1>1. InLine' /\ WithinLimits' /\ CommentFromQueueTime'
  BY DEF IInv, InLine, Out, WithinLimits, CommentFromQueueTime
<1>2. Weighs(pending, pending_bytes)'
  BY DEF IInv
<1>3. QED BY <1>1, <1>2 DEF IInv

LEMMA IngestStep ==
    ASSUME IInv, NEW w \in Processors, Ingest(w) \/ IngestKeyless(w)
    PROVE  IInv'
<1>1. /\ pc' = [pc EXCEPT ![w] = "lookup"] /\ taken' = taken + 1
      /\ UNCHANGED <<tx, queued, ex_pc, pending, pending_bytes,
                     draining, written, failed, line, stopping>>
  BY DEF Ingest, IngestKeyless, TakesPacket, channel, exporter, output
<1>2. \E p \in Packets : hand' = [hand EXCEPT ![w] = p]
  <2>1. CASE Ingest(w)
    <3>1. PICK k \in Keys, size \in Sizes, g \in Nat : Holds(w, k, size, g)
      BY <2>1 DEF Ingest, IInv, Typed
    <3>2. [key |-> k, size |-> size, belongs |-> g, gen |-> None] \in Packets
      BY DEF Packets, None
    <3>3. QED BY <3>1, <3>2 DEF Holds
  <2>2. CASE IngestKeyless(w)
    <3>1. PICK size \in Sizes : Holds(w, NoKey, size, None)
      BY <2>2 DEF IngestKeyless
    <3>2. [key |-> NoKey, size |-> size, belongs |-> None, gen |-> None] \in Packets
      BY DEF Packets, None
    <3>3. QED BY <3>1, <3>2 DEF Holds
  <2>3. QED BY <2>1, <2>2
<1>3. /\ owner' \in [Keys -> Nat] /\ generations' \in Nat
      /\ attributed' \subseteq {x \in Keys : owner'[x] # None}
  BY DEF Ingest, IngestKeyless, connections, IInv, Typed, None
<1>4. Typed'
  BY <1>1, <1>2, <1>3 DEF IInv, Typed
<1>5. InHand'
  BY <1>1, <1>2 DEF IInv, InHand, Typed
<1>6. QED BY <1>1, <1>4, <1>5, ProcessorKeeps

LEMMA LookUpStep ==
    ASSUME IInv, NEW w \in Processors, LookUp(w)
    PROVE  IInv'
<1>1. /\ pc' = [pc EXCEPT ![w] = "send"] /\ hand[w] \in Packets
      /\ UNCHANGED <<owner, attributed, generations, taken, tx, queued, ex_pc, pending,
                     pending_bytes, draining, written, failed, line, stopping>>
  BY DEF LookUp, connections, channel, exporter, output, IInv, InHand
<1>2. PICK g \in Nat : hand' = [hand EXCEPT ![w].gen = g]
  BY <1>1 DEF LookUp, None, IInv, Typed, Packets
<1>3. hand' = [hand EXCEPT ![w] = [hand[w] EXCEPT !.gen = g]]
      /\ [hand[w] EXCEPT !.gen = g] \in Packets
  BY <1>1, <1>2 DEF Packets
<1>4. Typed'
  BY <1>1, <1>3 DEF IInv, Typed
<1>5. InHand'
  BY <1>1, <1>3 DEF IInv, InHand, Typed
<1>6. QED BY <1>1, <1>4, <1>5, ProcessorKeeps

LEMMA SendStep ==
    ASSUME IInv, NEW w \in Processors, Send(w)
    PROVE  IInv'
<1> DEFINE r == PcapngRecord(hand[w])
<1>1. /\ pc[w] = "send" /\ pc' = [pc EXCEPT ![w] = "recv"]
      /\ hand' = [hand EXCEPT ![w] = NoRecord]
      /\ UNCHANGED <<owner, attributed, generations, taken, ex_pc, pending,
                     pending_bytes, draining, written, failed, line, stopping>>
  BY DEF Send, connections, exporter, output
<1>2. r \in Records /\ r.n = queued + 1
  <2>1. hand[w] \in Packets /\ queued \in Nat
    BY <1>1 DEF IInv, InHand, Typed
  <2>2. QED BY <2>1, Limits DEF PcapngRecord, Packets, Records
<1> HIDE DEF r
<1>3. \/ UNCHANGED <<tx, queued>>
      \/ tx' = Append(tx, r) /\ queued' = queued + 1 /\ Len(tx) < QueueLimit
  BY DEF Send, ChannelTakes, channel, r
<1>4. tx \in Seq(Records) /\ pending \in Seq(Records) /\ queued \in Nat /\ Len(tx) <= QueueLimit
  BY DEF IInv, Typed
<1>5. Typed'
  <2>1. tx' \in Seq(Records) /\ Len(tx') <= QueueLimit /\ queued' \in Nat
    <3>1. CASE UNCHANGED <<tx, queued>>
      BY <1>4, <3>1
    <3>2. CASE tx' = Append(tx, r) /\ queued' = queued + 1 /\ Len(tx) < QueueLimit
      <4>1. tx' \in Seq(Records) /\ Len(tx') = Len(tx) + 1 /\ Len(tx) \in Nat
        BY <1>2, <1>4, <3>2
      <4>2. QED BY <1>4, <3>2, <4>1, Limits
    <3>3. QED BY <1>3, <3>1, <3>2
  <2>2. QED BY <1>1, <2>1 DEF IInv, Typed
<1>6. InHand'
  BY <1>1 DEF IInv, InHand, Typed
<1>7. InLine'
  <2>1. CASE UNCHANGED <<tx, queued>>
    BY <1>1, <2>1 DEF IInv, InLine, Out
  <2>2. CASE tx' = Append(tx, r) /\ queued' = queued + 1
    <3>1. \A i \in 1..Len(tx') : IF i <= Len(tx) THEN tx'[i] = tx[i] ELSE i = Len(tx) + 1 /\ tx'[i] = r
      BY <1>2, <1>4, <2>2
    <3>2. Len(tx') = Len(tx) + 1 /\ Len(tx) \in Nat /\ Len(pending) \in Nat
      BY <1>2, <1>4, <2>2
    <3>3. Out' = Out
      BY <1>1 DEF Out
    <3>4. QED BY <1>1, <1>2, <1>4, <2>2, <3>1, <3>2, <3>3 DEF IInv, InLine
  <2>3. QED BY <1>3, <2>1, <2>2
<1>8. WithinLimits' /\ CommentFromQueueTime' /\ Weighs(pending, pending_bytes)'
  BY <1>1 DEF IInv, WithinLimits, CommentFromQueueTime
<1>9. QED BY <1>5, <1>6, <1>7, <1>8 DEF IInv

LEMMA ExitStep ==
    ASSUME IInv, \/ Stop
                 \/ \E w \in Processors : Exit(w)
    PROVE  IInv'
<1>1. UNCHANGED <<owner, attributed, generations, hand, taken, tx, queued, ex_pc, pending,
                  pending_bytes, draining, written, failed, line>>
  BY DEF Exit, Stop, connections, processor, channel, exporter, output
<1>2. Typed'
  BY <1>1 DEF Exit, Stop, processor, IInv, Typed
<1>3. InHand'
  BY <1>1 DEF Exit, Stop, processor, IInv, InHand, Typed
<1>4. QED BY <1>1, <1>2, <1>3, ProcessorKeeps

-----------------------------------------------------------------------------
(* The export thread                                                       *)

LEMMA ReceiveStep ==
    ASSUME IInv, Receive
    PROVE  IInv'
<1> DEFINE r == Head(tx)
<1>1. /\ ex_pc = "recv" /\ ex_pc' = "flush" /\ tx # <<>>
      /\ tx' = Tail(tx) /\ pending' = Append(pending, r) /\ pending_bytes' = pending_bytes + r.size
      /\ UNCHANGED <<owner, attributed, generations, pc, hand, taken, queued,
                     draining, written, failed, line, stopping>>
  BY DEF Receive, connections, processor, output
<1>2. tx \in Seq(Records) /\ pending \in Seq(Records) /\ r \in Records
      /\ r = tx[1] /\ Len(tx) \in Nat \ {0} /\ Len(pending) \in Nat /\ r.size \in Nat
      /\ Len(tx) <= QueueLimit
  <2>1. tx \in Seq(Records) /\ pending \in Seq(Records) /\ Len(tx) <= QueueLimit
    BY DEF IInv, Typed
  <2>2. r \in Records /\ r = tx[1] /\ Len(tx) \in Nat \ {0} /\ Len(pending) \in Nat
    BY <1>1, <2>1
  <2>3. QED BY <2>1, <2>2, Limits
<1> HIDE DEF r
<1>3. /\ Len(tx') = Len(tx) - 1 /\ \A i \in 1..Len(tx') : tx'[i] = tx[i + 1]
      /\ Len(pending') = Len(pending) + 1 /\ pending'[Len(pending) + 1] = r
      /\ \A i \in 1..Len(pending) : pending'[i] = pending[i]
      /\ tx' \in Seq(Records) /\ pending' \in Seq(Records)
  BY <1>1, <1>2
<1>4. pending_bytes \in Nat /\ Weighs(pending', pending_bytes')
  BY <1>1, <1>2, AppendWeighs DEF IInv
<1>5. Typed'
  BY <1>1, <1>2, <1>3, <1>4, Limits DEF IInv, Typed
<1>6. InLine'
  <2>1. Out' = Out
    BY <1>1 DEF Out
  <2>2. 1 \in 1..Len(tx) /\ \A i \in 1..Len(tx') : i + 1 \in 1..Len(tx)
    BY <1>2, <1>3
  <2>3. \A i \in 1..Len(pending') : i \in 1..Len(pending) \/ i = Len(pending) + 1
    BY <1>2, <1>3
  <2> DEFINE out == Cardinality(Out)
  <2>4. /\ out \in Nat /\ Out = 1..out /\ written \cap failed = {}
        /\ \A i \in 1..Len(pending) : pending[i].n = out + i
        /\ \A i \in 1..Len(tx) : tx[i].n = out + Len(pending) + i
        /\ queued = out + Len(pending) + Len(tx)
    BY DEF IInv, InLine
  <2> HIDE DEF out
  <2>5. r.n = out + Len(pending) + 1
    BY <1>2, <2>2, <2>4
  <2>6. \A i \in 1..Len(pending') : pending'[i].n = out + i
    <3> SUFFICES ASSUME NEW i \in 1..Len(pending') PROVE pending'[i].n = out + i
      OBVIOUS
    <3>1. CASE i \in 1..Len(pending)
      <4>1. pending'[i] = pending[i] /\ pending[i].n = out + i
        BY <1>3, <2>4, <3>1
      <4>2. QED BY <4>1
    <3>2. CASE i = Len(pending) + 1
      <4>1. pending'[i] = r /\ r.n = out + i
        BY <1>2, <1>3, <2>4, <2>5, <3>2
      <4>2. QED BY <4>1
    <3>3. QED BY <2>3, <3>1, <3>2
  <2>7. \A i \in 1..Len(tx') : tx'[i].n = out + Len(pending') + i
    <3> SUFFICES ASSUME NEW i \in 1..Len(tx') PROVE tx'[i].n = out + Len(pending') + i
      OBVIOUS
    <3>1. i \in Nat /\ i + 1 \in 1..Len(tx) /\ tx'[i] = tx[i + 1]
      BY <1>2, <1>3, <2>2
    <3>2. tx[i + 1].n = out + Len(pending) + (i + 1)
      BY <2>4, <3>1
    <3>3. tx'[i].n = out + Len(pending) + (i + 1)
      BY <3>1, <3>2
    <3>4. QED BY <1>2, <1>3, <2>4, <3>1, <3>3
  <2>8. queued' = out + Len(pending') + Len(tx')
    BY <1>1, <1>2, <1>3, <2>4
  <2>9. QED BY <1>1, <2>1, <2>4, <2>6, <2>7, <2>8 DEF InLine, out
<1>7. WithinLimits'
  BY <1>1, <1>2, <1>3, Limits DEF IInv, WithinLimits
<1>8. InHand' /\ CommentFromQueueTime'
  BY <1>1 DEF IInv, InHand, CommentFromQueueTime
<1>9. QED BY <1>4, <1>5, <1>6, <1>7, <1>8 DEF IInv

(* Only the front record leaves, whether it could be written or not.       *)
LEMMA FrontLeaves ==
    ASSUME IInv, pending # <<>>, WritePacket(Head(pending)),
           UNCHANGED <<owner, attributed, tx, queued>>
    PROVE  /\ InLine' /\ Weighs(pending', pending_bytes') /\ CommentFromQueueTime'
           /\ pending' \in Seq(Records) /\ Len(pending') = Len(pending) - 1 /\ Len(pending) \in Nat
           /\ pending_bytes' \in Nat
           /\ written' \subseteq Nat /\ failed' \subseteq Nat /\ line' \in Lines
<1> DEFINE r == Head(pending)
<1>1. pending \in Seq(Records) /\ r = pending[1] /\ r \in Records /\ Len(pending) \in Nat \ {0}
      /\ Len(tx) \in Nat
  BY DEF IInv, Typed
<1>2. /\ pending' = Tail(pending) /\ pending_bytes' = pending_bytes - r.size
      /\ Out' = Out \cup {r.n}
      /\ written' \subseteq written \cup {r.n} /\ failed' \subseteq failed \cup {r.n}
      /\ ~(r.n \in written' /\ r.n \in failed') \/ r.n \in Out
  BY DEF WritePacket, Writes, Out
<1>3. \/ UNCHANGED line
      \/ \E c \in Comments(r) : line' = [belongs |-> r.belongs, gen |-> r.gen, comment |-> c]
  BY DEF WritePacket, Writes
<1>4. \A c \in Comments(r) : c \in Nat /\ (c # None => c = r.gen)
  <2>1. r.key \in Keys \cup {NoKey} /\ owner \in [Keys -> Nat]
    BY <1>1 DEF Records, IInv, Typed
  <2>2. QED BY <2>1 DEF Comments, Attributed, SameConnection, None
<1> HIDE DEF r
<1>5. /\ pending' \in Seq(Records) /\ Len(pending') = Len(pending) - 1
      /\ \A i \in 1..Len(pending') : pending'[i] = pending[i + 1] /\ i + 1 \in 1..Len(pending)
      /\ 1 \in 1..Len(pending)
  BY <1>1, <1>2
<1>6. pending_bytes' \in Nat /\ Weighs(pending', pending_bytes')
  BY <1>1, <1>2, TailWeighs DEF IInv, r
<1>7. line' \in Lines /\ CommentFromQueueTime'
  <2>1. CASE UNCHANGED line
    BY <2>1 DEF IInv, Typed, CommentFromQueueTime
  <2>2. CASE \E c \in Comments(r) : line' = [belongs |-> r.belongs, gen |-> r.gen, comment |-> c]
    BY <1>1, <1>4, <2>2 DEF Lines, Records, CommentFromQueueTime
  <2>3. QED BY <1>3, <2>1, <2>2
<1>8. InLine'
  <2> DEFINE out == Cardinality(Out)
  <2>1. /\ out \in Nat /\ Out = 1..out /\ written \cap failed = {}
        /\ \A i \in 1..Len(pending) : pending[i].n = out + i
        /\ \A i \in 1..Len(tx) : tx[i].n = out + Len(pending) + i
        /\ queued = out + Len(pending) + Len(tx)
    BY DEF IInv, InLine
  <2> HIDE DEF out
  <2>2. r.n = out + 1 /\ r.n \notin Out
    BY <1>1, <1>5, <2>1
  <2>3. Out' = 1..(out + 1)
    BY <1>2, <2>1, <2>2
  <2>4. Cardinality(Out') = out + 1
    <3>1. Cardinality(1..(out + 1)) = out + 1
      BY <2>1, FS_Interval
    <3>2. QED BY <2>3, <3>1
  <2>5. written' \cap failed' = {}
    BY <1>2, <2>1, <2>2 DEF Out
  <2>6. \A i \in 1..Len(pending') : pending'[i].n = (out + 1) + i
    <3> SUFFICES ASSUME NEW i \in 1..Len(pending') PROVE pending'[i].n = (out + 1) + i
      OBVIOUS
    <3>1. i \in Nat /\ i + 1 \in 1..Len(pending) /\ pending'[i] = pending[i + 1]
      BY <1>1, <1>5
    <3>2. pending[i + 1].n = out + (i + 1)
      BY <2>1, <3>1
    <3>3. pending'[i].n = out + (i + 1)
      BY <3>1, <3>2
    <3>4. QED BY <2>1, <3>1, <3>3
  <2>7. \A i \in 1..Len(tx') : tx'[i].n = (out + 1) + Len(pending') + i
    BY <1>1, <1>5, <2>1
  <2>8. queued' = (out + 1) + Len(pending') + Len(tx')
    BY <1>1, <1>5, <2>1
  <2>9. out + 1 \in Nat
    BY <2>1
  <2>10. QED BY <2>3, <2>4, <2>5, <2>6, <2>7, <2>8, <2>9 DEF InLine
<1>9. written' \subseteq Nat /\ failed' \subseteq Nat
  BY <1>1, <1>2, Limits DEF IInv, Typed
<1>10. QED BY <1>1, <1>5, <1>6, <1>7, <1>8, <1>9

LEMMA WriteStep ==
    ASSUME IInv, FlushFront \/ (EnforceLimits /\ OverLimits /\ pending # <<>>)
    PROVE  IInv'
<1>1. /\ pending # <<>> /\ WritePacket(Head(pending))
      /\ ex_pc \in {"flush", "force", "enforce"}
      /\ UNCHANGED <<owner, attributed, generations, pc, hand, taken, tx, queued,
                     ex_pc, draining, stopping>>
  BY DEF FlushFront, FrontReady, EnforceLimits, connections, processor, channel
<1>2. /\ InLine' /\ Weighs(pending', pending_bytes') /\ CommentFromQueueTime'
      /\ pending' \in Seq(Records) /\ Len(pending') = Len(pending) - 1 /\ Len(pending) \in Nat
      /\ pending_bytes' \in Nat
      /\ written' \subseteq Nat /\ failed' \subseteq Nat /\ line' \in Lines
  BY <1>1, FrontLeaves
<1>3. Typed' /\ InHand'
  BY <1>1, <1>2 DEF IInv, Typed, InHand
<1>4. WithinLimits'
  BY <1>1, <1>2, Limits DEF IInv, WithinLimits
<1>5. QED BY <1>2, <1>3, <1>4 DEF IInv

(* The thread's other steps only move it on.                               *)
LEMMA MoveStep ==
    ASSUME IInv,
           \/ Open \/ RetryScan \/ FlushEnds \/ LeaveLoop \/ DrainEnds \/ Finish
           \/ EnforceLimits /\ ~(OverLimits /\ pending # <<>>)
    PROVE  IInv'
<1>1. UNCHANGED <<owner, attributed, generations, pc, hand, taken, tx, queued, pending,
                  pending_bytes, written, failed, line, stopping>>
  BY DEF Open, RetryScan, FlushEnds, LeaveLoop, DrainEnds, Finish, EnforceLimits,
         connections, processor, channel, output
<1>2. /\ ex_pc' \in {"recv", "flush", "enforce", "force", "done", ex_pc}
      /\ draining' \in BOOLEAN
      /\ ex_pc' = "recv" => ex_pc \in {"open", "recv"} \/ ~OverLimits \/ pending = <<>>
      /\ ex_pc' = "open" => ex_pc = "open"
  BY DEF Open, RetryScan, FlushEnds, LeaveLoop, DrainEnds, Finish, EnforceLimits, IInv, Typed
<1>3. Typed' /\ InHand' /\ InLine' /\ CommentFromQueueTime'
  BY <1>1, <1>2 DEF IInv, Typed, InHand, InLine, Out, CommentFromQueueTime
<1>4. Weighs(pending, pending_bytes)'
  BY <1>1 DEF IInv
<1>5. WithinLimits'
  <2>1. pending = <<>> => Len(pending) = 0 /\ pending_bytes = 0
    BY EmptyWeighs DEF IInv
  <2>2. ~OverLimits => Len(pending) <= RetryRecords /\ pending_bytes <= RetryBytes
    BY Limits DEF OverLimits, IInv, Typed
  <2>3. QED BY <1>1, <1>2, <2>1, <2>2, Limits DEF IInv, WithinLimits
<1>6. QED BY <1>3, <1>4, <1>5 DEF IInv

(* Time changes nothing but the time a record still waits.                 *)
LEMMA AgedKeeps ==
    ASSUME NEW s \in Seq(Records)
    PROVE  LET z == [i \in DOMAIN s |-> Aged(s[i])]
           IN  /\ z \in Seq(Records) /\ Len(z) = Len(s)
               /\ \A i \in 1..Len(s) :
                    /\ z[i].size = s[i].size /\ z[i].n = s[i].n
                    /\ z[i].belongs = s[i].belongs /\ z[i].gen = s[i].gen
<1> DEFINE z == [i \in DOMAIN s |-> Aged(s[i])]
<1>1. \A r \in Records :
        /\ Aged(r) \in Records /\ Aged(r).size = r.size /\ Aged(r).n = r.n
        /\ Aged(r).belongs = r.belongs /\ Aged(r).gen = r.gen
  BY DEF Aged, Records
<1>2. \A i \in 1..Len(s) : s[i] \in Records
  OBVIOUS
<1>3. DOMAIN s = 1..Len(s) /\ Len(s) \in Nat
  OBVIOUS
<1>4. z \in [1..Len(s) -> Records]
  BY <1>1, <1>2, <1>3
<1>5. z \in Seq(Records) /\ Len(z) = Len(s)
  BY <1>3, <1>4
<1>6. QED BY <1>1, <1>2, <1>3, <1>5

LEMMA TickStep ==
    ASSUME IInv, Tick
    PROVE  IInv'
<1>1. /\ tx' = [i \in DOMAIN tx |-> Aged(tx[i])]
      /\ pending' = [i \in DOMAIN pending |-> Aged(pending[i])]
      /\ UNCHANGED <<owner, attributed, generations, pc, hand, taken, queued,
                     ex_pc, pending_bytes, draining, written, failed, line, stopping>>
  BY DEF Tick, connections, processor, output
<1>2. tx \in Seq(Records) /\ pending \in Seq(Records)
  BY DEF IInv, Typed
<1>3. /\ tx' \in Seq(Records) /\ Len(tx') = Len(tx)
      /\ \A i \in 1..Len(tx) : tx'[i].n = tx[i].n
      /\ pending' \in Seq(Records) /\ Len(pending') = Len(pending)
      /\ \A i \in 1..Len(pending) : pending'[i].n = pending[i].n /\ pending'[i].size = pending[i].size
  BY <1>1, <1>2, AgedKeeps
<1>4. Typed' /\ InHand' /\ CommentFromQueueTime'
  BY <1>1, <1>3 DEF IInv, Typed, InHand, CommentFromQueueTime
<1>5. InLine'
  BY <1>1, <1>3 DEF IInv, InLine, Out
<1>6. Weighs(pending', pending_bytes')
  BY <1>1, <1>2, <1>3, SameSizesWeigh DEF IInv
<1>7. WithinLimits'
  <2>1. pending = <<>> => pending' = <<>>
    BY <1>2, <1>3
  <2>2. QED BY <1>1, <1>3, <2>1 DEF IInv, WithinLimits
<1>8. QED BY <1>4, <1>5, <1>6, <1>7 DEF IInv

-----------------------------------------------------------------------------
(* The process ends without a move of its threads, so what holds of their  *)
(* steps holds of all steps.                                               *)
LEMMA WhileLiving == [Next]_vars => [Step]_threads
BY DEF Next, Living, ProcessExits, vars

(* IInv holds in every reachable state of processors and export thread.    *)
THEOREM Inductive == Spec => []IInv
<1>1. Init => IInv
  BY InitIInv
<1>2. IInv /\ [Next]_vars => IInv'
  <2> SUFFICES ASSUME IInv, [Step]_threads
               PROVE  IInv'
    BY WhileLiving
  <2>1. CASE \E w \in Processors :
               Ingest(w) \/ IngestKeyless(w) \/ LookUp(w) \/ Send(w) \/ Exit(w)
    BY <2>1, IngestStep, LookUpStep, SendStep, ExitStep
  <2>2. CASE \E k \in Keys : Attribute(k) \/ Archive(k)
    BY <2>2, TableStep
  <2>3. CASE Export
    BY <2>3, ReceiveStep, WriteStep, MoveStep DEF Export
  <2>4. CASE Stop
    BY <2>4, ExitStep
  <2>5. CASE Tick
    BY <2>5, TickStep
  <2>6. CASE UNCHANGED threads
    <3>1. UNCHANGED <<owner, attributed, generations, pc, hand, taken, tx, queued, ex_pc,
                      pending, pending_bytes, draining, written, failed, line, stopping>>
      BY <2>6 DEF threads, connections, processor, channel, exporter, output
    <3>2. Typed' /\ InHand'
      BY <3>1 DEF IInv, Typed, InHand
    <3>3. QED BY <3>1, <3>2, ProcessorKeeps
  <2>7. QED BY <2>1, <2>2, <2>3, <2>4, <2>5, <2>6 DEF Step
<1>3. QED BY <1>1, <1>2, PTL DEF Spec

(* Every variable has its type: in particular the byte counter of the      *)
(* retry queue never underflows.                                           *)
THEOREM TypeCorrect == Spec => []TypeOK
<1>1. IInv /\ exited \in BOOLEAN => TypeOK
  BY DEF IInv, Typed, TypeOK
<1>2. Spec => [](exited \in BOOLEAN)
  <2>1. Init => exited \in BOOLEAN
    BY DEF Init
  <2>2. exited \in BOOLEAN /\ [Next]_vars => (exited \in BOOLEAN)'
    BY DEF Next, Living, ProcessExits, vars
  <2>3. QED BY <2>1, <2>2, PTL DEF Spec
<1>3. QED BY <1>1, <1>2, Inductive, PTL

(* Records are written or failed in the order they were queued, without a  *)
(* gap: what is left is the rest of the line, in the retry queue and the   *)
(* channel.                                                                *)
THEOREM InArrivalOrder == Spec => []ArrivalOrder
<1>1. IInv => ArrivalOrder
  <2> SUFFICES ASSUME IInv PROVE ArrivalOrder
    OBVIOUS
  <2> DEFINE out == Cardinality(Out)
             waiting == pending \o tx
  <2>1. pending \in Seq(Records) /\ tx \in Seq(Records)
    BY DEF IInv, Typed
  <2>2. /\ DOMAIN waiting = 1..(Len(pending) + Len(tx)) /\ Len(waiting) = Len(pending) + Len(tx)
        /\ Len(pending) \in Nat /\ Len(tx) \in Nat
        /\ \A i \in 1..(Len(pending) + Len(tx)) :
             waiting[i] = IF i <= Len(pending) THEN pending[i] ELSE tx[i - Len(pending)]
    BY <2>1
  <2> HIDE DEF waiting
  <2>3. \A i \in DOMAIN waiting : waiting[i].n = out + i
    <3> SUFFICES ASSUME NEW i \in 1..(Len(pending) + Len(tx))
                 PROVE  waiting[i].n = out + i
      BY <2>2
    <3>1. CASE i <= Len(pending)
      BY <2>2, <3>1 DEF IInv, InLine
    <3>2. CASE ~(i <= Len(pending))
      <4>1. i - Len(pending) \in 1..Len(tx) /\ waiting[i] = tx[i - Len(pending)]
        BY <2>2, <3>2
      <4>2. QED BY <2>2, <4>1 DEF IInv, InLine
    <3>3. QED BY <3>1, <3>2
  <2>4. queued = out + Len(waiting)
    BY <2>2 DEF IInv, InLine
  <2>5. QED BY <2>3, <2>4 DEF ArrivalOrder, IInv, InLine, waiting
<1>2. QED BY <1>1, Inductive, PTL

(* The byte counter is exact, and whenever the thread waits for the next   *)
(* record both limits hold of the packets it holds back.                   *)
THEOREM RetryMemoryBounded == Spec => []RetryBounded
<1>1. IInv => RetryBounded
  <2> SUFFICES ASSUME IInv PROVE RetryBounded
    OBVIOUS
  <2>1. pending_bytes = BytesOf(pending)
    BY WeighsBytes DEF IInv, Typed
  <2>2. QED BY <2>1 DEF RetryBounded, IInv, WithinLimits
<1>2. QED BY <1>1, Inductive, PTL

(* A comment comes from the generation that had the tuple when the packet  *)
(* was queued, or there is none.                                           *)
THEOREM CommentsOfTheirTime == Spec => []CommentFromQueueTime
<1>1. IInv => CommentFromQueueTime
  BY DEF IInv
<1>2. QED BY <1>1, Inductive, PTL

-----------------------------------------------------------------------------
(* The refinement of RecordQueue                                           *)

Unwaited == [n : Nat, key : Keys \cup {NoKey}, size : Sizes, belongs : Nat, gen : Nat]

(* The joined queue holds the retry queue's records, then the channel's.   *)
LEMMA JoinedHolds ==
    ASSUME NEW held \in Seq(Records), NEW sent \in Seq(Records)
    PROVE  /\ Joined(held, sent) \in Seq(Unwaited)
           /\ Len(Joined(held, sent)) = Len(held) + Len(sent)
           /\ Len(held) \in Nat /\ Len(sent) \in Nat
           /\ \A i \in 1..Len(held) : Joined(held, sent)[i] = Unwaiting(held[i])
           /\ \A i \in 1..Len(sent) : Joined(held, sent)[Len(held) + i] = Unwaiting(sent[i])
<1> DEFINE n == Len(held) + Len(sent)
           at(i) == IF i <= Len(held) THEN held[i] ELSE sent[i - Len(held)]
<1>1. Len(held) \in Nat /\ Len(sent) \in Nat /\ n \in Nat
  OBVIOUS
<1>2. \A i \in 1..Len(held) : held[i] \in Records
  OBVIOUS
<1>3. \A i \in 1..Len(sent) : sent[i] \in Records
  OBVIOUS
<1>4. ASSUME NEW i \in 1..n PROVE at(i) \in Records
  <2>1. CASE i <= Len(held)
    <3>1. i \in 1..Len(held)
      BY <1>1, <2>1
    <3>2. QED BY <1>2, <2>1, <3>1
  <2>2. CASE ~(i <= Len(held))
    <3>1. i - Len(held) \in 1..Len(sent)
      BY <1>1, <2>2
    <3>2. QED BY <1>3, <2>2, <3>1
  <2>3. QED BY <2>1, <2>2
<1>5. \A r \in Records : Unwaiting(r) \in Unwaited
  BY DEF Unwaiting, Records, Unwaited
<1>6. Joined(held, sent) = [i \in 1..n |-> Unwaiting(at(i))]
  BY DEF Joined
<1>7. \A i \in 1..Len(held) : i \in 1..n /\ at(i) = held[i]
  BY <1>1
<1>8. \A i \in 1..Len(sent) : Len(held) + i \in 1..n /\ at(Len(held) + i) = sent[i]
  <2> SUFFICES ASSUME NEW i \in 1..Len(sent)
               PROVE  Len(held) + i \in 1..n /\ at(Len(held) + i) = sent[i]
    OBVIOUS
  <2>1. i \in Nat /\ ~(Len(held) + i <= Len(held)) /\ (Len(held) + i) - Len(held) = i
        /\ Len(held) + i \in 1..n
    BY <1>1
  <2>2. QED BY <2>1
<1> HIDE DEF n, at
<1>9. Joined(held, sent) \in [1..n -> Unwaited]
  BY <1>4, <1>5, <1>6
<1>10. Joined(held, sent) \in Seq(Unwaited) /\ Len(Joined(held, sent)) = n
  BY <1>1, <1>9, IsASeq, LenProperties
<1>11. QED BY <1>1, <1>6, <1>7, <1>8, <1>10 DEF n

(* And nothing else does.                                                  *)
LEMMA JoinedIs ==
    ASSUME NEW held \in Seq(Records), NEW sent \in Seq(Records), NEW q \in Seq(Unwaited),
           Len(q) = Len(held) + Len(sent),
           \A i \in 1..Len(held) : q[i] = Unwaiting(held[i]),
           \A i \in 1..Len(sent) : q[Len(held) + i] = Unwaiting(sent[i])
    PROVE  q = Joined(held, sent)
<1> DEFINE j == Joined(held, sent)
<1>1. /\ j \in Seq(Unwaited) /\ Len(j) = Len(held) + Len(sent)
      /\ Len(held) \in Nat /\ Len(sent) \in Nat
      /\ \A i \in 1..Len(held) : j[i] = Unwaiting(held[i])
      /\ \A i \in 1..Len(sent) : j[Len(held) + i] = Unwaiting(sent[i])
  BY JoinedHolds
<1> HIDE DEF j
<1>2. ASSUME NEW i \in 1..Len(q) PROVE q[i] = j[i]
  <2>1. CASE i \in 1..Len(held)
    BY <1>1, <2>1
  <2>2. CASE i \notin 1..Len(held)
    <3>1. i - Len(held) \in 1..Len(sent) /\ Len(held) + (i - Len(held)) = i
      BY <1>1, <2>2
    <3>2. QED BY <1>1, <3>1
  <2>3. QED BY <2>1, <2>2
<1>3. q = j
  BY <1>1, <1>2, SeqEqual
<1>4. QED BY <1>3 DEF j

(* A record sent goes to the end of the queue.                             *)
LEMMA SendJoins ==
    ASSUME NEW held \in Seq(Records), NEW sent \in Seq(Records), NEW r \in Records
    PROVE  Joined(held, Append(sent, r)) = Append(Joined(held, sent), Unwaiting(r))
<1> DEFINE j == Joined(held, sent)
           u == Unwaiting(r)
           more == Append(sent, r)
           q == Append(j, u)
<1>1. /\ j \in Seq(Unwaited) /\ Len(j) = Len(held) + Len(sent)
      /\ Len(held) \in Nat /\ Len(sent) \in Nat
      /\ \A i \in 1..Len(held) : j[i] = Unwaiting(held[i])
      /\ \A i \in 1..Len(sent) : j[Len(held) + i] = Unwaiting(sent[i])
  BY JoinedHolds
<1>2. u \in Unwaited
  BY DEF Unwaiting, Records, Unwaited
<1>3. /\ more \in Seq(Records) /\ Len(more) = Len(sent) + 1
      /\ \A i \in 1..Len(sent) : more[i] = sent[i]
      /\ more[Len(sent) + 1] = r
  OBVIOUS
<1> HIDE DEF j, u, more
<1>4. /\ q \in Seq(Unwaited) /\ Len(q) = Len(j) + 1
      /\ \A i \in 1..Len(j) : q[i] = j[i]
      /\ q[Len(j) + 1] = u
  <2>1. /\ Append(j, u) \in Seq(Unwaited) /\ Len(Append(j, u)) = Len(j) + 1
        /\ \A i \in 1..Len(j) : Append(j, u)[i] = j[i]
        /\ Append(j, u)[Len(j) + 1] = u
    <3> HIDE DEF q
    <3>1. j \in Seq(Unwaited)
      BY <1>1
    <3>2. QED BY <1>2, <3>1, AppendProperties
  <2>2. QED BY <2>1
<1> HIDE DEF q
<1>5. \A i \in 1..Len(held) : q[i] = Unwaiting(held[i])
  BY <1>1, <1>4
<1>6. ASSUME NEW i \in 1..Len(more) PROVE q[Len(held) + i] = Unwaiting(more[i])
  <2>1. CASE i \in 1..Len(sent)
    <3>1. Len(held) + i \in 1..Len(j)
      BY <1>1, <2>1
    <3>2. QED BY <1>1, <1>3, <1>4, <2>1, <3>1
  <2>2. CASE i \notin 1..Len(sent)
    <3>1. i = Len(sent) + 1 /\ Len(held) + i = Len(j) + 1
      <4>1. Len(more) = Len(sent) + 1 /\ Len(sent) \in Nat
        BY <1>1, <1>3
      <4>2. i = Len(sent) + 1
        BY <2>2, <4>1
      <4>3. QED BY <1>1, <4>2
    <3>2. q[Len(held) + i] = u
      BY <1>4, <3>1
    <3>3. more[i] = r
      BY <1>3, <3>1
    <3>4. QED BY <3>2, <3>3 DEF u
  <2>3. QED BY <2>1, <2>2
<1>7. Len(q) = Len(held) + Len(more)
  BY <1>1, <1>3, <1>4
<1>8. q = Joined(held, more)
  BY <1>3, <1>4, <1>5, <1>6, <1>7, JoinedIs
<1>9. QED BY <1>8 DEF q, j, u, more

(* A record received only moves from one part of the queue to the other.   *)
LEMMA ReceiveJoins ==
    ASSUME NEW held \in Seq(Records), NEW sent \in Seq(Records), sent # <<>>
    PROVE  Joined(Append(held, Head(sent)), Tail(sent)) = Joined(held, sent)
<1> DEFINE j == Joined(held, sent)
           more == Append(held, Head(sent))
           less == Tail(sent)
<1>1. /\ j \in Seq(Unwaited) /\ Len(j) = Len(held) + Len(sent)
      /\ Len(held) \in Nat /\ Len(sent) \in Nat \ {0}
      /\ \A i \in 1..Len(held) : j[i] = Unwaiting(held[i])
      /\ \A i \in 1..Len(sent) : j[Len(held) + i] = Unwaiting(sent[i])
  BY JoinedHolds
<1>2. /\ more \in Seq(Records) /\ Len(more) = Len(held) + 1
      /\ \A i \in 1..Len(held) : more[i] = held[i]
      /\ more[Len(held) + 1] = sent[1]
  OBVIOUS
<1>3. less \in Seq(Records) /\ Len(less) = Len(sent) - 1
      /\ \A i \in 1..Len(less) : less[i] = sent[i + 1]
  BY HeadTailProperties
<1> HIDE DEF j, more, less
<1>4. ASSUME NEW i \in 1..Len(more) PROVE j[i] = Unwaiting(more[i])
  <2>1. CASE i \in 1..Len(held)
    BY <1>1, <1>2, <2>1
  <2>2. CASE i \notin 1..Len(held)
    <3>1. i = Len(held) + 1 /\ 1 \in 1..Len(sent)
      BY <1>1, <1>2, <2>2
    <3>2. j[Len(held) + 1] = Unwaiting(sent[1])
      BY <1>1, <3>1
    <3>3. more[i] = sent[1]
      BY <1>2, <3>1
    <3>4. QED BY <3>1, <3>2, <3>3
  <2>3. QED BY <2>1, <2>2
<1>5. ASSUME NEW i \in 1..Len(less) PROVE j[Len(more) + i] = Unwaiting(less[i])
  <2>1. i + 1 \in 1..Len(sent) /\ Len(more) + i = Len(held) + (i + 1)
    BY <1>1, <1>2, <1>3
  <2>2. QED BY <1>1, <1>3, <2>1
<1>6. Len(j) = Len(more) + Len(less)
  BY <1>1, <1>2, <1>3
<1>7. j = Joined(more, less)
  BY <1>1, <1>2, <1>3, <1>4, <1>5, <1>6, JoinedIs
<1>8. QED BY <1>7 DEF j, more, less

(* A record that leaves the retry queue is the front of the whole queue.   *)
LEMMA FrontJoined ==
    ASSUME NEW held \in Seq(Records), NEW sent \in Seq(Records), held # <<>>
    PROVE  /\ Joined(held, sent) # <<>>
           /\ Head(Joined(held, sent)) = Unwaiting(Head(held))
           /\ Joined(Tail(held), sent) = Tail(Joined(held, sent))
<1> DEFINE j == Joined(held, sent)
           less == Tail(held)
           q == Tail(j)
<1>1. /\ j \in Seq(Unwaited) /\ Len(j) = Len(held) + Len(sent)
      /\ Len(held) \in Nat \ {0} /\ Len(sent) \in Nat
      /\ \A i \in 1..Len(held) : j[i] = Unwaiting(held[i])
      /\ \A i \in 1..Len(sent) : j[Len(held) + i] = Unwaiting(sent[i])
  BY JoinedHolds
<1>2. less \in Seq(Records) /\ Len(less) = Len(held) - 1 /\ Head(held) = held[1]
      /\ \A i \in 1..Len(less) : less[i] = held[i + 1]
  BY HeadTailProperties
<1> HIDE DEF j, less
<1>3. j # <<>>
  BY <1>1
<1>4. /\ q \in Seq(Unwaited) /\ Len(q) = Len(j) - 1 /\ Head(j) = j[1]
      /\ \A i \in 1..Len(q) : q[i] = j[i + 1]
  BY <1>1, <1>3, HeadTailProperties
<1> HIDE DEF q
<1>5. Head(j) = Unwaiting(Head(held))
  BY <1>1, <1>2, <1>4
<1>6. ASSUME NEW i \in 1..Len(less) PROVE q[i] = Unwaiting(less[i])
  <2>1. i + 1 \in 1..Len(held) /\ i \in 1..Len(q)
    BY <1>1, <1>2, <1>4
  <2>2. QED BY <1>1, <1>2, <1>4, <2>1
<1>7. ASSUME NEW i \in 1..Len(sent) PROVE q[Len(less) + i] = Unwaiting(sent[i])
  <2>1. Len(less) + i \in 1..Len(q) /\ (Len(less) + i) + 1 = Len(held) + i
    BY <1>1, <1>2, <1>4
  <2>2. QED BY <1>1, <1>4, <2>1
<1>8. Len(q) = Len(less) + Len(sent)
  BY <1>1, <1>2, <1>4
<1>9. q = Joined(less, sent)
  BY <1>2, <1>4, <1>6, <1>7, <1>8, JoinedIs
<1>10. QED BY <1>3, <1>5, <1>9 DEF j, less, q

(* Time passing changes nothing the queue sees.                            *)
LEMMA AgedJoins ==
    ASSUME NEW held \in Seq(Records), NEW sent \in Seq(Records)
    PROVE  Joined([i \in DOMAIN held |-> Aged(held[i])], [i \in DOMAIN sent |-> Aged(sent[i])])
             = Joined(held, sent)
<1> DEFINE j == Joined(held, sent)
           p == [i \in DOMAIN held |-> Aged(held[i])]
           t == [i \in DOMAIN sent |-> Aged(sent[i])]
<1>1. /\ j \in Seq(Unwaited) /\ Len(j) = Len(held) + Len(sent)
      /\ Len(held) \in Nat /\ Len(sent) \in Nat
      /\ \A i \in 1..Len(held) : j[i] = Unwaiting(held[i])
      /\ \A i \in 1..Len(sent) : j[Len(held) + i] = Unwaiting(sent[i])
  BY JoinedHolds
<1>2. p \in Seq(Records) /\ Len(p) = Len(held) /\ t \in Seq(Records) /\ Len(t) = Len(sent)
  BY AgedKeeps
<1>3. \A r \in Records : Unwaiting(Aged(r)) = Unwaiting(r)
  BY DEF Unwaiting, Aged, Records
<1>4. \A i \in 1..Len(held) : held[i] \in Records /\ p[i] = Aged(held[i])
  OBVIOUS
<1>5. \A i \in 1..Len(sent) : sent[i] \in Records /\ t[i] = Aged(sent[i])
  OBVIOUS
<1> HIDE DEF j, p, t
<1>6. /\ \A i \in 1..Len(p) : j[i] = Unwaiting(p[i])
      /\ \A i \in 1..Len(t) : j[Len(p) + i] = Unwaiting(t[i])
  BY <1>1, <1>2, <1>3, <1>4, <1>5
<1>7. j = Joined(p, t)
  BY <1>1, <1>2, <1>6, JoinedIs
<1>8. QED BY <1>7 DEF j, p, t

(* The instance counts as this module does.                                *)
LEMMA SameCardinality == ASSUME NEW S PROVE OneQueue!Cardinality(S) = Cardinality(S)
BY DEF OneQueue!Cardinality, Cardinality

LEMMA PutStep ==
    ASSUME IInv, NEW w \in Processors, Send(w), ChannelTakes
    PROVE  OneQueue!Put
<1> DEFINE r == PcapngRecord(hand[w])
           j == Joined(pending, tx)
           u == Unwaiting(r)
<1>1. /\ tx' = Append(tx, r) /\ Len(tx) < QueueLimit
      /\ UNCHANGED <<pending, written, failed, line>>
  BY DEF Send, ChannelTakes, exporter, output
<1>2. r \in Records /\ r.n = queued + 1
  <2>1. hand[w] \in Packets /\ queued \in Nat
    BY DEF Send, IInv, InHand, Typed
  <2>2. QED BY <2>1, Limits DEF PcapngRecord, Packets, Records
<1> HIDE DEF r
<1>3. pending \in Seq(Records) /\ tx \in Seq(Records)
  BY DEF IInv, Typed
<1>4. /\ j \in Seq(Unwaited) /\ Len(j) = Len(pending) + Len(tx)
      /\ Len(pending) \in Nat /\ Len(tx) \in Nat
  BY <1>3, JoinedHolds
<1>5. u \in Unwaited /\ u.n = r.n
  BY <1>2 DEF Unwaiting, Records, Unwaited
<1>6. Joined(pending, tx)' = Append(j, u)
  <2>1. Joined(pending, Append(tx, r)) = Append(j, u)
    BY <1>2, <1>3, SendJoins
  <2>2. QED BY <1>1, <2>1
<1>7. u.n = Cardinality(written \cup failed) + Len(j) + 1
  BY <1>2, <1>4, <1>5 DEF IInv, InLine, Out
<1>8. Len(j) + 1 <= RetryRecords + 1 + QueueLimit
  BY <1>1, <1>4, Limits DEF IInv, WithinLimits
<1> HIDE DEF j, u
<1>9. /\ Len(Append(j, u)) = Len(j) + 1
      /\ Append(j, u)[Len(j) + 1] = u
  BY <1>4, <1>5, AppendProperties
<1>10. /\ Len(Joined(pending, tx)') = Len(j) + 1
       /\ Joined(pending, tx)'[Len(j) + 1] = u
  BY <1>6, <1>9
<1>11. u.n = OneQueue!NextNumber
  BY <1>7, SameCardinality DEF OneQueue!NextNumber, j
<1>12. QED BY <1>1, <1>6, <1>8, <1>10, <1>11 DEF OneQueue!Put, OneQueue!left, j

(* The front record leaves, for the file or for the count of the lost.     *)
LEMMA LeaveStep ==
    ASSUME IInv, pending # <<>>, WritePacket(Head(pending)), UNCHANGED tx
    PROVE  OneQueue!Write \/ OneQueue!GiveUp
<1> DEFINE r == Head(pending)
           j == Joined(pending, tx)
<1>1. pending \in Seq(Records) /\ tx \in Seq(Records)
  BY DEF IInv, Typed
<1>2. r \in Records
  BY <1>1, HeadTailProperties
<1>3. /\ Head(j).n = r.n /\ Head(j).belongs = r.belongs /\ Head(j).gen = r.gen
      /\ j # <<>>
      /\ Joined(Tail(pending), tx) = Tail(j)
  BY <1>1, FrontJoined DEF Unwaiting
<1>4. Joined(pending, tx)' = Tail(j)
  BY <1>3 DEF WritePacket
<1>5. \A c \in Comments(r) : c \in {None, r.gen}
  BY DEF Comments, Attributed, SameConnection
<1>6. CASE Writes(r)
  <2>1. /\ written' = written \cup {r.n} /\ UNCHANGED failed
        /\ \E c \in {None, r.gen} :
             line' = [belongs |-> r.belongs, gen |-> r.gen, comment |-> c]
    BY <1>5, <1>6 DEF Writes
  <2> HIDE DEF r
  <2>2. OneQueue!Write
    BY <1>3, <1>4, <2>1 DEF OneQueue!Write, OneQueue!FrontLeaves
  <2>3. QED BY <2>2
<1>7. CASE failed' = failed \cup {r.n} /\ UNCHANGED <<written, line>>
  BY <1>3, <1>4, <1>7 DEF OneQueue!GiveUp, OneQueue!FrontLeaves
<1>8. QED BY <1>6, <1>7 DEF WritePacket

LEMMA QueueStep ==
    ASSUME IInv, [Step]_threads
    PROVE  [OneQueue!Next]_(OneQueue!vars)
<1> USE DEF OneQueue!vars, OneQueue!left
<1>1. CASE UNCHANGED <<pending, tx, written, failed, line>>
  BY <1>1
<1>2. ASSUME NEW w \in Processors, Send(w)
      PROVE  [OneQueue!Next]_(OneQueue!vars)
  <2>1. CASE ChannelTakes
    BY <1>2, <2>1, PutStep DEF OneQueue!Next
  <2>2. CASE ~ChannelTakes
    BY <1>1, <1>2, <2>2 DEF Send, channel, exporter, output
  <2>3. QED BY <2>1, <2>2
<1>3. CASE Receive
  <2>1. pending \in Seq(Records) /\ tx \in Seq(Records)
    BY DEF IInv, Typed
  <2>2. /\ tx # <<>> /\ tx' = Tail(tx) /\ pending' = Append(pending, Head(tx))
        /\ UNCHANGED <<written, failed, line>>
    BY <1>3 DEF Receive, output
  <2>3. UNCHANGED Joined(pending, tx)
    BY <2>1, <2>2, ReceiveJoins
  <2>4. QED BY <2>2, <2>3
<1>4. CASE Tick
  <2>1. pending \in Seq(Records) /\ tx \in Seq(Records)
    BY DEF IInv, Typed
  <2>2. /\ tx' = [i \in DOMAIN tx |-> Aged(tx[i])]
        /\ pending' = [i \in DOMAIN pending |-> Aged(pending[i])]
        /\ UNCHANGED <<written, failed, line>>
    BY <1>4 DEF Tick, output
  <2>3. UNCHANGED Joined(pending, tx)
    BY <2>1, <2>2, AgedJoins
  <2>4. QED BY <2>2, <2>3
<1>5. CASE FlushFront \/ (EnforceLimits /\ OverLimits /\ pending # <<>>)
  <2>1. pending # <<>> /\ WritePacket(Head(pending)) /\ UNCHANGED tx
    BY <1>5 DEF FlushFront, FrontReady, EnforceLimits, channel
  <2>2. QED BY <2>1, LeaveStep DEF OneQueue!Next
<1>6. ASSUME \/ Open \/ RetryScan \/ FlushEnds \/ LeaveLoop \/ DrainEnds \/ Finish \/ Stop
             \/ EnforceLimits /\ ~(OverLimits /\ pending # <<>>)
             \/ \E k \in Keys : Attribute(k) \/ Archive(k)
             \/ \E w \in Processors : Ingest(w) \/ IngestKeyless(w) \/ LookUp(w) \/ Exit(w)
             \/ UNCHANGED threads
      PROVE  UNCHANGED <<pending, tx, written, failed, line>>
  BY <1>6 DEF Open, RetryScan, FlushEnds, LeaveLoop, DrainEnds, Finish, Stop, EnforceLimits,
              Attribute, Archive, Ingest, IngestKeyless, LookUp, Exit,
              threads, channel, exporter, output
<1>7. QED BY <1>1, <1>2, <1>3, <1>4, <1>5, <1>6 DEF Step, Export

(* The export implements RecordQueue: the channel, the retry queue and the *)
(* paths on which records leave them are one bounded queue, of which only  *)
(* the front leaves, unchanged.                                            *)
THEOREM ImplementsRecordQueue == Spec => KeepsRecordQueue
<1>1. Init => OneQueue!Init
  BY DEF Init, OneQueue!Init, Joined
<1>2. IInv /\ [Next]_vars => [OneQueue!Next]_(OneQueue!vars)
  BY QueueStep, WhileLiving
<1>3. QED BY <1>1, <1>2, Inductive, PTL DEF Spec, KeepsRecordQueue, OneQueue!Spec

-----------------------------------------------------------------------------
(* One processor                                                           *)

(* The generation a record names is the one its packet was folded into, or *)
(* none, as long as nobody can open another between the two steps.         *)
OwnOrNone(r) == r.gen \in {None, r.belongs}

OwnGeneration ==
    /\ \A i \in 1..Len(tx) : OwnOrNone(tx[i])
    /\ \A i \in 1..Len(pending) : OwnOrNone(pending[i])
    /\ \A w \in Processors :
         /\ pc[w] = "lookup" /\ hand[w].key # NoKey =>
              owner[hand[w].key] \in {None, hand[w].belongs}
         /\ pc[w] = "send" => OwnOrNone(hand[w])
    /\ CommentFromOwnConnection

LEMMA OwnInHand ==
    ASSUME IInv, OwnGeneration, \A v, w \in Processors : v = w,
           NEW w \in Processors, Ingest(w) \/ IngestKeyless(w) \/ LookUp(w)
    PROVE  OwnGeneration'
<1>1. UNCHANGED <<tx, pending, line>>
  BY DEF Ingest, IngestKeyless, LookUp, channel, exporter, output
<1>2. \A v \in Processors : v = w
  OBVIOUS
<1>3. pc \in [Processors -> {"recv", "lookup", "send", "exit"}] /\ owner \in [Keys -> Nat]
      /\ hand \in [Processors -> Packets \cup {NoRecord}]
  BY DEF IInv, Typed
<1>4. /\ pc'[w] = "lookup" /\ hand'[w].key # NoKey =>
           owner'[hand'[w].key] \in {None, hand'[w].belongs}
      /\ pc'[w] = "send" => OwnOrNone(hand'[w])
  <2>1. CASE Ingest(w)
    <3>1. pc'[w] = "lookup"
      BY <1>3, <2>1 DEF Ingest, TakesPacket
    <3>2. PICK k \in Keys, size \in Sizes :
            \/ Holds(w, k, size, owner[k]) /\ UNCHANGED owner
            \/ Holds(w, k, size, generations + 1) /\ owner' = [owner EXCEPT ![k] = generations + 1]
      BY <2>1 DEF Ingest, connections
    <3>3. hand'[w].key = k /\ hand'[w].belongs = owner'[k]
      BY <1>3, <3>2 DEF Holds
    <3>4. QED BY <3>1, <3>3
  <2>2. CASE IngestKeyless(w)
    <3>1. pc'[w] = "lookup"
      BY <1>3, <2>2 DEF IngestKeyless, TakesPacket
    <3>2. hand'[w].key = NoKey
      BY <1>3, <2>2 DEF IngestKeyless, Holds
    <3>3. QED BY <3>1, <3>2
  <2>3. CASE LookUp(w)
    <3>1. pc[w] = "lookup" /\ pc'[w] = "send" /\ hand[w] \in Packets
      BY <1>3, <2>3 DEF LookUp, IInv, InHand
    <3>2. /\ hand'[w].gen = IF hand[w].key = NoKey THEN None ELSE owner[hand[w].key]
          /\ hand'[w].belongs = hand[w].belongs
      BY <1>3, <2>3, <3>1 DEF LookUp, Packets
    <3>3. QED BY <3>1, <3>2 DEF OwnGeneration, OwnOrNone
  <2>4. QED BY <2>1, <2>2, <2>3
<1>5. QED BY <1>1, <1>2, <1>4 DEF OwnGeneration, CommentFromOwnConnection, OwnOrNone

LEMMA OwnSent ==
    ASSUME IInv, OwnGeneration, NEW w \in Processors, Send(w)
    PROVE  OwnGeneration'
<1>1. /\ pc[w] = "send" /\ pc' = [pc EXCEPT ![w] = "recv"]
      /\ hand' = [hand EXCEPT ![w] = NoRecord]
      /\ UNCHANGED <<owner, pending, line>>
      /\ tx' = tx \/ tx' = Append(tx, PcapngRecord(hand[w]))
  BY DEF Send, connections, channel, exporter, output
<1>2. PcapngRecord(hand[w]) \in Records /\ OwnOrNone(PcapngRecord(hand[w]))
  <2>1. hand[w] \in Packets /\ queued \in Nat /\ OwnOrNone(hand[w])
    BY <1>1 DEF IInv, InHand, Typed, OwnGeneration
  <2>2. QED BY <2>1, Limits DEF PcapngRecord, Packets, Records, OwnOrNone
<1>3. \A i \in 1..Len(tx') : OwnOrNone(tx'[i])
  <2>1. tx \in Seq(Records) /\ \A i \in 1..Len(tx) : OwnOrNone(tx[i])
    BY DEF IInv, Typed, OwnGeneration
  <2>2. QED BY <1>1, <1>2, <2>1
<1>4. \A v \in Processors :
        /\ pc'[v] = "lookup" => pc[v] = "lookup" /\ hand'[v] = hand[v]
        /\ pc'[v] = "send" => pc[v] = "send" /\ hand'[v] = hand[v]
  BY <1>1 DEF IInv, Typed
<1>5. QED BY <1>1, <1>3, <1>4 DEF OwnGeneration, CommentFromOwnConnection, OwnOrNone

LEMMA OwnKept ==
    ASSUME IInv, OwnGeneration,
           \/ \E k \in Keys : Attribute(k) \/ Archive(k)
           \/ \E w \in Processors : Exit(w)
           \/ Export \/ Stop \/ Tick \/ UNCHANGED threads
    PROVE  OwnGeneration'
<1>1. tx \in Seq(Records) /\ pending \in Seq(Records)
      /\ (\A i \in 1..Len(tx) : OwnOrNone(tx[i])) /\ (\A i \in 1..Len(pending) : OwnOrNone(pending[i]))
  BY DEF IInv, Typed, OwnGeneration
<1>2. /\ \A i \in 1..Len(tx') : OwnOrNone(tx'[i])
      /\ \A i \in 1..Len(pending') : OwnOrNone(pending'[i])
  <2>1. CASE UNCHANGED <<tx, pending>>
    BY <1>1, <2>1
  <2>2. CASE Receive
    <3>1. tx # <<>> /\ tx' = Tail(tx) /\ pending' = Append(pending, Head(tx))
      BY <2>2 DEF Receive
    <3>2. Head(tx) \in Records /\ OwnOrNone(Head(tx))
      BY <1>1, <3>1
    <3>3. \A i \in 1..Len(tx') : OwnOrNone(tx'[i])
      BY <1>1, <3>1, HeadTailProperties
    <3>4. QED BY <1>1, <3>1, <3>2, <3>3
  <2>3. CASE FlushFront \/ (EnforceLimits /\ OverLimits /\ pending # <<>>)
    <3>1. pending # <<>> /\ pending' = Tail(pending) /\ UNCHANGED tx
      BY <2>3 DEF FlushFront, FrontReady, EnforceLimits, WritePacket, channel
    <3>2. QED BY <1>1, <3>1, HeadTailProperties
  <2>4. CASE Tick
    <3>1. /\ tx' = [i \in DOMAIN tx |-> Aged(tx[i])]
          /\ pending' = [i \in DOMAIN pending |-> Aged(pending[i])]
      BY <2>4 DEF Tick
    <3>2. /\ Len(tx') = Len(tx) /\ Len(pending') = Len(pending)
          /\ \A i \in 1..Len(tx) : tx'[i].belongs = tx[i].belongs /\ tx'[i].gen = tx[i].gen
          /\ \A i \in 1..Len(pending) :
               pending'[i].belongs = pending[i].belongs /\ pending'[i].gen = pending[i].gen
      BY <1>1, <3>1, AgedKeeps
    <3>3. QED BY <1>1, <3>2 DEF OwnOrNone
  <2>5. ASSUME ~Receive, ~Tick, ~(FlushFront \/ (EnforceLimits /\ OverLimits /\ pending # <<>>))
        PROVE  UNCHANGED <<tx, pending>>
    BY <2>5 DEF Export, Open, RetryScan, FlushEnds, LeaveLoop, DrainEnds, Finish, Stop,
                EnforceLimits, Attribute, Archive, Exit, threads, channel, exporter
  <2>6. QED BY <2>1, <2>2, <2>3, <2>4, <2>5
<1>3. \A w \in Processors :
        /\ pc'[w] = "lookup" /\ hand'[w].key # NoKey =>
             owner'[hand'[w].key] \in {None, hand'[w].belongs}
        /\ pc'[w] = "send" => OwnOrNone(hand'[w])
  <2>1. /\ UNCHANGED hand
        /\ \A w \in Processors : pc'[w] \in {"lookup", "send"} => pc'[w] = pc[w]
    BY DEF Export, Open, Receive, RetryScan, FlushFront, FlushEnds, EnforceLimits, LeaveLoop,
           DrainEnds, Finish, Stop, Tick, Attribute, Archive, Exit, threads, processor, IInv, Typed
  <2>2. UNCHANGED owner \/ \E k \in Keys : owner' = [owner EXCEPT ![k] = None]
    BY DEF Export, Open, Receive, RetryScan, FlushFront, FlushEnds, EnforceLimits, LeaveLoop,
           DrainEnds, Finish, Stop, Tick, Attribute, Archive, Exit, threads, connections
  <2>3. \A w \in Processors : pc[w] \in {"lookup", "send"} => hand[w] \in Packets
    BY DEF IInv, InHand
  <2>4. \A k \in Keys : owner'[k] \in {None, owner[k]}
    BY <2>2 DEF IInv, Typed
  <2>5. QED BY <2>1, <2>3, <2>4 DEF OwnGeneration, OwnOrNone, Packets
<1>4. CommentFromOwnConnection'
  <2>1. CASE FlushFront \/ (EnforceLimits /\ OverLimits /\ pending # <<>>)
    <3> DEFINE r == Head(pending)
    <3>1. /\ pending # <<>>
          /\ UNCHANGED line \/ \E c \in Comments(r) : line' = [belongs |-> r.belongs, gen |-> r.gen, comment |-> c]
      BY <2>1 DEF FlushFront, FrontReady, EnforceLimits, WritePacket, Writes
    <3>2. OwnOrNone(r)
      BY <1>1, <3>1
    <3>3. \A c \in Comments(r) : c # None => c = r.belongs
      BY <3>2 DEF Comments, Attributed, SameConnection, OwnOrNone, None
    <3> HIDE DEF r
    <3>4. QED BY <3>1, <3>3 DEF OwnGeneration, CommentFromOwnConnection
  <2>2. CASE ~(FlushFront \/ (EnforceLimits /\ OverLimits /\ pending # <<>>))
    <3>1. UNCHANGED line
      BY <2>2 DEF Export, Open, Receive, RetryScan, FlushEnds, LeaveLoop, DrainEnds, Finish,
                  EnforceLimits, Stop, Tick, Attribute, Archive, Exit, threads, exporter, output
    <3>2. QED BY <3>1 DEF OwnGeneration, CommentFromOwnConnection
  <2>3. QED BY <2>1, <2>2
<1>5. QED BY <1>2, <1>3, <1>4 DEF OwnGeneration

(* With one packet processor a comment is always about the generation the  *)
(* packet was folded into: what the run export_reuse finds takes a second  *)
(* processor, which opens the next generation before the first looks up.   *)
THEOREM OneProcessorOwnComments ==
    ASSUME \A v, w \in Processors : v = w
    PROVE  Spec => []CommentFromOwnConnection
<1>1. Init => OwnGeneration
  BY DEF Init, OwnGeneration, CommentFromOwnConnection
<1>2. IInv /\ OwnGeneration /\ [Next]_vars => OwnGeneration'
  BY OwnInHand, OwnSent, OwnKept, WhileLiving DEF Step
<1>3. OwnGeneration => CommentFromOwnConnection
  BY DEF OwnGeneration
<1>4. QED BY <1>1, <1>2, <1>3, Inductive, PTL DEF Spec
=============================================================================
