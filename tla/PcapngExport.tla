---------------------------- MODULE PcapngExport ----------------------------
(***************************************************************************)
(* The annotated packet export of the application (app.rs).                *)
(*                                                                         *)
(* A packet processor folds a packet into the connection table, looks the  *)
(* row up again for its creation time, and offers the packet to a bounded  *)
(* channel.  One export thread writes the packets in arrival order, each   *)
(* with a comment that names its connection's process: it holds a packet   *)
(* back until its row is attributed, for a bounded time and within limits  *)
(* on the packets and bytes held back.                                     *)
(*                                                                         *)
(* The connection table is reduced to what the export reads: which         *)
(* generation owns a tuple (a generation stands for its creation time) and *)
(* whether it is attributed to a process.                                  *)
(***************************************************************************)
EXTENDS Integers, FiniteSets, Sequences

CONSTANTS
    Processors,         \* packet processor threads
    Keys,               \* connection keys
    Sizes,              \* packet lengths in bytes
    QueueLimit,         \* MAX_PCAPNG_QUEUE
    RetryRecords,       \* MAX_PCAPNG_RETRY_RECORDS
    RetryBytes,         \* MAX_PCAPNG_RETRY_BYTES
    AttributionWait,    \* PCAPNG_ATTRIBUTION_WAIT, in ticks
    MaxPackets,         \* bound: packets ever taken
    MaxGenerations,     \* bound: connection generations ever created
    NoKey, NoRecord

ASSUME ExportAssumption ==
    /\ Sizes \subseteq Nat /\ NoKey \notin Keys
    /\ {QueueLimit, RetryRecords} \subseteq Nat \ {0}
    /\ {RetryBytes, AttributionWait, MaxPackets, MaxGenerations} \subseteq Nat

None == 0               \* no generation, no comment

VARIABLES
    owner,              \* the generation that holds each key, or None
    attributed,         \* keys whose row has a process
    generations,        \* generations created so far
    pc, hand,           \* each processor's step and the record it is making
    taken,              \* packets taken off the capture channel
    tx,                 \* the export channel
    queued,             \* records ever queued; the n-th one is number n
    ex_pc,              \* the export thread
    pending,            \* records held back
    pending_bytes,
    draining,           \* the export thread has left its main loop
    written, failed,    \* numbers of the records written, and not writable
    line,               \* the packet block written last
    stopping,           \* should_stop
    exited              \* the process has ended

connections == <<owner, attributed, generations>>
processor == <<pc, hand, taken>>
channel == <<tx, queued>>
output == <<written, failed, line>>
exporter == <<ex_pc, pending, pending_bytes, draining, output>>
threads == <<connections, processor, channel, exporter, stopping>>
vars == <<threads, exited>>

(* A record; `belongs` is the generation its packet was folded into.       *)
Records == [n : Nat, key : Keys \cup {NoKey}, size : Sizes, belongs : Nat, gen : Nat, wait : Nat]

(* A packet in the hands of a processor.                                   *)
Packets == [key : Keys \cup {NoKey}, size : Sizes, belongs : Nat, gen : Nat]

Lines == [belongs : Nat, gen : Nat, comment : Nat]

-----------------------------------------------------------------------------
(* The connection table, as the export sees it                             *)

(* Enrichment finds the process of a row.                                  *)
Attribute(k) ==
    /\ owner[k] # None /\ k \notin attributed
    /\ attributed' = attributed \cup {k}
    /\ UNCHANGED <<owner, generations, processor, channel, exporter, stopping>>

(* Cleanup archives a row.                                                 *)
Archive(k) ==
    /\ owner[k] # None
    /\ owner' = [owner EXCEPT ![k] = None]
    /\ attributed' = attributed \ {k}
    /\ UNCHANGED <<generations, processor, channel, exporter, stopping>>

-----------------------------------------------------------------------------
(* A packet processor                                                      *)

(* It looks at should_stop between batches, so packets may follow a stop.  *)
TakesPacket(w) ==
    /\ pc[w] = "recv"
    /\ taken < MaxPackets
    /\ taken' = taken + 1
    /\ pc' = [pc EXCEPT ![w] = "lookup"]

Holds(w, k, size, g) ==
    hand' = [hand EXCEPT ![w] = [key |-> k, size |-> size, belongs |-> g, gen |-> None]]

(* The packet is folded into the row of its key, or opens a generation of  *)
(* its own: the key was free, or its row is split.                         *)
Ingest(w) ==
    /\ TakesPacket(w)
    /\ \E k \in Keys, size \in Sizes :
         \/ /\ owner[k] # None
            /\ Holds(w, k, size, owner[k])
            /\ UNCHANGED connections
         \/ /\ generations < MaxGenerations
            /\ Holds(w, k, size, generations + 1)
            /\ generations' = generations + 1
            /\ owner' = [owner EXCEPT ![k] = generations + 1]
            /\ attributed' = attributed \ {k}
    /\ UNCHANGED <<channel, exporter, stopping>>

(* Not parsed, dropped at the limit, ignored as late, or the step panicked.*)
IngestKeyless(w) ==
    /\ TakesPacket(w)
    /\ \E size \in Sizes : Holds(w, NoKey, size, None)
    /\ UNCHANGED <<connections, channel, exporter, stopping>>

(* conn_created_at: the creation time of the row under the key by now.     *)
LookUp(w) ==
    /\ pc[w] = "lookup"
    /\ hand' = [hand EXCEPT ![w].gen = IF hand[w].key = NoKey THEN None ELSE owner[hand[w].key]]
    /\ pc' = [pc EXCEPT ![w] = "send"]
    /\ UNCHANGED <<connections, taken, channel, exporter, stopping>>

(* The record of a packet; a keyless one does not wait.                    *)
PcapngRecord(packet) ==
    [n |-> queued + 1, key |-> packet.key, size |-> packet.size,
     belongs |-> packet.belongs, gen |-> packet.gen,
     wait |-> IF packet.key = NoKey THEN 0 ELSE AttributionWait]

(* Mutant of ChannelTakes: one record more than the channel holds.         *)
ChannelTakesOneMore == ex_pc # "done" /\ Len(tx) <= QueueLimit

(* The channel has room, and its receiver has not gone.                    *)
ChannelTakes == ex_pc # "done" /\ Len(tx) < QueueLimit

(* send_pcapng_record: never waits; a full or closed channel loses it.     *)
Send(w) ==
    /\ pc[w] = "send"
    /\ IF ChannelTakes
       THEN /\ tx' = Append(tx, PcapngRecord(hand[w]))
            /\ queued' = queued + 1
       ELSE UNCHANGED channel
    /\ pc' = [pc EXCEPT ![w] = "recv"]
    /\ hand' = [hand EXCEPT ![w] = NoRecord]
    /\ UNCHANGED <<connections, taken, exporter, stopping>>

(* The processor returns: it is told to stop, or the capture is lost.      *)
Exit(w) ==
    /\ pc[w] = "recv"
    /\ pc' = [pc EXCEPT ![w] = "exit"]
    /\ UNCHANGED <<connections, hand, taken, channel, exporter, stopping>>

Stop ==
    /\ ~stopping
    /\ stopping' = TRUE
    /\ UNCHANGED <<connections, processor, channel, exporter>>

(* main returns some time after App::stop.  No thread is joined: what the  *)
(* export thread still holds goes with the process.                        *)
ProcessExits ==
    /\ stopping /\ ~exited
    /\ exited' = TRUE
    /\ UNCHANGED threads

-----------------------------------------------------------------------------
(* The export thread                                                       *)

(* Mutant of SameConnection: the tuple alone decides.                      *)
SameTuple(r) == r.key # NoKey /\ owner[r.key] # None

(* The row under the record's key is the one it was queued under.          *)
SameConnection(r) == r.key # NoKey /\ owner[r.key] # None /\ r.gen = owner[r.key]

(* pcapng_comment has something to say.                                    *)
Attributed(r) == SameConnection(r) /\ r.key \in attributed

(* The comments a record may get; an unattributed row may have other       *)
(* metadata worth one.                                                     *)
Comments(r) ==
    IF Attributed(r) THEN {owner[r.key]}
    ELSE IF SameConnection(r) THEN {owner[r.key], None}
    ELSE {None}

(* Mutant of Ready: the deadline is not looked at.                         *)
ReadyNoDeadline(r) == r.key = NoKey \/ Attributed(r) \/ ex_pc = "force"

Ready(r) == r.key = NoKey \/ Attributed(r) \/ r.wait = 0 \/ ex_pc = "force"

FrontReady == pending # <<>> /\ Ready(Head(pending))

(* write_pcapng_record succeeds.                                           *)
Writes(r) ==
    /\ written' = written \cup {r.n}
    /\ \E c \in Comments(r) :
         line' = [belongs |-> r.belongs, gen |-> r.gen, comment |-> c]
    /\ UNCHANGED failed

(* Mutant of WritePacket: a packet that cannot be written is put back.     *)
WritePacketRequeued(r) ==
    \/ /\ Writes(r)
       /\ pending' = Tail(pending)
       /\ pending_bytes' = pending_bytes - r.size
    \/ /\ Len(pending) > 1
       /\ pending' = Append(Tail(pending), r)
       /\ UNCHANGED <<pending_bytes, output>>

(* The front of the retry queue leaves it; a failed write is counted and   *)
(* not repeated.                                                           *)
WritePacket(r) ==
    /\ \/ Writes(r)
       \/ /\ failed' = failed \cup {r.n}
          /\ UNCHANGED <<written, line>>
    /\ pending' = Tail(pending)
    /\ pending_bytes' = pending_bytes - r.size

(* The writer is set up once the link type is known, or cannot be.         *)
Open ==
    /\ ex_pc = "open"
    /\ ex_pc' \in {"recv", "done"}
    /\ UNCHANGED <<connections, processor, channel, stopping,
                   pending, pending_bytes, draining, output>>

(* Mutant of Receive: a record that is ready need not queue.               *)
ReceiveReadyFirst ==
    /\ ex_pc = "recv"
    /\ tx # <<>>
    /\ tx' = Tail(tx)
    /\ pending' = IF Ready(Head(tx)) THEN <<Head(tx)>> \o pending ELSE Append(pending, Head(tx))
    /\ pending_bytes' = pending_bytes + Head(tx).size
    /\ ex_pc' = "flush"
    /\ UNCHANGED <<connections, processor, queued, draining, output, stopping>>

(* A record from the channel: always queued behind the ones held back.     *)
Receive ==
    /\ ex_pc = "recv"
    /\ tx # <<>>
    /\ tx' = Tail(tx)
    /\ pending' = Append(pending, Head(tx))
    /\ pending_bytes' = pending_bytes + Head(tx).size
    /\ ex_pc' = "flush"
    /\ UNCHANGED <<connections, processor, queued, draining, output, stopping>>

(* Every 50 ms of the main loop the front is looked at again.              *)
RetryScan ==
    /\ ex_pc = "recv" /\ ~draining
    /\ FrontReady
    /\ ex_pc' = "flush"
    /\ UNCHANGED <<connections, processor, channel, stopping,
                   pending, pending_bytes, draining, output>>

(* flush_ready_pcapng_records, one record per step.                        *)
FlushFront ==
    /\ ex_pc \in {"flush", "force"}
    /\ FrontReady
    /\ WritePacket(Head(pending))
    /\ UNCHANGED <<connections, processor, channel, ex_pc, draining, stopping>>

FlushEnds ==
    /\ ex_pc = "flush"
    /\ ~FrontReady
    /\ ex_pc' = "enforce"
    /\ UNCHANGED <<connections, processor, channel, stopping,
                   pending, pending_bytes, draining, output>>

(* Mutant of OverLimits: bytes are not counted.                            *)
OverRecordLimit == Len(pending) > RetryRecords

OverLimits == Len(pending) > RetryRecords \/ pending_bytes > RetryBytes

(* enforce_pcapng_retry_limits, one record per step.                       *)
EnforceLimits ==
    /\ ex_pc = "enforce"
    /\ IF OverLimits /\ pending # <<>>
       THEN WritePacket(Head(pending)) /\ UNCHANGED ex_pc
       ELSE ex_pc' = "recv" /\ UNCHANGED <<pending, pending_bytes, output>>
    /\ UNCHANGED <<connections, processor, channel, draining, stopping>>

SendersGone == \A w \in Processors : pc[w] = "exit"

(* Mutant of LoopOver: the stop flag is not looked at.                     *)
LoopOverSendersGone == SendersGone

LoopOver == stopping \/ SendersGone

(* The main loop ends when told to stop, or all senders have gone, with    *)
(* the channel empty; what still arrives is drained.                       *)
LeaveLoop ==
    /\ ex_pc = "recv" /\ ~draining
    /\ tx = <<>>
    /\ LoopOver
    /\ draining' = TRUE
    /\ UNCHANGED <<connections, processor, channel, stopping,
                   ex_pc, pending, pending_bytes, output>>

(* try_recv finds the channel empty: the rest is written unconditionally.  *)
DrainEnds ==
    /\ ex_pc = "recv" /\ draining
    /\ tx = <<>>
    /\ ex_pc' = "force"
    /\ UNCHANGED <<connections, processor, channel, stopping,
                   pending, pending_bytes, draining, output>>

(* The thread returns, and the channel goes with it.                       *)
Finish ==
    /\ ex_pc = "force"
    /\ pending = <<>>
    /\ ex_pc' = "done"
    /\ UNCHANGED <<connections, processor, channel, stopping,
                   pending, pending_bytes, draining, output>>

-----------------------------------------------------------------------------
Aged(r) == [r EXCEPT !.wait = IF @ = 0 THEN 0 ELSE @ - 1]

Waiting(s) == \E i \in DOMAIN s : s[i].wait > 0

(* A tick of the time that deadlines are measured in.                      *)
Tick ==
    /\ Waiting(tx) \/ Waiting(pending)
    /\ tx' = [i \in DOMAIN tx |-> Aged(tx[i])]
    /\ pending' = [i \in DOMAIN pending |-> Aged(pending[i])]
    /\ UNCHANGED <<connections, processor, queued, stopping,
                   ex_pc, pending_bytes, draining, output>>

Init ==
    /\ owner = [k \in Keys |-> None]
    /\ attributed = {}
    /\ generations = 0
    /\ pc = [w \in Processors |-> "recv"]
    /\ hand = [w \in Processors |-> NoRecord]
    /\ taken = 0
    /\ tx = <<>>
    /\ queued = 0
    /\ ex_pc = "open"
    /\ pending = <<>>
    /\ pending_bytes = 0
    /\ draining = FALSE
    /\ written = {} /\ failed = {}
    /\ line = [belongs |-> None, gen |-> None, comment |-> None]
    /\ stopping = FALSE /\ exited = FALSE

Export ==
    \/ Open \/ Receive \/ RetryScan \/ FlushFront \/ FlushEnds \/ EnforceLimits
    \/ LeaveLoop \/ DrainEnds \/ Finish

Step ==
    \/ \E w \in Processors :
         Ingest(w) \/ IngestKeyless(w) \/ LookUp(w) \/ Send(w) \/ Exit(w)
    \/ \E k \in Keys : Attribute(k) \/ Archive(k)
    \/ Export
    \/ Stop
    \/ Tick

(* Nothing moves after the process has ended.                              *)
Living(A) == ~exited /\ A /\ UNCHANGED exited

Next == Living(Step) \/ ProcessExits

Spec == Init /\ [][Next]_vars

(* The export thread runs and time passes, as long as the process lives.   *)
FairSpec == Spec /\ WF_vars(Living(Export)) /\ WF_vars(Living(Tick))

-----------------------------------------------------------------------------
(* Properties                                                              *)

Out == written \cup failed

(* The size of a queue, record by record from its end.                     *)
BytesOf(s) ==
    LET end == Len(s) + 1
        from[i \in 1..end] == IF i = end THEN 0 ELSE s[i].size + from[i + 1]
    IN  from[1]

(* Every variable has its type.                                            *)
TypeOK ==
    /\ owner \in [Keys -> Nat]
    /\ attributed \subseteq {k \in Keys : owner[k] # None}
    /\ generations \in Nat /\ taken \in Nat /\ queued \in Nat
    /\ pc \in [Processors -> {"recv", "lookup", "send", "exit"}]
    /\ hand \in [Processors -> Packets \cup {NoRecord}]
    /\ tx \in Seq(Records) /\ Len(tx) <= QueueLimit
    /\ pending \in Seq(Records) /\ pending_bytes \in Nat
    /\ ex_pc \in {"open", "recv", "flush", "enforce", "force", "done"}
    /\ {draining, stopping, exited} \subseteq BOOLEAN
    /\ written \subseteq Nat /\ failed \subseteq Nat /\ line \in Lines

(***************************************************************************)
(* Records leave in arrival order, and none is skipped: what is written or *)
(* failed is a prefix of what was queued, and what is held back and what   *)
(* is in the channel follow in order, whichever of deadlines, attribution, *)
(* limits and the stop path lets them go.                                  *)
(***************************************************************************)
ArrivalOrder ==
    LET out     == Cardinality(Out)
        waiting == pending \o tx
    IN  /\ Out = 1..out /\ written \cap failed = {}
        /\ \A i \in DOMAIN waiting : waiting[i].n = out + i
        /\ queued = out + Len(waiting)

(***************************************************************************)
(* The memory of held-back packets is bounded: the byte count is exact,    *)
(* and between two records both limits hold.                               *)
(***************************************************************************)
RetryBounded ==
    /\ pending_bytes = BytesOf(pending)
    /\ ex_pc = "recv" => Len(pending) <= RetryRecords /\ BytesOf(pending) <= RetryBytes

(***************************************************************************)
(* A comment never comes from a generation that took the tuple over after  *)
(* the packet was queued, however long it was held back.                   *)
(***************************************************************************)
CommentFromQueueTime ==
    line.comment # None => line.comment = line.gen

(* A record as the queue sees it: time passing does not change it.         *)
Unwaiting(r) ==
    [n |-> r.n, key |-> r.key, size |-> r.size, belongs |-> r.belongs, gen |-> r.gen]

(* The retry queue and behind it the channel.                              *)
Joined(held, sent) ==
    [i \in 1..(Len(held) + Len(sent)) |->
       Unwaiting(IF i <= Len(held) THEN held[i] ELSE sent[i - Len(held)])]

OneQueue == INSTANCE RecordQueue WITH
    Capacity <- RetryRecords + 1 + QueueLimit,
    NoComment <- None,
    waiting <- Joined(pending, tx)

(***************************************************************************)
(* The channel, the retry queue and the thread between them keep the       *)
(* promises of RecordQueue: one bounded queue, in which a packet is never  *)
(* changed, overtaken, dropped or written twice, and from which only the   *)
(* front leaves, under a comment of its own queue time.                    *)
(***************************************************************************)
KeepsRecordQueue == OneQueue!Spec

(***************************************************************************)
(* app.rs, test of the annotation: "A queued record must only be annotated *)
(* with metadata from the exact connection generation it was captured      *)
(* under; a reused tuple's newer generation must not claim it".            *)
(***************************************************************************)
CommentFromOwnConnection ==
    line.comment # None => line.comment = line.belongs

(***************************************************************************)
(* Every queued record is written or reported as failed, attributed or     *)
(* not; only the end of the export thread or of the process may leave      *)
(* records behind.                                                         *)
(***************************************************************************)
RecordsLeave ==
    \A n \in 1..MaxPackets : queued >= n ~> n \in Out \/ ex_pc = "done" \/ exited

(***************************************************************************)
(* Told to stop, the export thread ends with nothing held back, whatever   *)
(* processors still send and however far deadlines are, unless the process *)
(* ends first: nobody waits for the thread.                                *)
(***************************************************************************)
ExportEnds == stopping ~> (ex_pc = "done" /\ pending = <<>>) \/ exited
=============================================================================
