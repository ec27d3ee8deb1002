------------------------------ MODULE EventStore ------------------------------
(***************************************************************************)
(* The client's event database (telemetry/db.rs, `SqliteSink`).            *)
(*                                                                         *)
(* Capture threads hand connection events to a bounded channel and never   *)
(* wait; one write thread gathers them into a batch and commits the batch  *)
(* in one transaction, giving each row the next AUTOINCREMENT id.  Every   *)
(* few hours it deletes rows past their retention.                         *)
(*                                                                         *)
(* The database runs in WAL mode with synchronous=NORMAL: a commit is seen *)
(* by every connection and survives the process, but the machine losing    *)
(* power may take back commits made since the log was last synced.         *)
(* `synced` is the image that is sure to survive.                          *)
(*                                                                         *)
(* Events carry the day they were logged: retention compares text dates,   *)
(* where a timestamp of the cutoff's own day sorts after the cutoff.       *)
(***************************************************************************)
EXTENDS Integers, FiniteSets, Sequences

CONSTANTS
    QueueLimit,         \* capacity of the write channel
    BatchLimit,         \* events per transaction
    RetentionDays,      \* RuntimeConfig::retention_days
    MaxEvents,          \* bound: events ever logged
    MaxDays             \* bound: last day

ASSUME StoreAssumption ==
    /\ QueueLimit \in Nat \ {0} /\ BatchLimit \in Nat \ {0}
    /\ RetentionDays \in Nat /\ MaxEvents \in Nat /\ MaxDays \in Nat

VARIABLES
    made,               \* events logged so far; the n-th one is number n
    queue,              \* the channel
    batch,              \* events the write thread has taken off the channel
    rows,               \* connection_events
    last_id,            \* the AUTOINCREMENT high-water mark
    cursor,             \* upload_cursor.last_uploaded_event_id
    synced,             \* the durable image of the last three
    upload_enabled,     \* whether this process was started with a server_url
    today

volatile == <<queue, batch>>
database == <<rows, last_id, cursor>>
store == <<made, volatile, database, synced, upload_enabled, today>>

Events == [n : Nat \ {0}, day : Nat]

Rows == [id : Nat \ {0}, event : Events]

Images == [rows : SUBSET Rows, last_id : Nat, cursor : Nat]

Image == [rows |-> rows, last_id |-> last_id, cursor |-> cursor]

-----------------------------------------------------------------------------
(* accept: try_send; an event that finds the channel full is dropped.      *)
Accept ==
    /\ made < MaxEvents
    /\ made' = made + 1
    /\ queue' = IF Len(queue) < QueueLimit
                THEN Append(queue, [n |-> made + 1, day |-> today]) ELSE queue
    /\ UNCHANGED <<batch, database, synced, upload_enabled, today>>

(* Mutant of TakeEvent: events are put in front of the batch.              *)
TakeEventStacked ==
    /\ queue # <<>>
    /\ Len(batch) < BatchLimit
    /\ queue' = Tail(queue)
    /\ batch' = <<Head(queue)>> \o batch
    /\ UNCHANGED <<made, database, synced, upload_enabled, today>>

(* Mutant of TakeEvent: the size limit of a batch is not looked at.        *)
TakeEventUnlimited ==
    /\ queue # <<>>
    /\ queue' = Tail(queue)
    /\ batch' = Append(batch, Head(queue))
    /\ UNCHANGED <<made, database, synced, upload_enabled, today>>

(* write_loop: one event off the channel.  A full batch is flushed first.  *)
TakeEvent ==
    /\ queue # <<>>
    /\ Len(batch) < BatchLimit
    /\ queue' = Tail(queue)
    /\ batch' = Append(batch, Head(queue))
    /\ UNCHANGED <<made, database, synced, upload_enabled, today>>

(* Mutant of NextIds: INTEGER PRIMARY KEY without AUTOINCREMENT.           *)
NextIdsReused(kept) ==
    LET top == IF rows = {} THEN 0
               ELSE CHOOSE i \in 1..last_id : \A r \in rows : r.id <= i
                                               /\ \E q \in rows : q.id = i
    IN  [i \in kept |-> top + Cardinality({j \in kept : j <= i})]

(* The ids the inserted positions of a batch get.                          *)
NextIds(kept) == [i \in kept |-> last_id + Cardinality({j \in kept : j <= i})]

(***************************************************************************)
(* flush_batch: one transaction.  An insert that fails (a busy database)   *)
(* is logged and skipped, a failed commit loses all of them, and the batch *)
(* is cleared either way: `kept` are the positions that made it.           *)
(***************************************************************************)
FlushBatch ==
    /\ batch # <<>>
    /\ \E kept \in SUBSET DOMAIN batch :
         /\ rows' = rows \cup {[id |-> NextIds(kept)[i], event |-> batch[i]] : i \in kept}
         /\ last_id' = last_id + Cardinality(kept)
    /\ batch' = <<>>
    /\ UNCHANGED <<made, queue, cursor, synced, upload_enabled, today>>

Expired(r) == r.event.day + RetentionDays < today

(* Mutant of Removable: expired rows go whether or not they were uploaded. *)
RemovableByAge(r) == Expired(r)

(* Which rows run_cleanup deletes: with uploads on, only uploaded ones.    *)
Removable(r) == Expired(r) /\ (~upload_enabled \/ r.id <= cursor)

RunCleanup ==
    /\ rows' = {r \in rows : ~Removable(r)}
    /\ UNCHANGED <<made, volatile, last_id, cursor, synced, upload_enabled, today>>

(* The log is synced (a WAL checkpoint, or the system writing it back).    *)
Checkpoint ==
    /\ synced # Image
    /\ synced' = Image
    /\ UNCHANGED <<made, volatile, database, upload_enabled, today>>

(***************************************************************************)
(* The process ends and is started again: what was queued or batched is    *)
(* gone (nothing joins the write thread, so an orderly exit may lose it    *)
(* too), and the new process reads its configuration once.                 *)
(***************************************************************************)
Restore(image) ==
    /\ rows' = image.rows
    /\ last_id' = image.last_id
    /\ cursor' = image.cursor
    /\ queue' = <<>>
    /\ batch' = <<>>
    /\ upload_enabled' \in BOOLEAN
    /\ UNCHANGED <<made, today>>

(* Mutant of AdvanceCursorTo: synchronous=NORMAL on this connection too.   *)
AdvanceCursorUnsynced(id) ==
    /\ cursor' = id
    /\ UNCHANGED <<made, volatile, rows, last_id, synced, upload_enabled, today>>

(* advance_upload_cursor, on a connection with synchronous=FULL: its       *)
(* commit syncs the log, everything committed before it included.          *)
AdvanceCursorTo(id) ==
    /\ cursor' = id
    /\ synced' = [rows |-> rows, last_id |-> last_id, cursor |-> id]
    /\ UNCHANGED <<made, volatile, rows, last_id, upload_enabled, today>>

NextDay ==
    /\ today < MaxDays
    /\ today' = today + 1
    /\ UNCHANGED <<made, volatile, database, synced, upload_enabled>>

StoreInit ==
    /\ made = 0
    /\ queue = <<>>
    /\ batch = <<>>
    /\ rows = {}
    /\ last_id = 0
    /\ cursor = 0
    /\ synced = Image
    /\ upload_enabled \in BOOLEAN
    /\ today = 0

StoreTypeOK ==
    /\ made \in Nat
    /\ queue \in Seq(Events) /\ Len(queue) <= QueueLimit
    /\ batch \in Seq(Events) /\ Len(batch) <= BatchLimit
    /\ rows \subseteq Rows
    /\ last_id \in Nat
    /\ cursor \in Nat
    /\ synced \in Images
    /\ upload_enabled \in BOOLEAN
    /\ today \in Nat
=============================================================================
