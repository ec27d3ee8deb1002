----------------------------- MODULE IngestServer -----------------------------
(***************************************************************************)
(* The server's event table (rustnet-server, db/write.rs and               *)
(* db/retention.rs), for the events of one installation (one user_id).     *)
(*                                                                         *)
(* Every access goes through the one writer connection, so a request is    *)
(* folded in atomically; rows are unique by local event id, and a row that *)
(* is there already is left alone.                                         *)
(***************************************************************************)
EXTENDS Integers, FiniteSets

CONSTANTS
    ServerRetention,    \* retention_days of the server's cleanup task
    PartitionThreshold  \* PARTITION_THRESHOLD_BYTES, in rows

ASSUME ServerAssumption ==
    ServerRetention \in Nat /\ PartitionThreshold \in Nat \ {0}

VARIABLES
    stored,             \* server_events: rows [id, event]
    received,           \* history: every row ever inserted
    file_size           \* of the database file, in rows; deletes do not shrink it

server == <<stored, received, file_size>>

-----------------------------------------------------------------------------
(* The rows of a request ON CONFLICT DO NOTHING lets in.                   *)
NewRows(request) == {r \in request : \A s \in stored : s.id # r.id}

(* ingest_write: one transaction for the whole request.                    *)
IngestWrite(request) ==
    /\ stored' = stored \cup NewRows(request)
    /\ received' = received \cup NewRows(request)
    /\ file_size' = IF Cardinality(stored') > file_size
                    THEN Cardinality(stored') ELSE file_size

(***************************************************************************)
(* The two text forms of a time: ingest stores the client's milliseconds   *)
(* in the TEXT column, the purge compares with an RFC 3339 date.  As text, *)
(* milliseconds (which start with a 1) sort before every date of our era.  *)
(***************************************************************************)
Millis(day) == [form |-> "millis", day |-> day]

Rfc3339(day) == [form |-> "rfc3339", day |-> day]

SortsBefore(a, b) ==
    IF a.form = b.form THEN a.day < b.day ELSE a.form = "millis"

(* partitioning_active: the size of the file alone decides.                *)
PartitioningActive == file_size >= PartitionThreshold

(* purge_events_rows at the given day.                                     *)
PurgeRows(now) ==
    stored' = {r \in stored :
                 ~SortsBefore(Millis(r.event.day), Rfc3339(now - ServerRetention))}

(* purge_events_partitioned drops tables of whole months; ingest writes to *)
(* server_events whatever the size, and there is no such table.            *)
DropPartitions == UNCHANGED stored

(* purge_expired                                                           *)
PurgeExpired(now) ==
    /\ IF PartitioningActive THEN DropPartitions ELSE PurgeRows(now)
    /\ UNCHANGED <<received, file_size>>

ServerInit ==
    /\ stored = {}
    /\ received = {}
    /\ file_size = 0
=============================================================================
