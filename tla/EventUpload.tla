----------------------------- MODULE EventUpload -----------------------------
(***************************************************************************)
(* Delivery of connection events from a client to the server: the event    *)
(* database, the upload thread (telemetry/upload.rs) and the ingest server *)
(* with an unreliable exchange between them.                               *)
(*                                                                         *)
(* The upload thread reads the rows past the cursor, posts them, and moves *)
(* the cursor past them once the server has answered.  The request may get *)
(* lost, be refused, or be processed although the client gave up waiting;  *)
(* the answer may get lost; the client process may end at any step, and    *)
(* its machine may lose power.                                             *)
(***************************************************************************)
EXTENDS EventStore, IngestServer

CONSTANTS
    UploadBatch,        \* RuntimeConfig::upload_batch_size
    MaxLate,            \* bound: abandoned requests the server may still process
    MaxRestarts,        \* bound: restarts of the client process
    MaxOutages          \* bound: of these, with the machine losing power

ASSUME UploadAssumption ==
    /\ UploadBatch \in Nat \ {0}
    /\ MaxLate \in Nat /\ MaxRestarts \in Nat /\ MaxOutages \in Nat

VARIABLES
    up_pc,              \* the upload thread: "idle", "posting" or "answered"
    posted,             \* the rows it has posted
    late,               \* abandoned requests on their way to the server
    restarts,
    outages

uploader == <<up_pc, posted, late>>
faults == <<restarts, outages>>
vars == <<store, server, uploader, faults>>

Pending == {r \in rows : r.id > cursor}

(* query_events_for_upload: WHERE id > cursor ORDER BY id LIMIT batch.     *)
UploadRows ==
    {r \in Pending : Cardinality({q \in Pending : q.id <= r.id}) <= UploadBatch}

(* The id of the last row of a non-empty batch.                            *)
LastOf(R) == CHOOSE i \in {r.id : r \in R} : \A r \in R : r.id <= i

-----------------------------------------------------------------------------
(* run_one_batch up to the POST.                                           *)
PostBatch ==
    /\ upload_enabled
    /\ up_pc = "idle"
    /\ Pending # {}
    /\ posted' = UploadRows
    /\ up_pc' = "posting"
    /\ UNCHANGED <<store, server, late, faults>>

(* Mutant of Ingest: a duplicate row fails the whole request.              *)
IngestRejectsDuplicates ==
    /\ up_pc = "posting"
    /\ NewRows(posted) = posted
    /\ IngestWrite(posted)
    /\ up_pc' = "answered"
    /\ UNCHANGED <<store, posted, late, faults>>

(* The server processes the request and answers.                           *)
Ingest ==
    /\ up_pc = "posting"
    /\ IngestWrite(posted)
    /\ up_pc' = "answered"
    /\ UNCHANGED <<store, posted, late, faults>>

(* It processes a request whose sender has given up.                       *)
IngestLate ==
    /\ \E request \in late :
         /\ IngestWrite(request)
         /\ late' = late \ {request}
    /\ UNCHANGED <<store, up_pc, posted, faults>>

(* What may be left on the way when the thread stops waiting.              *)
Abandoned ==
    IF up_pc = "posting" /\ Cardinality(late) < MaxLate
    THEN {late, late \cup {posted}} ELSE {late}

(***************************************************************************)
(* The POST fails (refused, timed out, an unreadable answer) or the cursor *)
(* cannot be written: the thread backs off and reads the batch again.      *)
(***************************************************************************)
PostFails ==
    /\ up_pc # "idle"
    /\ late' \in Abandoned
    /\ up_pc' = "idle"
    /\ posted' = {}
    /\ UNCHANGED <<store, server, faults>>

(* Mutant of AdvanceCursor: it moves once the request is sent.             *)
AdvanceCursorEarly ==
    /\ up_pc # "idle"
    /\ AdvanceCursorTo(LastOf(posted))
    /\ up_pc' = "idle"
    /\ posted' = {}
    /\ UNCHANGED <<server, late, faults>>

(* Mutant of AdvanceCursor: it moves past whatever the database holds.     *)
AdvanceCursorToNewest ==
    /\ up_pc = "answered"
    /\ AdvanceCursorTo(last_id)
    /\ up_pc' = "idle"
    /\ posted' = {}
    /\ UNCHANGED <<server, late, faults>>

AdvanceCursor ==
    /\ up_pc = "answered"
    /\ AdvanceCursorTo(LastOf(posted))
    /\ up_pc' = "idle"
    /\ posted' = {}
    /\ UNCHANGED <<server, late, faults>>

(* The client process ends and is started again.                           *)
Restart ==
    /\ restarts < MaxRestarts
    /\ restarts' = restarts + 1
    /\ Restore(Image)
    /\ late' \in Abandoned
    /\ up_pc' = "idle"
    /\ posted' = {}
    /\ UNCHANGED <<synced, server, outages>>

(* The same, with its machine: unsynced commits are taken back.            *)
PowerLoss ==
    /\ restarts < MaxRestarts
    /\ outages < MaxOutages
    /\ restarts' = restarts + 1
    /\ outages' = outages + 1
    /\ Restore(synced)
    /\ late' \in Abandoned
    /\ up_pc' = "idle"
    /\ posted' = {}
    /\ UNCHANGED <<synced, server>>

(* A step of the event database alone.                                     *)
StoreStep ==
    /\ Accept \/ TakeEvent \/ FlushBatch \/ RunCleanup \/ Checkpoint \/ NextDay
    /\ UNCHANGED <<server, uploader, faults>>

(* The server's daily cleanup task.                                        *)
Purge ==
    /\ PurgeExpired(today)
    /\ UNCHANGED <<store, uploader, faults>>

Init ==
    /\ StoreInit
    /\ ServerInit
    /\ up_pc = "idle"
    /\ posted = {}
    /\ late = {}
    /\ restarts = 0
    /\ outages = 0

Next ==
    \/ StoreStep
    \/ PostBatch
    \/ Ingest
    \/ IngestLate
    \/ PostFails
    \/ AdvanceCursor
    \/ Restart
    \/ PowerLoss
    \/ Purge

Spec == Init /\ [][Next]_vars

(***************************************************************************)
(* Fairness: the threads run (weak); a POST that is tried again and again  *)
(* gets through in the end, and so does the cursor update (strong).        *)
(***************************************************************************)
Fairness ==
    /\ WF_vars(PostBatch)
    /\ SF_vars(Ingest)
    /\ SF_vars(AdvanceCursor)

FairSpec == Spec /\ Fairness

(* The server's cleanup task runs once a period.                           *)
PurgeFairSpec == Spec /\ WF_vars(Purge)

-----------------------------------------------------------------------------
(* Properties                                                              *)

(* Every variable has its type.                                            *)
TypeOK ==
    /\ StoreTypeOK
    /\ stored \subseteq Rows /\ received \subseteq Rows
    /\ file_size \in Nat /\ Cardinality(stored) <= file_size
    /\ up_pc \in {"idle", "posting", "answered"}
    /\ posted \subseteq Rows
    /\ late \subseteq SUBSET Rows
    /\ restarts \in Nat /\ outages \in Nat

(***************************************************************************)
(* The cursor never passes an event the server has not taken, whatever was *)
(* lost, retried, processed late or restarted in between: an event of the  *)
(* database is on the server or will be posted.                            *)
(***************************************************************************)
CursorCovered == \A r \in rows : r.id <= cursor => r \in received

(* The same, as long as no machine has lost power.                         *)
CursorCoveredUnlessOutage == outages = 0 => CursorCovered

(***************************************************************************)
(* A local event id means one event, to the client and to the server, so   *)
(* that the server's duplicate check drops repeated rows only.             *)
(***************************************************************************)
OneEventPerId ==
    outages = 0 => \A r \in rows \cup received, s \in received : r.id = s.id => r = s

(***************************************************************************)
(* New rows get ids past the cursor, also after their predecessors were    *)
(* cleaned up and after a power loss took ids back; otherwise they would   *)
(* never be uploaded.                                                      *)
(***************************************************************************)
NewRowsPending ==
    [][outages' = outages => \A r \in rows' \ rows : r.id > cursor']_vars

(***************************************************************************)
(* Local cleanup gives up no event that is still to be uploaded: while     *)
(* uploads are on, a row leaves the database only after the server took    *)
(* it (a power loss apart).                                                *)
(***************************************************************************)
KeptUntilUploaded ==
    [][upload_enabled /\ outages' = outages
         => \A r \in rows \ rows' : r.id \in {s.id : s \in received}]_vars

(***************************************************************************)
(* The cursor never moves back, not even when a power loss takes commits   *)
(* back: the rows below it are not posted a second time under new ids.     *)
(***************************************************************************)
CursorNeverMovesBack == [][cursor' >= cursor]_vars

(* Ids follow the order in which events were logged.                       *)
IdsInOrder == \A r, s \in rows : r.id < s.id <=> r.event.n < s.event.n

Delivery == INSTANCE Outbox WITH
    outbox <- Pending,
    travelling <- posted \cup UNION late,
    delivered <- received,
    sending <- upload_enabled,
    trusted <- outages = 0

(***************************************************************************)
(* Client, exchange and server keep the promises of Outbox: rows wait in   *)
(* id order and are confirmed in that order, each after the server took    *)
(* it, over every loss, repetition, delay and restart; ids stay fresh to   *)
(* the requests still on their way and to the server.                      *)
(***************************************************************************)
KeepsOutbox == Delivery!Spec

(***************************************************************************)
(* Once the process stays up with uploads on, the server gets every event  *)
(* of the database.                                                        *)
(***************************************************************************)
UploadCatchesUp == <>[]upload_enabled => <>[](Pending = {})

(***************************************************************************)
(* retention.rs: the purge "deletes rows older than `retention_days`" and  *)
(* no others.                                                              *)
(***************************************************************************)
PurgeKeepsRetained ==
    [][\A r \in stored \ stored' : r.event.day < today - ServerRetention]_vars

ExpiredRows == {r \in stored : r.event.day < today - ServerRetention}

(***************************************************************************)
(* purge_expired "deletes rows older than `retention_days` from            *)
(* `server_events`" (retention.rs:3), partitioned or not (retention.rs:32):*)
(* a row that has expired leaves.                                          *)
(***************************************************************************)
ExpiredRowsLeave == ExpiredRows # {} ~> ExpiredRows = {}
=============================================================================
