-------------------------- MODULE EventUploadProofs --------------------------
(***************************************************************************)
(* Proofs about EventUpload, for every batch size, queue length, retention *)
(* and number of restarts: no event is passed over, given up or sent under *)
(* a second id, whatever the network and the process do.                   *)
(*                                                                         *)
(* The heart is Posting: what the upload thread has posted is, as long as  *)
(* the process lives, a beginning of the rows past the cursor, although    *)
(* the write thread adds rows and the cleanup removes some meanwhile.  The *)
(* durable image always has the cursor of the live one (Durable), which is *)
(* why the cursor survives a power loss that takes rows back.              *)
(***************************************************************************)
EXTENDS EventUpload, OrderLemmas

Finite ==
    /\ IsFiniteSet(posted) /\ IsFiniteSet(stored)
    /\ \A request \in late : IsFiniteSet(request)

Durable ==
    /\ synced.cursor = cursor
    /\ cursor <= last_id /\ cursor <= synced.last_id
    /\ \A r \in rows : r.id <= last_id
    /\ \A r \in synced.rows : r.id <= synced.last_id

(* Rows have ids in the order of their events, each its own.               *)
Ordered(R) ==
    \A r, s \in R : /\ r.id = s.id => r = s
                    /\ r.id < s.id <=> r.event.n < s.event.n

(* Events wait in the order they were logged, all after the rows.          *)
Rising(s) == \A i, j \in 1..Len(s) : i < j => s[i].n < s[j].n

Before(R, s) == \A r \in R, i \in 1..Len(s) : r.event.n < s[i].n

Numbered ==
    /\ \A r \in rows \cup synced.rows : r.event.n <= made
    /\ Before(rows \cup synced.rows, batch)
    /\ Before(rows \cup synced.rows, queue)
    /\ Rising(batch) /\ Rising(queue)
    /\ \A i \in 1..Len(batch), j \in 1..Len(queue) : batch[i].n < queue[j].n
    /\ \A i \in 1..Len(batch) : batch[i].n <= made
    /\ \A i \in 1..Len(queue) : queue[i].n <= made

IdsOf(R) == {r.id : r \in R}

Taken ==
    /\ stored \subseteq received
    /\ \A r \in rows \cup synced.rows : r.id <= cursor => r.id \in IdsOf(received)

Posting ==
    /\ up_pc = "idle" <=> posted = {}
    /\ \A p \in posted : cursor < p.id /\ p.id <= last_id
    /\ \A r \in rows, p \in posted : cursor < r.id /\ r.id <= p.id => r \in posted
    /\ up_pc = "answered" => IdsOf(posted) \subseteq IdsOf(received)

(* Wherever a row may be: in the database, on the way, or with the server. *)
Everywhere == rows \cup posted \cup received \cup (UNION late)

Unique ==
    outages = 0 =>
      /\ \A r \in Everywhere : r.id <= last_id
      /\ \A r, s \in Everywhere : r.id = s.id => r = s

IInv ==
    /\ TypeOK /\ Finite /\ Durable
    /\ Ordered(rows) /\ Ordered(synced.rows)
    /\ Numbered /\ Taken /\ Posting /\ Unique

-----------------------------------------------------------------------------
(* Rows with ids of their own, up to some bound, are finitely many.        *)
LEMMA RowsFinite ==
    ASSUME NEW R \in SUBSET Rows, NEW n \in Nat, \A r \in R : r.id <= n,
           \A r, s \in R : r.id = s.id => r = s
    PROVE  IsFiniteSet(R)
<1> DEFINE f == [r \in R |-> r.id]
<1>1. \A r \in R : r.id \in 1..n
  BY DEF Rows
<1>2. f \in Injection(R, 1..n)
  BY <1>1 DEF Injection, IsInjective
<1>3. QED BY <1>2, FS_Interval, FS_Injection

(* The id the cursor moves to is the largest one posted.                   *)
LEMMA LastOfPosted ==
    ASSUME NEW R \in SUBSET Rows, R # {}, NEW n \in Nat, \A r \in R : r.id <= n
    PROVE  /\ LastOf(R) \in Nat
           /\ \E r \in R : r.id = LastOf(R)
           /\ \A r \in R : r.id <= LastOf(R)
<1> DEFINE S == {r.id : r \in R}
<1>1. S \in SUBSET Nat /\ S # {} /\ \A s \in S : s <= n
  BY DEF Rows
<1>2. \E m \in S : \A s \in S : s <= m
  BY <1>1, Largest
<1>3. \E i \in S : \A r \in R : r.id <= i
  BY <1>2
<1>4. LastOf(R) \in S /\ \A r \in R : r.id <= LastOf(R)
  BY <1>3 DEF LastOf
<1>5. QED BY <1>1, <1>4

-----------------------------------------------------------------------------
(* The rows of the database and of its durable image are finitely many.    *)
LEMMA RowsAreFinite ==
    ASSUME IInv
    PROVE  IsFiniteSet(rows)
<1>1. rows \in SUBSET Rows /\ last_id \in Nat /\ \A r \in rows : r.id <= last_id
  BY DEF IInv, TypeOK, StoreTypeOK, Durable
<1>2. QED BY <1>1, RowsFinite DEF IInv, Ordered

LEMMA InitIInv == Init => IInv
<1> SUFFICES ASSUME Init PROVE IInv
  OBVIOUS
<1> USE DEF Init, StoreInit, ServerInit
<1>1. IsFiniteSet({}) /\ Cardinality({}) = 0
  BY FS_EmptySet
<1>2. TypeOK
  <2>1. Image \in Images
    BY DEF Image, Images
  <2>2. StoreTypeOK
    BY <2>1, StoreAssumption DEF StoreTypeOK
  <2>3. QED BY <1>1, <2>2 DEF TypeOK
<1>3. Finite /\ Durable /\ Taken /\ Posting
  BY <1>1 DEF Finite, Durable, Taken, Posting, Image
<1>4. Ordered(rows) /\ Ordered(synced.rows) /\ Numbered /\ Unique
  BY DEF Ordered, Numbered, Before, Rising, Unique, Everywhere, Image
<1>5. QED BY <1>2, <1>3, <1>4 DEF IInv

-----------------------------------------------------------------------------
(* Steps of the event database                                             *)

(* Everything that waits is an event, and numbers are natural.             *)
LEMMA WaitingTypes ==
    ASSUME IInv
    PROVE  /\ made \in Nat /\ Len(batch) \in Nat /\ Len(queue) \in Nat
           /\ \A i \in 1..Len(batch) : batch[i] \in Events /\ batch[i].n \in Nat
           /\ \A i \in 1..Len(queue) : queue[i] \in Events /\ queue[i].n \in Nat
           /\ \A r \in rows \cup synced.rows : r \in Rows /\ r.event \in Events /\ r.event.n \in Nat
<1>1. made \in Nat /\ batch \in Seq(Events) /\ queue \in Seq(Events)
      /\ rows \subseteq Rows /\ synced.rows \subseteq Rows
  BY DEF IInv, TypeOK, StoreTypeOK, Images
<1>2. \A e \in Events : e.n \in Nat
  BY DEF Events
<1>3. \A r \in Rows : r.event \in Events
  BY DEF Rows
<1>4. QED BY <1>1, <1>2, <1>3

LEMMA AcceptStep ==
    ASSUME IInv, Accept, UNCHANGED <<server, uploader, faults>>
    PROVE  IInv'
<1> DEFINE e == [n |-> made + 1, day |-> today]
<1>1. /\ made' = made + 1
      /\ queue' = IF Len(queue) < QueueLimit THEN Append(queue, e) ELSE queue
      /\ UNCHANGED <<batch, rows, last_id, cursor, synced, upload_enabled, today,
                     server, uploader, faults>>
  BY DEF Accept, database
<1>2. e \in Events /\ e.n = made + 1 /\ made \in Nat /\ queue \in Seq(Events)
  BY DEF IInv, TypeOK, StoreTypeOK, Events
<1> HIDE DEF e
<1>3. /\ queue' \in Seq(Events)
      /\ Len(queue') <= QueueLimit
      /\ \A i \in 1..Len(queue') :
           \/ i \in 1..Len(queue) /\ queue'[i] = queue[i]
           \/ i = Len(queue) + 1 /\ queue'[i].n = made + 1
  BY <1>1, <1>2, StoreAssumption DEF IInv, TypeOK, StoreTypeOK
<1>4. TypeOK'
  BY <1>1, <1>3 DEF IInv, TypeOK, StoreTypeOK, server, uploader, faults
<1>5. Numbered'
  <2>1. Before(rows \cup synced.rows, queue)'
    BY <1>1, <1>3, WaitingTypes DEF IInv, Numbered, Before
  <2>2. Rising(queue)'
    BY <1>1, <1>3, WaitingTypes DEF IInv, Numbered, Rising
  <2>3. \A i \in 1..Len(batch'), j \in 1..Len(queue') : batch'[i].n < queue'[j].n
    BY <1>1, <1>3, WaitingTypes DEF IInv, Numbered
  <2>4. \A i \in 1..Len(queue') : queue'[i].n <= made'
    BY <1>1, <1>3, WaitingTypes DEF IInv, Numbered
  <2>5. \A r \in rows' \cup synced'.rows : r.event.n <= made'
    BY <1>1, WaitingTypes DEF IInv, Numbered
  <2>6. \A i \in 1..Len(batch') : batch'[i].n <= made'
    BY <1>1, WaitingTypes DEF IInv, Numbered
  <2>7. Before(rows \cup synced.rows, batch)' /\ Rising(batch)'
    BY <1>1 DEF IInv, Numbered, Before, Rising
  <2>8. QED BY <2>1, <2>2, <2>3, <2>4, <2>5, <2>6, <2>7 DEF Numbered
<1>6. Finite' /\ Durable' /\ Ordered(rows)' /\ Ordered(synced.rows)' /\ Taken' /\ Posting' /\ Unique'
  BY <1>1 DEF IInv, Finite, Durable, Ordered, Taken, Posting, Unique, Everywhere, IdsOf,
              server, uploader, faults
<1>7. QED BY <1>4, <1>5, <1>6 DEF IInv

LEMMA TakeEventStep ==
    ASSUME IInv, TakeEvent, UNCHANGED <<server, uploader, faults>>
    PROVE  IInv'
<1>1. /\ queue # <<>> /\ Len(batch) < BatchLimit
      /\ queue' = Tail(queue) /\ batch' = Append(batch, Head(queue))
      /\ UNCHANGED <<made, rows, last_id, cursor, synced, upload_enabled, today,
                     server, uploader, faults>>
  BY DEF TakeEvent, database
<1>2. queue \in Seq(Events) /\ batch \in Seq(Events)
      /\ Len(queue) <= QueueLimit /\ QueueLimit \in Nat /\ BatchLimit \in Nat
  BY StoreAssumption DEF IInv, TypeOK, StoreTypeOK
<1>3. /\ queue' \in Seq(Events) /\ Len(queue') <= QueueLimit
      /\ batch' \in Seq(Events) /\ Len(batch') <= BatchLimit
      /\ 1 \in 1..Len(queue)
      /\ \A i \in 1..Len(queue') : queue'[i] = queue[i + 1] /\ i + 1 \in 1..Len(queue) /\ 1 < i + 1
      /\ \A i \in 1..Len(batch') :
           \/ i \in 1..Len(batch) /\ batch'[i] = batch[i]
           \/ i = Len(batch) + 1 /\ batch'[i] = queue[1]
  BY <1>1, <1>2
<1>4. TypeOK'
  BY <1>1, <1>3 DEF IInv, TypeOK, StoreTypeOK, server, uploader, faults
<1>5. Numbered'
  <2>1. Before(rows \cup synced.rows, batch)' /\ Before(rows \cup synced.rows, queue)'
    BY <1>1, <1>3 DEF IInv, Numbered, Before
  <2>2. Rising(batch)'
    BY <1>1, <1>3, WaitingTypes DEF IInv, Numbered, Rising
  <2>3. Rising(queue)'
    BY <1>1, <1>3, WaitingTypes DEF IInv, Numbered, Rising
  <2>4. \A i \in 1..Len(batch'), j \in 1..Len(queue') : batch'[i].n < queue'[j].n
    BY <1>1, <1>3, WaitingTypes DEF IInv, Numbered, Rising
  <2>5. /\ \A i \in 1..Len(batch') : batch'[i].n <= made'
        /\ \A i \in 1..Len(queue') : queue'[i].n <= made'
        /\ \A r \in rows' \cup synced'.rows : r.event.n <= made'
    BY <1>1, <1>3 DEF IInv, Numbered
  <2>6. QED BY <2>1, <2>2, <2>3, <2>4, <2>5 DEF Numbered
<1>6. Finite' /\ Durable' /\ Ordered(rows)' /\ Ordered(synced.rows)' /\ Taken' /\ Posting' /\ Unique'
  BY <1>1 DEF IInv, Finite, Durable, Ordered, Taken, Posting, Unique, Everywhere, IdsOf,
              server, uploader, faults
<1>7. QED BY <1>4, <1>5, <1>6 DEF IInv

(* The ids of a batch are new and rise with the position.                  *)
LEMMA NextIdsRise ==
    ASSUME last_id \in Nat, NEW kept \in SUBSET Nat, IsFiniteSet(kept)
    PROVE  /\ Cardinality(kept) \in Nat
           /\ \A i \in kept :
                /\ NextIds(kept)[i] \in Nat
                /\ last_id < NextIds(kept)[i]
                /\ NextIds(kept)[i] <= last_id + Cardinality(kept)
           /\ \A i, j \in kept : i < j => NextIds(kept)[i] < NextIds(kept)[j]
<1> DEFINE upto(i) == {j \in kept : j <= i}
<1>1. \A i \in kept : NextIds(kept)[i] = last_id + Cardinality(upto(i))
  BY DEF NextIds
<1>2. \A i \in kept : IsFiniteSet(upto(i)) /\ Cardinality(upto(i)) <= Cardinality(kept)
  <2>1. \A i \in kept : upto(i) \in SUBSET kept
    OBVIOUS
  <2>2. QED BY <2>1, FS_Subset
<1>3. \A i \in kept : Cardinality(upto(i)) \in Nat /\ Cardinality(upto(i)) # 0
  <2>1. \A i \in kept : i \in upto(i)
    OBVIOUS
  <2>2. QED BY <1>2, <2>1, FS_CardinalityType, FS_EmptySet
<1>4. ASSUME NEW i \in kept, NEW j \in kept, i < j
      PROVE  Cardinality(upto(i)) < Cardinality(upto(j))
  <2>0. \A k \in kept : k \in Nat
    OBVIOUS
  <2>1. \A k \in kept : k <= i => k <= j
    BY <1>4, <2>0
  <2>2. upto(i) \in SUBSET upto(j) /\ j \in upto(j) /\ j \notin upto(i)
    <3>1. j <= j /\ ~(j <= i)
      BY <1>4, <2>0
    <3>2. QED BY <2>1, <3>1
  <2>3. Cardinality(upto(i)) <= Cardinality(upto(j))
        /\ Cardinality(upto(i)) # Cardinality(upto(j))
    BY <2>2, <1>2, FS_Subset
  <2>4. QED BY <1>3, <2>3
<1>5. Cardinality(kept) \in Nat
  BY FS_CardinalityType
<1> HIDE DEF upto
<1>6. QED BY <1>1, <1>2, <1>3, <1>4, <1>5

(* The rows of a committed batch follow those of the database.             *)
LEMMA NewRowsFollow ==
    ASSUME IInv, NEW kept \in SUBSET DOMAIN batch
    PROVE  LET new == {[id |-> NextIds(kept)[i], event |-> batch[i]] : i \in kept}
           IN  /\ Cardinality(kept) \in Nat
               /\ new \subseteq Rows
               /\ \A r \in new : last_id < r.id /\ r.id <= last_id + Cardinality(kept)
               /\ \A r \in new : \E i \in 1..Len(batch) : r.event.n = batch[i].n
               /\ Ordered(new)
<1> DEFINE row(i) == [id |-> NextIds(kept)[i], event |-> batch[i]]
           new    == {row(i) : i \in kept}
<1>1. last_id \in Nat /\ kept \subseteq 1..Len(batch) /\ Len(batch) \in Nat
  BY DEF IInv, TypeOK, StoreTypeOK
<1>2. kept \in SUBSET Nat /\ IsFiniteSet(kept)
  <2>1. IsFiniteSet(1..Len(batch))
    BY <1>1, FS_Interval
  <2>2. QED BY <1>1, <2>1, FS_Subset
<1>3. \A i \in kept : batch[i] \in Events /\ batch[i].n \in Nat
  BY <1>1, WaitingTypes
<1>4. \A i \in kept : /\ row(i) \in Rows
                      /\ last_id < row(i).id /\ row(i).id <= last_id + Cardinality(kept)
                      /\ row(i).event.n = batch[i].n
  BY <1>1, <1>2, <1>3, NextIdsRise DEF Rows
<1>5. \A i, j \in kept : i < j => row(i).id < row(j).id /\ row(i).event.n < row(j).event.n
  BY <1>1, <1>2, NextIdsRise DEF IInv, Numbered, Rising
<1>6. \A i \in kept : row(i).id \in Nat /\ row(i).event.n \in Nat /\ i \in Nat
  BY <1>2, <1>3, <1>4 DEF Rows
<1> HIDE DEF row
<1>7. Ordered(new)
  <2> SUFFICES ASSUME NEW i \in kept, NEW j \in kept
               PROVE  /\ row(i).id = row(j).id => row(i) = row(j)
                      /\ row(i).id < row(j).id <=> row(i).event.n < row(j).event.n
    BY DEF Ordered
  <2>1. i = j \/ i < j \/ j < i
    BY <1>6
  <2>2. QED BY <1>5, <1>6, <2>1
<1>8. QED BY <1>1, <1>2, <1>4, <1>7, NextIdsRise DEF row

LEMMA FlushBatchStep ==
    ASSUME IInv, FlushBatch, UNCHANGED <<server, uploader, faults>>
    PROVE  IInv'
<1>1. PICK kept \in SUBSET DOMAIN batch :
        /\ rows' = rows \cup {[id |-> NextIds(kept)[i], event |-> batch[i]] : i \in kept}
        /\ last_id' = last_id + Cardinality(kept)
  BY DEF FlushBatch
<1> DEFINE new == {[id |-> NextIds(kept)[i], event |-> batch[i]] : i \in kept}
<1>2. /\ batch' = <<>>
      /\ UNCHANGED <<made, queue, cursor, synced, upload_enabled, today,
                     stored, received, file_size, up_pc, posted, late, restarts, outages>>
  BY DEF FlushBatch, server, uploader, faults
<1>3. /\ Cardinality(kept) \in Nat
      /\ new \subseteq Rows
      /\ \A r \in new : last_id < r.id /\ r.id <= last_id'
      /\ \A r \in new : \E i \in 1..Len(batch) : r.event.n = batch[i].n
      /\ Ordered(new)
  BY <1>1, NewRowsFollow
<1>4. rows' = rows \cup new
  BY <1>1
<1> HIDE DEF new
<1>5. /\ last_id \in Nat /\ cursor \in Nat /\ last_id <= last_id'
      /\ \A r \in Rows : r.id \in Nat /\ r.event.n \in Nat
      /\ rows \subseteq Rows /\ posted \subseteq Rows /\ Everywhere \subseteq Rows
      /\ synced \in Images
  <2>1. last_id \in Nat /\ cursor \in Nat /\ synced \in Images
    BY DEF IInv, TypeOK, StoreTypeOK
  <2>2. \A r \in Rows : r.id \in Nat /\ r.event.n \in Nat
    BY DEF Rows, Events
  <2>3. rows \subseteq Rows /\ posted \subseteq Rows /\ received \subseteq Rows
        /\ late \subseteq SUBSET Rows
    BY DEF IInv, TypeOK, StoreTypeOK
  <2>4. QED BY <1>1, <1>3, <2>1, <2>2, <2>3 DEF Everywhere
<1>6. TypeOK'
  <2>1. last_id' \in Nat
    BY <1>1, <1>3, <1>5
  <2>2. StoreTypeOK'
    BY <1>2, <1>3, <1>4, <1>5, <2>1, StoreAssumption DEF IInv, TypeOK, StoreTypeOK
  <2>3. QED BY <1>2, <2>2 DEF IInv, TypeOK
<1>7. Finite'
  BY <1>2 DEF IInv, Finite
<1>8. Durable'
  <2>1. synced.cursor \in Nat /\ synced.last_id \in Nat
    BY <1>5 DEF Images
  <2>2. QED BY <1>2, <1>3, <1>4, <1>5, <1>6, <2>1 DEF IInv, Durable, TypeOK, StoreTypeOK
<1>9. \A r \in rows, s \in new : r.id < s.id /\ r.event.n < s.event.n
  <2>1. \A r \in rows, i \in 1..Len(batch) : r.event.n < batch[i].n
    BY DEF IInv, Numbered, Before
  <2>2. \A r \in rows : r.id <= last_id
    BY DEF IInv, Durable
  <2>3. QED BY <1>3, <1>5, <2>1, <2>2
<1>10. Ordered(rows)' /\ Ordered(synced.rows)'
  <2>1. Ordered(rows) /\ Ordered(synced.rows)
    BY DEF IInv
  <2>2. QED BY <1>2, <1>3, <1>4, <1>5, <1>9, <2>1 DEF Ordered
<1>11. Numbered'
  <2>1. \A r \in new : r.event.n <= made /\ \A j \in 1..Len(queue) : r.event.n < queue[j].n
    BY <1>3 DEF IInv, Numbered
  <2>2. QED BY <1>2, <1>4, <2>1 DEF IInv, Numbered, Before, Rising
<1>12. \A r \in new : cursor < r.id
  BY <1>3, <1>5 DEF IInv, Durable
<1>13. Taken'
  BY <1>2, <1>4, <1>5, <1>3, <1>12 DEF IInv, Taken, IdsOf
<1>14. Posting'
  <2>1. \A r \in new, p \in posted : p.id < r.id
    BY <1>3, <1>5 DEF IInv, Posting
  <2>2. \A p \in posted : p.id <= last_id'
    <3>1. \A p \in posted : p.id <= last_id /\ p.id \in Nat
      BY <1>5 DEF IInv, Posting
    <3>2. last_id \in Nat /\ last_id' \in Nat /\ last_id <= last_id'
      BY <1>5, <1>6 DEF IInv, TypeOK, StoreTypeOK
    <3>3. QED BY <3>1, <3>2
  <2>3. ASSUME NEW r \in new, NEW p \in posted PROVE ~(r.id <= p.id)
    <3>1. r.id \in Nat /\ p.id \in Nat
      BY <1>3, <1>5
    <3>2. QED BY <2>1, <3>1
  <2>4. \A r \in rows', p \in posted' : cursor' < r.id /\ r.id <= p.id => r \in posted'
    BY <1>2, <1>4, <2>3 DEF IInv, Posting
  <2>5. (up_pc = "answered" => IdsOf(posted) \subseteq IdsOf(received))'
    BY <1>2 DEF IInv, Posting, IdsOf
  <2>6. QED BY <1>2, <2>2, <2>4, <2>5 DEF IInv, Posting
<1>15. Unique'
  <2> SUFFICES ASSUME outages = 0
               PROVE  /\ \A r \in Everywhere' : r.id <= last_id'
                      /\ \A r, s \in Everywhere' : r.id = s.id => r = s
    BY <1>2 DEF Unique
  <2>1. Everywhere' = Everywhere \cup new
    BY <1>2, <1>4 DEF Everywhere
  <2>2. \A r \in Everywhere : r.id <= last_id
    BY DEF IInv, Unique
  <2>3. \A r \in Everywhere' : r.id <= last_id'
    BY <1>3, <1>5, <1>6, <2>1, <2>2 DEF TypeOK, StoreTypeOK
  <2>4. \A r \in Everywhere, s \in new : r.id < s.id
    BY <1>3, <1>5, <2>2
  <2>5. \A r, s \in Everywhere' : r.id = s.id => r = s
    BY <1>3, <1>5, <2>1, <2>4 DEF IInv, Unique, Ordered
  <2>6. QED BY <2>3, <2>5
<1>16. QED BY <1>6, <1>7, <1>8, <1>10, <1>11, <1>13, <1>14, <1>15 DEF IInv

(* Steps of the database that add no rows and move no id: the cleanup, a   *)
(* sync of the log, the date.                                              *)
LEMMA OtherStoreSteps ==
    ASSUME IInv, RunCleanup \/ Checkpoint \/ NextDay, UNCHANGED <<server, uploader, faults>>
    PROVE  IInv'
<1>1. /\ rows' \subseteq rows
      /\ synced' = synced \/ (synced' = Image /\ rows' = rows)
      /\ UNCHANGED <<made, queue, batch, last_id, cursor, upload_enabled,
                     stored, received, file_size, up_pc, posted, late, restarts, outages>>
  BY DEF RunCleanup, Checkpoint, NextDay, volatile, database, server, uploader, faults, Image
<1>2. TypeOK'
  <2>1. today' \in Nat
    BY DEF RunCleanup, Checkpoint, NextDay, volatile, database, IInv, TypeOK, StoreTypeOK
  <2>2. synced' \in Images
    BY <1>1 DEF IInv, TypeOK, StoreTypeOK, Images, Image
  <2>3. QED BY <1>1, <2>1, <2>2 DEF IInv, TypeOK, StoreTypeOK
<1>3. synced'.rows \subseteq rows \cup synced.rows /\ synced'.cursor = cursor
      /\ cursor <= synced'.last_id /\ (\A r \in synced'.rows : r.id <= synced'.last_id)
      /\ Ordered(synced'.rows)
  BY <1>1 DEF Image, IInv, Durable
<1>4. Finite' /\ Durable' /\ Ordered(rows)' /\ Ordered(synced.rows)' /\ Taken'
  BY <1>1, <1>3 DEF IInv, Finite, Durable, Ordered, Taken
<1>5. Numbered' /\ Posting' /\ Unique'
  BY <1>1, <1>3 DEF IInv, Numbered, Before, Rising, Posting, Unique, Everywhere
<1>6. QED BY <1>2, <1>4, <1>5 DEF IInv

-----------------------------------------------------------------------------
(* Steps of the upload thread and the server                               *)

(* The rows of a post are the first ones past the cursor.                  *)
LEMMA UploadRowsFirst ==
    ASSUME IInv, Pending # {}
    PROVE  /\ UploadRows # {} /\ UploadRows \subseteq Pending /\ IsFiniteSet(UploadRows)
           /\ \A r \in Pending, p \in UploadRows : r.id <= p.id => r \in UploadRows
<1> DEFINE upto(r) == {q \in Pending : q.id <= r.id}
<1>1. IsFiniteSet(Pending)
  BY RowsAreFinite, FS_Subset DEF Pending
<1>2. \A r \in Pending : r \in rows /\ r.id \in Nat
  BY DEF Pending, IInv, TypeOK, StoreTypeOK, Rows
<1>3. UploadRows = {r \in Pending : Cardinality(upto(r)) <= UploadBatch}
  BY DEF UploadRows
<1>4. \A r \in Pending : upto(r) \in SUBSET Pending /\ IsFiniteSet(upto(r))
                           /\ Cardinality(upto(r)) \in Nat
  BY <1>1, FS_Subset, FS_CardinalityType
<1>5. UploadRows # {}
  <2> DEFINE S == {r.id : r \in Pending}
  <2>1. S \in SUBSET Nat /\ S # {}
    BY <1>2
  <2>2. PICK m \in S : \A s \in S : m <= s
    BY <2>1, Smallest
  <2>3. PICK first \in Pending : first.id = m
    OBVIOUS
  <2>4. \A q \in Pending : q.id <= first.id => q.id = first.id
    BY <1>2, <2>2, <2>3
  <2>5. \A q \in Pending : q.id = first.id => q = first
    BY <1>2 DEF IInv, Ordered
  <2>6. first.id <= first.id
    BY <1>2
  <2>7. upto(first) = {first}
    BY <2>4, <2>5, <2>6
  <2>8. Cardinality(upto(first)) = 1
    BY <2>7, FS_Singleton
  <2>9. QED BY <1>3, <2>8, UploadAssumption
<1>6. ASSUME NEW r \in Pending, NEW p \in UploadRows, r.id <= p.id
      PROVE  r \in UploadRows
  <2>1. p \in Pending /\ Cardinality(upto(p)) <= UploadBatch
    BY <1>3
  <2>2. \A q \in Pending : q.id <= r.id => q.id <= p.id
    BY <1>2, <1>6, <2>1
  <2>3. upto(r) \in SUBSET upto(p)
    BY <2>2
  <2>4. Cardinality(upto(r)) <= Cardinality(upto(p))
    BY <1>4, <2>1, <2>3, FS_Subset
  <2> HIDE DEF upto
  <2>5. Cardinality(upto(r)) <= UploadBatch
    BY <1>4, <2>1, <2>4, UploadAssumption
  <2>6. QED BY <1>3, <2>5
<1> HIDE DEF upto
<1>7. QED BY <1>1, <1>3, <1>5, <1>6, FS_Subset

LEMMA PostBatchStep ==
    ASSUME IInv, PostBatch
    PROVE  IInv'
<1>1. /\ up_pc = "idle" /\ Pending # {}
      /\ posted' = UploadRows /\ up_pc' = "posting"
      /\ UNCHANGED <<made, queue, batch, rows, last_id, cursor, synced, upload_enabled, today,
                     stored, received, file_size, late, restarts, outages>>
  BY DEF PostBatch, store, volatile, database, server, faults
<1>2. /\ posted' # {} /\ posted' \subseteq rows /\ IsFiniteSet(posted')
      /\ \A p \in posted' : cursor < p.id
      /\ \A r \in rows, p \in posted' : cursor < r.id /\ r.id <= p.id => r \in posted'
  <2>1. \A r \in rows : r.id > cursor <=> cursor < r.id
    BY DEF IInv, TypeOK, StoreTypeOK, Rows
  <2>2. QED BY <1>1, <2>1, UploadRowsFirst DEF Pending
<1>3. TypeOK'
  BY <1>1, <1>2 DEF IInv, TypeOK, StoreTypeOK
<1>4. Finite' /\ Durable' /\ Ordered(rows)' /\ Ordered(synced.rows)' /\ Numbered' /\ Taken'
  BY <1>1, <1>2 DEF IInv, Finite, Durable, Ordered, Numbered, Before, Rising, Taken
<1>5. Posting'
  BY <1>1, <1>2 DEF IInv, Posting, Durable
<1>6. Unique'
  BY <1>1, <1>2 DEF IInv, Unique, Everywhere
<1>7. QED BY <1>3, <1>4, <1>5, <1>6 DEF IInv

(* After a request is written the server knows each of its ids, and has    *)
(* taken no row that was not in it.                                        *)
LEMMA Written ==
    ASSUME IInv, NEW request \in SUBSET Rows, IsFiniteSet(request), IngestWrite(request)
    PROVE  /\ stored' \subseteq received' /\ IsFiniteSet(stored')
           /\ received \subseteq received' /\ received' \subseteq received \cup request
           /\ IdsOf(request) \subseteq IdsOf(received')
           /\ stored' \subseteq Rows /\ received' \subseteq Rows
           /\ file_size' \in Nat /\ Cardinality(stored') <= file_size'
<1>1. NewRows(request) \in SUBSET request /\ IsFiniteSet(NewRows(request))
  <2>1. NewRows(request) \in SUBSET request
    BY DEF NewRows
  <2>2. QED BY <2>1, FS_Subset
<1>2. IsFiniteSet(stored')
  BY <1>1, FS_Union DEF IngestWrite, IInv, Finite
<1>3. \A r \in request : r \in received' \/ \E s \in stored : s.id = r.id
  BY DEF NewRows, IngestWrite
<1>4. stored \subseteq received /\ stored \subseteq Rows /\ received \subseteq Rows
      /\ file_size \in Nat
  BY DEF IInv, Taken, TypeOK
<1>5. /\ stored' \subseteq received' /\ received \subseteq received'
      /\ received' \subseteq received \cup request
      /\ stored' \subseteq Rows /\ received' \subseteq Rows
  BY <1>1, <1>4 DEF IngestWrite
<1>6. IdsOf(request) \subseteq IdsOf(received')
  BY <1>3, <1>4, <1>5 DEF IdsOf
<1>7. file_size' \in Nat /\ Cardinality(stored') <= file_size'
  <2>1. Cardinality(stored') \in Nat
    BY <1>2, FS_CardinalityType
  <2>2. QED BY <1>4, <2>1 DEF IngestWrite
<1>8. QED BY <1>2, <1>5, <1>6, <1>7

LEMMA IngestStep ==
    ASSUME IInv, Ingest
    PROVE  IInv'
<1>1. /\ up_pc = "posting" /\ IngestWrite(posted) /\ up_pc' = "answered"
      /\ UNCHANGED <<made, queue, batch, rows, last_id, cursor, synced, upload_enabled, today,
                     posted, late, restarts, outages>>
  BY DEF Ingest, store, volatile, database, faults
<1>2. posted \in SUBSET Rows /\ IsFiniteSet(posted)
  BY DEF IInv, TypeOK, Finite
<1>3. /\ stored' \subseteq received' /\ IsFiniteSet(stored')
      /\ received \subseteq received' /\ received' \subseteq received \cup posted
      /\ IdsOf(posted) \subseteq IdsOf(received')
      /\ stored' \subseteq Rows /\ received' \subseteq Rows
      /\ file_size' \in Nat /\ Cardinality(stored') <= file_size'
  BY <1>1, <1>2, Written
<1>4. TypeOK'
  BY <1>1, <1>3 DEF IInv, TypeOK, StoreTypeOK
<1>5. Finite' /\ Durable' /\ Ordered(rows)' /\ Ordered(synced.rows)' /\ Numbered'
  BY <1>1, <1>3 DEF IInv, Finite, Durable, Ordered, Numbered, Before, Rising
<1>6. Taken'
  BY <1>1, <1>3 DEF IInv, Taken, IdsOf
<1>7. Posting'
  BY <1>1, <1>3 DEF IInv, Posting, IdsOf
<1>8. Unique'
  BY <1>1, <1>3 DEF IInv, Unique, Everywhere
<1>9. QED BY <1>4, <1>5, <1>6, <1>7, <1>8 DEF IInv

LEMMA IngestLateStep ==
    ASSUME IInv, IngestLate
    PROVE  IInv'
<1>1. PICK request \in late : IngestWrite(request) /\ late' = late \ {request}
  BY DEF IngestLate
<1>2. UNCHANGED <<made, queue, batch, rows, last_id, cursor, synced, upload_enabled, today,
                  up_pc, posted, restarts, outages>>
  BY DEF IngestLate, store, volatile, database, faults
<1>3. request \in SUBSET Rows /\ IsFiniteSet(request)
  BY DEF IInv, TypeOK, Finite
<1>4. /\ stored' \subseteq received' /\ IsFiniteSet(stored')
      /\ received \subseteq received' /\ received' \subseteq received \cup request
      /\ stored' \subseteq Rows /\ received' \subseteq Rows
      /\ file_size' \in Nat /\ Cardinality(stored') <= file_size'
  BY <1>1, <1>3, Written
<1>5. TypeOK'
  BY <1>1, <1>2, <1>4 DEF IInv, TypeOK, StoreTypeOK
<1>6. Finite' /\ Durable' /\ Ordered(rows)' /\ Ordered(synced.rows)' /\ Numbered'
  BY <1>1, <1>2, <1>4 DEF IInv, Finite, Durable, Ordered, Numbered, Before, Rising
<1>7. Taken'
  BY <1>2, <1>4 DEF IInv, Taken, IdsOf
<1>8. Posting'
  BY <1>2, <1>4 DEF IInv, Posting, IdsOf
<1>9. Unique'
  <2>1. Everywhere' \subseteq Everywhere
    BY <1>1, <1>2, <1>4 DEF Everywhere
  <2>2. QED BY <1>2, <2>1 DEF IInv, Unique
<1>10. QED BY <1>5, <1>6, <1>7, <1>8, <1>9 DEF IInv

(* Whatever is abandoned has been posted.                                  *)
LEMMA AbandonedTypes ==
    ASSUME IInv, late' \in Abandoned
    PROVE  /\ late' \subseteq SUBSET Rows /\ \A request \in late' : IsFiniteSet(request)
           /\ UNION late' \subseteq posted \cup UNION late
<1>1. late' \subseteq late \cup {posted}
  BY DEF Abandoned
<1>2. QED BY <1>1 DEF IInv, TypeOK, Finite

LEMMA PostFailsStep ==
    ASSUME IInv, PostFails
    PROVE  IInv'
<1>1. /\ late' \in Abandoned /\ up_pc' = "idle" /\ posted' = {}
      /\ UNCHANGED <<made, queue, batch, rows, last_id, cursor, synced, upload_enabled, today,
                     stored, received, file_size, restarts, outages>>
  BY DEF PostFails, store, volatile, database, server, faults
<1>2. /\ late' \subseteq SUBSET Rows /\ \A request \in late' : IsFiniteSet(request)
      /\ UNION late' \subseteq posted \cup UNION late
  BY <1>1, AbandonedTypes
<1>3. TypeOK' /\ Finite'
  BY <1>1, <1>2, FS_EmptySet DEF IInv, TypeOK, StoreTypeOK, Finite
<1>4. Durable' /\ Ordered(rows)' /\ Ordered(synced.rows)' /\ Numbered' /\ Taken'
  BY <1>1 DEF IInv, Durable, Ordered, Numbered, Before, Rising, Taken
<1>5. Posting'
  BY <1>1 DEF Posting
<1>6. Unique'
  <2>1. Everywhere' \subseteq Everywhere
    BY <1>1, <1>2 DEF Everywhere
  <2>2. QED BY <1>1, <2>1 DEF IInv, Unique
<1>7. QED BY <1>3, <1>4, <1>5, <1>6 DEF IInv

(* The cursor moves forward, to an id that has been given out.             *)
LEMMA CursorMoves ==
    ASSUME IInv, AdvanceCursor
    PROVE  /\ cursor' = LastOf(posted) /\ cursor' \in Nat
           /\ cursor < cursor' /\ cursor' <= last_id
           /\ \E p \in posted : p.id = cursor'
           /\ \A p \in posted : p.id <= cursor'
<1>1. up_pc = "answered" /\ cursor' = LastOf(posted)
  BY DEF AdvanceCursor, AdvanceCursorTo
<1>2. posted \in SUBSET Rows /\ posted # {} /\ last_id \in Nat
      /\ \A p \in posted : cursor < p.id /\ p.id <= last_id
  BY <1>1 DEF IInv, Posting, TypeOK, StoreTypeOK
<1>3. QED BY <1>1, <1>2, LastOfPosted

LEMMA AdvanceCursorStep ==
    ASSUME IInv, AdvanceCursor
    PROVE  IInv'
<1>1. /\ up_pc = "answered"
      /\ synced' = [rows |-> rows, last_id |-> last_id, cursor |-> cursor']
      /\ up_pc' = "idle" /\ posted' = {}
      /\ UNCHANGED <<made, queue, batch, rows, last_id, upload_enabled, today,
                     stored, received, file_size, late, restarts, outages>>
  BY DEF AdvanceCursor, AdvanceCursorTo, volatile, server, faults
<1>2. /\ cursor' \in Nat /\ cursor < cursor' /\ cursor' <= last_id
      /\ \E p \in posted : p.id = cursor'
  BY CursorMoves
<1>3. TypeOK'
  BY <1>1, <1>2 DEF IInv, TypeOK, StoreTypeOK, Images
<1>4. Finite' /\ Durable' /\ Ordered(rows)' /\ Ordered(synced.rows)' /\ Numbered'
  BY <1>1, <1>2, FS_EmptySet DEF IInv, Finite, Durable, Ordered, Numbered, Before, Rising
<1>5. Taken'
  <2>1. ASSUME NEW r \in rows, r.id <= cursor' PROVE r.id \in IdsOf(received)
    <3>1. r.id \in Nat /\ cursor \in Nat
      BY DEF IInv, TypeOK, StoreTypeOK, Rows
    <3>2. CASE r.id <= cursor
      BY <3>2 DEF IInv, Taken
    <3>3. CASE cursor < r.id
      <4>1. r \in posted
        BY <1>2, <2>1, <3>3 DEF IInv, Posting
      <4>2. QED BY <1>1, <4>1 DEF IInv, Posting, IdsOf
    <3>4. QED BY <3>1, <3>2, <3>3
  <2>2. stored' \subseteq received'
    BY <1>1 DEF IInv, Taken
  <2>3. QED BY <1>1, <2>1, <2>2 DEF Taken, IdsOf
<1>6. Posting'
  BY <1>1 DEF Posting
<1>7. Unique'
  <2>1. Everywhere' \subseteq Everywhere
    BY <1>1 DEF Everywhere
  <2>2. QED BY <1>1, <2>1 DEF IInv, Unique
<1>8. QED BY <1>3, <1>4, <1>5, <1>6, <1>7 DEF IInv

(* The process starts again from what its database holds.                  *)
LEMMA RestartStep ==
    ASSUME IInv, Restart
    PROVE  IInv'
<1>1. /\ late' \in Abandoned /\ up_pc' = "idle" /\ posted' = {}
      /\ queue' = <<>> /\ batch' = <<>> /\ upload_enabled' \in BOOLEAN
      /\ restarts' = restarts + 1
      /\ UNCHANGED <<made, rows, last_id, cursor, synced, today,
                     stored, received, file_size, outages>>
  BY DEF Restart, Restore, Image, server
<1>2. /\ late' \subseteq SUBSET Rows /\ \A request \in late' : IsFiniteSet(request)
      /\ UNION late' \subseteq posted \cup UNION late
  BY <1>1, AbandonedTypes
<1>3. TypeOK' /\ Finite'
  BY <1>1, <1>2, FS_EmptySet, StoreAssumption DEF IInv, TypeOK, StoreTypeOK, Finite
<1>4. Durable' /\ Ordered(rows)' /\ Ordered(synced.rows)' /\ Numbered' /\ Taken'
  BY <1>1 DEF IInv, Durable, Ordered, Numbered, Before, Rising, Taken
<1>5. Posting'
  BY <1>1 DEF Posting
<1>6. Unique'
  <2>1. Everywhere' \subseteq Everywhere
    BY <1>1, <1>2 DEF Everywhere
  <2>2. QED BY <1>1, <2>1 DEF IInv, Unique
<1>7. QED BY <1>3, <1>4, <1>5, <1>6 DEF IInv

(* After a power loss it is the durable image it starts from.              *)
LEMMA PowerLossStep ==
    ASSUME IInv, PowerLoss
    PROVE  IInv' /\ cursor' = cursor
<1>1. /\ late' \in Abandoned /\ up_pc' = "idle" /\ posted' = {}
      /\ rows' = synced.rows /\ last_id' = synced.last_id /\ cursor' = synced.cursor
      /\ queue' = <<>> /\ batch' = <<>> /\ upload_enabled' \in BOOLEAN
      /\ restarts' = restarts + 1 /\ outages' = outages + 1
      /\ UNCHANGED <<made, synced, today, stored, received, file_size>>
  BY DEF PowerLoss, Restore, server
<1>2. /\ late' \subseteq SUBSET Rows /\ \A request \in late' : IsFiniteSet(request)
  BY <1>1, AbandonedTypes
<1>3. TypeOK' /\ Finite'
  BY <1>1, <1>2, FS_EmptySet, StoreAssumption DEF IInv, TypeOK, StoreTypeOK, Images, Finite
<1>4. cursor' = cursor /\ Durable' /\ Ordered(rows)' /\ Ordered(synced.rows)' /\ Numbered' /\ Taken'
  BY <1>1 DEF IInv, Durable, Ordered, Numbered, Before, Rising, Taken
<1>5. Posting'
  BY <1>1 DEF Posting
<1>6. Unique'
  BY <1>1 DEF Unique, IInv, TypeOK
<1>7. QED BY <1>3, <1>4, <1>5, <1>6 DEF IInv

(* The server's purge takes rows, but the history keeps them.              *)
LEMMA PurgeStep ==
    ASSUME IInv, Purge
    PROVE  IInv'
<1>1. /\ stored' \in SUBSET stored
      /\ UNCHANGED <<made, queue, batch, rows, last_id, cursor, synced, upload_enabled, today,
                     received, file_size, up_pc, posted, late, restarts, outages>>
  BY DEF Purge, PurgeExpired, DropPartitions, PurgeRows,
         store, volatile, database, uploader, faults
<1>2. IsFiniteSet(stored') /\ Cardinality(stored') <= Cardinality(stored)
      /\ Cardinality(stored') \in Nat /\ Cardinality(stored) \in Nat
  BY <1>1, FS_Subset, FS_CardinalityType DEF IInv, Finite
<1>3. TypeOK'
  BY <1>1, <1>2 DEF IInv, TypeOK, StoreTypeOK
<1>4. Finite' /\ Durable' /\ Ordered(rows)' /\ Ordered(synced.rows)' /\ Numbered'
  BY <1>1, <1>2 DEF IInv, Finite, Durable, Ordered, Numbered, Before, Rising
<1>5. Taken' /\ Posting' /\ Unique'
  BY <1>1 DEF IInv, Taken, Posting, Unique, Everywhere, IdsOf
<1>6. QED BY <1>3, <1>4, <1>5 DEF IInv

LEMMA Stutter ==
    ASSUME IInv, UNCHANGED vars
    PROVE  IInv'
<1>1. UNCHANGED <<made, queue, batch, rows, last_id, cursor, synced, upload_enabled, today,
                  stored, received, file_size, up_pc, posted, late, restarts, outages>>
  BY DEF vars, store, volatile, database, server, uploader, faults
<1>2. TypeOK' /\ Finite'
  BY <1>1 DEF IInv, TypeOK, StoreTypeOK, Finite
<1>3. Durable' /\ Ordered(rows)' /\ Ordered(synced.rows)' /\ Numbered'
  BY <1>1 DEF IInv, Durable, Ordered, Numbered, Before, Rising
<1>4. Taken' /\ Posting' /\ Unique'
  BY <1>1 DEF IInv, Taken, Posting, Unique, Everywhere, IdsOf
<1>5. QED BY <1>2, <1>3, <1>4 DEF IInv

-----------------------------------------------------------------------------
(* IInv holds in every reachable state of client, exchange and server.     *)
THEOREM Inductive == Spec => []IInv
<1>1. Init => IInv
  BY InitIInv
<1>2. IInv /\ [Next]_vars => IInv'
  <2> SUFFICES ASSUME IInv, [Next]_vars
               PROVE  IInv'
    OBVIOUS
  <2>1. CASE StoreStep
    BY <2>1, AcceptStep, TakeEventStep, FlushBatchStep, OtherStoreSteps DEF StoreStep
  <2>2. CASE PostBatch
    BY <2>2, PostBatchStep
  <2>3. CASE Ingest
    BY <2>3, IngestStep
  <2>4. CASE IngestLate
    BY <2>4, IngestLateStep
  <2>5. CASE PostFails
    BY <2>5, PostFailsStep
  <2>6. CASE AdvanceCursor
    BY <2>6, AdvanceCursorStep
  <2>7. CASE Restart
    BY <2>7, RestartStep
  <2>8. CASE PowerLoss
    BY <2>8, PowerLossStep
  <2>9. CASE Purge
    BY <2>9, PurgeStep
  <2>10. CASE UNCHANGED vars
    BY <2>10, Stutter
  <2>11. QED
    BY <2>1, <2>2, <2>3, <2>4, <2>5, <2>6, <2>7, <2>8, <2>9, <2>10 DEF Next
<1>3. QED BY <1>1, <1>2, PTL DEF Spec

(* Every variable has its type: the channel and the batch never exceed     *)
(* their limits, and the server's file is never smaller than its rows.     *)
THEOREM TypeCorrect == Spec => []TypeOK
<1>1. IInv => TypeOK
  BY DEF IInv
<1>2. QED BY <1>1, Inductive, PTL

(* Ids follow the order in which events were logged, also after a power    *)
(* loss has taken ids back.                                                *)
THEOREM IdsFollowEvents == Spec => []IdsInOrder
<1>1. IInv => IdsInOrder
  BY DEF IInv, Ordered, IdsInOrder
<1>2. QED BY <1>1, Inductive, PTL

(* Without a power loss a local event id means one event for ever: to the  *)
(* database, to every request on its way, and to the server.               *)
THEOREM IdsMeanOneEvent == Spec => []OneEventPerId
<1>1. IInv => OneEventPerId
  BY DEF IInv, Unique, Everywhere, OneEventPerId
<1>2. QED BY <1>1, Inductive, PTL

(* The cursor passes no event the server has not taken, however often the  *)
(* exchange fails and the process restarts, unless the power is lost.      *)
THEOREM NothingPassedOver == Spec => []CursorCoveredUnlessOutage
<1>1. IInv => CursorCoveredUnlessOutage
  <2> SUFFICES ASSUME IInv, outages = 0, NEW r \in rows, r.id <= cursor
               PROVE  r \in received
    BY DEF CursorCoveredUnlessOutage, CursorCovered
  <2>1. PICK s \in received : s.id = r.id
    BY DEF IInv, Taken, IdsOf
  <2>2. r = s
    BY <2>1 DEF IInv, Unique, Everywhere
  <2>3. QED BY <2>1, <2>2
<1>2. QED BY <1>1, Inductive, PTL

-----------------------------------------------------------------------------
(* No step but AdvanceCursor changes the cursor.                           *)
LEMMA CursorStays ==
    ASSUME IInv, [Next]_vars, ~AdvanceCursor
    PROVE  cursor' = cursor
<1>1. CASE StoreStep
  BY <1>1 DEF StoreStep, Accept, TakeEvent, FlushBatch, RunCleanup, Checkpoint, NextDay, database
<1>2. CASE PostBatch \/ Ingest \/ IngestLate \/ PostFails \/ Purge
  BY <1>2 DEF PostBatch, Ingest, IngestLate, PostFails, Purge, store, database
<1>3. CASE Restart
  BY <1>3 DEF Restart, Restore, Image
<1>4. CASE PowerLoss
  BY <1>4, PowerLossStep
<1>5. CASE UNCHANGED vars
  BY <1>5 DEF vars, store, database
<1>6. QED BY <1>1, <1>2, <1>3, <1>4, <1>5 DEF Next

(* The cursor never moves back, and a power loss leaves it where it was.   *)
THEOREM CursorMonotone == Spec => CursorNeverMovesBack
<1>1. IInv /\ [Next]_vars => cursor' >= cursor
  <2> SUFFICES ASSUME IInv, [Next]_vars
               PROVE  cursor' >= cursor
    OBVIOUS
  <2>1. cursor \in Nat
    BY DEF IInv, TypeOK, StoreTypeOK
  <2>2. CASE AdvanceCursor
    BY <2>1, <2>2, CursorMoves
  <2>3. CASE ~AdvanceCursor
    BY <2>1, <2>3, CursorStays
  <2>4. QED BY <2>2, <2>3
<1>2. IInv /\ [Next]_vars => [cursor' >= cursor]_vars
  BY <1>1
<1>3. QED BY <1>2, Inductive, PTL DEF Spec, CursorNeverMovesBack

(* Only a committed batch adds rows, and only the cleanup takes some away, *)
(* a power loss apart.                                                     *)
LEMMA RowsChange ==
    ASSUME IInv, [Next]_vars, outages' = outages
    PROVE  \/ UNCHANGED <<rows, cursor>>
           \/ AdvanceCursor /\ UNCHANGED rows
           \/ FlushBatch /\ UNCHANGED cursor
           \/ RunCleanup /\ UNCHANGED cursor
<1>1. CASE StoreStep
  BY <1>1 DEF StoreStep, Accept, TakeEvent, FlushBatch, RunCleanup, Checkpoint, NextDay, database
<1>2. CASE PostBatch \/ Ingest \/ IngestLate \/ PostFails \/ Purge
  BY <1>2 DEF PostBatch, Ingest, IngestLate, PostFails, Purge, store, database
<1>3. CASE Restart
  BY <1>3 DEF Restart, Restore, Image
<1>4. CASE PowerLoss
  BY <1>4 DEF PowerLoss, IInv, TypeOK
<1>5. CASE UNCHANGED vars
  BY <1>5 DEF vars, store, database
<1>6. CASE AdvanceCursor
  BY <1>6 DEF AdvanceCursor, AdvanceCursorTo
<1>7. QED BY <1>1, <1>2, <1>3, <1>4, <1>5, <1>6 DEF Next

(* New rows get ids past the cursor, so each will be posted.               *)
THEOREM NewRowsArePending == Spec => NewRowsPending
<1> DEFINE P == outages' = outages => \A r \in rows' \ rows : r.id > cursor'
<1>1. IInv /\ [Next]_vars => P
  <2> SUFFICES ASSUME IInv, [Next]_vars, outages' = outages, NEW r \in rows' \ rows
               PROVE  r.id > cursor'
    OBVIOUS
  <2>1. FlushBatch /\ cursor' = cursor
    BY RowsChange DEF RunCleanup
  <2>2. PICK kept \in SUBSET DOMAIN batch :
          rows' = rows \cup {[id |-> NextIds(kept)[i], event |-> batch[i]] : i \in kept}
    BY <2>1 DEF FlushBatch
  <2> DEFINE new == {[id |-> NextIds(kept)[i], event |-> batch[i]] : i \in kept}
  <2>3. new \subseteq Rows /\ \A s \in new : last_id < s.id
    BY NewRowsFollow
  <2>4. r \in new
    BY <2>2
  <2> HIDE DEF new
  <2>5. r.id \in Nat /\ last_id \in Nat /\ cursor \in Nat
    BY <2>3, <2>4 DEF Rows, IInv, TypeOK, StoreTypeOK
  <2>6. QED BY <2>1, <2>3, <2>4, <2>5 DEF IInv, Durable
<1>2. IInv /\ [Next]_vars => [P]_vars
  BY <1>1
<1>3. QED BY <1>2, Inductive, PTL DEF Spec, NewRowsPending

(* While uploads are on, the cleanup deletes no row the server has not     *)
(* been given, not even after a power loss.                                *)
THEOREM NothingGivenUp == Spec => KeptUntilUploaded
<1> DEFINE P == upload_enabled /\ outages' = outages
                  => \A r \in rows \ rows' : r.id \in {s.id : s \in received}
<1>1. IInv /\ [Next]_vars => P
  <2> SUFFICES ASSUME IInv, [Next]_vars, upload_enabled, outages' = outages, NEW r \in rows \ rows'
               PROVE  r.id \in {s.id : s \in received}
    OBVIOUS
  <2>1. RunCleanup
    BY RowsChange DEF FlushBatch
  <2>2. r.id <= cursor
    BY <2>1 DEF RunCleanup, Removable
  <2>3. QED BY <2>2 DEF IInv, Taken, IdsOf
<1>2. IInv /\ [Next]_vars => [P]_vars
  BY <1>1
<1>3. QED BY <1>2, Inductive, PTL DEF Spec, KeptUntilUploaded

-----------------------------------------------------------------------------
(* The outbox: what each step does to the rows past the cursor             *)

(* The rows past the cursor have ids between the cursor and the last one.  *)
LEMMA PendingTypes ==
    ASSUME IInv
    PROVE  /\ cursor \in Nat /\ last_id \in Nat /\ outages \in Nat
           /\ Pending \subseteq rows
           /\ \A r \in rows : r.id \in Nat /\ r.id <= last_id
           /\ \A r \in rows : r \in Pending <=> cursor < r.id
<1>1. cursor \in Nat /\ last_id \in Nat /\ outages \in Nat /\ rows \subseteq Rows
  BY DEF IInv, TypeOK, StoreTypeOK
<1>2. \A r \in rows : r.id \in Nat /\ r.id <= last_id
  BY <1>1 DEF Rows, IInv, Durable
<1>3. QED BY <1>1, <1>2 DEF Pending

(* A committed batch is written to the outbox.                             *)
LEMMA FlushWrites ==
    ASSUME IInv, FlushBatch, UNCHANGED <<server, uploader, faults>>
    PROVE  Delivery!Write
<1>1. PICK kept \in SUBSET DOMAIN batch :
        rows' = rows \cup {[id |-> NextIds(kept)[i], event |-> batch[i]] : i \in kept}
  BY DEF FlushBatch
<1> DEFINE new == {[id |-> NextIds(kept)[i], event |-> batch[i]] : i \in kept}
<1>2. new \subseteq Rows /\ \A r \in new : last_id < r.id
  BY NewRowsFollow
<1>3. rows' = rows \cup new
  BY <1>1
<1> HIDE DEF new
<1>4. UNCHANGED <<cursor, upload_enabled, received, posted, late, outages>>
  BY DEF FlushBatch, server, uploader, faults
<1>5. \A r \in new : r.id \in Nat
  BY <1>2 DEF Rows
<1>6. cursor \in Nat /\ last_id \in Nat /\ cursor <= last_id
  BY DEF IInv, TypeOK, StoreTypeOK, Durable
<1>7. \A r \in new : cursor < r.id
  BY <1>2, <1>5, <1>6
<1>8. Pending' = Pending \cup new
  BY <1>3, <1>4, <1>5, <1>6, <1>7 DEF Pending
<1>9. \A r \in new, s \in Pending : s.id < r.id
  BY <1>2, <1>5, <1>6, PendingTypes
<1>10. outages = 0 => \A r \in new : r.id \notin Delivery!Ids((posted \cup UNION late) \cup received)
  <2> SUFFICES ASSUME outages = 0, NEW r \in new,
                      NEW s \in (posted \cup UNION late) \cup received, s.id = r.id
               PROVE  FALSE
    BY DEF Delivery!Ids
  <2>1. s \in Everywhere
    BY DEF Everywhere
  <2>2. s.id <= last_id
    BY <2>1 DEF IInv, Unique
  <2>3. QED BY <1>2, <1>5, <1>6, <2>2
<1>11. QED BY <1>4, <1>8, <1>9, <1>10 DEF Delivery!Write

(* A step that leaves the rows past the cursor and what is on its way      *)
(* alone is none of the outbox.                                            *)
LEMMA OutboxStutter ==
    ASSUME rows' = rows, UNCHANGED <<cursor, posted, late, received, upload_enabled, outages>>
    PROVE  UNCHANGED Delivery!vars
BY DEF Delivery!vars, Pending

(* The cleanup takes uploaded rows, or any while the client does not send. *)
LEMMA CleanupExpires ==
    ASSUME IInv, RunCleanup, UNCHANGED <<server, uploader, faults>>
    PROVE  Delivery!Expire \/ UNCHANGED Delivery!vars
<1>1. /\ rows' = {r \in rows : ~Removable(r)}
      /\ UNCHANGED <<cursor, upload_enabled, received, posted, late, outages>>
  BY DEF RunCleanup, server, uploader, faults
<1>2. Pending' \subseteq Pending
  BY <1>1 DEF Pending
<1>3. CASE ~upload_enabled
  BY <1>1, <1>2, <1>3 DEF Delivery!Expire
<1>4. CASE upload_enabled
  <2>1. \A r \in Pending : r \in rows /\ ~Removable(r)
    BY <1>4, PendingTypes DEF Removable
  <2>2. Pending' = Pending
    BY <1>1, <1>2, <2>1 DEF Pending
  <2>3. QED BY <1>1, <2>2 DEF Delivery!vars
<1>5. QED BY <1>3, <1>4

LEMMA PostSends ==
    ASSUME IInv, PostBatch \/ PostFails
    PROVE  Delivery!Send
<1>1. UNCHANGED <<rows, cursor, upload_enabled, received, outages>>
  BY DEF PostBatch, PostFails, store, database, server, faults
<1>2. posted' \cup UNION late' \subseteq (posted \cup UNION late) \cup Pending
  <2>1. CASE PostBatch
    BY <2>1, UploadRowsFirst DEF PostBatch
  <2>2. CASE PostFails
    BY <2>2, AbandonedTypes DEF PostFails
  <2>3. QED BY <2>1, <2>2
<1>3. Pending' = Pending
  BY <1>1 DEF Pending
<1>4. QED BY <1>1, <1>2, <1>3 DEF Delivery!Send

LEMMA IngestDelivers ==
    ASSUME IInv, Ingest \/ IngestLate
    PROVE  Delivery!Deliver
<1>1. UNCHANGED <<rows, cursor, upload_enabled, posted, outages>>
  BY DEF Ingest, IngestLate, store, database, faults
<1>2. /\ received \subseteq received'
      /\ received' \subseteq received \cup (posted \cup UNION late)
      /\ late' \subseteq late
  <2>1. CASE Ingest
    <3>1. posted \in SUBSET Rows /\ IsFiniteSet(posted) /\ IngestWrite(posted) /\ late' = late
      BY <2>1 DEF Ingest, IInv, TypeOK, Finite
    <3>2. received \subseteq received' /\ received' \subseteq received \cup posted
      BY <3>1, Written
    <3>3. QED BY <3>1, <3>2
  <2>2. CASE IngestLate
    <3>1. PICK request \in late : IngestWrite(request) /\ late' = late \ {request}
      BY <2>2 DEF IngestLate
    <3>2. request \in SUBSET Rows /\ IsFiniteSet(request)
      BY DEF IInv, TypeOK, Finite
    <3>3. received \subseteq received' /\ received' \subseteq received \cup request
      BY <3>1, <3>2, Written
    <3>4. QED BY <3>1, <3>3
  <2>3. QED BY <2>1, <2>2
<1>3. Pending' = Pending
  BY <1>1 DEF Pending
<1>4. posted' \cup UNION late' \subseteq posted \cup UNION late
  BY <1>1, <1>2
<1>5. QED BY <1>1, <1>2, <1>3, <1>4 DEF Delivery!Deliver

(* The rows the cursor passes are posted ones, so the server has their ids *)
(* and, while an id means one row, the rows themselves.                    *)
LEMMA CursorConfirms ==
    ASSUME IInv, AdvanceCursor
    PROVE  Delivery!Confirm
<1>1. /\ up_pc = "answered" /\ posted' = {}
      /\ UNCHANGED <<rows, upload_enabled, received, late, outages>>
  BY DEF AdvanceCursor, AdvanceCursorTo, server, faults
<1>2. /\ cursor' \in Nat /\ cursor < cursor'
      /\ \E p \in posted : p.id = cursor'
  BY CursorMoves
<1>3. \A r \in rows : r \in Pending' <=> cursor' < r.id
  BY <1>1, <1>2, PendingTypes DEF Pending
<1>4. Pending' \subseteq rows /\ Pending' \subseteq Pending
  BY <1>1, <1>2, <1>3, PendingTypes DEF Pending
<1>5. ASSUME NEW r \in Pending \ Pending'
      PROVE  /\ r.id \in Delivery!Ids(received)
             /\ outages = 0 => r \in received
             /\ \A s \in Pending' : r.id < s.id
  <2>1. r \in rows /\ r.id \in Nat /\ cursor < r.id /\ r.id <= cursor'
    BY <1>2, <1>3, PendingTypes
  <2>2. r \in posted
    BY <1>2, <2>1 DEF IInv, Posting
  <2>3. r.id \in IdsOf(received)
    BY <1>1, <2>2 DEF IInv, Posting, IdsOf
  <2>4. PICK s \in received : s.id = r.id
    BY <2>3 DEF IdsOf
  <2>5. outages = 0 => r = s
    BY <2>2, <2>4 DEF IInv, Unique, Everywhere
  <2>6. \A q \in Pending' : q.id \in Nat /\ cursor' < q.id
    BY <1>3, <1>4, PendingTypes
  <2>7. \A q \in Pending' : r.id < q.id
    BY <1>2, <2>1, <2>6
  <2>8. QED BY <2>3, <2>5, <2>7 DEF Delivery!Ids, IdsOf
<1>6. posted' \cup UNION late' \subseteq posted \cup UNION late
  BY <1>1
<1>7. QED BY <1>1, <1>4, <1>5, <1>6 DEF Delivery!Confirm

(* A client started again has its rows and its cursor; a power loss may    *)
(* take rows back.                                                         *)
LEMMA StartsAgain ==
    ASSUME IInv, Restart \/ PowerLoss
    PROVE  Delivery!Restart \/ Delivery!PowerLoss
<1>1. late' \in Abandoned /\ posted' = {} /\ upload_enabled' \in BOOLEAN /\ received' = received
  BY DEF Restart, PowerLoss, Restore, server
<1>2. posted' \cup UNION late' \subseteq posted \cup UNION late
  BY <1>1, AbandonedTypes
<1>3. CASE Restart
  <2>1. UNCHANGED <<rows, cursor, outages>>
    BY <1>3 DEF Restart, Restore, Image
  <2>2. Pending' = Pending
    BY <2>1 DEF Pending
  <2>3. QED BY <1>1, <1>2, <2>1, <2>2 DEF Delivery!Restart
<1>4. CASE PowerLoss
  <2>1. outages' = outages + 1 /\ outages \in Nat
    BY <1>4, PendingTypes DEF PowerLoss
  <2>2. (outages = 0)' = FALSE
    BY <2>1
  <2>3. QED BY <1>1, <1>2, <2>2 DEF Delivery!PowerLoss
<1>5. QED BY <1>3, <1>4

(* Client, exchange and server implement Outbox, whatever the network and  *)
(* the process do: rows leave in id order, each after the server took it.  *)
THEOREM ImplementsOutbox == Spec => KeepsOutbox
<1>1. Init => Delivery!Init
  BY DEF Init, StoreInit, ServerInit, Delivery!Init, Pending
<1>2. IInv /\ [Next]_vars => [Delivery!Next]_(Delivery!vars)
  <2> SUFFICES ASSUME IInv, [Next]_vars
               PROVE  Delivery!Next \/ UNCHANGED Delivery!vars
    OBVIOUS
  <2>1. CASE StoreStep
    <3>1. UNCHANGED <<server, uploader, faults>>
      BY <2>1 DEF StoreStep
    <3>2. CASE FlushBatch
      BY <3>1, <3>2, FlushWrites DEF Delivery!Next
    <3>3. CASE RunCleanup
      BY <3>1, <3>3, CleanupExpires DEF Delivery!Next
    <3>4. CASE Accept \/ TakeEvent \/ Checkpoint \/ NextDay
      <4>1. rows' = rows /\ UNCHANGED <<cursor, posted, late, received, upload_enabled, outages>>
        BY <3>1, <3>4 DEF Accept, TakeEvent, Checkpoint, NextDay, database, server, uploader, faults
      <4>2. QED BY <4>1, OutboxStutter
    <3>5. QED BY <2>1, <3>2, <3>3, <3>4 DEF StoreStep
  <2>2. CASE PostBatch \/ PostFails
    BY <2>2, PostSends DEF Delivery!Next
  <2>3. CASE Ingest \/ IngestLate
    BY <2>3, IngestDelivers DEF Delivery!Next
  <2>4. CASE AdvanceCursor
    BY <2>4, CursorConfirms DEF Delivery!Next
  <2>5. CASE Restart \/ PowerLoss
    BY <2>5, StartsAgain DEF Delivery!Next
  <2>6. CASE Purge \/ UNCHANGED vars
    <3>1. rows' = rows /\ UNCHANGED <<cursor, posted, late, received, upload_enabled, outages>>
      BY <2>6 DEF Purge, PurgeExpired, vars, store, database, server, uploader, faults
    <3>2. QED BY <3>1, OutboxStutter
  <2>7. QED BY <2>1, <2>2, <2>3, <2>4, <2>5, <2>6 DEF Next
<1>3. QED BY <1>1, <1>2, Inductive, PTL DEF Spec, KeepsOutbox, Delivery!Spec
=============================================================================
