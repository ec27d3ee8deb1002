------------------------------- MODULE EventLog -------------------------------
(***************************************************************************)
(* Which new_connection and connection_closed events the program logs, and *)
(* in what order (app.rs).  The connection table is used by what it        *)
(* promises (RetainedTable, which ConnectionTracker is checked to keep):   *)
(* the packet workers open and split generations in update_connection, the *)
(* cleanup thread retires them in sweeps, and the user may clear the table.*)
(* Each logs what it did only after the tracker's lock is released, so the *)
(* log is written by several threads about a table that has moved on.      *)
(*                                                                         *)
(* Packets that neither open nor split a row log nothing and are left out. *)
(***************************************************************************)
EXTENDS Integers, FiniteSets, Sequences

CONSTANTS
    Workers,            \* the packet processor threads
    Keys,               \* flow keys
    NoGen,
    MaxConnections,     \* TrackerConfig::max_connections
    MaxGenerations      \* bound: generations opened

VARIABLES
    active, archive,    \* the connection table
    opened,             \* generations opened so far
    task,               \* what each worker is doing
    removed,            \* generations the cleanup thread has yet to log
    should_stop,        \* App::should_stop
    cleaning,           \* the cleanup thread is running
    log,                \* the events, in the order they were written
    passed_over,        \* observer: generations archived by a dropped split
    exited              \* the process has ended

table == <<active, archive, opened>>
cleaner == <<removed, cleaning>>
threads == <<table, task, cleaner, should_stop, log, passed_over>>
vars == <<threads, exited>>

Table == INSTANCE RetainedTable WITH
    RetainKeys <- Keys, RetainLimit <- MaxGenerations, Retains <- TRUE

ASSUME EventLogAssumption ==
    /\ IsFiniteSet(Workers) /\ Workers # {} /\ Keys # {}
    /\ MaxConnections \in Nat \ {0} /\ MaxGenerations \in Nat
    /\ \A k \in Keys, at \in 0..MaxGenerations : NoGen # [key |-> k, at |-> at, ns |-> 0]

Generations == [key : Keys, at : 0..MaxGenerations, ns : {0}]

Events == [event : {"new_connection", "connection_closed"}, of : Generations]

Steps == {"idle", "insert", "close", "look_up", "log_new"}

-----------------------------------------------------------------------------
Task(step, k, g) == [step |-> step, key |-> k, gen |-> g]

Idle == Task("idle", CHOOSE k \in Keys : TRUE, NoGen)

(* A row's generation is stamped later than its predecessors.              *)
NextGeneration(k) == [key |-> k, at |-> opened, ns |-> 0]

Inserting == {w \in Workers : task[w].step = "insert"}

(* Nobody is between the check of the limit and the insert: the lifecycle  *)
(* lock can be taken for writing.                                          *)
WriteGuardFree == Inserting = {}

(* Mutant of RowsHeld: the row is cloned and its guard released.           *)
NoRowsHeld == {}

(* The rows whose shard a worker keeps locked while it logs them.          *)
RowsHeld == {task[w].gen : w \in {v \in Workers : task[v].step = "log_new"}}

Logged(event, g) == log' = Append(log, [event |-> event, of |-> g])

-----------------------------------------------------------------------------
(* update_connection, called by the packet workers                         *)

(* ingest_into_active: a packet without a row passes max_connections.      *)
PassCap(w, k) ==
    /\ task[w] = Idle
    /\ k \notin Table!KeysOf(active)
    /\ Cardinality(active) < MaxConnections
    /\ opened + Cardinality(Inserting) < MaxGenerations
    /\ task' = [task EXCEPT ![w] = Task("insert", k, NoGen)]
    /\ UNCHANGED <<table, cleaner, should_stop, log, passed_over>>

(* The row is inserted, unless another worker was faster.                  *)
Insert(w) ==
    LET k == task[w].key
    IN  /\ task[w].step = "insert"
        /\ \/ /\ Table!Open(NextGeneration(k))
              /\ opened' = opened + 1
              /\ task' = [task EXCEPT ![w] = Task("look_up", k, NoGen)]
           \/ /\ k \in Table!KeysOf(active)
              /\ task' = [task EXCEPT ![w] = Idle]
              /\ UNCHANGED table
        /\ UNCHANGED <<cleaner, should_stop, log, passed_over>>

(* ingest_new_generation, whose predecessor is logged first.               *)
Split(w, g) ==
    /\ task[w] = Idle
    /\ WriteGuardFree
    /\ g \in active \ RowsHeld
    /\ opened < MaxGenerations
    /\ Cardinality(active) - 1 < MaxConnections
    /\ Table!Retire({g}, {NextGeneration(g.key)})
    /\ opened' = opened + 1
    /\ task' = [task EXCEPT ![w] = Task("close", g.key, g)]
    /\ UNCHANGED <<cleaner, should_stop, log, passed_over>>

(***************************************************************************)
(* The predecessor is archived, but with too many rows left its successor  *)
(* is dropped; update_connection returns on `dropped` before it looks at   *)
(* `archived`.                                                             *)
(***************************************************************************)
SplitDropped(w, g) ==
    /\ task[w] = Idle
    /\ WriteGuardFree
    /\ g \in active \ RowsHeld
    /\ Cardinality(active) - 1 >= MaxConnections
    /\ Table!Retire({g}, {})
    /\ passed_over' = passed_over \cup {g}
    /\ UNCHANGED <<opened, task, cleaner, should_stop, log>>

(* Mutant of LogSplit: a split does not count as a creation.               *)
LogSplitOnly(w) ==
    /\ task[w].step = "close"
    /\ Logged("connection_closed", task[w].gen)
    /\ task' = [task EXCEPT ![w] = Idle]
    /\ UNCHANGED <<table, cleaner, should_stop, passed_over>>

(* The archived predecessor is logged, then the successor is looked up.    *)
LogSplit(w) ==
    /\ task[w].step = "close"
    /\ Logged("connection_closed", task[w].gen)
    /\ task' = [task EXCEPT ![w] = Task("look_up", task[w].key, NoGen)]
    /\ UNCHANGED <<table, cleaner, should_stop, passed_over>>

(* Mutant of LookUp: the row is taken to be there still.                   *)
LookUpUnchecked(w) ==
    /\ task[w].step = "look_up"
    /\ task' = [task EXCEPT ![w] =
         Task("log_new", @.key,
              IF @.key \in Table!KeysOf(active)
              THEN CHOOSE g \in active : g.key = task[w].key ELSE NoGen)]
    /\ UNCHANGED <<table, cleaner, should_stop, log, passed_over>>

(* The row is looked up again by its key: it may be another generation's,  *)
(* or there may be none.                                                   *)
LookUp(w) ==
    /\ task[w].step = "look_up"
    /\ \/ \E g \in active :
            /\ g.key = task[w].key
            /\ task' = [task EXCEPT ![w] = Task("log_new", g.key, g)]
       \/ /\ task[w].key \notin Table!KeysOf(active)
          /\ task' = [task EXCEPT ![w] = Idle]
    /\ UNCHANGED <<table, cleaner, should_stop, log, passed_over>>

LogNew(w) ==
    /\ task[w].step = "log_new"
    /\ Logged("new_connection", task[w].gen)
    /\ task' = [task EXCEPT ![w] = Idle]
    /\ UNCHANGED <<table, cleaner, should_stop, passed_over>>

-----------------------------------------------------------------------------
(* The cleanup thread                                                      *)

(* tracker.cleanup retires what has timed out and hands it to the thread.  *)
Sweep(Old) ==
    /\ cleaning /\ removed = {}
    /\ WriteGuardFree
    /\ Old \cap RowsHeld = {}
    /\ Table!Retire(Old, {})
    /\ removed' = Old
    /\ UNCHANGED <<opened, task, should_stop, cleaning, log, passed_over>>

(* Mutant of LogRemoved: the thread looks at should_stop for every row.    *)
LogRemovedUnlessStopped ==
    \E g \in removed :
      /\ ~should_stop
      /\ Logged("connection_closed", g)
      /\ removed' = removed \ {g}
      /\ UNCHANGED <<table, task, cleaning, should_stop, passed_over>>

(* Every removed row is logged, whatever has become of the table.          *)
LogRemoved ==
    \E g \in removed :
      /\ Logged("connection_closed", g)
      /\ removed' = removed \ {g}
      /\ UNCHANGED <<table, task, cleaning, should_stop, passed_over>>

(* should_stop is read at the top of the loop only.                        *)
LeaveLoop ==
    /\ cleaning /\ should_stop /\ removed = {}
    /\ cleaning' = FALSE
    /\ UNCHANGED <<table, task, removed, should_stop, log, passed_over>>

-----------------------------------------------------------------------------
(* clear_all_connections empties the table and logs nothing.               *)
Clear ==
    /\ WriteGuardFree
    /\ RowsHeld = {}
    /\ Table!Empty
    /\ UNCHANGED <<opened, task, cleaner, should_stop, log, passed_over>>

(* App::stop                                                               *)
Stop ==
    /\ ~should_stop
    /\ should_stop' = TRUE
    /\ UNCHANGED <<table, task, cleaner, log, passed_over>>

(* main returns some time after App::stop.  No thread is joined: what one  *)
(* has yet to log goes with the process.                                   *)
ProcessExits ==
    /\ should_stop /\ ~exited
    /\ exited' = TRUE
    /\ UNCHANGED threads

-----------------------------------------------------------------------------
Init ==
    /\ Table!Init
    /\ opened = 0
    /\ task = [w \in Workers |-> Idle]
    /\ removed = {} /\ cleaning = TRUE
    /\ should_stop = FALSE /\ exited = FALSE
    /\ log = <<>>
    /\ passed_over = {}

Work(w) == Insert(w) \/ LogSplit(w) \/ LookUp(w) \/ LogNew(w)

Step ==
    \/ \E w \in Workers :
         \/ \E k \in Keys : PassCap(w, k)
         \/ \E g \in active : Split(w, g) \/ SplitDropped(w, g)
         \/ Work(w)
    \/ \E Old \in SUBSET active : Sweep(Old)
    \/ LogRemoved
    \/ LeaveLoop
    \/ Clear
    \/ Stop

(* Nothing moves after the process has ended.                              *)
Living(A) == ~exited /\ A /\ UNCHANGED exited

Next == Living(Step) \/ ProcessExits

Spec == Init /\ [][Next]_vars

(* While the process lives, threads that are about to log are not          *)
(* suspended for ever.                                                     *)
Fairness == (\A w \in Workers : WF_vars(Living(Work(w)))) /\ WF_vars(Living(LogRemoved))

FairSpec == Spec /\ Fairness

-----------------------------------------------------------------------------
(* Properties                                                              *)

(* Every variable has its type; the task of a worker names the generation  *)
(* it is about to log.                                                     *)
TypeOK ==
    /\ active \subseteq Generations /\ archive \subseteq Generations
    /\ opened \in 0..MaxGenerations
    /\ \A w \in Workers :
         /\ task[w].step \in Steps /\ task[w].key \in Keys
         /\ IF task[w].step \in {"close", "log_new"} THEN task[w].gen \in Generations
            ELSE task[w].gen = NoGen
    /\ removed \subseteq Generations
    /\ {should_stop, cleaning, exited} \subseteq BOOLEAN
    /\ log \in Seq(Events)
    /\ passed_over \subseteq Generations

(***************************************************************************)
(* Nothing is logged of a generation after its connection_closed: neither  *)
(* a second close nor a new_connection, although the worker looks the row  *)
(* up and logs it while cleanup and splits go on.  (Its guard on the row   *)
(* keeps the row in the table until the event is written.)                 *)
(***************************************************************************)
ClosedComesLast ==
    \A i, j \in 1..Len(log) :
      i < j /\ log[i].of = log[j].of => log[i].event = "new_connection"

Announced(g) ==
    \E i \in 1..Len(log) : log[i] = [event |-> "new_connection", of |-> g]

Closed(g) ==
    \E i \in 1..Len(log) : log[i] = [event |-> "connection_closed", of |-> g]

(* A worker that has yet to look at the row under the key of g, or has it. *)
Announcing(g) ==
    {w \in Workers : \/ task[w].step \in {"close", "look_up"} /\ task[w].key = g.key
                     \/ task[w].step = "log_new" /\ task[w].gen = g}

Closing(g) == {w \in Workers : task[w].step = "close" /\ task[w].gen = g}

(***************************************************************************)
(* No event falls between two threads: a generation in the table has been  *)
(* announced or some worker is on its way to announce it, and an archived  *)
(* one has been logged as closed or is in the hands of the thread that     *)
(* retired it (but for the one whose successor did not fit).               *)
(***************************************************************************)
NoEventForgotten ==
    /\ \A g \in active : Announced(g) \/ Announcing(g) # {}
    /\ \A g \in archive \ passed_over : Closed(g) \/ g \in removed \/ Closing(g) # {}

(***************************************************************************)
(* A generation that stays in the table is announced, although several     *)
(* workers may race to insert it and the one that did looks up whatever is *)
(* there.  (One that leaves early may never be, and its successor twice.)  *)
(* Only the end of the process may come before.                            *)
(***************************************************************************)
StayingIsAnnounced ==
    \A g \in Generations : g \in active ~> (Announced(g) \/ g \notin active \/ exited)

(***************************************************************************)
(* Every generation that is archived gets its connection_closed, whoever   *)
(* retires it and although the program is being stopped, unless the        *)
(* process ends first: nobody waits for the threads.  Not promised for the *)
(* one whose successor did not fit into the table (passed_over).           *)
(***************************************************************************)
ClosesLogged ==
    \A g \in Generations : g \in archive \ passed_over ~> Closed(g) \/ exited
=============================================================================
