--------------------------- MODULE EventLogProofs ---------------------------
(***************************************************************************)
(* Proofs about EventLog, for every number of workers, keys and limits:    *)
(* nothing is logged of a generation after its connection_closed.          *)
(*                                                                         *)
(* A generation passes from the table to the thread that retired it, and   *)
(* from there into the log.  The inductive invariant says that these are   *)
(* different places (Apart), that a new generation has been in none of     *)
(* them (Fresh), and that a worker past the limit check will find a number *)
(* for its generation (Room).                                              *)
(***************************************************************************)
EXTENDS EventLog, FiniteSetTheorems, TLAPS

Tasks == [step : Steps, key : Keys, gen : Generations \cup {NoGen}]

Typed ==
    /\ active \subseteq Generations /\ archive \subseteq Generations
    /\ opened \in Nat
    /\ task \in [Workers -> Tasks]
    /\ \A w \in Workers :
         IF task[w].step \in {"close", "log_new"} THEN task[w].gen \in Generations
         ELSE task[w].gen = NoGen
    /\ removed \subseteq Generations
    /\ should_stop \in BOOLEAN /\ cleaning \in BOOLEAN
    /\ log \in Seq(Events)
    /\ passed_over \subseteq Generations

Room ==
    /\ opened + Cardinality(Inserting) <= MaxGenerations
    /\ opened <= MaxGenerations

Fresh ==
    /\ \A g \in active \cup removed : g.at < opened
    /\ \A w \in Workers : task[w].step = "close" => task[w].gen.at < opened
    /\ \A i \in 1..Len(log) : log[i].of.at < opened

(* A generation whose close has been logged is nowhere else.               *)
Settled(g) ==
    /\ g \notin active \cup removed
    /\ \A w \in Workers : task[w].step = "close" => task[w].gen # g

Apart ==
    /\ active \cap removed = {}
    /\ \A w \in Workers :
         /\ task[w].step = "log_new" => task[w].gen \in active
         /\ task[w].step = "close" => task[w].gen \notin active \cup removed
    /\ \A v, w \in Workers :
         task[v].step = "close" /\ task[w].step = "close" /\ task[v].gen = task[w].gen => v = w
    /\ \A i \in 1..Len(log) : log[i].event = "connection_closed" => Settled(log[i].of)

IInv == Typed /\ Room /\ Fresh /\ Apart /\ ClosedComesLast

-----------------------------------------------------------------------------
(* Appending one event leaves the earlier ones where they were.            *)
LEMMA Appended ==
    ASSUME NEW s \in Seq(Events), NEW e \in Events
    PROVE  /\ Append(s, e) \in Seq(Events)
           /\ Len(s) \in Nat
           /\ Len(Append(s, e)) = Len(s) + 1
           /\ \A i \in 1..Len(s) : Append(s, e)[i] = s[i]
           /\ Append(s, e)[Len(s) + 1] = e
OBVIOUS

(* The log holds events of generations.                                    *)
LEMMA LogTypes ==
    ASSUME log \in Seq(Events)
    PROVE  \A i \in 1..Len(log) : log[i] \in Events /\ log[i].of \in Generations
<1>1. \A i \in 1..Len(log) : log[i] \in Events
  OBVIOUS
<1>2. QED BY <1>1 DEF Events

(* Appending keeps the order if no close was logged of the same generation.*)
LEMMA AppendKeepsOrder ==
    ASSUME log \in Seq(Events), ClosedComesLast,
           NEW event \in {"new_connection", "connection_closed"}, NEW g \in Generations,
           Logged(event, g),
           \A i \in 1..Len(log) : log[i].of = g => log[i].event = "new_connection"
    PROVE  ClosedComesLast'
<1> DEFINE e == [event |-> event, of |-> g]
<1>1. e \in Events
  BY DEF Events
<1>2. log' = Append(log, e)
  BY DEF Logged
<1> HIDE DEF e
<1>3. SUFFICES ASSUME NEW i \in 1..Len(log'), NEW j \in 1..Len(log'),
                      i < j, log'[i].of = log'[j].of
               PROVE  log'[i].event = "new_connection"
  BY DEF ClosedComesLast
<1>4. i \in 1..Len(log) /\ log'[i] = log[i]
  BY <1>1, <1>2, <1>3, Appended
<1>5. CASE j \in 1..Len(log)
  BY <1>1, <1>2, <1>3, <1>4, <1>5, Appended DEF ClosedComesLast
<1>6. CASE j = Len(log) + 1
  <2>1. log'[j].of = g
    BY <1>1, <1>2, <1>6, Appended DEF e
  <2>2. QED BY <1>3, <1>4, <2>1
<1>7. QED BY <1>1, <1>2, <1>3, <1>5, <1>6, Appended

(* Inserting changes by at most the worker that moves.                     *)
LEMMA InsertingMoves ==
    ASSUME Typed, NEW w \in Workers, NEW t \in Tasks,
           task' = [task EXCEPT ![w] = t]
    PROVE  /\ Cardinality(Inserting) \in Nat
           /\ t.step # "insert" => Inserting' = Inserting \ {w}
           /\ t.step = "insert" => Inserting' = Inserting \cup {w}
           /\ Cardinality(Inserting \ {w}) =
                IF w \in Inserting THEN Cardinality(Inserting) - 1 ELSE Cardinality(Inserting)
           /\ Cardinality(Inserting \cup {w}) =
                IF w \in Inserting THEN Cardinality(Inserting) ELSE Cardinality(Inserting) + 1
<1>1. IsFiniteSet(Inserting)
  BY EventLogAssumption, FS_Subset DEF Inserting
<1>2. t.step # "insert" => Inserting' = Inserting \ {w}
  BY DEF Typed, Inserting
<1>3. t.step = "insert" => Inserting' = Inserting \cup {w}
  BY DEF Typed, Inserting
<1>4. QED BY <1>1, <1>2, <1>3, FS_CardinalityType, FS_AddElement, FS_RemoveElement

(* Tasks are made of a step, a key and a generation or none.               *)
LEMMA TaskTypes ==
    ASSUME NEW k \in Keys
    PROVE  /\ Idle \in Tasks /\ Idle.step = "idle" /\ Idle.gen = NoGen
           /\ \A step \in Steps, g \in Generations \cup {NoGen} :
                Task(step, k, g) \in Tasks /\ Task(step, k, g).step = step
                  /\ Task(step, k, g).gen = g
BY EventLogAssumption DEF Idle, Task, Tasks, Steps

-----------------------------------------------------------------------------
LEMMA InitIInv == Init => IInv
<1> SUFFICES ASSUME Init PROVE IInv
  OBVIOUS
<1> USE DEF Init
<1>1. Inserting = {}
  <2>1. Idle.step = "idle"
    BY DEF Idle, Task
  <2>2. QED BY <2>1 DEF Inserting
<1>2. Typed
  <2>1. PICK k \in Keys : TRUE
    BY EventLogAssumption
  <2>2. Idle \in Tasks /\ Idle.step = "idle" /\ Idle.gen = NoGen
    BY <2>1, TaskTypes
  <2>3. task \in [Workers -> Tasks]
    BY <2>2
  <2>4. \A w \in Workers : task[w].step = "idle" /\ task[w].gen = NoGen
    BY <2>2
  <2>5. log \in Seq(Events)
    OBVIOUS
  <2>6. QED BY <2>3, <2>4, <2>5 DEF Typed, Table!Init
<1>3. Room
  BY <1>1, FS_EmptySet, EventLogAssumption DEF Room
<1>4. Idle.step = "idle"
  BY DEF Idle, Task
<1>5. Fresh /\ Apart /\ ClosedComesLast
  BY <1>4 DEF Fresh, Apart, ClosedComesLast, Table!Init
<1>6. QED BY <1>2, <1>3, <1>5 DEF IInv

-----------------------------------------------------------------------------
(* The next generation of a key, while the bound allows one.               *)
LEMMA NextGenerationNew ==
    ASSUME Typed, opened < MaxGenerations, NEW k \in Keys
    PROVE  NextGeneration(k) \in Generations /\ NextGeneration(k).at = opened
           /\ NextGeneration(k).key = k
BY EventLogAssumption DEF Typed, NextGeneration, Generations

(* A worker passes the limit check: one more is to insert.                 *)
LEMMA PassCapStep ==
    ASSUME IInv, NEW w \in Workers, NEW k \in Keys, PassCap(w, k)
    PROVE  IInv'
<1> USE DEF IInv
<1> DEFINE t == Task("insert", k, NoGen)
<1>1. t \in Tasks /\ t.step = "insert" /\ t.gen = NoGen
  BY TaskTypes DEF Steps
<1>2. task' = [task EXCEPT ![w] = t]
  BY DEF PassCap
<1>3. UNCHANGED <<active, archive, opened, removed, cleaning, should_stop, log, passed_over>>
  BY DEF PassCap, table, cleaner
<1> HIDE DEF t
<1>4. Typed'
  BY <1>1, <1>2, <1>3 DEF Typed
<1>5. Room'
  <2>1. opened + Cardinality(Inserting) < MaxGenerations
    BY DEF PassCap
  <2>2. Inserting' = Inserting \cup {w}
    BY <1>1, <1>2, InsertingMoves
  <2>3. Cardinality(Inserting \cup {w}) \in {Cardinality(Inserting), Cardinality(Inserting) + 1}
        /\ Cardinality(Inserting) \in Nat
    BY <1>1, <1>2, InsertingMoves
  <2>4. QED BY <1>3, <2>1, <2>2, <2>3, EventLogAssumption DEF Room, Typed
<1>6. Fresh'
  BY <1>1, <1>2, <1>3 DEF Fresh, Typed
<1>7. Apart'
  BY <1>1, <1>2, <1>3 DEF Apart, Settled, Typed
<1>8. ClosedComesLast'
  BY <1>3 DEF ClosedComesLast
<1>9. QED BY <1>4, <1>5, <1>6, <1>7, <1>8

(* A worker moves on without opening a generation.                         *)
LEMMA RoomKept ==
    ASSUME Typed, Room, NEW w \in Workers, NEW t \in Tasks, t.step # "insert",
           task' = [task EXCEPT ![w] = t], UNCHANGED opened
    PROVE  Room'
<1>1. Inserting' = Inserting \ {w}
  BY InsertingMoves
<1>2. Cardinality(Inserting) \in Nat
      /\ Cardinality(Inserting \ {w}) \in {Cardinality(Inserting) - 1, Cardinality(Inserting)}
  BY InsertingMoves
<1>3. QED BY <1>1, <1>2, EventLogAssumption DEF Room, Typed

(* The generation opened is the next one, and the worker has a slot for it.*)
LEMMA InsertStep ==
    ASSUME IInv, NEW w \in Workers, Insert(w)
    PROVE  IInv'
<1> USE DEF IInv
<1> DEFINE k == task[w].key
<1>1. k \in Keys /\ task[w].step = "insert" /\ w \in Inserting
  BY DEF Insert, Typed, Tasks, Inserting
<1>2. UNCHANGED <<archive, removed, cleaning, should_stop, log, passed_over>>
  BY DEF Insert, cleaner, table, Table!Open
<1>3. CASE Table!Open(NextGeneration(k)) /\ opened' = opened + 1
           /\ task' = [task EXCEPT ![w] = Task("look_up", k, NoGen)]
  <2> DEFINE t == Task("look_up", k, NoGen)
             g == NextGeneration(k)
  <2>1. t \in Tasks /\ t.step = "look_up" /\ t.gen = NoGen
    BY <1>1, TaskTypes DEF Steps
  <2>2. task' = [task EXCEPT ![w] = t]
    BY <1>3
  <2>3. active' = active \cup {g}
    BY <1>3 DEF Table!Open
  <2> HIDE DEF t
  <2>4. /\ Inserting' = Inserting \ {w}
        /\ Cardinality(Inserting \ {w}) = Cardinality(Inserting) - 1
        /\ Cardinality(Inserting) \in Nat
    BY <1>1, <2>1, <2>2, InsertingMoves
  <2>5. Cardinality(Inserting \ {w}) \in Nat
    BY EventLogAssumption, FS_Subset, FS_CardinalityType DEF Inserting
  <2>6. opened < MaxGenerations
    BY <2>4, <2>5, EventLogAssumption DEF Room, Typed
  <2>7. g \in Generations /\ g.at = opened
    BY <1>1, <2>6, NextGenerationNew
  <2> HIDE DEF g
  <2>8. Typed'
    BY <1>2, <1>3, <2>1, <2>2, <2>3, <2>7 DEF Typed
  <2>9. Room'
    BY <1>3, <2>4, <2>6, EventLogAssumption DEF Room, Typed
  <2>10. Fresh'
    <3>1. \A h \in (active \cup removed)' : h.at < opened'
      BY <1>2, <1>3, <2>3, <2>7 DEF Fresh, Typed, Generations
    <3>2. \A v \in Workers : task'[v].step = "close" => task'[v].gen.at < opened'
      BY <1>3, <2>1, <2>2 DEF Fresh, Typed, Generations
    <3>3. \A i \in 1..Len(log) : log[i].of \in Generations
      BY LogTypes DEF Typed
    <3>4. \A i \in 1..Len(log') : log'[i].of.at < opened'
      BY <1>2, <1>3, <3>3 DEF Fresh, Typed, Generations
    <3>5. QED BY <3>1, <3>2, <3>4 DEF Fresh
  <2>11. Apart'
    <3>1. g \notin removed /\ (\A i \in 1..Len(log) : log[i].of # g)
          /\ \A v \in Workers : task[v].step = "close" => task[v].gen # g
      BY <2>7 DEF Fresh, Typed
    <3>2. QED BY <1>2, <2>1, <2>2, <2>3, <3>1 DEF Apart, Settled, Typed
  <2>12. ClosedComesLast'
    BY <1>2 DEF ClosedComesLast
  <2>13. QED BY <2>8, <2>9, <2>10, <2>11, <2>12
<1>4. CASE task' = [task EXCEPT ![w] = Idle] /\ UNCHANGED table
  <2>1. Idle \in Tasks /\ Idle.step = "idle" /\ Idle.gen = NoGen
    BY <1>1, TaskTypes
  <2>2. UNCHANGED <<active, opened>>
    BY <1>4 DEF table
  <2>3. Typed' /\ Room'
    BY <1>2, <1>4, <2>1, <2>2, RoomKept DEF Typed
  <2>4. Fresh' /\ Apart'
    BY <1>2, <1>4, <2>1, <2>2 DEF Fresh, Apart, Settled, Typed
  <2>5. ClosedComesLast'
    BY <1>2 DEF ClosedComesLast
  <2>6. QED BY <2>3, <2>4, <2>5
<1>5. QED BY <1>3, <1>4 DEF Insert

(* A row leaves the table for the worker that split it.                    *)
LEMMA SplitStep ==
    ASSUME IInv, NEW w \in Workers, NEW g \in active, Split(w, g)
    PROVE  IInv'
<1> USE DEF IInv
<1> DEFINE t == Task("close", g.key, g)
           n == NextGeneration(g.key)
<1>1. g \in Generations /\ g.key \in Keys /\ opened < MaxGenerations /\ Inserting = {}
      /\ g \notin RowsHeld
  BY DEF Typed, Generations, Split, WriteGuardFree
<1>2. t \in Tasks /\ t.step = "close" /\ t.gen = g
  BY <1>1, TaskTypes DEF Steps
<1>3. n \in Generations /\ n.at = opened
  BY <1>1, NextGenerationNew
<1>4. task' = [task EXCEPT ![w] = t] /\ opened' = opened + 1
  BY DEF Split
<1>5. active' = (active \ {g}) \cup {n} /\ archive' \subseteq archive \cup {g}
  BY DEF Split, Table!Retire, Table!Trimmed
<1>6. UNCHANGED <<removed, cleaning, should_stop, log, passed_over>>
  BY DEF Split, cleaner
<1>7. task[w].step # "log_new" /\ task[w].step # "close"
  BY DEF Split, Idle, Task
<1> HIDE DEF t, n
<1>8. Typed'
  BY <1>1, <1>2, <1>3, <1>4, <1>5, <1>6 DEF Typed
<1>9. Room'
  <2>1. Inserting' = {}
    BY <1>1, <1>2, <1>4, InsertingMoves
  <2>2. QED BY <1>1, <1>4, <2>1, FS_EmptySet, EventLogAssumption DEF Room, Typed
<1>10. \A i \in 1..Len(log) : log[i].of \in Generations
  BY LogTypes DEF Typed
<1>11. Fresh'
  <2>1. \A h \in (active \cup removed)' : h.at < opened'
    BY <1>3, <1>4, <1>5, <1>6 DEF Fresh, Typed, Generations
  <2>2. \A v \in Workers : task'[v].step = "close" => task'[v].gen.at < opened'
    BY <1>1, <1>2, <1>4 DEF Fresh, Typed, Generations
  <2>3. \A i \in 1..Len(log') : log'[i].of.at < opened'
    BY <1>4, <1>6, <1>10 DEF Fresh, Typed, Generations
  <2>4. QED BY <2>1, <2>2, <2>3 DEF Fresh
<1>12. Apart'
  <2>1. n # g /\ n \notin removed /\ (\A i \in 1..Len(log) : log[i].of # n)
        /\ \A v \in Workers : task[v].step = "close" => task[v].gen # n
    BY <1>1, <1>3 DEF Fresh, Typed
  <2>2. \A v \in Workers : task[v].step = "log_new" => task[v].gen \in active \ {g}
    BY <1>1 DEF Apart, RowsHeld
  <2>3. (active \cap removed)' = {}
    BY <1>5, <1>6, <2>1 DEF Apart
  <2>4. \A v \in Workers :
          /\ task'[v].step = "log_new" => task'[v].gen \in active'
          /\ task'[v].step = "close" => task'[v].gen \notin (active \cup removed)'
    BY <1>2, <1>4, <1>5, <1>6, <2>1, <2>2 DEF Apart, Typed
  <2>5. \A u, v \in Workers :
          task'[u].step = "close" /\ task'[v].step = "close" /\ task'[u].gen = task'[v].gen => u = v
    BY <1>2, <1>4 DEF Apart, Typed
  <2>6. (\A i \in 1..Len(log) : log[i].event = "connection_closed" => Settled(log[i].of))'
    <3>1. SUFFICES ASSUME NEW i \in 1..Len(log), log[i].event = "connection_closed"
                   PROVE  Settled(log[i].of)'
      BY <1>6
    <3>2. Settled(log[i].of)
      BY <3>1 DEF Apart
    <3>3. log[i].of \notin (active \cup removed)'
      BY <1>5, <1>6, <2>1, <3>2 DEF Settled
    <3>4. \A v \in Workers : task'[v].step = "close" => task'[v].gen # log[i].of
      BY <1>2, <1>4, <3>2 DEF Settled, Typed
    <3>5. QED BY <1>6, <3>3, <3>4 DEF Settled
  <2>7. QED BY <2>3, <2>4, <2>5, <2>6 DEF Apart
<1>13. ClosedComesLast'
  BY <1>6 DEF ClosedComesLast
<1>14. QED BY <1>8, <1>9, <1>11, <1>12, <1>13

(* Rows nobody holds leave the table, for the cleanup thread or for good.  *)
LEMMA RowsLeave ==
    ASSUME IInv, NEW Old \in SUBSET active, Old \cap RowsHeld = {},
           active' = active \ Old, archive' \subseteq Generations,
           removed' \subseteq removed \cup Old, passed_over' \subseteq Generations,
           UNCHANGED <<opened, task, cleaning, should_stop, log>>
    PROVE  IInv'
<1> USE DEF IInv
<1>1. Typed'
  BY DEF Typed
<1>2. Room'
  BY DEF Room, Inserting
<1>3. Fresh'
  BY DEF Fresh
<1>4. Apart'
  <2>1. \A w \in Workers : task[w].step = "log_new" => task[w].gen \notin Old
    BY DEF RowsHeld
  <2>2. \A g \in Generations : Settled(g) => Settled(g)'
    BY DEF Settled
  <2>3. (\A i \in 1..Len(log) : log[i].event = "connection_closed" => Settled(log[i].of))'
    BY <2>2, LogTypes DEF Apart, Typed
  <2>4. QED BY <2>1, <2>3 DEF Apart
<1>5. ClosedComesLast'
  BY DEF ClosedComesLast
<1>6. QED BY <1>1, <1>2, <1>3, <1>4, <1>5

LEMMA SplitDroppedStep ==
    ASSUME IInv, NEW w \in Workers, NEW g \in active, SplitDropped(w, g)
    PROVE  IInv'
<1>1. {g} \in SUBSET active /\ {g} \cap RowsHeld = {}
  BY DEF SplitDropped
<1>2. active' = active \ {g} /\ archive' \subseteq archive \cup {g}
  BY DEF SplitDropped, Table!Retire, Table!Trimmed
<1>3. UNCHANGED <<opened, task, removed, cleaning, should_stop, log>>
      /\ passed_over' = passed_over \cup {g}
  BY DEF SplitDropped, cleaner
<1>4. archive' \subseteq Generations /\ passed_over' \subseteq Generations
  BY <1>1, <1>2, <1>3 DEF IInv, Typed
<1>5. QED BY <1>1, <1>2, <1>3, <1>4, RowsLeave

LEMMA SweepStep ==
    ASSUME IInv, NEW Old \in SUBSET active, Sweep(Old)
    PROVE  IInv'
<1>1. Old \cap RowsHeld = {}
  BY DEF Sweep
<1>2. active' = active \ Old /\ archive' \subseteq archive \cup Old
  BY DEF Sweep, Table!Retire, Table!Trimmed
<1>3. UNCHANGED <<opened, task, cleaning, should_stop, log, passed_over>> /\ removed' = Old
  BY DEF Sweep
<1>4. archive' \subseteq Generations /\ passed_over' \subseteq Generations
  BY <1>2, <1>3 DEF IInv, Typed
<1>5. QED BY <1>1, <1>2, <1>3, <1>4, RowsLeave

LEMMA ClearStep ==
    ASSUME IInv, Clear
    PROVE  IInv'
<1>1. active \cap RowsHeld = {} /\ active' = active \ active /\ archive' = {}
  BY DEF Clear, Table!Empty
<1>2. UNCHANGED <<opened, task, removed, cleaning, should_stop, log, passed_over>>
  BY DEF Clear, cleaner
<1>3. passed_over' \subseteq Generations
  BY <1>2 DEF IInv, Typed
<1>4. QED BY <1>1, <1>2, <1>3, RowsLeave

-----------------------------------------------------------------------------
(* An event is logged of a generation that no close was logged of; if it   *)
(* is the close, the generation is settled.                                *)
LEMMA EventLogged ==
    ASSUME IInv, NEW event \in {"new_connection", "connection_closed"},
           NEW g \in Generations, Logged(event, g), g.at < opened, UNCHANGED opened,
           ~Settled(g),
           \A h \in Generations : Settled(h) => Settled(h)',
           event = "connection_closed" => Settled(g)'
    PROVE  /\ log' \in Seq(Events)
           /\ ClosedComesLast'
           /\ (\A i \in 1..Len(log) : log[i].of.at < opened)'
           /\ (\A i \in 1..Len(log) : log[i].event = "connection_closed" => Settled(log[i].of))'
<1> USE DEF IInv
<1> DEFINE e == [event |-> event, of |-> g]
<1>1. e \in Events /\ e.of = g /\ e.event = event
  BY DEF Events
<1>2. log' = Append(log, e)
  BY DEF Logged
<1>3. ClosedComesLast'
  <2>1. \A i \in 1..Len(log) : log[i].of = g => log[i].event = "new_connection"
    BY LogTypes DEF Apart, Typed, Events
  <2>2. QED BY <2>1, AppendKeepsOrder DEF Typed
<1> HIDE DEF e
<1>4. log' \in Seq(Events)
  BY <1>1, <1>2, Appended DEF Typed
<1>5. \A i \in 1..Len(log') : log'[i] = e \/ \E j \in 1..Len(log) : log'[i] = log[j]
  BY <1>1, <1>2, Appended DEF Typed
<1>6. (\A i \in 1..Len(log) : log[i].of.at < opened)'
  BY <1>1, <1>5 DEF Fresh
<1>7. (\A i \in 1..Len(log) : log[i].event = "connection_closed" => Settled(log[i].of))'
  <2>1. ASSUME NEW i \in 1..Len(log'), log'[i].event = "connection_closed",
               NEW h \in Generations, h = log'[i].of
        PROVE  Settled(h)'
    <3>1. CASE log'[i] = e
      BY <1>1, <2>1, <3>1
    <3>2. CASE \E j \in 1..Len(log) : log'[i] = log[j]
      BY <2>1, <3>2 DEF Apart
    <3>3. QED BY <1>5, <3>1, <3>2
  <2>2. \A i \in 1..Len(log') : log'[i].of \in Generations
    BY <1>1, <1>5, LogTypes DEF Typed
  <2>3. QED BY <2>1, <2>2 DEF Settled
<1>8. QED BY <1>3, <1>4, <1>6, <1>7

(* A worker writes the close of the generation it split, and of no other   *)
(* worker's: it is settled from then on.                                   *)
LEMMA LogSplitStep ==
    ASSUME IInv, NEW w \in Workers, LogSplit(w)
    PROVE  IInv'
<1> USE DEF IInv
<1> DEFINE t == Task("look_up", task[w].key, NoGen)
<1>1. PICK g \in Generations : g = task[w].gen
  BY DEF LogSplit, Typed
<1>2. task[w].step = "close" /\ task[w].key \in Keys
  BY DEF LogSplit, Typed, Tasks
<1>3. t \in Tasks /\ t.step = "look_up" /\ t.gen = NoGen
  BY <1>2, TaskTypes DEF Steps
<1>4. task' = [task EXCEPT ![w] = t] /\ Logged("connection_closed", g)
  BY <1>1 DEF LogSplit
<1>5. UNCHANGED <<active, archive, opened, removed, cleaning, should_stop, passed_over>>
  BY DEF LogSplit, table, cleaner
<1> HIDE DEF t
<1>6. g \notin active \cup removed /\ g.at < opened /\ ~Settled(g)
  BY <1>1, <1>2 DEF Apart, Fresh, Settled
<1>7. \A v \in Workers :
        task'[v].step = "close" => v # w /\ task'[v] = task[v]
  BY <1>3, <1>4 DEF Typed
<1>8. \A h \in Generations : Settled(h) => Settled(h)'
  BY <1>5, <1>7 DEF Settled
<1>9. Settled(g)'
  <2>1. \A v \in Workers : task'[v].step = "close" => task'[v].gen # g
    BY <1>1, <1>2, <1>7 DEF Apart
  <2>2. QED BY <1>5, <1>6, <2>1 DEF Settled
<1>10. /\ log' \in Seq(Events)
       /\ ClosedComesLast'
       /\ (\A i \in 1..Len(log) : log[i].of.at < opened)'
       /\ (\A i \in 1..Len(log) : log[i].event = "connection_closed" => Settled(log[i].of))'
  BY <1>4, <1>5, <1>6, <1>8, <1>9, EventLogged
<1>11. Typed'
  BY <1>3, <1>4, <1>5, <1>10 DEF Typed
<1>12. Room'
  BY <1>3, <1>4, <1>5, RoomKept
<1>13. Fresh'
  BY <1>5, <1>7, <1>10 DEF Fresh
<1>14. Apart'
  <2>1. \A v \in Workers : task'[v].step = "log_new" => task'[v] = task[v]
    BY <1>3, <1>4 DEF Typed
  <2>2. QED BY <1>5, <1>7, <1>10, <2>1 DEF Apart
<1>15. QED BY <1>10, <1>11, <1>12, <1>13, <1>14

(* The cleanup thread writes the close of a row it has taken away.         *)
LEMMA LogRemovedStep ==
    ASSUME IInv, LogRemoved
    PROVE  IInv'
<1> USE DEF IInv
<1>1. PICK g \in removed : Logged("connection_closed", g) /\ removed' = removed \ {g}
  BY DEF LogRemoved
<1>2. UNCHANGED <<active, archive, opened, task, cleaning, should_stop, passed_over>>
  BY DEF LogRemoved, table
<1>3. g \in Generations /\ g.at < opened /\ ~Settled(g)
  BY DEF Typed, Fresh, Settled
<1>4. \A h \in Generations : Settled(h) => Settled(h)'
  BY <1>1, <1>2 DEF Settled
<1>5. Settled(g)'
  BY <1>1, <1>2 DEF Apart, Settled
<1>6. /\ log' \in Seq(Events)
      /\ ClosedComesLast'
      /\ (\A i \in 1..Len(log) : log[i].of.at < opened)'
      /\ (\A i \in 1..Len(log) : log[i].event = "connection_closed" => Settled(log[i].of))'
  BY <1>1, <1>2, <1>3, <1>4, <1>5, EventLogged
<1>7. Typed'
  BY <1>1, <1>2, <1>6 DEF Typed
<1>8. Room'
  BY <1>2 DEF Room, Inserting
<1>9. Fresh'
  BY <1>1, <1>2, <1>6 DEF Fresh
<1>10. Apart'
  BY <1>1, <1>2, <1>6 DEF Apart
<1>11. QED BY <1>6, <1>7, <1>8, <1>9, <1>10

(* The row a worker is announcing is still in the table.                   *)
LEMMA LogNewStep ==
    ASSUME IInv, NEW w \in Workers, LogNew(w)
    PROVE  IInv'
<1> USE DEF IInv
<1>1. PICK g \in Generations : g = task[w].gen
  BY DEF LogNew, Typed
<1>2. task[w].step = "log_new" /\ task[w].key \in Keys
  BY DEF LogNew, Typed, Tasks
<1>3. Idle \in Tasks /\ Idle.step = "idle" /\ Idle.gen = NoGen
  BY <1>2, TaskTypes
<1>4. task' = [task EXCEPT ![w] = Idle] /\ Logged("new_connection", g)
  BY <1>1 DEF LogNew
<1>5. UNCHANGED <<active, archive, opened, removed, cleaning, should_stop, passed_over>>
  BY DEF LogNew, table, cleaner
<1>6. g \in active /\ g.at < opened /\ ~Settled(g)
  BY <1>1, <1>2 DEF Apart, Fresh, Settled
<1>7. \A v \in Workers :
        task'[v].step \in {"close", "log_new"} => v # w /\ task'[v] = task[v]
  BY <1>3, <1>4 DEF Typed
<1>8. \A h \in Generations : Settled(h) => Settled(h)'
  BY <1>5, <1>7 DEF Settled
<1>9. /\ log' \in Seq(Events)
      /\ ClosedComesLast'
      /\ (\A i \in 1..Len(log) : log[i].of.at < opened)'
      /\ (\A i \in 1..Len(log) : log[i].event = "connection_closed" => Settled(log[i].of))'
  BY <1>4, <1>5, <1>6, <1>8, EventLogged
<1>10. Typed'
  BY <1>3, <1>4, <1>5, <1>9 DEF Typed
<1>11. Room'
  BY <1>3, <1>4, <1>5, RoomKept
<1>12. Fresh'
  BY <1>5, <1>7, <1>9 DEF Fresh
<1>13. Apart'
  BY <1>5, <1>7, <1>9 DEF Apart
<1>14. QED BY <1>9, <1>10, <1>11, <1>12, <1>13

(* A worker finds a row of the table under its key, or none.               *)
LEMMA LookUpStep ==
    ASSUME IInv, NEW w \in Workers, LookUp(w)
    PROVE  IInv'
<1> USE DEF IInv
<1>1. task[w].step = "look_up" /\ task[w].key \in Keys
  BY DEF LookUp, Typed, Tasks
<1>2. UNCHANGED <<active, archive, opened, removed, cleaning, should_stop, log, passed_over>>
  BY DEF LookUp, table, cleaner
<1>3. PICK t \in Tasks :
        /\ task' = [task EXCEPT ![w] = t]
        /\ \/ t.step = "log_new" /\ t.gen \in active
           \/ t.step = "idle" /\ t.gen = NoGen
  <2>1. CASE \E g \in active :
               g.key = task[w].key /\ task' = [task EXCEPT ![w] = Task("log_new", g.key, g)]
    <3>1. PICK g \in active : task' = [task EXCEPT ![w] = Task("log_new", task[w].key, g)]
      BY <2>1
    <3>2. g \in Generations /\ "log_new" \in Steps
      BY DEF Typed, Steps
    <3>3. /\ Task("log_new", task[w].key, g) \in Tasks
          /\ Task("log_new", task[w].key, g).step = "log_new"
          /\ Task("log_new", task[w].key, g).gen = g
      BY <1>1, <3>2, TaskTypes
    <3>4. QED BY <3>1, <3>3
  <2>2. CASE task' = [task EXCEPT ![w] = Idle]
    BY <1>1, <2>2, TaskTypes
  <2>3. QED BY <2>1, <2>2 DEF LookUp
<1>4. Typed'
  BY <1>2, <1>3 DEF Typed
<1>5. Room'
  BY <1>2, <1>3, RoomKept
<1>6. \A v \in Workers : task'[v].step = "close" => task'[v] = task[v]
  BY <1>3 DEF Typed
<1>7. Fresh'
  BY <1>2, <1>6 DEF Fresh
<1>8. Apart'
  <2>1. \A v \in Workers : task'[v].step = "log_new" => task'[v].gen \in active'
    BY <1>2, <1>3 DEF Apart, Typed
  <2>2. (\A i \in 1..Len(log) : log[i].event = "connection_closed" => Settled(log[i].of))'
    BY <1>2, <1>6 DEF Apart, Settled
  <2>3. QED BY <1>2, <1>6, <2>1, <2>2 DEF Apart
<1>9. ClosedComesLast'
  BY <1>2 DEF ClosedComesLast
<1>10. QED BY <1>4, <1>5, <1>7, <1>8, <1>9

(* Stopping, and steps that leave everything as it was.                    *)
LEMMA OtherSteps ==
    ASSUME IInv, LeaveLoop \/ Stop \/ UNCHANGED threads
    PROVE  IInv'
<1> USE DEF IInv
<1>1. UNCHANGED <<active, archive, opened, task, removed, log, passed_over>>
      /\ should_stop' \in BOOLEAN /\ cleaning' \in BOOLEAN
  BY DEF LeaveLoop, Stop, threads, table, cleaner, Typed
<1>2. Typed' /\ Room'
  BY <1>1 DEF Typed, Room, Inserting
<1>3. Fresh' /\ Apart' /\ ClosedComesLast'
  BY <1>1 DEF Fresh, Apart, Settled, ClosedComesLast
<1>4. QED BY <1>2, <1>3

-----------------------------------------------------------------------------
(* The process ends without a move of its threads, so what holds of their  *)
(* steps holds of all steps.                                               *)
LEMMA WhileLiving == [Next]_vars => [Step]_threads
BY DEF Next, Living, ProcessExits, vars

(* The inductive invariant holds in every reachable state.                 *)
THEOREM Inductive == Spec => []IInv
<1>1. Init => IInv
  BY InitIInv
<1>2. IInv /\ [Next]_vars => IInv'
  <2>1. SUFFICES ASSUME IInv, [Step]_threads PROVE IInv'
    BY WhileLiving
  <2>2. ASSUME NEW w \in Workers, NEW k \in Keys, PassCap(w, k) PROVE IInv'
    BY <2>1, <2>2, PassCapStep
  <2>3. ASSUME NEW w \in Workers, NEW g \in active, Split(w, g) \/ SplitDropped(w, g)
        PROVE  IInv'
    BY <2>1, <2>3, SplitStep, SplitDroppedStep
  <2>4. ASSUME NEW w \in Workers, Work(w) PROVE IInv'
    BY <2>1, <2>4, InsertStep, LogSplitStep, LookUpStep, LogNewStep DEF Work
  <2>5. ASSUME NEW Old \in SUBSET active, Sweep(Old) PROVE IInv'
    BY <2>1, <2>5, SweepStep
  <2>6. CASE LogRemoved
    BY <2>1, <2>6, LogRemovedStep
  <2>7. CASE Clear
    BY <2>1, <2>7, ClearStep
  <2>8. CASE LeaveLoop \/ Stop \/ UNCHANGED threads
    BY <2>1, <2>8, OtherSteps
  <2>9. QED BY <2>1, <2>2, <2>3, <2>4, <2>5, <2>6, <2>7, <2>8 DEF Step
<1>3. QED BY <1>1, <1>2, PTL DEF Spec

(* Every variable of the event log has its type; in particular the numbers *)
(* given to generations never pass the bound.                              *)
THEOREM TypeCorrect == Spec => []TypeOK
<1>1. IInv /\ exited \in BOOLEAN => TypeOK
  BY EventLogAssumption DEF IInv, Typed, Room, TypeOK, Tasks
<1>2. Spec => [](exited \in BOOLEAN)
  <2>1. Init => exited \in BOOLEAN
    BY DEF Init
  <2>2. exited \in BOOLEAN /\ [Next]_vars => (exited \in BOOLEAN)'
    BY DEF Next, Living, ProcessExits, vars
  <2>3. QED BY <2>1, <2>2, PTL DEF Spec
<1>3. QED BY <1>1, <1>2, Inductive, PTL

(* update_connection and the cleanup thread never log anything of a        *)
(* generation after its connection_closed, however many of them there are. *)
THEOREM ClosesLast == Spec => []ClosedComesLast
<1>1. IInv => ClosedComesLast
  BY DEF IInv
<1>2. QED BY <1>1, Inductive, PTL

(* A worker that logs a new_connection finds the row still in the table:   *)
(* no cleanup, split or clear takes it away meanwhile.                     *)
THEOREM AnnouncesLiveRows ==
    Spec => [](\A w \in Workers : task[w].step = "log_new" => task[w].gen \in active)
<1>1. IInv => \A w \in Workers : task[w].step = "log_new" => task[w].gen \in active
  BY DEF IInv, Apart
<1>2. QED BY <1>1, Inductive, PTL

-----------------------------------------------------------------------------
(* No event is forgotten                                                   *)

(* The row a worker looks up by its key is the only one under it.          *)
OneRow == \A g, h \in active : g.key = h.key => g = h

EInv == OneRow /\ NoEventForgotten

(* What has been logged stays in the log, and what is logged is there.     *)
LEMMA LogGrows ==
    ASSUME Typed, NEW event \in {"new_connection", "connection_closed"},
           NEW g \in Generations, Logged(event, g)
    PROVE  /\ \A h : (Announced(h) => Announced(h)') /\ (Closed(h) => Closed(h)')
           /\ event = "new_connection" => Announced(g)'
           /\ event = "connection_closed" => Closed(g)'
<1> DEFINE e == [event |-> event, of |-> g]
<1>1. e \in Events
  BY DEF Events
<1>2. log' = Append(log, e)
  BY DEF Logged
<1> HIDE DEF e
<1>3. /\ Len(log) \in Nat /\ Len(log') = Len(log) + 1
      /\ \A i \in 1..Len(log) : log'[i] = log[i]
      /\ log'[Len(log) + 1] = e
  BY <1>1, <1>2, Appended DEF Typed
<1>4. \A i \in 1..Len(log) : i \in 1..Len(log') /\ log'[i] = log[i]
  BY <1>3
<1>5. Len(log) + 1 \in 1..Len(log')
  BY <1>3
<1>6. QED BY <1>3, <1>4, <1>5 DEF Announced, Closed, e

(* Workers that do nothing for g forget nothing of it.                     *)
LEMMA OthersRemember ==
    ASSUME Typed, NEW w \in Workers, NEW t \in Tasks, task' = [task EXCEPT ![w] = t], NEW g
    PROVE  /\ w \notin Announcing(g) => Announcing(g) \subseteq Announcing(g)'
           /\ w \notin Closing(g) => Closing(g) \subseteq Closing(g)'
           /\ Announcing(g) \subseteq Announcing(g)' \cup {w}
           /\ Closing(g) \subseteq Closing(g)' \cup {w}
BY DEF Typed, Announcing, Closing

LEMMA PassCapRemembers ==
    ASSUME IInv, EInv, NEW w \in Workers, NEW k \in Keys, PassCap(w, k)
    PROVE  EInv'
<1>1. PICK t \in Tasks : task' = [task EXCEPT ![w] = t]
  <2>1. Task("insert", k, NoGen) \in Tasks
    BY TaskTypes DEF Steps
  <2>2. QED BY <2>1 DEF PassCap
<1>2. UNCHANGED <<active, archive, removed, log, passed_over>>
  BY DEF PassCap, table, cleaner
<1>3. \A g : w \notin Announcing(g) /\ w \notin Closing(g)
  BY DEF PassCap, Idle, Task, Announcing, Closing
<1>4. \A g : (Announced(g) => Announced(g)') /\ (Closed(g) => Closed(g)')
  BY <1>2 DEF Announced, Closed
<1>5. \A g : Announcing(g) \subseteq Announcing(g)' /\ Closing(g) \subseteq Closing(g)'
  BY <1>1, <1>3, OthersRemember DEF IInv
<1>6. QED BY <1>2, <1>4, <1>5 DEF EInv, OneRow, NoEventForgotten

(* Whoever opens a generation goes on to announce what is under its key.   *)
LEMMA InsertRemembers ==
    ASSUME IInv, EInv, NEW w \in Workers, Insert(w)
    PROVE  EInv'
<1> DEFINE k == task[w].key
<1>1. k \in Keys /\ task[w].step = "insert"
  BY DEF Insert, IInv, Typed, Tasks
<1>2. UNCHANGED <<archive, removed, log, passed_over>>
  BY DEF Insert, cleaner, table, Table!Open
<1>3. /\ Idle \in Tasks
      /\ Task("look_up", k, NoGen) \in Tasks
      /\ Task("look_up", k, NoGen).step = "look_up" /\ Task("look_up", k, NoGen).key = k
  BY <1>1, TaskTypes DEF Steps, Task
<1>4. \A g : w \notin Announcing(g) /\ w \notin Closing(g)
  BY <1>1 DEF Announcing, Closing
<1>5. \A g : Announcing(g) \subseteq Announcing(g)' /\ Closing(g) \subseteq Closing(g)'
  BY <1>3, <1>4, OthersRemember DEF IInv, Insert
<1>6. \A g : (Announced(g) => Announced(g)') /\ (Closed(g) => Closed(g)')
  BY <1>2 DEF Announced, Closed
<1>7. CASE Table!Open(NextGeneration(k)) /\ task' = [task EXCEPT ![w] = Task("look_up", k, NoGen)]
  <2>1. PICK n : n.key = k /\ active' = active \cup {n} /\ \A g \in active : g.key # k
    BY <1>7 DEF Table!Open, Table!KeysOf, NextGeneration
  <2>2. w \in Announcing(n)'
    <3>1. task'[w] = Task("look_up", k, NoGen)
      BY <1>7 DEF IInv, Typed
    <3>2. QED BY <1>3, <2>1, <3>1 DEF Announcing
  <2>3. OneRow'
    BY <2>1 DEF EInv, OneRow
  <2>4. \A g \in active' : Announced(g)' \/ Announcing(g)' # {}
    BY <1>5, <1>6, <2>1, <2>2 DEF EInv, NoEventForgotten
  <2>5. QED BY <1>2, <1>5, <1>6, <2>3, <2>4 DEF EInv, NoEventForgotten
<1>8. CASE UNCHANGED table
  BY <1>2, <1>5, <1>6, <1>8 DEF table, EInv, OneRow, NoEventForgotten
<1>9. QED BY <1>7, <1>8 DEF Insert

(* The worker that splits a row has both to log: its close, and whatever   *)
(* is under its key then.                                                  *)
LEMMA SplitRemembers ==
    ASSUME IInv, EInv, NEW w \in Workers, NEW g \in active, Split(w, g)
    PROVE  EInv'
<1> DEFINE t == Task("close", g.key, g)
<1>1. g \in Generations /\ g.key \in Keys
  BY DEF IInv, Typed, Generations
<1>2. t \in Tasks /\ t.step = "close" /\ t.gen = g /\ t.key = g.key
  BY <1>1, TaskTypes DEF Steps, Task
<1>3. PICK n : n.key = g.key /\ active' = (active \ {g}) \cup {n}
  BY DEF Split, Table!Retire, NextGeneration
<1>4. /\ archive' \subseteq archive \cup {g}
      /\ task' = [task EXCEPT ![w] = t]
      /\ UNCHANGED <<removed, log, passed_over>>
  BY DEF Split, Table!Retire, Table!Trimmed, cleaner
<1>5. \A h : w \notin Announcing(h) /\ w \notin Closing(h)
  BY DEF Split, Idle, Task, Announcing, Closing
<1> HIDE DEF t
<1>6. \A h : Announcing(h) \subseteq Announcing(h)' /\ Closing(h) \subseteq Closing(h)'
  BY <1>2, <1>4, <1>5, OthersRemember DEF IInv
<1>7. \A h : (Announced(h) => Announced(h)') /\ (Closed(h) => Closed(h)')
  BY <1>4 DEF Announced, Closed
<1>8. w \in Announcing(n)' /\ w \in Closing(g)'
  <2>1. task'[w] = t
    BY <1>4 DEF IInv, Typed
  <2>2. QED BY <1>2, <1>3, <2>1 DEF Announcing, Closing
<1>9. OneRow'
  BY <1>3 DEF EInv, OneRow
<1>10. NoEventForgotten'
  <2>1. \A h \in active' : Announced(h)' \/ Announcing(h)' # {}
    BY <1>3, <1>6, <1>7, <1>8 DEF EInv, NoEventForgotten
  <2>2. \A h \in (archive \ passed_over)' : Closed(h)' \/ h \in removed' \/ Closing(h)' # {}
    BY <1>4, <1>6, <1>7, <1>8 DEF EInv, NoEventForgotten
  <2>3. QED BY <2>1, <2>2 DEF NoEventForgotten
<1>11. QED BY <1>9, <1>10 DEF EInv

(* Rows leave the table for the cleanup thread, for nobody when a split is *)
(* dropped, and for good when the table is cleared.                        *)
LEMMA LeavingRemembers ==
    ASSUME EInv, UNCHANGED <<task, log>>, active' \subseteq active,
           passed_over \subseteq passed_over', removed \subseteq removed',
           archive' \subseteq archive \cup removed' \cup passed_over'
    PROVE  EInv'
<1>1. \A g : Announced(g)' = Announced(g) /\ Closed(g)' = Closed(g)
  BY DEF Announced, Closed
<1>2. \A g : Announcing(g)' = Announcing(g) /\ Closing(g)' = Closing(g)
  BY DEF Announcing, Closing
<1>3. QED BY <1>1, <1>2 DEF EInv, OneRow, NoEventForgotten

LEMMA RetiringRemembers ==
    ASSUME EInv,
           \/ \E Old \in SUBSET active : Sweep(Old)
           \/ \E w \in Workers, g \in active : SplitDropped(w, g)
           \/ Clear \/ LeaveLoop \/ Stop \/ UNCHANGED threads
    PROVE  EInv'
<1>1. CASE \E Old \in SUBSET active : Sweep(Old)
  <2>1. PICK Old \in SUBSET active : Sweep(Old)
    BY <1>1
  <2>2. active' \subseteq active /\ archive' \subseteq archive \cup Old
    BY <2>1 DEF Sweep, Table!Retire, Table!Trimmed
  <2>3. removed = {} /\ removed' = Old /\ UNCHANGED <<task, log, passed_over>>
    BY <2>1 DEF Sweep
  <2>4. QED BY <2>2, <2>3, LeavingRemembers
<1>2. CASE \E w \in Workers, g \in active : SplitDropped(w, g)
  <2>1. PICK w \in Workers, g \in active : SplitDropped(w, g)
    BY <1>2
  <2>2. active' \subseteq active /\ archive' \subseteq archive \cup {g}
    BY <2>1 DEF SplitDropped, Table!Retire, Table!Trimmed
  <2>3. passed_over' = passed_over \cup {g} /\ UNCHANGED <<task, log, removed>>
    BY <2>1 DEF SplitDropped, cleaner
  <2>4. QED BY <2>2, <2>3, LeavingRemembers
<1>3. CASE Clear
  <2>1. active' = {} /\ archive' = {} /\ UNCHANGED <<task, log, removed, passed_over>>
    BY <1>3 DEF Clear, Table!Empty, cleaner
  <2>2. QED BY <2>1, LeavingRemembers
<1>4. CASE LeaveLoop \/ Stop \/ UNCHANGED threads
  <2>1. UNCHANGED <<active, archive, task, log, removed, passed_over>>
    BY <1>4 DEF LeaveLoop, Stop, threads, table, cleaner
  <2>2. QED BY <2>1, LeavingRemembers
<1>5. QED BY <1>1, <1>2, <1>3, <1>4

(* The close is in the log, and the worker goes on to the look-up.         *)
LEMMA LogSplitRemembers ==
    ASSUME IInv, EInv, NEW w \in Workers, LogSplit(w)
    PROVE  EInv'
<1> DEFINE t == Task("look_up", task[w].key, NoGen)
<1>1. /\ task[w].step = "close" /\ task[w].key \in Keys /\ task[w].gen \in Generations
      /\ Logged("connection_closed", task[w].gen)
      /\ task' = [task EXCEPT ![w] = t]
      /\ UNCHANGED <<active, archive, removed, passed_over>>
  BY DEF LogSplit, IInv, Typed, Tasks, table, cleaner
<1>2. t \in Tasks /\ t.step = "look_up" /\ t.key = task[w].key
  BY <1>1, TaskTypes DEF Steps, Task
<1> HIDE DEF t
<1> PICK c \in Generations : c = task[w].gen
  BY <1>1
<1>3. /\ \A g : (Announced(g) => Announced(g)') /\ (Closed(g) => Closed(g)')
      /\ Closed(c)'
  BY <1>1, LogGrows DEF IInv
<1>4. \A g : Announcing(g) \subseteq Announcing(g)'
  <2>1. task'[w] = t
    BY <1>1 DEF IInv, Typed
  <2>2. \A g : w \in Announcing(g) => w \in Announcing(g)'
    BY <1>1, <1>2, <2>1 DEF Announcing
  <2>3. \A g : Announcing(g) \subseteq Announcing(g)' \cup {w}
    BY <1>1, <1>2, OthersRemember DEF IInv
  <2>4. QED BY <2>2, <2>3, <1>1, <1>2, OthersRemember DEF IInv
<1>5. \A g : Closed(g)' \/ Closing(g) \subseteq Closing(g)'
  <2>1. \A g : w \in Closing(g) => g = c
    BY DEF Closing
  <2>2. \A g : w \notin Closing(g) => Closing(g) \subseteq Closing(g)'
    BY <1>1, <1>2, OthersRemember DEF IInv
  <2>3. QED BY <1>3, <2>1, <2>2
<1>6. QED BY <1>1, <1>3, <1>4, <1>5 DEF EInv, OneRow, NoEventForgotten

(* The row found is the one under the key, so nothing else waits for it.   *)
LEMMA LookUpRemembers ==
    ASSUME IInv, EInv, NEW w \in Workers, LookUp(w)
    PROVE  EInv'
<1>1. /\ task[w].step = "look_up" /\ task[w].key \in Keys
      /\ UNCHANGED <<active, archive, removed, log, passed_over>>
  BY DEF LookUp, IInv, Typed, Tasks, table, cleaner
<1>2. PICK t \in Tasks :
        /\ task' = [task EXCEPT ![w] = t]
        /\ \/ t.step = "log_new" /\ t.gen \in active /\ t.gen.key = task[w].key
           \/ task[w].key \notin Table!KeysOf(active)
  <2>1. CASE \E g \in active :
               g.key = task[w].key /\ task' = [task EXCEPT ![w] = Task("log_new", g.key, g)]
    <3>1. PICK g \in active :
            g.key = task[w].key /\ task' = [task EXCEPT ![w] = Task("log_new", task[w].key, g)]
      BY <2>1
    <3>2. g \in Generations /\ "log_new" \in Steps
      BY DEF IInv, Typed, Steps
    <3>3. /\ Task("log_new", task[w].key, g) \in Tasks
          /\ Task("log_new", task[w].key, g).step = "log_new"
          /\ Task("log_new", task[w].key, g).gen = g
      BY <1>1, <3>2, TaskTypes
    <3>4. QED BY <3>1, <3>3
  <2>2. CASE task[w].key \notin Table!KeysOf(active) /\ task' = [task EXCEPT ![w] = Idle]
    BY <1>1, <2>2, TaskTypes
  <2>3. QED BY <2>1, <2>2 DEF LookUp
<1>3. \A g : (Announced(g) => Announced(g)') /\ (Closed(g) => Closed(g)')
  BY <1>1 DEF Announced, Closed
<1>4. task'[w] = t
  BY <1>2 DEF IInv, Typed
<1>5. \A g \in active : Announcing(g) # {} => Announcing(g)' # {}
  <2> SUFFICES ASSUME NEW g \in active, Announcing(g) # {} PROVE Announcing(g)' # {}
    OBVIOUS
  <2>1. CASE w \notin Announcing(g)
    BY <1>2, <2>1, OthersRemember DEF IInv
  <2>2. CASE w \in Announcing(g)
    <3>1. g.key = task[w].key
      BY <1>1, <2>2 DEF Announcing
    <3>2. task[w].key \in Table!KeysOf(active)
      BY <3>1 DEF Table!KeysOf
    <3>3. t.step = "log_new" /\ t.gen = g
      BY <1>2, <3>1, <3>2 DEF EInv, OneRow
    <3>4. w \in Announcing(g)'
      BY <1>4, <3>3 DEF Announcing
    <3>5. QED BY <3>4
  <2>3. QED BY <2>1, <2>2
<1>6. \A g : Closing(g) \subseteq Closing(g)'
  <2>1. \A g : w \notin Closing(g)
    BY <1>1 DEF Closing
  <2>2. QED BY <1>2, <2>1, OthersRemember DEF IInv
<1>7. QED BY <1>1, <1>3, <1>5, <1>6 DEF EInv, OneRow, NoEventForgotten

LEMMA LogNewRemembers ==
    ASSUME IInv, EInv, NEW w \in Workers, LogNew(w)
    PROVE  EInv'
<1>1. /\ task[w].step = "log_new" /\ task[w].key \in Keys /\ task[w].gen \in Generations
      /\ Logged("new_connection", task[w].gen)
      /\ task' = [task EXCEPT ![w] = Idle]
      /\ UNCHANGED <<active, archive, removed, passed_over>>
  BY DEF LogNew, IInv, Typed, Tasks, table, cleaner
<1>2. Idle \in Tasks
  BY <1>1, TaskTypes
<1> PICK c \in Generations : c = task[w].gen
  BY <1>1
<1>3. /\ \A g : (Announced(g) => Announced(g)') /\ (Closed(g) => Closed(g)')
      /\ Announced(c)'
  BY <1>1, LogGrows DEF IInv
<1>4. \A g : Announced(g)' \/ Announcing(g) \subseteq Announcing(g)'
  <2>1. \A g : w \in Announcing(g) => g = c
    BY <1>1 DEF Announcing
  <2>2. \A g : w \notin Announcing(g) => Announcing(g) \subseteq Announcing(g)'
    BY <1>1, <1>2, OthersRemember DEF IInv
  <2>3. QED BY <1>3, <2>1, <2>2
<1>5. \A g : Closing(g) \subseteq Closing(g)'
  <2>1. \A g : w \notin Closing(g)
    BY <1>1 DEF Closing
  <2>2. QED BY <1>1, <1>2, <2>1, OthersRemember DEF IInv
<1>6. QED BY <1>1, <1>3, <1>4, <1>5 DEF EInv, OneRow, NoEventForgotten

LEMMA LogRemovedRemembers ==
    ASSUME IInv, EInv, LogRemoved
    PROVE  EInv'
<1>1. PICK g \in removed : Logged("connection_closed", g) /\ removed' = removed \ {g}
  BY DEF LogRemoved
<1>2. g \in Generations /\ UNCHANGED <<active, archive, task, passed_over>>
  BY DEF LogRemoved, table, IInv, Typed
<1>3. /\ \A h : (Announced(h) => Announced(h)') /\ (Closed(h) => Closed(h)')
      /\ Closed(g)'
  BY <1>1, <1>2, LogGrows DEF IInv
<1>4. \A h : Announcing(h)' = Announcing(h) /\ Closing(h)' = Closing(h)
  BY <1>2 DEF Announcing, Closing
<1>5. QED BY <1>1, <1>2, <1>3, <1>4 DEF EInv, OneRow, NoEventForgotten

(* No event falls between two threads, however many workers there are: a   *)
(* generation in the table has been announced or is about to be, and an    *)
(* archived one has been logged as closed or is about to be.               *)
THEOREM NothingForgotten == Spec => []NoEventForgotten
<1>1. Init => EInv
  BY DEF Init, Table!Init, EInv, OneRow, NoEventForgotten
<1>2. IInv /\ EInv /\ [Next]_vars => EInv'
  <2> SUFFICES ASSUME IInv, EInv, [Step]_threads PROVE EInv'
    BY WhileLiving
  <2>1. ASSUME NEW w \in Workers, NEW k \in Keys, PassCap(w, k) PROVE EInv'
    BY <2>1, PassCapRemembers
  <2>2. ASSUME NEW w \in Workers, NEW g \in active, Split(w, g) PROVE EInv'
    BY <2>2, SplitRemembers
  <2>3. ASSUME NEW w \in Workers, Work(w) PROVE EInv'
    BY <2>3, InsertRemembers, LogSplitRemembers, LookUpRemembers, LogNewRemembers DEF Work
  <2>4. CASE LogRemoved
    BY <2>4, LogRemovedRemembers
  <2>5. CASE \/ \E Old \in SUBSET active : Sweep(Old)
             \/ \E w \in Workers, g \in active : SplitDropped(w, g)
             \/ Clear \/ LeaveLoop \/ Stop \/ UNCHANGED threads
    BY <2>5, RetiringRemembers
  <2>6. QED BY <2>1, <2>2, <2>3, <2>4, <2>5 DEF Step
<1>3. EInv => NoEventForgotten
  BY DEF EInv
<1>4. QED BY <1>1, <1>2, <1>3, Inductive, PTL DEF Spec

-----------------------------------------------------------------------------
(* The table under the log: what workers, cleanup and clear-all do to it   *)
(* between them is what the tracker promises of its own (RetainedTable),   *)
(* the successor of a split row being one the table never held.            *)
THEOREM KeepsItsTable == Spec => Table!Spec
<1> USE DEF Table!retained
<1>1. Init => Table!Init
  BY DEF Init
<1>2. IInv /\ [Next]_vars => [Table!Next]_Table!retained
  <2> SUFFICES ASSUME IInv, [Step]_threads PROVE Table!Next \/ UNCHANGED Table!retained
    BY WhileLiving
  <2>1. ASSUME NEW w \in Workers, Insert(w) PROVE Table!Next \/ UNCHANGED Table!retained
    <3>1. CASE Table!Open(NextGeneration(task[w].key))
      <4> DEFINE n == NextGeneration(task[w].key)
      <4>1. n \in active' \ active
        BY <3>1 DEF Table!Open, Table!KeysOf
      <4>2. QED BY <3>1, <4>1 DEF Table!Next
    <3>2. CASE UNCHANGED table
      BY <3>2 DEF table
    <3>3. QED BY <2>1, <3>1, <3>2 DEF Insert
  <2>2. ASSUME NEW w \in Workers, NEW g \in active, Split(w, g) PROVE Table!Next
    <3> DEFINE n == NextGeneration(g.key)
    <3>1. Table!Retire({g}, {n})
      BY <2>2 DEF Split
    <3>2. n \notin active
      <4>1. \A h \in active : h.at < opened
        BY DEF IInv, Fresh
      <4>2. n.at = opened /\ opened \in Nat
        BY DEF NextGeneration, IInv, Typed
      <4>3. QED BY <4>1, <4>2
    <3> HIDE DEF n
    <3>3. active' = (active \ {g}) \cup {n}
      BY <3>1 DEF Table!Retire
    <3>4. active \ active' = {g} /\ active' \ active = {n}
      BY <3>2, <3>3
    <3>5. QED BY <3>1, <3>4 DEF Table!Next
  <2>3. ASSUME NEW Old \in SUBSET active, Table!Retire(Old, {}) PROVE Table!Next
    <3>1. active' = active \ Old
      BY <2>3 DEF Table!Retire
    <3>2. active \ active' = Old /\ active' \ active = {}
      BY <3>1
    <3>3. QED BY <2>3, <3>2 DEF Table!Next
  <2>4. ASSUME NEW w \in Workers, NEW g \in active, SplitDropped(w, g) PROVE Table!Next
    BY <2>3, <2>4 DEF SplitDropped
  <2>5. ASSUME NEW Old \in SUBSET active, Sweep(Old) PROVE Table!Next
    BY <2>3, <2>5 DEF Sweep
  <2>6. CASE Clear
    BY <2>6 DEF Clear, Table!Next
  <2>7. ASSUME \/ \E w \in Workers : (\E k \in Keys : PassCap(w, k)) \/ LogSplit(w) \/ LookUp(w) \/ LogNew(w)
               \/ LogRemoved \/ LeaveLoop \/ Stop \/ UNCHANGED threads
        PROVE  UNCHANGED Table!retained
    BY <2>7 DEF PassCap, LogSplit, LookUp, LogNew, LogRemoved, LeaveLoop, Stop, threads, table
  <2>8. QED BY <2>1, <2>2, <2>4, <2>5, <2>6, <2>7 DEF Step, Work
<1>3. QED BY <1>1, <1>2, Inductive, PTL DEF Spec, Table!Spec
=============================================================================
