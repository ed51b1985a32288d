------------------------- MODULE ImageTasks_proofs -------------------------
(***************************************************************************)
(* What the locks of the image handlers guarantee, and what they do to     *)
(* each other: mutual exclusion, the bounds of the buffer, the queue and   *)
(* the permits, and that the two ways to stand still are for good.         *)
(***************************************************************************)
EXTENDS ImageTasks, FiniteSetTheorems, TLAPS

(* What the theorems ask of the constants: finitely many requests, and     *)
(* limits that are natural numbers, as usize values are.                   *)
Limited ==
  /\ IsFiniteSet(Handler) /\ Nobody \notin Handler
  /\ Permits \in Nat /\ QueueCap \in Nat /\ Workers \in Nat /\ MaxItems \in Nat

-----------------------------------------------------------------------------
Places ==
  {"idle", "insert", "send", "wait", "stuck", "estimate", "stats", "stats_items", "count",
   "generate", "admit", "admit_bytes", "release", "release_bytes", "answered"}

HoldsItems == {"admit_bytes", "release_bytes"}
Delivers == {"release", "release_bytes"}
MayBeSent == {"wait", "stuck", "answered"}

TypeOK ==
  /\ pc \in [Handler -> Places]
  /\ kind \in [Handler -> {"sync", "async", "adapted", "status"}]
  /\ task \in [Handler -> {"absent", "queued", "running", "timeout_pending"}]
  /\ writer \in Handler \cup {Nobody}
  /\ queue \in Seq(Handler) /\ working \in SUBSET Handler
  /\ items \in Nat
  /\ items_lock \in Handler \cup {Nobody} /\ bytes_lock \in Handler \cup {Nobody}

(* A mutex is held by the handler that is between lock and unlock.         *)
LocksHeld ==
  \A h \in Handler :
    /\ items_lock = h <=> pc[h] \in HoldsItems
    /\ bytes_lock = h <=> pc[h] = "stats_items"

Delivering == {h \in Handler : pc[h] \in Delivers}

(* The buffer counts the images on their way to the client.                *)
BufferCounts == items = Cardinality(Delivering) /\ items <= MaxItems

PermitsKept == Cardinality(Generating) <= Permits
QueueKept == Len(queue) <= QueueCap
WorkersKept == IsFiniteSet(working) /\ Cardinality(working) <= Workers

Waits(h) == \E i \in 1 .. Len(queue) : queue[i] = h
Sent(h) == Waits(h) \/ h \in working

(* A handler is sent to the queue at most once, after it was recorded.     *)
SentOnce ==
  /\ \A i, j \in 1 .. Len(queue) : queue[i] = queue[j] => i = j
  /\ \A h \in Handler :
       /\ ~(Waits(h) /\ h \in working)
       /\ Sent(h) => pc[h] \in MayBeSent /\ task[h] # "absent"
       /\ pc[h] \in {"idle", "insert", "generate"} => task[h] = "absent"
       /\ pc[h] = "send" => task[h] = "queued"
       /\ pc[h] = "wait" => task[h] # "absent"

(* Whoever has updated a task is still in update_state.                    *)
NobodyReturns ==
  \A h \in Handler : task[h] \in {"running", "timeout_pending"} <=> writer = h

IInv ==
  /\ TypeOK /\ LocksHeld
  /\ BufferCounts /\ PermitsKept /\ QueueKept /\ WorkersKept
  /\ SentOnce /\ NobodyReturns

Still(hs) == \A h \in hs : pc'[h] = pc[h]
At(places) == {h \in Handler : pc[h] \in places}

AllWaitForTheStore ==
  ~StoreFree => UNCHANGED store /\ Still(At({"insert", "send", "wait", "estimate", "count"}))

BuffersCross ==
  items_lock # Nobody /\ bytes_lock # Nobody
    => /\ UNCHANGED buffer
       /\ Still(At({"stats", "stats_items"} \cup HoldsItems \cup {"admit", "release"}))

-----------------------------------------------------------------------------
LEMMA GotoFacts ==
  ASSUME TypeOK, NEW h \in Handler, NEW there \in Places, Goto(h, there)
  PROVE  /\ pc' \in [Handler -> Places]
         /\ pc'[h] = there
         /\ \A q \in Handler \ {h} : pc'[q] = pc[q]
BY DEF TypeOK, Goto

(* Where a handler stands before and after each of its steps.              *)
Moves(h, from, to) ==
  /\ pc[h] \in from /\ pc'[h] \in to
  /\ pc' \in [Handler -> Places]
  /\ \A q \in Handler \ {h} : pc'[q] = pc[q]

LEMMA StepMoves ==
  ASSUME TypeOK, NEW h \in Handler
  PROVE  /\ Arrive(h) => Moves(h, {"idle"}, {"insert", "generate", "estimate", "stats"})
         /\ Insert(h) => Moves(h, {"insert"}, {"send"})
         /\ Send(h) => Moves(h, {"send"}, {"wait", "answered", "estimate"})
         /\ Deadline(h) => Moves(h, {"wait"}, {"stuck"})
         /\ Estimate(h) => Moves(h, {"estimate"}, {"stats"})
         /\ StatsLocksBytes(h) => Moves(h, {"stats"}, {"stats_items"})
         /\ StatsReads(h) => Moves(h, {"stats_items"}, {"count", "insert", "answered"})
         /\ Count(h) => Moves(h, {"count"}, {"answered"})
         /\ Generated(h) => Moves(h, {"generate"}, {"admit", "answered"})
         /\ LockItems(h) => \/ Moves(h, {"admit"}, {"admit_bytes"})
                            \/ Moves(h, {"release"}, {"release_bytes"})
         /\ TryAdmit(h) => Moves(h, {"admit_bytes"}, {"release", "estimate"})
         /\ ReleaseItem(h) => Moves(h, {"release_bytes"}, {"answered"})
<1>1. \A there \in Places : Goto(h, there)
        => /\ pc' \in [Handler -> Places]
           /\ pc'[h] = there
           /\ \A q \in Handler \ {h} : pc'[q] = pc[q]
  BY GotoFacts
<1>2. Arrive(h) => Moves(h, {"idle"}, {"insert", "generate", "estimate", "stats"})
  BY <1>1 DEF Arrive, Receive, Refuse, Moves, Places
<1>3. Send(h) => Moves(h, {"send"}, {"wait", "answered", "estimate"})
  <2> SUFFICES ASSUME Send(h) PROVE Moves(h, {"send"}, {"wait", "answered", "estimate"})
    OBVIOUS
  <2>1. PICK there \in {"wait", "answered", "estimate"} : Goto(h, there)
    BY DEF Send
  <2> QED
    BY <1>1, <2>1 DEF Send, Moves, Places
<1>4. StatsReads(h) => Moves(h, {"stats_items"}, {"count", "insert", "answered"})
  <2>1. AfterStats(h) \in {"count", "insert", "answered"}
    BY DEF AfterStats
  <2> QED
    BY <1>1, <2>1 DEF StatsReads, Moves, Places
<1>5. LockItems(h) => \/ Moves(h, {"admit"}, {"admit_bytes"})
                      \/ Moves(h, {"release"}, {"release_bytes"})
  <2>1. CASE pc[h] = "admit"
    BY <1>1, <2>1 DEF LockItems, Moves, Places
  <2>2. CASE pc[h] = "release"
    BY <1>1, <2>2 DEF LockItems, Moves, Places
  <2> QED
    BY <2>1, <2>2 DEF LockItems
<1> QED
  BY <1>1, <1>2, <1>3, <1>4, <1>5 DEF Insert, Deadline, Estimate, StatsLocksBytes, Count,
     Generated, TryAdmit, ReleaseItem, Moves, Places

LEMMA TypesKept ==
  ASSUME Limited, TypeOK, BufferCounts, [Next]_vars
  PROVE  TypeOK'
<1>1. CASE UNCHANGED vars
  BY <1>1 DEF TypeOK, vars, store, buffer
<1>2. CASE StartTask
  BY <1>2 DEF TypeOK, StartTask, store, buffer
<1>3. ASSUME NEW h \in Handler, Arrive(h)
      PROVE  TypeOK'
  BY <1>3, StepMoves DEF TypeOK, Arrive, Receive, Refuse, store, buffer, Moves
<1>4. ASSUME NEW h \in Handler, UpdateState(h)
      PROVE  TypeOK'
  BY <1>4 DEF TypeOK, UpdateState, store, buffer
<1>5. ASSUME NEW h \in Handler, Insert(h) \/ Deadline(h)
      PROVE  TypeOK'
  BY <1>5, StepMoves DEF TypeOK, Insert, Deadline, store, buffer, Moves
<1>6. ASSUME NEW h \in Handler, Send(h)
      PROVE  TypeOK'
  <2>1. pc' \in [Handler -> Places]
    BY <1>6, StepMoves DEF Moves
  <2>2. queue' = queue \/ queue' = Append(queue, h)
    BY <1>6 DEF Send
  <2>3. queue' \in Seq(Handler)
    BY <2>2 DEF TypeOK
  <2> QED
    BY <1>6, <2>1, <2>3 DEF TypeOK, Send, store, buffer
<1>7. ASSUME NEW h \in Handler,
             Estimate(h) \/ StatsLocksBytes(h) \/ StatsReads(h) \/ Count(h) \/ Generated(h)
               \/ LockItems(h)
      PROVE  TypeOK'
  <2>1. pc' \in [Handler -> Places]
    BY <1>7, StepMoves DEF Moves
  <2> QED
    BY <1>7, <2>1 DEF TypeOK, Estimate, StatsLocksBytes, StatsReads, Count, Generated, LockItems,
       store, buffer
<1>8. ASSUME NEW h \in Handler, TryAdmit(h)
      PROVE  TypeOK'
  BY <1>8, StepMoves DEF TypeOK, TryAdmit, store, Moves
<1>9. ASSUME NEW h \in Handler, ReleaseItem(h)
      PROVE  TypeOK'
  <2>1. Delivering # {} /\ IsFiniteSet(Delivering)
    BY <1>9, FS_Subset DEF Delivering, Delivers, ReleaseItem, Limited
  <2>2. items # 0
    BY <2>1, FS_EmptySet DEF BufferCounts
  <2> QED
    BY <1>9, <2>2, StepMoves DEF TypeOK, ReleaseItem, store, Moves
<1> QED
  BY <1>1, <1>2, <1>3, <1>4, <1>5, <1>6, <1>7, <1>8, <1>9 DEF Next, Advance

-----------------------------------------------------------------------------
LEMMA LocksKept ==
  ASSUME Limited, TypeOK, LocksHeld, [Next]_vars
  PROVE  LocksHeld'
<1> USE DEF LocksHeld, HoldsItems, TypeOK
<1>1. CASE UNCHANGED vars
  BY <1>1 DEF vars, buffer
<1>2. CASE StartTask \/ \E h \in Handler : UpdateState(h)
  BY <1>2 DEF StartTask, UpdateState, buffer
<1>3. ASSUME NEW h \in Handler,
             Arrive(h) \/ Insert(h) \/ Send(h) \/ Deadline(h) \/ Estimate(h) \/ Count(h)
               \/ Generated(h)
      PROVE  LocksHeld'
  <2>1. UNCHANGED buffer
    BY <1>3 DEF Arrive, Receive, Refuse, Insert, Send, Deadline, Estimate, Count, Generated
  <2>2. Moves(h, Places \ {"admit_bytes", "release_bytes", "stats_items"},
                 Places \ {"admit_bytes", "release_bytes", "stats_items"})
    BY <1>3, StepMoves DEF Moves, Places
  <2> QED
    BY <2>1, <2>2 DEF Moves, buffer
<1>4. ASSUME NEW h \in Handler, StatsLocksBytes(h)
      PROVE  LocksHeld'
  BY <1>4, StepMoves DEF StatsLocksBytes, Moves, Limited
<1>5. ASSUME NEW h \in Handler, StatsReads(h)
      PROVE  LocksHeld'
  BY <1>5, StepMoves DEF StatsReads, Moves, Limited
<1>6. ASSUME NEW h \in Handler, LockItems(h)
      PROVE  LocksHeld'
  BY <1>6, StepMoves DEF LockItems, Moves, Limited
<1>7. ASSUME NEW h \in Handler, TryAdmit(h) \/ ReleaseItem(h)
      PROVE  LocksHeld'
  BY <1>7, StepMoves DEF TryAdmit, ReleaseItem, Moves, Limited
<1> QED
  BY <1>1, <1>2, <1>3, <1>4, <1>5, <1>6, <1>7 DEF Next, Advance

-----------------------------------------------------------------------------
(* How the number of handlers at some places changes with a step of one.   *)
LEMMA Comings ==
  ASSUME Limited, TypeOK, NEW h \in Handler, NEW from, NEW to, Moves(h, from, to), NEW places
  PROVE  /\ IsFiniteSet(At(places)) /\ Cardinality(At(places)) \in Nat
         /\ from \cap places = {} /\ to \cap places = {} => At(places)' = At(places)
         /\ from \subseteq places /\ to \subseteq places => At(places)' = At(places)
         /\ from \cap places = {} /\ to \subseteq places
              => Cardinality(At(places)') = Cardinality(At(places)) + 1
         /\ from \subseteq places /\ to \cap places = {}
              => Cardinality(At(places)') = Cardinality(At(places)) - 1
<1>1. IsFiniteSet(At(places)) /\ Cardinality(At(places)) \in Nat
  BY FS_Subset, FS_CardinalityType DEF At, Limited
<1>2. from \cap places = {} /\ to \subseteq places
        => At(places)' = At(places) \cup {h} /\ h \notin At(places)
  BY DEF At, Moves
<1>3. from \subseteq places /\ to \cap places = {}
        => At(places)' = At(places) \ {h} /\ h \in At(places)
  BY DEF At, Moves
<1>4. /\ from \cap places = {} /\ to \cap places = {} => At(places)' = At(places)
      /\ from \subseteq places /\ to \subseteq places => At(places)' = At(places)
  BY DEF At, Moves
<1>5. from \cap places = {} /\ to \subseteq places
        => Cardinality(At(places)') = Cardinality(At(places)) + 1
  BY <1>1, <1>2, FS_AddElement
<1>6. from \subseteq places /\ to \cap places = {}
        => Cardinality(At(places)') = Cardinality(At(places)) - 1
  BY <1>1, <1>3, FS_RemoveElement
<1> QED
  BY <1>1, <1>4, <1>5, <1>6

LEMMA BufferKept ==
  ASSUME Limited, TypeOK, BufferCounts, [Next]_vars
  PROVE  BufferCounts'
<1>0. Delivering = At(Delivers) /\ Delivering' = At(Delivers)'
  BY DEF Delivering, At
<1>1. CASE UNCHANGED vars \/ StartTask \/ \E h \in Handler : UpdateState(h)
  BY <1>1 DEF BufferCounts, Delivering, vars, buffer, StartTask, UpdateState
<1>2. ASSUME NEW h \in Handler,
             Arrive(h) \/ Insert(h) \/ Send(h) \/ Deadline(h) \/ Estimate(h) \/ Count(h)
               \/ StatsLocksBytes(h) \/ StatsReads(h) \/ Generated(h) \/ LockItems(h)
      PROVE  BufferCounts'
  <2>1. items' = items
    BY <1>2 DEF Arrive, Receive, Refuse, Insert, Send, Deadline, Estimate, Count, Generated,
       StatsLocksBytes, StatsReads, LockItems, buffer
  <2>2. \/ Moves(h, Places \ Delivers, Places \ Delivers)
        \/ Moves(h, Delivers, Delivers)
    BY <1>2, StepMoves DEF Moves, Places, Delivers
  <2>3. At(Delivers)' = At(Delivers)
    BY <2>2, Comings
  <2> QED
    BY <1>0, <2>1, <2>3 DEF BufferCounts
<1>3. ASSUME NEW h \in Handler, TryAdmit(h)
      PROVE  BufferCounts'
  <2>1. Moves(h, {"admit_bytes"}, {"release", "estimate"})
    BY <1>3, StepMoves
  <2>2. CASE items < MaxItems
    <3>1. Moves(h, {"admit_bytes"}, {"release"}) /\ items' = items + 1
      BY <1>3, <2>1, <2>2 DEF TryAdmit, Moves, Goto, TypeOK
    <3>2. Cardinality(At(Delivers)') = Cardinality(At(Delivers)) + 1
      BY <3>1, Comings DEF Delivers
    <3> QED
      BY <1>0, <2>2, <3>1, <3>2 DEF BufferCounts, TypeOK, Limited
  <2>3. CASE ~(items < MaxItems)
    <3>1. Moves(h, {"admit_bytes"}, {"estimate"}) /\ items' = items
      BY <1>3, <2>1, <2>3 DEF TryAdmit, Moves, Goto, TypeOK
    <3>2. At(Delivers)' = At(Delivers)
      BY <3>1, Comings DEF Delivers
    <3> QED
      BY <1>0, <3>1, <3>2 DEF BufferCounts
  <2> QED
    BY <2>2, <2>3
<1>4. ASSUME NEW h \in Handler, ReleaseItem(h)
      PROVE  BufferCounts'
  <2>1. Moves(h, {"release_bytes"}, {"answered"}) /\ items' = items - 1
    BY <1>4, StepMoves DEF ReleaseItem
  <2>2. Cardinality(At(Delivers)') = Cardinality(At(Delivers)) - 1
    BY <2>1, Comings DEF Delivers
  <2> QED
    BY <1>0, <2>1, <2>2 DEF BufferCounts, TypeOK, Limited
<1> QED
  BY <1>1, <1>2, <1>3, <1>4 DEF Next, Advance

LEMMA PermitsStayKept ==
  ASSUME Limited, TypeOK, PermitsKept, [Next]_vars
  PROVE  PermitsKept'
<1>0. Generating = At({"generate"}) /\ Generating' = At({"generate"})'
  BY DEF Generating, At
<1>1. CASE UNCHANGED vars \/ StartTask \/ \E h \in Handler : UpdateState(h)
  BY <1>1 DEF PermitsKept, Generating, vars, StartTask, UpdateState
<1>2. ASSUME NEW h \in Handler, Arrive(h)
      PROVE  PermitsKept'
  <2>1. CASE pc'[h] = "generate"
    <3>1. Cardinality(Generating) < Permits /\ Moves(h, {"idle"}, {"generate"})
      BY <1>2, <2>1, StepMoves DEF Arrive, Receive, Refuse, Moves, Goto, TypeOK
    <3>2. Cardinality(At({"generate"})') = Cardinality(At({"generate"})) + 1
      BY <3>1, Comings
    <3>3. Cardinality(At({"generate"})) \in Nat
      BY <3>1, Comings
    <3> QED
      BY <1>0, <3>1, <3>2, <3>3 DEF PermitsKept, Limited
  <2>2. CASE pc'[h] # "generate"
    <3>1. Moves(h, {"idle"}, Places \ {"generate"})
      BY <1>2, <2>2, StepMoves DEF Moves, Places
    <3> QED
      BY <1>0, <3>1, Comings DEF PermitsKept
  <2> QED
    BY <2>1, <2>2
<1>3. ASSUME NEW h \in Handler, Generated(h)
      PROVE  PermitsKept'
  <2>1. Cardinality(At({"generate"})') = Cardinality(At({"generate"})) - 1
    BY <1>3, StepMoves, Comings
  <2>2. Cardinality(At({"generate"})) \in Nat
    BY <1>3, StepMoves, Comings
  <2> QED
    BY <1>0, <2>1, <2>2 DEF PermitsKept, Limited
<1>4. ASSUME NEW h \in Handler, Advance(h), ~Generated(h)
      PROVE  PermitsKept'
  <2>1. Moves(h, Places \ {"generate"}, Places \ {"generate"})
    BY <1>4, StepMoves DEF Advance, Moves, Places
  <2> QED
    BY <1>0, <2>1, Comings DEF PermitsKept
<1> QED
  BY <1>1, <1>2, <1>3, <1>4 DEF Next

-----------------------------------------------------------------------------
(* The queue: Send appends, StartTask takes the head.                      *)
LEMMA Sending ==
  ASSUME TypeOK, NEW h \in Handler, queue' = Append(queue, h)
  PROVE  /\ Len(queue') = Len(queue) + 1 /\ queue'[Len(queue) + 1] = h
         /\ \A i \in 1 .. Len(queue) : queue'[i] = queue[i]
BY DEF TypeOK

LEMMA Taking ==
  ASSUME TypeOK, StartTask
  PROVE  /\ Head(queue) \in Handler /\ Head(queue) = queue[1]
         /\ Len(queue) \in Nat /\ Len(queue) > 0 /\ Len(queue') = Len(queue) - 1
         /\ \A i \in 1 .. Len(queue') : queue'[i] = queue[i + 1]
BY DEF TypeOK, StartTask

LEMMA QueueStaysKept ==
  ASSUME Limited, TypeOK, QueueKept, [Next]_vars
  PROVE  QueueKept'
<1>1. ASSUME NEW h \in Handler, Send(h)
      PROVE  QueueKept'
  BY <1>1, Sending DEF Send, QueueKept, Limited, TypeOK
<1>2. CASE StartTask
  BY <1>2, Taking DEF QueueKept, Limited
<1>3. CASE UNCHANGED queue
  BY <1>3 DEF QueueKept
<1> QED
  BY <1>1, <1>2, <1>3 DEF Next, Advance, Arrive, Receive, Refuse, Insert, Deadline, Estimate,
     StatsLocksBytes, StatsReads, Count, Generated, LockItems, TryAdmit, ReleaseItem,
     UpdateState, vars

LEMMA WorkersStayKept ==
  ASSUME Limited, TypeOK, WorkersKept, [Next]_vars
  PROVE  WorkersKept'
<1>1. CASE StartTask
  <2>1. /\ Cardinality(working) \in Nat /\ Cardinality(working) < Workers
        /\ working' = working \cup {Head(queue)}
    BY <1>1, FS_CardinalityType DEF StartTask, WorkersKept
  <2>2. /\ IsFiniteSet(working')
        /\ \/ Cardinality(working') = Cardinality(working)
           \/ Cardinality(working') = Cardinality(working) + 1
    BY <2>1, FS_AddElement DEF WorkersKept
  <2> QED
    BY <2>1, <2>2 DEF WorkersKept, Limited
<1>2. CASE UNCHANGED working
  BY <1>2 DEF WorkersKept
<1> QED
  BY <1>1, <1>2 DEF Next, Advance, Arrive, Receive, Refuse, Insert, Send, Deadline, Estimate,
     StatsLocksBytes, StatsReads, Count, Generated, LockItems, TryAdmit, ReleaseItem,
     UpdateState, vars

-----------------------------------------------------------------------------
LEMMA SentOnceKept ==
  ASSUME Limited, TypeOK, SentOnce, [Next]_vars
  PROVE  SentOnce'
<1>0. Len(queue) \in Nat
  BY DEF TypeOK
<1>1. CASE UNCHANGED vars
  BY <1>1 DEF SentOnce, Sent, Waits, vars, store
<1>2. CASE StartTask
  <2> DEFINE t == Head(queue)
  <2>1. Waits(t) /\ t \in Handler
    BY <1>2, Taking DEF Waits
  <2>2. \A h \in Handler : Waits(h)' => Waits(h) /\ h # t
    <3> SUFFICES ASSUME NEW h \in Handler, NEW i \in 1 .. Len(queue'), queue'[i] = h
                 PROVE  Waits(h) /\ h # t
      BY DEF Waits
    <3>1. queue[i + 1] = h /\ i + 1 \in 1 .. Len(queue) /\ 1 \in 1 .. Len(queue) /\ i + 1 # 1
      BY <1>2, Taking
    <3> QED
      BY <1>2, <3>1, Taking DEF Waits, SentOnce
  <2>3. \A i, j \in 1 .. Len(queue') : queue'[i] = queue'[j] => i = j
    <3> SUFFICES ASSUME NEW i \in 1 .. Len(queue'), NEW j \in 1 .. Len(queue'),
                        queue'[i] = queue'[j]
                 PROVE  i = j
      OBVIOUS
    <3>1. /\ i + 1 \in 1 .. Len(queue) /\ j + 1 \in 1 .. Len(queue)
          /\ queue[i + 1] = queue[j + 1]
      BY <1>2, Taking
    <3> QED
      BY <3>1 DEF SentOnce
  <2>4. working' = working \cup {t} /\ UNCHANGED <<pc, task>>
    BY <1>2 DEF StartTask, store
  <2> HIDE DEF t
  <2> QED
    BY <2>1, <2>2, <2>3, <2>4 DEF SentOnce, Sent, MayBeSent
<1>3. ASSUME NEW h \in Handler, Send(h), queue' = Append(queue, h)
      PROVE  SentOnce'
  <2>1. Moves(h, {"send"}, {"wait", "answered"}) /\ task[h] = "queued"
    <3>1. pc[h] = "send" /\ Len(queue) < QueueCap
      BY <1>0, <1>3, Sending DEF Send
    <3>2. pc'[h] \in {"wait", "answered"}
      BY <1>3, <3>1 DEF Send, Goto, TypeOK
    <3> QED
      BY <1>3, <3>1, <3>2, StepMoves DEF Moves, SentOnce
  <2>2. ~Sent(h)
    BY <2>1 DEF SentOnce, MayBeSent, Moves
  <2>3. \A q \in Handler : Waits(q)' => Waits(q) \/ q = h
    BY <1>0, <1>3, Sending DEF Waits
  <2>4. \A i, j \in 1 .. Len(queue') : queue'[i] = queue'[j] => i = j
    <3> SUFFICES ASSUME NEW i \in 1 .. Len(queue'), NEW j \in 1 .. Len(queue'),
                        queue'[i] = queue'[j]
                 PROVE  i = j
      OBVIOUS
    <3>1. \A k \in 1 .. Len(queue) : queue'[k] = queue[k] /\ queue[k] # h
      BY <1>3, <2>2, Sending DEF Sent, Waits
    <3>2. \A k \in 1 .. Len(queue') :
            k \in 1 .. Len(queue) \/ (k = Len(queue) + 1 /\ queue'[k] = h)
      BY <1>0, <1>3, Sending
    <3> QED
      BY <3>1, <3>2 DEF SentOnce
  <2>5. UNCHANGED <<task, working>>
    BY <1>3 DEF Send, store
  <2> QED
    BY <2>1, <2>2, <2>3, <2>4, <2>5 DEF SentOnce, Sent, MayBeSent, Moves
<1>4. ASSUME UNCHANGED <<queue, working>>,
             NEW h \in Handler, Arrive(h) \/ Advance(h) \/ UpdateState(h)
      PROVE  SentOnce'
  <2>1. /\ \A q \in Handler : (Waits(q)' <=> Waits(q)) /\ (Sent(q)' <=> Sent(q))
        /\ \A i, j \in 1 .. Len(queue') : queue'[i] = queue'[j] => i = j
    BY <1>4 DEF Sent, Waits, SentOnce
  <2>2. \A q \in Handler \ {h} : pc'[q] = pc[q] /\ task'[q] = task[q]
    <3>1. \A q \in Handler \ {h} : task'[q] = task[q]
      BY <1>4 DEF Arrive, Receive, Refuse, Advance, Insert, Send, Deadline, Estimate,
         StatsLocksBytes, StatsReads, Count, Generated, LockItems, TryAdmit, ReleaseItem,
         UpdateState, store, TypeOK
    <3> QED
      BY <1>4, <3>1, StepMoves DEF Advance, UpdateState, Moves
  <2>3. /\ ~(Waits(h) /\ h \in working)
        /\ Sent(h) => pc'[h] \in MayBeSent /\ task'[h] # "absent"
        /\ pc'[h] \in {"idle", "insert", "generate"} => task'[h] = "absent"
        /\ pc'[h] = "send" => task'[h] = "queued"
        /\ pc'[h] = "wait" => task'[h] # "absent"
    <3>1. CASE UpdateState(h)
      BY <3>1 DEF UpdateState, SentOnce, Sent, MayBeSent, TypeOK
    <3>2. CASE Insert(h)
      BY <3>2, StepMoves DEF Insert, SentOnce, Sent, MayBeSent, TypeOK, Moves
    <3>3. CASE Deadline(h)
      BY <3>3, StepMoves DEF Deadline, SentOnce, Sent, MayBeSent, TypeOK, Moves
    <3>4. CASE Send(h)
      BY <3>4, StepMoves DEF Send, SentOnce, Sent, MayBeSent, Moves, store
    <3>5. CASE StatsReads(h)
      <4>1. pc'[h] = AfterStats(h) /\ AfterStats(h) \in {"count", "insert", "answered"}
        BY <3>5 DEF StatsReads, Goto, TypeOK, AfterStats
      <4>2. AfterStats(h) = "insert" => task[h] = "absent"
        BY DEF AfterStats
      <4> QED
        BY <3>5, <4>1, <4>2, StepMoves DEF StatsReads, SentOnce, Sent, MayBeSent, Moves, store
    <3>6. CASE Arrive(h)
      BY <3>6, StepMoves DEF Arrive, Receive, Refuse, SentOnce, Sent, MayBeSent, Moves, store
    <3>7. CASE \/ Estimate(h) \/ StatsLocksBytes(h) \/ Count(h) \/ Generated(h)
               \/ LockItems(h) \/ TryAdmit(h) \/ ReleaseItem(h)
      <4>1. UNCHANGED task
        BY <3>7 DEF Estimate, StatsLocksBytes, Count, Generated, LockItems, TryAdmit,
           ReleaseItem, store
      <4>2. Moves(h, Places \ MayBeSent,
                     Places \ {"idle", "insert", "generate", "send", "wait"})
        BY <3>7, StepMoves DEF Moves, Places, MayBeSent
      <4> QED
        BY <4>1, <4>2 DEF SentOnce, Moves
    <3> QED
      BY <1>4, <3>1, <3>2, <3>3, <3>4, <3>5, <3>6, <3>7 DEF Advance
  <2> QED
    BY <1>4, <2>1, <2>2, <2>3 DEF SentOnce
<1>5. CASE \E h \in Handler : Arrive(h) \/ Advance(h) \/ UpdateState(h)
  <2>1. PICK h \in Handler : Arrive(h) \/ Advance(h) \/ UpdateState(h)
    BY <1>5
  <2>2. \/ Send(h) /\ queue' = Append(queue, h)
        \/ UNCHANGED <<queue, working>>
    BY <2>1 DEF Arrive, Receive, Refuse, Advance, Insert, Send, Deadline, Estimate,
       StatsLocksBytes, StatsReads, Count, Generated, LockItems, TryAdmit, ReleaseItem,
       UpdateState
  <2> QED
    BY <1>3, <1>4, <2>1, <2>2
<1> QED
  BY <1>1, <1>2, <1>5 DEF Next

-----------------------------------------------------------------------------
LEMMA NobodyReturnsKept ==
  ASSUME Limited, TypeOK, SentOnce, NobodyReturns, [Next]_vars
  PROVE  NobodyReturns'
<1>1. CASE UNCHANGED store
  BY <1>1 DEF NobodyReturns, store
<1>2. ASSUME NEW h \in Handler, Insert(h)
      PROVE  NobodyReturns'
  BY <1>2 DEF Insert, NobodyReturns, SentOnce, StoreFree, TypeOK, Limited
<1>3. ASSUME NEW h \in Handler, Deadline(h) \/ UpdateState(h)
      PROVE  NobodyReturns'
  BY <1>3 DEF Deadline, UpdateState, NobodyReturns, StoreFree, TypeOK, Limited
<1> QED
  BY <1>1, <1>2, <1>3 DEF Next, Advance, Arrive, Receive, Refuse, Send, Estimate,
     StatsLocksBytes, StatsReads, Count, Generated, LockItems, TryAdmit, ReleaseItem,
     StartTask, vars

LEMMA InitInvariant ==
  ASSUME Limited, Init
  PROVE  IInv
<1>1. Delivering = {} /\ Generating = {} /\ Cardinality({}) = 0 /\ IsFiniteSet({})
  BY FS_EmptySet DEF Init, Delivering, Delivers, Generating
<1>2. TypeOK
  BY DEF Init, TypeOK, Places
<1>3. LocksHeld /\ NobodyReturns
  BY DEF Init, Limited, LocksHeld, HoldsItems, NobodyReturns
<1>4. SentOnce
  BY DEF Init, SentOnce, Sent, Waits
<1>5. BufferCounts /\ PermitsKept /\ QueueKept /\ WorkersKept
  BY <1>1 DEF Init, Limited, BufferCounts, PermitsKept, QueueKept, WorkersKept
<1> QED
  BY <1>2, <1>3, <1>4, <1>5 DEF IInv

LEMMA StepInvariant ==
  ASSUME Limited, IInv, [Next]_vars
  PROVE  IInv'
BY TypesKept, LocksKept, BufferKept, PermitsStayKept, QueueStaysKept, WorkersStayKept,
   SentOnceKept, NobodyReturnsKept DEF IInv

THEOREM TasksInvariant ==
  ASSUME Limited PROVE Spec => []IInv
<1>1. Init => IInv
  BY InitInvariant
<1>2. IInv /\ [Next]_vars => IInv'
  BY StepInvariant
<1> QED
  BY <1>1, <1>2, PTL DEF Spec

-----------------------------------------------------------------------------
(* Two handlers never hold the same mutex of the ready buffer, and one     *)
(* never holds both: items belongs to try_admit and release between lock   *)
(* and unlock, bytes to stats (ready_buffer.rs:36-62).                     *)
THEOREM OneHolderPerMutex ==
  ASSUME Limited
  PROVE  Spec => []/\ LocksHeld
                   /\ \A g, h \in Handler : pc[g] \in HoldsItems /\ pc[h] \in HoldsItems => g = h
                   /\ \A g, h \in Handler :
                        pc[g] = "stats_items" /\ pc[h] = "stats_items" => g = h
<1> DEFINE Exclusive ==
      /\ LocksHeld
      /\ \A g, h \in Handler : pc[g] \in HoldsItems /\ pc[h] \in HoldsItems => g = h
      /\ \A g, h \in Handler : pc[g] = "stats_items" /\ pc[h] = "stats_items" => g = h
<1>1. IInv => Exclusive
  BY DEF IInv, LocksHeld
<1> HIDE DEF Exclusive
<1>2. Spec => []Exclusive
  BY <1>1, TasksInvariant, PTL
<1> QED
  BY <1>2 DEF Exclusive

(* The ready buffer counts the images being delivered, exactly, and never  *)
(* takes more than it may: release never underflows (ready_buffer.rs:36-   *)
(* 58); image_sem gives out no more permits than it has; the channel and   *)
(* the workers stay within their capacities (image_tasks.rs:147-164).      *)
THEOREM LimitsKept ==
  ASSUME Limited
  PROVE  Spec => [](BufferCounts /\ PermitsKept /\ QueueKept /\ WorkersKept)
<1>1. IInv => BufferCounts /\ PermitsKept /\ QueueKept /\ WorkersKept
  BY DEF IInv
<1> QED
  BY <1>1, TasksInvariant, PTL

(* A task is recorded before it is sent, sent at most once, and never in   *)
(* the queue and in work at the same time (image_tasks.rs:153-164,         *)
(* 193-212), a full queue and the second chance of an adapted request      *)
(* included.                                                               *)
THEOREM TaskSentOnce ==
  ASSUME Limited PROVE Spec => []SentOnce
<1>1. IInv => SentOnce
  BY DEF IInv
<1> QED
  BY <1>1, TasksInvariant, PTL

(* The first update_state is the last: whoever has updated a task holds    *)
(* the store's lock, so no two tasks are ever past "queued", and while the *)
(* lock is held nobody writes a task, sends one, estimates a wait or       *)
(* counts the tasks.  It is held for good (image_tasks.rs:69-115).         *)
THEOREM FirstUpdateIsTheLast ==
  ASSUME Limited
  PROVE  Spec => /\ []NobodyReturns
                 /\ [][AllWaitForTheStore]_vars
                 /\ [](~StoreFree => []~StoreFree)
<1>1. IInv => NobodyReturns
  BY DEF IInv
<1>2. IInv /\ [Next]_vars => [AllWaitForTheStore]_vars
  <2> SUFFICES ASSUME IInv, Next, ~StoreFree
               PROVE  UNCHANGED store
                      /\ Still(At({"insert", "send", "wait", "estimate", "count"}))
    BY DEF AllWaitForTheStore
  <2>1. CASE StartTask
    BY <2>1 DEF StartTask, Still
  <2>2. ASSUME NEW h \in Handler, UpdateState(h) \/ Insert(h) \/ Send(h) \/ Deadline(h)
                                    \/ Estimate(h) \/ Count(h)
        PROVE  FALSE
    BY <2>2 DEF UpdateState, Insert, Send, Deadline, Estimate, Count
  <2>3. ASSUME NEW h \in Handler, Arrive(h) \/ StatsLocksBytes(h) \/ StatsReads(h)
                                    \/ Generated(h) \/ LockItems(h) \/ TryAdmit(h)
                                    \/ ReleaseItem(h)
        PROVE  UNCHANGED store
               /\ Still(At({"insert", "send", "wait", "estimate", "count"}))
    <3>1. UNCHANGED store
      BY <2>3 DEF Arrive, Receive, Refuse, StatsLocksBytes, StatsReads, Generated, LockItems,
         TryAdmit, ReleaseItem
    <3>2. Moves(h, Places \ {"insert", "send", "wait", "estimate", "count"}, Places)
      BY <2>3, StepMoves DEF IInv, Moves, Places
    <3> QED
      BY <3>1, <3>2 DEF Still, At, Moves
  <2> QED
    BY <2>1, <2>2, <2>3 DEF Next, Advance
<1>3. ~StoreFree /\ [AllWaitForTheStore]_vars => (~StoreFree)'
  BY DEF AllWaitForTheStore, StoreFree, store, vars
<1> QED
  BY <1>1, <1>2, <1>3, TasksInvariant, PTL DEF Spec

(* stats locks bytes and then items, try_admit and release lock items and  *)
(* then bytes: once one of each kind holds its first mutex, none of the    *)
(* two mutexes is ever unlocked, the buffer never changes again, and every *)
(* handler at it stays there (ready_buffer.rs:36-62).                      *)
THEOREM CrossedLocksStay ==
  ASSUME Limited
  PROVE  Spec => /\ [][BuffersCross]_vars
                 /\ [](items_lock # Nobody /\ bytes_lock # Nobody
                         => [](items_lock # Nobody /\ bytes_lock # Nobody))
<1> DEFINE Crossed == items_lock # Nobody /\ bytes_lock # Nobody
           AtBuffer == {"stats", "stats_items"} \cup HoldsItems \cup {"admit", "release"}
<1>1. IInv /\ [Next]_vars => [BuffersCross]_vars
  <2> SUFFICES ASSUME IInv, Next, Crossed
               PROVE  UNCHANGED buffer /\ Still(At(AtBuffer))
    BY DEF BuffersCross
  <2>1. CASE StartTask \/ \E h \in Handler : UpdateState(h)
    BY <2>1 DEF StartTask, UpdateState, Still
  <2>2. ASSUME NEW h \in Handler, StatsLocksBytes(h) \/ StatsReads(h) \/ LockItems(h)
                                    \/ TryAdmit(h) \/ ReleaseItem(h)
        PROVE  FALSE
    BY <2>2 DEF StatsLocksBytes, StatsReads, LockItems, TryAdmit, ReleaseItem
  <2>3. ASSUME NEW h \in Handler, Arrive(h) \/ Insert(h) \/ Send(h) \/ Deadline(h)
                                    \/ Estimate(h) \/ Count(h) \/ Generated(h)
        PROVE  UNCHANGED buffer /\ Still(At(AtBuffer))
    <3>1. UNCHANGED buffer
      BY <2>3 DEF Arrive, Receive, Refuse, Insert, Send, Deadline, Estimate, Count, Generated
    <3>2. Moves(h, Places \ AtBuffer, Places)
      BY <2>3, StepMoves DEF IInv, Moves, Places, HoldsItems
    <3> QED
      BY <3>1, <3>2 DEF Still, At, Moves
  <2> QED
    BY <2>1, <2>2, <2>3 DEF Next, Advance
<1>2. Crossed /\ [BuffersCross]_vars => Crossed'
  BY DEF BuffersCross, buffer, vars
<1> HIDE DEF Crossed
<1>3. Spec => [][BuffersCross]_vars /\ [](Crossed => []Crossed)
  BY <1>1, <1>2, TasksInvariant, PTL DEF Spec
<1> QED
  BY <1>3 DEF Crossed
=============================================================================
