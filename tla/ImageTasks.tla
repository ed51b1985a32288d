----------------------------- MODULE ImageTasks -----------------------------
(***************************************************************************)
(* The image handlers of the GPT gateway and the blocking locks they meet: *)
(* the RwLock of ImageTaskStore, and the two mutexes of ReadyBuffer.       *)
(*                                                                         *)
(* A handler is one HTTP request; a task is named after the handler that   *)
(* enqueued it.  One action runs to the next lock that others can hold for *)
(* longer than a moment.  Only update_state holds the store's lock across  *)
(* another lock, so every other access to the store needs it free for one  *)
(* step.  Left out: accounts, the result of a generation, the order in     *)
(* which concurrent persists reach the file, and the return window, whose  *)
(* refusal takes the locks of every other 429.                             *)
(***************************************************************************)
EXTENDS Integers, Sequences, FiniteSets

CONSTANTS Handler,    \* requests the gateway receives
          Nobody,     \* nobody holds the lock
          Permits,    \* permits of image_sem (IMAGE_GLOBAL_CONCURRENCY)
          QueueCap,   \* capacity of the task queue (512)
          Workers,    \* tasks worked on at a time (IMAGE_SUBMIT_WORKERS)
          MaxItems    \* images the ready buffer takes

VARIABLES pc,         \* where each handler is
          kind,       \* "sync", "async", "adapted" or "status"
          task,       \* the state of each handler's task, or "absent"
          writer,     \* the task whose update_state holds the store, or Nobody
          queue,      \* tasks sent and not yet received
          working,    \* tasks that hold a worker permit
          items,      \* images in the ready buffer
          items_lock, \* holder of ReadyBuffer.items
          bytes_lock  \* holder of ReadyBuffer.bytes

buffer == <<items, items_lock, bytes_lock>>
store == <<task, writer>>
vars == <<pc, kind, store, queue, working, buffer>>

Goto(h, there) == pc' = [pc EXCEPT ![h] = there]

StoreFree == writer = Nobody

Generating == {h \in Handler : pc[h] = "generate"}

-----------------------------------------------------------------------------
(* image_generations and the status page, up to the first lock.  An        *)
(* asynchronous request goes on to enqueue; a synchronous one takes a      *)
(* permit.  When there is none it is adapted to a task, after the 429 it   *)
(* will not send has been estimated.                                       *)
Receive(h, k) ==
  /\ pc[h] = "idle"
  /\ \/ k = "async" /\ Goto(h, "insert")
     \/ k = "sync" /\ Cardinality(Generating) < Permits /\ Goto(h, "generate")
     \/ k = "adapted" /\ Cardinality(Generating) = Permits /\ Goto(h, "estimate")
     \/ k = "status" /\ Goto(h, "stats")
  /\ kind' = [kind EXCEPT ![h] = k]
  /\ UNCHANGED <<store, queue, working, buffer>>

(* check_image_admission turns a request away while others generate.       *)
Refuse(h, k) ==
  /\ pc[h] = "idle" /\ Generating # {}
  /\ k \in {"sync", "async"}
  /\ kind' = [kind EXCEPT ![h] = k]
  /\ Goto(h, "estimate")
  /\ UNCHANGED <<store, queue, working, buffer>>

(* try_enqueue: insert and persist, then send to the queue.  A full queue  *)
(* is an error; the record stays.                                          *)
Insert(h) ==
  /\ pc[h] = "insert" /\ StoreFree
  /\ task' = [task EXCEPT ![h] = "queued"]
  /\ Goto(h, "send")
  /\ UNCHANGED <<kind, writer, queue, working, buffer>>

Send(h) ==
  /\ pc[h] = "send" /\ StoreFree
  /\ IF Len(queue) < QueueCap
     THEN /\ queue' = Append(queue, h)
          /\ Goto(h, IF kind[h] = "adapted" THEN "wait" ELSE "answered")
     ELSE /\ Goto(h, "estimate")
          /\ UNCHANGED queue
  /\ UNCHANGED <<kind, store, working, buffer>>

(* wait_for_image_task: at its deadline the waiter updates the task, too,  *)
(* and meets what UpdateState meets.                                       *)
Deadline(h) ==
  /\ pc[h] = "wait" /\ StoreFree
  /\ task' = [task EXCEPT ![h] = "timeout_pending"]
  /\ writer' = h
  /\ Goto(h, "stuck")
  /\ UNCHANGED <<kind, queue, working, buffer>>

(* A worker takes a task and process_image_task marks it running.          *)
(* update_state calls persist with the write guard alive, and persist      *)
(* reads the same lock: parking_lot's RwLock is not reentrant, so the      *)
(* thread stays there with the lock, and what follows in the code is never *)
(* reached.                                                                *)
StartTask ==
  /\ queue # <<>> /\ Cardinality(working) < Workers
  /\ queue' = Tail(queue)
  /\ working' = working \cup {Head(queue)}
  /\ UNCHANGED <<pc, kind, store, buffer>>

UpdateState(t) ==
  /\ t \in working /\ StoreFree
  /\ task' = [task EXCEPT ![t] = "running"]
  /\ writer' = t
  /\ UNCHANGED <<pc, kind, queue, working, buffer>>

(* estimated_image_wait_secs, for every 429: the number of tasks, then the *)
(* buffer.                                                                 *)
Estimate(h) ==
  /\ pc[h] = "estimate" /\ StoreFree
  /\ Goto(h, "stats")
  /\ UNCHANGED <<kind, store, queue, working, buffer>>

(* ReadyBuffer::stats: both locks in one expression, bytes first.          *)
StatsLocksBytes(h) ==
  /\ pc[h] = "stats" /\ bytes_lock = Nobody
  /\ bytes_lock' = h
  /\ Goto(h, "stats_items")
  /\ UNCHANGED <<kind, store, queue, working, items, items_lock>>

AfterStats(h) ==
  CASE kind[h] = "status" -> "count"
    [] kind[h] = "adapted" /\ task[h] = "absent" -> "insert"
    [] OTHER -> "answered"

StatsReads(h) ==
  /\ pc[h] = "stats_items" /\ items_lock = Nobody
  /\ bytes_lock' = Nobody
  /\ Goto(h, AfterStats(h))
  /\ UNCHANGED <<kind, store, queue, working, items, items_lock>>

(* The status page counts the tasks last.                                  *)
Count(h) ==
  /\ pc[h] = "count" /\ StoreFree
  /\ Goto(h, "answered")
  /\ UNCHANGED <<kind, store, queue, working, buffer>>

(* A generation ends well or badly; an image passes the ready buffer.      *)
(* try_admit and release lock items first.                                 *)
Generated(h) ==
  /\ pc[h] = "generate"
  /\ Goto(h, "admit") \/ Goto(h, "answered")
  /\ UNCHANGED <<kind, store, queue, working, buffer>>

LockItems(h) ==
  /\ pc[h] \in {"admit", "release"} /\ items_lock = Nobody
  /\ items_lock' = h
  /\ Goto(h, IF pc[h] = "admit" THEN "admit_bytes" ELSE "release_bytes")
  /\ UNCHANGED <<kind, store, queue, working, items, bytes_lock>>

TryAdmit(h) ==
  /\ pc[h] = "admit_bytes" /\ bytes_lock = Nobody
  /\ items_lock' = Nobody
  /\ IF items < MaxItems
     THEN items' = items + 1 /\ Goto(h, "release")
     ELSE UNCHANGED items /\ Goto(h, "estimate")
  /\ UNCHANGED <<kind, store, queue, working, bytes_lock>>

ReleaseItem(h) ==
  /\ pc[h] = "release_bytes" /\ bytes_lock = Nobody
  /\ items_lock' = Nobody
  /\ items' = items - 1
  /\ Goto(h, "answered")
  /\ UNCHANGED <<kind, store, queue, working, bytes_lock>>

-----------------------------------------------------------------------------
Init ==
  /\ pc = [h \in Handler |-> "idle"]
  /\ kind = [h \in Handler |-> "sync"]
  /\ task = [h \in Handler |-> "absent"]
  /\ writer = Nobody
  /\ queue = <<>> /\ working = {}
  /\ items = 0 /\ items_lock = Nobody /\ bytes_lock = Nobody

Arrive(h) == \E k \in {"sync", "async", "adapted", "status"} : Receive(h, k) \/ Refuse(h, k)

Advance(h) ==
  \/ Insert(h) \/ Send(h) \/ Deadline(h)
  \/ Estimate(h) \/ StatsLocksBytes(h) \/ StatsReads(h) \/ Count(h)
  \/ Generated(h) \/ LockItems(h) \/ TryAdmit(h) \/ ReleaseItem(h)

Next ==
  \/ \E h \in Handler : Arrive(h) \/ Advance(h) \/ UpdateState(h)
  \/ StartTask

Spec == Init /\ [][Next]_vars

(* The runtime runs every handler and worker that is not blocked.          *)
FairSpec ==
  /\ Spec
  /\ \A h \in Handler : SF_vars(Advance(h)) /\ WF_vars(UpdateState(h))
  /\ WF_vars(StartTask)

-----------------------------------------------------------------------------
(* protocol/src/lib.rs:279 promises of an asynchronous image request:      *)
(* "enqueue and return task id immediately".  It does return.              *)
EnqueueReturns ==
  \A h \in Handler :
    (pc[h] = "insert" /\ kind[h] = "async") ~> pc[h] = "answered"
=============================================================================
