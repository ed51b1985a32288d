----------------------------- MODULE JobPipeline -----------------------------
(***************************************************************************)
(* Image jobs: tnexus-api inserts a row and pushes its id on a Redis list, *)
(* tnexus-worker pops ids one at a time, runs each job through its stages  *)
(* with the slots of the job in parallel, and tells the streams            *)
(* (server-sent events) that listen on the job's Redis channel.            *)
(*                                                                         *)
(* One action is one statement to Postgres or Redis, or the time between   *)
(* two.  A statement can fail, with or without having taken effect.  Rows  *)
(* keep only their status; of the results only which slots have one.       *)
(***************************************************************************)
EXTENDS Integers, FiniteSets, Sequences

CONSTANTS Job,      \* jobs submitted
          Slot,     \* images of each job
          Worker,   \* worker processes
          Stream,   \* browsers that listen
          NoJob,    \* no job
          Parallel  \* image_parallel_concurrency

ASSUME JobAssumption ==
  /\ IsFiniteSet(Job) /\ IsFiniteSet(Slot)
  /\ NoJob \notin Job
  /\ Parallel \in Nat \ {0}

VARIABLES row,     \* jobs.status, "none" before and "deleted" after
          results, \* job_results: slots of each job, counted
          calling, \* jobs inserted by a handler that has not pushed them yet
          queue,   \* the Redis list
          job, at, stage, slots,  \* of each worker: job, place, stage, slots
          ear, hears, shown, inbox, \* of each stream: state, job, last stage,
                                    \* and events not yet sent
          lost,    \* history: jobs a fault has taken out of everybody's hands
          doubted  \* history: jobs whose worker saw an error after their last slot

store == <<row, results>>
worker == <<job, at, stage, slots>>
stream == <<ear, hears, shown, inbox>>
history == <<lost, doubted>>
vars == <<store, calling, queue, worker, stream, history>>

Ended == {"done", "failed"}
Active == {"queued", "directing", "generating", "uploading"}
Status == {"none", "deleted"} \cup Active \cup Ended

Exists(j) == row[j] \notin {"none", "deleted"}

NoSlots == [s \in Slot |-> "wait"]

(* UPDATE ... WHERE id = $1: nothing happens when the row is gone.         *)
SetStatus(j, s) == row' = [row EXCEPT ![j] = IF Exists(j) THEN s ELSE @]

(* PUBLISH reaches the streams that are subscribed, and nobody else.       *)
Publish(j, s) ==
  inbox' = [x \in Stream |-> IF ear[x] = "open" /\ hears[x] = j
                             THEN Append(inbox[x], s) ELSE inbox[x]]

-----------------------------------------------------------------------------
Init ==
  /\ row = [j \in Job |-> "none"]
  /\ results = [j \in Job |-> [s \in Slot |-> 0]]
  /\ calling = {}
  /\ queue = <<>>
  /\ job = [w \in Worker |-> NoJob]
  /\ at = [w \in Worker |-> "idle"]
  /\ stage = [w \in Worker |-> "queued"]
  /\ slots = [w \in Worker |-> NoSlots]
  /\ ear = [x \in Stream |-> "closed"]
  /\ hears = [x \in Stream |-> NoJob]
  /\ shown = [x \in Stream |-> "none"]
  /\ inbox = [x \in Stream |-> <<>>]
  /\ lost = {}
  /\ doubted = {}

-----------------------------------------------------------------------------
(* tnexus-api.                                                             *)
Create(j) ==
  /\ row[j] = "none"
  /\ row' = [row EXCEPT ![j] = "queued"]
  /\ calling' = calling \cup {j}
  /\ UNCHANGED <<results, queue, worker, stream, history>>

Push(j) ==
  /\ j \in calling
  /\ calling' = calling \ {j}
  /\ queue' = Append(queue, j)
  /\ UNCHANGED <<store, worker, stream, history>>

(* RPUSH fails, the client hangs up, or the process dies: the row stays.   *)
PushFails(j) ==
  /\ j \in calling
  /\ calling' = calling \ {j}
  /\ lost' = lost \cup {j}
  /\ UNCHANGED <<store, queue, worker, stream, doubted>>

(* DELETE FROM jobs; job_results go with it.                               *)
Delete(j) ==
  /\ Exists(j)
  /\ row' = [row EXCEPT ![j] = "deleted"]
  /\ results' = [results EXCEPT ![j] = [s \in Slot |-> 0]]
  /\ UNCHANGED <<calling, queue, worker, stream, history>>

(* job_events_handler reads the row, and a spawned task subscribes.  The   *)
(* first event is what the row said; a job that has ended ends the stream. *)
Listen(x, j) ==
  /\ ear[x] = "closed" /\ Exists(j)
  /\ hears' = [hears EXCEPT ![x] = j]
  /\ shown' = [shown EXCEPT ![x] = row[j]]
  /\ ear' = [ear EXCEPT ![x] = IF row[j] \in Ended THEN "over" ELSE "asked"]
  /\ UNCHANGED <<store, calling, queue, worker, inbox, history>>

Subscribe(x) ==
  /\ ear[x] = "asked"
  /\ ear' = [ear EXCEPT ![x] = "open"]
  /\ UNCHANGED <<store, calling, queue, worker, hears, shown, inbox, history>>

Deliver(x) ==
  /\ ear[x] \in {"open", "cut"} /\ inbox[x] # <<>>
  /\ inbox' = [inbox EXCEPT ![x] = Tail(@)]
  /\ shown' = [shown EXCEPT ![x] = Head(inbox[x])]
  /\ ear' = [ear EXCEPT ![x] = IF Head(inbox[x]) \in Ended THEN "over" ELSE @]
  /\ UNCHANGED <<store, calling, queue, worker, hears, history>>

(* Redis is not there, or 900s without an event.                           *)
GiveUp(x) ==
  /\ ear[x] \in {"asked", "open", "cut"} /\ inbox[x] = <<>>
  /\ ear' = [ear EXCEPT ![x] = "over"]
  /\ UNCHANGED <<store, calling, queue, worker, hears, shown, inbox, history>>

(* The browser goes away, or has seen the end.                             *)
Close(x) ==
  /\ ear[x] # "closed"
  /\ ear' = [ear EXCEPT ![x] = "closed"]
  /\ hears' = [hears EXCEPT ![x] = NoJob]
  /\ shown' = [shown EXCEPT ![x] = "none"]
  /\ inbox' = [inbox EXCEPT ![x] = <<>>]
  /\ UNCHANGED <<store, calling, queue, worker, history>>

-----------------------------------------------------------------------------
(* tnexus-worker.  BLPOP: the id is nowhere but here from now on.          *)
Peek(w) ==  \* mutant: the id stays in the list while the job runs
  /\ at[w] = "idle" /\ queue # <<>>
  /\ job' = [job EXCEPT ![w] = Head(queue)]
  /\ at' = [at EXCEPT ![w] = "load"]
  /\ UNCHANGED <<store, calling, queue, stage, slots, stream, history>>

Pop(w) ==
  /\ at[w] = "idle" /\ queue # <<>>
  /\ job' = [job EXCEPT ![w] = Head(queue)]
  /\ queue' = Tail(queue)
  /\ at' = [at EXCEPT ![w] = "load"]
  /\ UNCHANGED <<store, calling, stage, slots, stream, history>>

Goto(w, place) == at' = [at EXCEPT ![w] = place]

Enter(w, s) ==
  /\ stage' = [stage EXCEPT ![w] = s]
  /\ Goto(w, "publish")

Load(w) ==
  /\ at[w] = "load"
  /\ \/ Exists(job[w]) /\ Enter(w, "directing")
     \/ ~Exists(job[w]) /\ Goto(w, "fail") /\ UNCHANGED stage
  /\ UNCHANGED <<store, calling, queue, job, slots, stream, history>>

(* Every stage is published, then written.                                 *)
PublishStage(w) ==
  /\ at[w] = "publish"
  /\ Publish(job[w], stage[w])
  /\ Goto(w, "set")
  /\ UNCHANGED <<store, calling, queue, job, stage, slots, ear, hears, shown, history>>

StageNotWritten(w) ==  \* mutant: the stage is only published
  /\ at[w] = "set"
  /\ Goto(w, "work")
  /\ UNCHANGED <<store, calling, queue, job, stage, slots, stream, history>>

SetStage(w) ==
  /\ at[w] = "set"
  /\ SetStatus(job[w], stage[w])
  /\ Goto(w, "work")
  /\ UNCHANGED <<results, calling, queue, job, stage, slots, stream, history>>

(* The director chats: a chat that fails is replaced by the prompt.        *)
Direct(w) ==
  /\ at[w] = "work" /\ stage[w] = "directing"
  /\ Enter(w, "generating")
  /\ UNCHANGED <<store, calling, queue, job, slots, stream, history>>

(* The slots, side by side.  A permit is held from "image" to the end.     *)
Working(w) == at[w] = "work" /\ stage[w] = "generating"

SlotTo(w, s, place) == slots' = [slots EXCEPT ![w][s] = place]

RoomIfNoneDone(w) ==  \* mutant: a permit is not given back
  Cardinality({s \in Slot : slots[w][s] # "wait"}) < Parallel
Room(w) == Cardinality({s \in Slot : slots[w][s] \in {"image", "told"}}) < Parallel

StartSlot(w, s) ==
  /\ Working(w) /\ slots[w][s] = "wait" /\ Room(w)
  /\ SlotTo(w, s, "image")
  /\ UNCHANGED <<store, calling, queue, job, at, stage, stream, history>>

(* The image has come and persist_slot inserts its row, which needs the    *)
(* row of the job.                                                         *)
Insert(j, S) ==
  results' = [results EXCEPT ![j] = [s \in Slot |-> IF s \in S THEN @[s] + 1 ELSE @[s]]]

PersistSlot(w, s) ==
  /\ Working(w) /\ slots[w][s] = "image" /\ Exists(job[w])
  /\ Insert(job[w], {s})
  /\ SlotTo(w, s, "told")
  /\ UNCHANGED <<row, calling, queue, job, at, stage, stream, history>>

TellAsLoaded(w, s) ==  \* mutant: with the status that load_job read
  /\ Working(w) /\ slots[w][s] = "told"
  /\ Publish(job[w], "queued")
  /\ SlotTo(w, s, "ok")
  /\ UNCHANGED <<store, calling, queue, job, at, stage, ear, hears, shown, history>>

TellSlot(w, s) ==
  /\ Working(w) /\ slots[w][s] = "told"
  /\ Publish(job[w], "generating")
  /\ SlotTo(w, s, "ok")
  /\ UNCHANGED <<store, calling, queue, job, at, stage, ear, hears, shown, history>>

(* try_join_all: all slots are through.                                    *)
AnySlotThrough(w) ==  \* mutant: join_all, whose errors nobody looks at
  \E s \in Slot : slots[w][s] = "ok"
AllThrough(w) == \A s \in Slot : slots[w][s] = "ok"

Joined(w) ==
  /\ Working(w) /\ AllThrough(w)
  /\ Enter(w, "uploading")
  /\ UNCHANGED <<store, calling, queue, job, slots, stream, history>>

(* The timings are saved and the row is done; then the streams are told.   *)
SaysBeforeItIs(w) ==  \* mutant: published before it is written, as the stages
  /\ at[w] = "work" /\ stage[w] = "uploading"
  /\ Publish(job[w], "done")
  /\ Goto(w, "announce")
  /\ UNCHANGED <<store, calling, queue, job, stage, slots, ear, hears, shown, history>>

Finish(w) ==
  /\ at[w] = "work" /\ stage[w] = "uploading"
  /\ SetStatus(job[w], "done")
  /\ Goto(w, "announce")
  /\ UNCHANGED <<results, calling, queue, job, stage, slots, stream, history>>

RestWithJob(w) ==  \* mutant: the worker waits for a job with the last one in hand
  /\ stage' = [stage EXCEPT ![w] = "queued"]
  /\ slots' = [slots EXCEPT ![w] = NoSlots]
  /\ Goto(w, "idle")
  /\ UNCHANGED job

Rest(w) ==
  /\ job' = [job EXCEPT ![w] = NoJob]
  /\ stage' = [stage EXCEPT ![w] = "queued"]
  /\ slots' = [slots EXCEPT ![w] = NoSlots]
  /\ Goto(w, "idle")

Announce(w) ==
  /\ at[w] = "announce"
  /\ Publish(job[w], "done")
  /\ Rest(w)
  /\ UNCHANGED <<store, calling, queue, ear, hears, shown, history>>

(* "?": a statement, a director, a slot or a download fails, process_job   *)
(* returns the error and what its slots were doing is dropped.  What the   *)
(* statement should do may have been done.                                 *)
Fails(w) ==
  /\ at[w] \in {"load", "publish", "set", "work", "announce"}
  /\ Goto(w, "fail")
  /\ slots' = [slots EXCEPT ![w] = NoSlots]
  /\ \/ UNCHANGED <<row, results, inbox>>
     \/ at[w] = "publish" /\ Publish(job[w], stage[w]) /\ UNCHANGED store
     \/ at[w] = "announce" /\ Publish(job[w], "done") /\ UNCHANGED store
     \/ at[w] = "set" /\ SetStatus(job[w], stage[w]) /\ UNCHANGED <<results, inbox>>
     \/ /\ at[w] = "work" /\ stage[w] = "uploading"
        /\ SetStatus(job[w], "done") /\ UNCHANGED <<results, inbox>>
     \/ /\ Working(w) /\ Exists(job[w])
        /\ \E S \in SUBSET {s \in Slot : slots[w][s] = "image"} : Insert(job[w], S)
        /\ UNCHANGED <<row, inbox>>
     \/ /\ Working(w)
        /\ \E s \in Slot : slots[w][s] = "told"
        /\ Publish(job[w], "generating") /\ UNCHANGED store
  /\ doubted' = IF at[w] = "announce" \/ (at[w] = "work" /\ stage[w] = "uploading")
                THEN doubted \cup {job[w]} ELSE doubted
  /\ UNCHANGED <<calling, queue, job, stage, ear, hears, shown, lost>>

(* The main loop books the failure, and ignores errors in doing so.        *)
Book(w) ==
  /\ at[w] = "fail"
  /\ SetStatus(job[w], "failed")
  /\ Goto(w, "tell")
  /\ UNCHANGED <<results, calling, queue, job, stage, slots, stream, history>>

BookFails(w) ==
  /\ at[w] = "fail"
  /\ Goto(w, "tell")
  /\ lost' = lost \cup {job[w]}
  /\ UNCHANGED <<store, calling, queue, job, stage, slots, stream, doubted>>

TellFailed(w) ==
  /\ at[w] = "tell"
  /\ Publish(job[w], "failed") \/ UNCHANGED inbox
  /\ Rest(w)
  /\ UNCHANGED <<store, calling, queue, ear, hears, shown, history>>

-----------------------------------------------------------------------------
(* The worker process dies, and is started again.                          *)
Die(w) ==
  /\ at[w] # "idle"
  /\ lost' = lost \cup {job[w]}
  /\ Rest(w)
  /\ UNCHANGED <<store, calling, queue, stream, doubted>>

(* Redis restarts without its list, and without its subscribers.           *)
RedisRestarts ==
  /\ lost' = lost \cup {queue[i] : i \in DOMAIN queue}
  /\ queue' = <<>>
  /\ ear' = [x \in Stream |-> IF ear[x] = "open" THEN "cut" ELSE ear[x]]
  /\ UNCHANGED <<store, calling, worker, hears, shown, inbox, doubted>>

WorkStep(w) ==
  \/ Pop(w) \/ Load(w) \/ PublishStage(w) \/ SetStage(w) \/ Direct(w)
  \/ \E s \in Slot : StartSlot(w, s) \/ PersistSlot(w, s) \/ TellSlot(w, s)
  \/ Joined(w) \/ Finish(w) \/ Announce(w)
  \/ Book(w) \/ TellFailed(w)

SlotRefused(w) ==  \* a slot whose job is deleted cannot be persisted
  Working(w) /\ ~Exists(job[w]) /\ Fails(w)

ApiStep(j) == Create(j) \/ Push(j) \/ PushFails(j) \/ Delete(j)

StreamStep(x) ==
  Subscribe(x) \/ Deliver(x) \/ GiveUp(x) \/ Close(x) \/ \E j \in Job : Listen(x, j)

Next ==
  \/ \E w \in Worker : WorkStep(w) \/ Fails(w) \/ BookFails(w) \/ Die(w)
  \/ \E j \in Job : ApiStep(j)
  \/ \E x \in Stream : StreamStep(x)
  \/ RedisRestarts

(* Workers go on, failures included; a handler that has inserted a row     *)
(* goes on; streams have a timeout.                                        *)
Fairness ==
  /\ \A w \in Worker : WF_vars(WorkStep(w) \/ SlotRefused(w))
  /\ \A j \in Job : WF_vars(Push(j))

Spec == Init /\ [][Next]_vars /\ Fairness

-----------------------------------------------------------------------------
TypeOK ==
  /\ row \in [Job -> Status]
  /\ results \in [Job -> [Slot -> Nat]]
  /\ calling \subseteq Job
  /\ queue \in Seq(Job)
  /\ job \in [Worker -> Job \cup {NoJob}]
  /\ at \in [Worker -> {"idle", "load", "publish", "set", "work", "announce", "fail", "tell"}]
  /\ stage \in [Worker -> Active]
  /\ slots \in [Worker -> [Slot -> {"wait", "image", "told", "ok"}]]
  /\ \A w \in Worker : (job[w] = NoJob) <=> (at[w] = "idle")
  /\ ear \in [Stream -> {"closed", "asked", "open", "cut", "over"}]
  /\ hears \in [Stream -> Job \cup {NoJob}]
  /\ shown \in [Stream -> Status]
  /\ inbox \in [Stream -> Seq(Active \cup Ended)]
  /\ lost \subseteq Job /\ doubted \subseteq Job

(* A job is with the handler that creates it, in the list, or with a       *)
(* worker.                                                                 *)
Listed == {queue[i] : i \in DOMAIN queue}

InHand == {job[w] : w \in Worker}

ListedOnce == \A i, k \in DOMAIN queue : queue[i] = queue[k] => i = k

InOneHand == \A v, w \in Worker : job[v] = job[w] => v = w \/ job[v] = NoJob

OnlyOnce ==
  /\ ListedOnce /\ InOneHand
  /\ calling \cap (Listed \cup InHand) = {}
  /\ Listed \cap InHand = {}

KnownUnlessLost ==
  \A j \in Job : row[j] \in Active => j \in calling \cup Listed \cup InHand \cup lost

(* Every job whose row says that it is under way is in one of these        *)
(* places, unless a fault took it away; and none is ever in two, or twice  *)
(* in one.  So no job waits for a worker that does not know of it, and     *)
(* none is run twice.                                                      *)
NothingForgotten == OnlyOnce /\ KnownUnlessLost

(* A job that is done has exactly one result of each of its slots,         *)
(* whatever order they came in and whoever deletes jobs meanwhile.         *)
DoneIsComplete ==
  \A j \in Job : row[j] = "done" => \A s \in Slot : results[j][s] = 1

(* A job that has ended has ended: nothing brings its row back under way,  *)
(* or from failed to done, and done becomes failed only when its worker    *)
(* saw an error after the last slot.  Its owner may delete it.             *)
EndedStaysEnded ==
  [][\A j \in Job : row[j] \in Ended /\ row'[j] # row[j]
                      => \/ row'[j] = "deleted"
                         \/ row'[j] = "failed" /\ j \in doubted]_vars

(* A browser that is told "done" finds the job done, or its owner deleted  *)
(* it.  The exception is a job whose worker saw an error when it wrote or   *)
(* published "done": it then books the job as failed, done as it is.       *)
ToldDoneIsDone ==
  \A x \in Stream : shown[x] = "done" /\ hears[x] \notin doubted
                      => row[hears[x]] \in {"done", "deleted"}

(* What a browser is shown of a job never goes back to an earlier stage,   *)
(* although it joins at any moment and stages are published before they    *)
(* are written.                                                            *)
Rank(s) == CASE s = "queued" -> 1 [] s = "directing" -> 2 [] s = "generating" -> 3
             [] s = "uploading" -> 4 [] OTHER -> 5

ShownMovesOn ==
  [][\A x \in Stream : hears[x] # NoJob /\ hears'[x] = hears[x]
                         => Rank(shown'[x]) >= Rank(shown[x])]_vars

(* A job in the list is done, failed or deleted some day, unless a fault   *)
(* takes it away: slots that share permits do not wait for each other for  *)
(* ever, and a job that fails half way does not keep its worker.           *)
JobsEnd ==
  \A j \in Job : row[j] = "queued" ~> row[j] \in Ended \cup {"deleted"} \/ j \in lost

(* The pipeline keeps the promise of JobBoard.                             *)
Board == INSTANCE JobBoard WITH
  Image <- Slot,
  Watcher <- Stream,
  status <- row,
  images <- [j \in Job |-> {s \in Slot : results[j][s] > 0}],
  watches <- hears,
  sees <- shown

(* Whatever is lost, fails half way or is told late: jobs go through their *)
(* stages one by one, each image comes once, and what a browser is shown   *)
(* stays within what JobBoard allows, from what the row said when it came. *)
BoardSpec == Board!Spec
=============================================================================
