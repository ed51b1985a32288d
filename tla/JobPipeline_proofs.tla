------------------------- MODULE JobPipeline_proofs -------------------------
(***************************************************************************)
(* Proofs about JobPipeline, for any number of jobs, slots, workers and    *)
(* streams.                                                                *)
(***************************************************************************)
EXTENDS JobPipeline, TLAPS

(* The helpers of the steps keep the types.                                *)
LEMMA PublishType ==
  ASSUME TypeOK, NEW j \in Job, NEW s \in Active \cup Ended, Publish(j, s)
  PROVE  inbox' \in [Stream -> Seq(Active \cup Ended)]
BY DEF TypeOK, Publish

LEMMA StatusType ==
  ASSUME TypeOK, NEW j \in Job, NEW s \in Status, SetStatus(j, s)
  PROVE  row' \in [Job -> Status]
BY DEF TypeOK, SetStatus

LEMMA InsertType ==
  ASSUME TypeOK, NEW j \in Job, NEW S \in SUBSET Slot, Insert(j, S)
  PROVE  results' \in [Job -> [Slot -> Nat]]
BY DEF TypeOK, Insert

-----------------------------------------------------------------------------
(* Type correctness, step by step.                                         *)
LEMMA TypeInit == Init => TypeOK
BY JobAssumption DEF Init, TypeOK, Status, Active, NoSlots

(* No step takes the pipeline out of its types.                            *)
LEMMA TypeStep == TypeOK /\ [Next]_vars => TypeOK'
<1> SUFFICES ASSUME TypeOK, [Next]_vars
             PROVE  TypeOK'
  OBVIOUS
<1> USE JobAssumption DEF TypeOK, Status, Active, Ended
<1>1. ASSUME NEW j \in Job, Create(j)
      PROVE  TypeOK'
  BY <1>1 DEF Create, store, worker, stream, history
<1>2. ASSUME NEW j \in Job, Push(j)
      PROVE  TypeOK'
  BY <1>2 DEF Push, store, worker, stream, history
<1>3. ASSUME NEW j \in Job, PushFails(j)
      PROVE  TypeOK'
  BY <1>3 DEF PushFails, store, worker, stream, history
<1>4. ASSUME NEW j \in Job, Delete(j)
      PROVE  TypeOK'
  BY <1>4 DEF Delete, Exists, store, worker, stream, history
<1>5. ASSUME NEW x \in Stream, NEW j \in Job, Listen(x, j)
      PROVE  TypeOK'
  BY <1>5 DEF Listen, Exists, Ended, store, worker, stream, history
<1>6. ASSUME NEW x \in Stream, Subscribe(x)
      PROVE  TypeOK'
  BY <1>6 DEF Subscribe, store, worker, stream, history
<1>7. ASSUME NEW x \in Stream, Deliver(x)
      PROVE  TypeOK'
  BY <1>7 DEF Deliver, Ended, store, worker, stream, history
<1>8. ASSUME NEW x \in Stream, GiveUp(x)
      PROVE  TypeOK'
  BY <1>8 DEF GiveUp, store, worker, stream, history
<1>9. ASSUME NEW x \in Stream, Close(x)
      PROVE  TypeOK'
  BY <1>9 DEF Close, store, worker, stream, history
<1>10. ASSUME NEW w \in Worker, Pop(w)
      PROVE  TypeOK'
  BY <1>10 DEF Pop, store, worker, stream, history
<1>11. ASSUME NEW w \in Worker, Load(w)
      PROVE  TypeOK'
  <2>1. ASSUME NEW place \in {"publish", "fail"}, Goto(w, place)
        PROVE  /\ at' \in [Worker -> {"idle", "load", "publish", "set", "work", "announce", "fail", "tell"}]
               /\ \A v \in Worker : (job'[v] = NoJob) <=> (at'[v] = "idle")
    BY <1>11, <2>1 DEF Load, Goto, worker
  <2>2. CASE Exists(job[w]) /\ Enter(w, "directing")
    BY <1>11, <2>1, <2>2 DEF Load, Enter, store, stream, history
  <2>3. CASE ~Exists(job[w]) /\ Goto(w, "fail") /\ UNCHANGED stage
    BY <1>11, <2>1, <2>3 DEF Load, store, stream, history
  <2> QED
    BY <1>11, <2>2, <2>3 DEF Load
<1>12. ASSUME NEW w \in Worker, PublishStage(w)
      PROVE  TypeOK'
  BY <1>12 DEF PublishStage, Publish, Goto, store, worker, stream, history
<1>13. ASSUME NEW w \in Worker, SetStage(w)
      PROVE  TypeOK'
  BY <1>13 DEF SetStage, SetStatus, Exists, Goto, store, worker, stream, history
<1>14. ASSUME NEW w \in Worker, Direct(w)
      PROVE  TypeOK'
  BY <1>14 DEF Direct, Enter, Goto, store, worker, stream, history
<1>15. ASSUME NEW w \in Worker, NEW s \in Slot, StartSlot(w, s)
      PROVE  TypeOK'
  BY <1>15 DEF StartSlot, Working, SlotTo, store, worker, stream, history
<1>16. ASSUME NEW w \in Worker, NEW s \in Slot, PersistSlot(w, s)
      PROVE  TypeOK'
  BY <1>16 DEF PersistSlot, Working, SlotTo, Insert, Exists, store, worker, stream, history
<1>17. ASSUME NEW w \in Worker, NEW s \in Slot, TellSlot(w, s)
      PROVE  TypeOK'
  BY <1>17 DEF TellSlot, Working, SlotTo, Publish, store, worker, stream, history
<1>18. ASSUME NEW w \in Worker, Joined(w)
      PROVE  TypeOK'
  BY <1>18 DEF Joined, Working, AllThrough, Enter, Goto, store, worker, stream, history
<1>19. ASSUME NEW w \in Worker, Finish(w)
      PROVE  TypeOK'
  BY <1>19 DEF Finish, SetStatus, Exists, Goto, store, worker, stream, history
<1>20. ASSUME NEW w \in Worker, Announce(w)
      PROVE  TypeOK'
  BY <1>20 DEF Announce, Publish, Rest, Goto, NoSlots, store, worker, stream, history
<1>21. ASSUME NEW w \in Worker, Fails(w)
      PROVE  TypeOK'
  <2>1. job[w] \in Job
    BY <1>21 DEF Fails
  <2>2. row' \in [Job -> Status]
    BY <1>21, <2>1, StatusType DEF Fails, store
  <2>3. results' \in [Job -> [Slot -> Nat]]
    <3>1. CASE results' = results
      BY <3>1
    <3>2. ASSUME NEW S \in SUBSET Slot, Insert(job[w], S)
          PROVE  results' \in [Job -> [Slot -> Nat]]
      BY <2>1, <3>2, InsertType
    <3> QED
      BY <1>21, <3>1, <3>2 DEF Fails, store
  <2>4. inbox' \in [Stream -> Seq(Active \cup Ended)]
    BY <1>21, <2>1, PublishType DEF Fails
  <2>5. /\ slots' \in [Worker -> [Slot -> {"wait", "image", "told", "ok"}]]
        /\ \A v \in Worker : (job'[v] = NoJob) <=> (at'[v] = "idle")
    BY <1>21 DEF Fails, Goto, NoSlots
  <2>6. doubted' \subseteq Job
    BY <1>21, <2>1 DEF Fails
  <2>7. at' \in [Worker -> {"idle", "load", "publish", "set", "work", "announce", "fail", "tell"}]
    BY <1>21 DEF Fails, Goto
  <2> QED
    BY <1>21, <2>2, <2>3, <2>4, <2>5, <2>6, <2>7 DEF Fails
<1>22. ASSUME NEW w \in Worker, Book(w)
      PROVE  TypeOK'
  BY <1>22 DEF Book, SetStatus, Exists, Goto, store, worker, stream, history
<1>23. ASSUME NEW w \in Worker, BookFails(w)
      PROVE  TypeOK'
  BY <1>23 DEF BookFails, Goto, store, worker, stream, history
<1>24. ASSUME NEW w \in Worker, TellFailed(w)
      PROVE  TypeOK'
  <2>1. inbox' \in [Stream -> Seq(Active \cup Ended)]
    BY <1>24, PublishType DEF TellFailed
  <2>2. /\ slots' \in [Worker -> [Slot -> {"wait", "image", "told", "ok"}]]
        /\ at' \in [Worker -> {"idle", "load", "publish", "set", "work", "announce", "fail", "tell"}]
        /\ \A v \in Worker : (job'[v] = NoJob) <=> (at'[v] = "idle")
    BY <1>24 DEF TellFailed, Rest, Goto, NoSlots
  <2>3. stage' \in [Worker -> Active] /\ job' \in [Worker -> Job \cup {NoJob}]
    BY <1>24 DEF TellFailed, Rest
  <2> QED
    BY <1>24, <2>1, <2>2, <2>3 DEF TellFailed, store, history
<1>25. ASSUME NEW w \in Worker, Die(w)
      PROVE  TypeOK'
  BY <1>25 DEF Die, Rest, Goto, NoSlots, store, worker, stream, history
<1>26. CASE RedisRestarts
  BY <1>26 DEF RedisRestarts, store, worker, stream, history
<1>27. CASE UNCHANGED vars
  BY <1>27 DEF vars, store, worker, stream, history
<1> QED
  BY <1>1, <1>2, <1>3, <1>4, <1>5, <1>6, <1>7, <1>8, <1>9, <1>10, <1>11, <1>12, <1>13,
     <1>14, <1>15, <1>16, <1>17, <1>18, <1>19, <1>20, <1>21, <1>22, <1>23, <1>24, <1>25,
        <1>26, <1>27
     DEF Next, WorkStep, ApiStep, StreamStep

-----------------------------------------------------------------------------
(* What the list holds after a push and a pop.                             *)
LEMMA Pushed ==
  ASSUME NEW e \in Job, queue \in Seq(Job), queue' = Append(queue, e)
  PROVE  /\ Listed' = Listed \cup {e}
         /\ ListedOnce /\ e \notin Listed => ListedOnce'
<1>1. /\ DOMAIN queue = 1 .. Len(queue) /\ DOMAIN queue' = 1 .. Len(queue) + 1
      /\ \A i \in 1 .. Len(queue) : queue'[i] = queue[i]
      /\ queue'[Len(queue) + 1] = e
      /\ Len(queue) \in Nat
  OBVIOUS
<1>2. \A i \in 1 .. Len(queue) + 1 : i \in 1 .. Len(queue) \/ i = Len(queue) + 1
  BY <1>1
<1>3. Listed' = Listed \cup {e}
  BY <1>1, <1>2 DEF Listed
<1>4. ASSUME ListedOnce, e \notin Listed
      PROVE  ListedOnce'
  <2>1. \A i \in 1 .. Len(queue) : queue[i] # e
    BY <1>1, <1>4 DEF Listed
  <2> QED
    BY <1>1, <1>2, <1>4, <2>1 DEF ListedOnce
<1> QED
  BY <1>3, <1>4

LEMMA Popped ==
  ASSUME queue \in Seq(Job), queue # <<>>, queue' = Tail(queue)
  PROVE  /\ Head(queue) \in Job
         /\ Listed = Listed' \cup {Head(queue)}
         /\ ListedOnce => ListedOnce' /\ Head(queue) \notin Listed'
<1>1. /\ DOMAIN queue = 1 .. Len(queue) /\ DOMAIN queue' = 1 .. Len(queue) - 1
      /\ \A i \in 1 .. Len(queue) - 1 : queue'[i] = queue[i + 1]
      /\ Head(queue) = queue[1] /\ Len(queue) \in Nat \ {0}
  OBVIOUS
<1>2. Head(queue) \in Job
  OBVIOUS
<1>3. ASSUME NEW i \in 1 .. Len(queue)
      PROVE  queue[i] \in Listed' \cup {Head(queue)}
  <2>1. CASE i = 1
    BY <1>1, <2>1
  <2>2. CASE i # 1
    <3>1. i - 1 \in 1 .. Len(queue) - 1 /\ (i - 1) + 1 = i
      BY <1>1, <2>2
    <3>2. queue[i] = queue'[i - 1]
      BY <1>1, <3>1
    <3> QED
      BY <1>1, <3>1, <3>2 DEF Listed
  <2> QED
    BY <2>1, <2>2
<1>4. ASSUME NEW i \in 1 .. Len(queue) - 1
      PROVE  i + 1 \in 1 .. Len(queue) /\ queue'[i] = queue[i + 1]
  BY <1>1
<1>5. Listed = Listed' \cup {Head(queue)}
  <2>1. Listed \subseteq Listed' \cup {Head(queue)}
    BY <1>1, <1>3 DEF Listed
  <2>2. 1 \in 1 .. Len(queue)
    BY <1>1
  <2>3. Listed' \cup {Head(queue)} \subseteq Listed
    BY <1>1, <1>4, <2>2 DEF Listed
  <2> QED
    BY <2>1, <2>3
<1>6. ASSUME ListedOnce
      PROVE  ListedOnce' /\ Head(queue) \notin Listed'
  <2>1. \A i \in 1 .. Len(queue) - 1 : i + 1 # 1
    BY <1>1
  <2> QED
    BY <1>1, <1>4, <1>6, <2>1 DEF ListedOnce, Listed
<1> QED
  BY <1>2, <1>5, <1>6

-----------------------------------------------------------------------------
(* A job nobody has submitted is nowhere and has no results; a worker that *)
(* is about to forget its job has booked its end, or the job is lost.      *)
Fresh ==
  \A j \in Job : row[j] = "none" => /\ j \notin calling \cup Listed \cup InHand
                                   /\ results[j] = [s \in Slot |-> 0]

Ending ==
  \A w \in Worker : /\ at[w] = "announce" => row[job[w]] \notin Active
                    /\ at[w] = "tell" => row[job[w]] \notin Active \/ job[w] \in lost

Placed == NothingForgotten /\ Fresh /\ Ending

LEMMA PlacedInit == Init => Placed
<1> SUFFICES ASSUME Init
             PROVE  Placed
  OBVIOUS
<1>1. Listed = {} /\ ListedOnce /\ calling = {}
  BY DEF Init, Listed, ListedOnce
<1>2. InHand \subseteq {NoJob} /\ InOneHand
  BY DEF Init, InHand, InOneHand
<1>3. \A j \in Job : row[j] \notin Active /\ j # NoJob
  BY JobAssumption DEF Init, Active
<1>4. Fresh /\ Ending
  BY <1>1, <1>2, <1>3 DEF Init, Fresh, Ending
<1> QED
  BY <1>1, <1>2, <1>3, <1>4 DEF Placed, NothingForgotten, OnlyOnce, KnownUnlessLost

(* A step that moves no job keeps them in place, if it gives a row a stage *)
(* only for a job that somebody has.                                       *)
LEMMA NobodyMoves ==
  ASSUME TypeOK, NothingForgotten, Fresh,
         UNCHANGED <<calling, queue, job>>, lost \subseteq lost',
         \A j \in Job : row'[j] \in Active => row[j] \in Active \/ j \in InHand,
         \A j \in Job : row'[j] = "none" => row[j] = "none" /\ results'[j] = results[j]
  PROVE  NothingForgotten' /\ Fresh'
<1>1. Listed' = Listed /\ InHand' = InHand /\ ListedOnce' = ListedOnce /\ InOneHand' = InOneHand
  BY DEF Listed, InHand, ListedOnce, InOneHand
<1>2. NothingForgotten'
  BY <1>1 DEF NothingForgotten, OnlyOnce, KnownUnlessLost
<1> QED
  BY <1>1, <1>2 DEF Fresh

(* What a worker that rests leaves behind.                                 *)
LEMMA Rested ==
  ASSUME TypeOK, InOneHand, NEW w \in Worker, Rest(w)
  PROVE  /\ InOneHand'
         /\ InHand' \ {NoJob} = InHand \ {NoJob, job[w]}
<1>1. job' = [job EXCEPT ![w] = NoJob]
  BY DEF Rest
<1>2. InOneHand'
  BY <1>1 DEF TypeOK, InOneHand
<1>3. \A v \in Worker : job'[v] # NoJob => v # w /\ job'[v] = job[v] /\ job[v] # job[w]
  BY <1>1 DEF TypeOK, InOneHand
<1>4. \A v \in Worker : job[v] # job[w] => job'[v] = job[v]
  BY <1>1 DEF TypeOK
<1> QED
  BY <1>2, <1>3, <1>4 DEF InHand

(* A worker rests: nobody forgets a job, if its row has no stage or it is  *)
(* lost.                                                                   *)
LEMMA RestPlaced ==
  ASSUME TypeOK, NothingForgotten, Fresh, NEW w \in Worker, Rest(w),
         UNCHANGED <<store, calling, queue>>, lost \subseteq lost',
         row[job[w]] \notin Active \/ job[w] \in lost'
  PROVE  NothingForgotten' /\ Fresh'
<1>1. Listed' = Listed /\ ListedOnce' = ListedOnce
  BY DEF Listed, ListedOnce
<1>2. InOneHand' /\ InHand' \ {NoJob} = InHand \ {NoJob, job[w]}
  BY Rested DEF NothingForgotten, OnlyOnce
<1>3. Listed \subseteq Job /\ calling \subseteq Job /\ NoJob \notin Job
  <2>1. ASSUME NEW i \in DOMAIN queue
        PROVE  queue[i] \in Job
    BY DEF TypeOK
  <2> QED
    BY <2>1, JobAssumption DEF TypeOK, Listed
<1>4. OnlyOnce'
  BY <1>1, <1>2, <1>3 DEF NothingForgotten, OnlyOnce
<1>5. KnownUnlessLost'
  BY <1>1, <1>2, <1>3 DEF NothingForgotten, KnownUnlessLost, store
<1>6. Fresh'
  BY <1>1, <1>2, <1>3 DEF Fresh, store
<1> QED
  BY <1>4, <1>5, <1>6 DEF NothingForgotten

LEMMA PlacedStep ==
  ASSUME TypeOK, NothingForgotten, Fresh, Ending, [Next]_vars
  PROVE  NothingForgotten' /\ Fresh'
<1>1. ASSUME NEW j \in Job, Create(j)
      PROVE  NothingForgotten' /\ Fresh'
  <2>1. Listed' = Listed /\ InHand' = InHand /\ ListedOnce' = ListedOnce /\ InOneHand' = InOneHand
    BY <1>1 DEF Create, worker, Listed, InHand, ListedOnce, InOneHand
  <2>2. j \notin calling \cup Listed \cup InHand
    BY <1>1 DEF Create, Fresh
  <2>3. OnlyOnce'
    BY <1>1, <2>1, <2>2 DEF Create, NothingForgotten, OnlyOnce
  <2>4. KnownUnlessLost'
    BY <1>1, <2>1 DEF Create, NothingForgotten, KnownUnlessLost, TypeOK, history
  <2>5. Fresh'
    BY <1>1, <2>1 DEF Create, Fresh, TypeOK
  <2> QED
    BY <2>3, <2>4, <2>5 DEF NothingForgotten
<1>2. ASSUME NEW j \in Job, Push(j)
      PROVE  NothingForgotten' /\ Fresh'
  <2>1. InHand' = InHand /\ InOneHand' = InOneHand
    BY <1>2 DEF Push, worker, InHand, InOneHand
  <2>2. j \notin Listed /\ j \notin InHand
    BY <1>2 DEF Push, NothingForgotten, OnlyOnce
  <2>3. Listed' = Listed \cup {j} /\ ListedOnce'
    BY <1>2, <2>2, Pushed DEF Push, NothingForgotten, OnlyOnce, TypeOK
  <2>4. OnlyOnce'
    BY <1>2, <2>1, <2>2, <2>3 DEF Push, NothingForgotten, OnlyOnce
  <2>5. KnownUnlessLost'
    BY <1>2, <2>1, <2>3 DEF Push, NothingForgotten, KnownUnlessLost, store, history
  <2>6. Fresh'
    BY <1>2, <2>1, <2>3 DEF Push, Fresh, store
  <2> QED
    BY <2>4, <2>5, <2>6 DEF NothingForgotten
<1>3. ASSUME NEW j \in Job, PushFails(j)
      PROVE  NothingForgotten' /\ Fresh'
  <2>1. Listed' = Listed /\ InHand' = InHand /\ ListedOnce' = ListedOnce /\ InOneHand' = InOneHand
    BY <1>3 DEF PushFails, worker, Listed, InHand, ListedOnce, InOneHand
  <2>2. OnlyOnce'
    BY <1>3, <2>1 DEF PushFails, NothingForgotten, OnlyOnce
  <2>3. KnownUnlessLost'
    BY <1>3, <2>1 DEF PushFails, NothingForgotten, KnownUnlessLost, store
  <2>4. Fresh'
    BY <1>3, <2>1 DEF PushFails, Fresh, store
  <2> QED
    BY <2>2, <2>3, <2>4 DEF NothingForgotten
<1>4. ASSUME NEW j \in Job, Delete(j)
      PROVE  NothingForgotten' /\ Fresh'
  BY <1>4, NobodyMoves DEF Delete, Exists, Active, store, worker, stream, history
<1>5. ASSUME NEW x \in Stream, NEW j \in Job, Listen(x, j)
      PROVE  NothingForgotten' /\ Fresh'
  BY <1>5, NobodyMoves DEF Listen, Exists, Ended, store, worker, stream, history
<1>6. ASSUME NEW x \in Stream, Subscribe(x)
      PROVE  NothingForgotten' /\ Fresh'
  BY <1>6, NobodyMoves DEF Subscribe, store, worker, stream, history
<1>7. ASSUME NEW x \in Stream, Deliver(x)
      PROVE  NothingForgotten' /\ Fresh'
  BY <1>7, NobodyMoves DEF Deliver, Ended, store, worker, stream, history
<1>8. ASSUME NEW x \in Stream, GiveUp(x)
      PROVE  NothingForgotten' /\ Fresh'
  BY <1>8, NobodyMoves DEF GiveUp, store, worker, stream, history
<1>9. ASSUME NEW x \in Stream, Close(x)
      PROVE  NothingForgotten' /\ Fresh'
  BY <1>9, NobodyMoves DEF Close, store, worker, stream, history
<1>10. ASSUME NEW w \in Worker, Pop(w)
      PROVE  NothingForgotten' /\ Fresh'
  <2> DEFINE h == Head(queue)
  <2>1. ListedOnce
    BY DEF NothingForgotten, OnlyOnce
  <2>2. /\ h \in Job /\ Listed = Listed' \cup {h}
        /\ ListedOnce' /\ h \notin Listed'
    BY <1>10, <2>1, Popped DEF Pop, TypeOK
  <2>3. job[w] = NoJob /\ h \notin InHand /\ h \notin calling
    BY <1>10, <2>2 DEF Pop, TypeOK, NothingForgotten, OnlyOnce
  <2>4. InOneHand'
    BY <1>10, <2>2, <2>3 DEF Pop, TypeOK, NothingForgotten, OnlyOnce, InOneHand, InHand
  <2>5. InHand' \cup {NoJob} = InHand \cup {h, NoJob}
    <3>1. job' = [job EXCEPT ![w] = h]
      BY <1>10 DEF Pop
    <3>2. \A v \in Worker : v = w \/ job'[v] = job[v]
      BY <3>1 DEF TypeOK
    <3>3. job'[w] = h
      BY <3>1 DEF TypeOK
    <3> QED
      BY <2>3, <3>2, <3>3 DEF InHand
  <2>6. NoJob \notin Job /\ Listed \subseteq Job /\ calling \subseteq Job
    <3>1. ASSUME NEW i \in DOMAIN queue
          PROVE  queue[i] \in Job
      BY DEF TypeOK
    <3> QED
      BY <3>1, JobAssumption DEF TypeOK, Listed
  <2>7. OnlyOnce'
    BY <1>10, <2>2, <2>3, <2>4, <2>5, <2>6 DEF Pop, NothingForgotten, OnlyOnce
  <2>8. KnownUnlessLost'
    BY <1>10, <2>2, <2>5, <2>6 DEF Pop, NothingForgotten, KnownUnlessLost, store, history
  <2>9. Fresh'
    BY <1>10, <2>2, <2>3, <2>5, <2>6 DEF Pop, Fresh, store
  <2> QED
    BY <2>7, <2>8, <2>9 DEF NothingForgotten
<1>11. ASSUME NEW w \in Worker, Load(w)
      PROVE  NothingForgotten' /\ Fresh'
  BY <1>11, NobodyMoves DEF Load, Enter, Goto, Exists, store, worker, stream, history
<1>12. ASSUME NEW w \in Worker, PublishStage(w)
      PROVE  NothingForgotten' /\ Fresh'
  BY <1>12, NobodyMoves DEF PublishStage, Publish, Goto, store, worker, stream, history
<1>13. ASSUME NEW w \in Worker, SetStage(w)
      PROVE  NothingForgotten' /\ Fresh'
  <2>1. job[w] \in InHand
    BY DEF InHand
  <2> QED
    BY <1>13, <2>1, NobodyMoves DEF SetStage, SetStatus, Exists, Goto, TypeOK, Active,
       store, worker, stream, history
<1>14. ASSUME NEW w \in Worker, Direct(w)
      PROVE  NothingForgotten' /\ Fresh'
  BY <1>14, NobodyMoves DEF Direct, Enter, Goto, store, worker, stream, history
<1>15. ASSUME NEW w \in Worker, NEW s \in Slot, StartSlot(w, s)
      PROVE  NothingForgotten' /\ Fresh'
  BY <1>15, NobodyMoves DEF StartSlot, Working, SlotTo, store, worker, stream, history
<1>16. ASSUME NEW w \in Worker, NEW s \in Slot, PersistSlot(w, s)
      PROVE  NothingForgotten' /\ Fresh'
  BY <1>16, NobodyMoves DEF PersistSlot, Working, SlotTo, Insert, Exists, store, worker,
     stream, history
<1>17. ASSUME NEW w \in Worker, NEW s \in Slot, TellSlot(w, s)
      PROVE  NothingForgotten' /\ Fresh'
  BY <1>17, NobodyMoves DEF TellSlot, Working, SlotTo, Publish, store, worker, stream, history
<1>18. ASSUME NEW w \in Worker, Joined(w)
      PROVE  NothingForgotten' /\ Fresh'
  BY <1>18, NobodyMoves DEF Joined, Working, AllThrough, Enter, Goto, store, worker,
     stream, history
<1>19. ASSUME NEW w \in Worker, Finish(w)
      PROVE  NothingForgotten' /\ Fresh'
  BY <1>19, NobodyMoves DEF Finish, SetStatus, Exists, Goto, TypeOK, Active, store, worker,
     stream, history
<1>20. ASSUME NEW w \in Worker, Announce(w)
      PROVE  NothingForgotten' /\ Fresh'
  BY <1>20, RestPlaced DEF Announce, Ending, TypeOK, store, history
<1>21. ASSUME NEW w \in Worker, Fails(w)
      PROVE  NothingForgotten' /\ Fresh'
  <2>1. job[w] \in InHand
    BY DEF InHand
  <2> QED
    BY <1>21, <2>1, NobodyMoves DEF Fails, Goto, NoSlots, Publish, SetStatus, Exists,
       Working, Insert, TypeOK, Active, store, worker, stream, history
<1>22. ASSUME NEW w \in Worker, Book(w)
      PROVE  NothingForgotten' /\ Fresh'
  BY <1>22, NobodyMoves DEF Book, SetStatus, Exists, Goto, TypeOK, Active, store, worker,
     stream, history
<1>23. ASSUME NEW w \in Worker, BookFails(w)
      PROVE  NothingForgotten' /\ Fresh'
  BY <1>23, NobodyMoves DEF BookFails, Goto, store, worker, stream, history
<1>24. ASSUME NEW w \in Worker, TellFailed(w)
      PROVE  NothingForgotten' /\ Fresh'
  BY <1>24, RestPlaced DEF TellFailed, Ending, TypeOK, store, history
<1>25. ASSUME NEW w \in Worker, Die(w)
      PROVE  NothingForgotten' /\ Fresh'
  BY <1>25, RestPlaced DEF Die, store
<1>26. CASE RedisRestarts
  <2>1. InHand' = InHand /\ InOneHand' = InOneHand
    BY <1>26 DEF RedisRestarts, worker, InHand, InOneHand
  <2>2. Listed' = {} /\ ListedOnce'
    BY <1>26 DEF RedisRestarts, Listed, ListedOnce
  <2>3. OnlyOnce'
    BY <1>26, <2>1, <2>2 DEF RedisRestarts, NothingForgotten, OnlyOnce
  <2>4. lost' = lost \cup Listed
    BY <1>26 DEF RedisRestarts, Listed
  <2>5. KnownUnlessLost'
    BY <1>26, <2>1, <2>4 DEF RedisRestarts, NothingForgotten, KnownUnlessLost, store
  <2>6. Fresh'
    BY <1>26, <2>1, <2>2 DEF RedisRestarts, Fresh, store
  <2> QED
    BY <2>3, <2>5, <2>6 DEF NothingForgotten
<1>27. CASE UNCHANGED vars
  BY <1>27, NobodyMoves DEF vars, store, worker, stream, history
<1> QED
  BY <1>1, <1>2, <1>3, <1>4, <1>5, <1>6, <1>7, <1>8, <1>9, <1>10, <1>11, <1>12, <1>13,
     <1>14, <1>15, <1>16, <1>17, <1>18, <1>19, <1>20, <1>21, <1>22, <1>23, <1>24, <1>25,
        <1>26, <1>27
     DEF Next, WorkStep, ApiStep, StreamStep

LEMMA EndingStep ==
  ASSUME TypeOK, NothingForgotten, Fresh, Ending, [Next]_vars
  PROVE  Ending'
<1> USE JobAssumption DEF TypeOK, Ending
<1> InOneHand
  BY DEF NothingForgotten, OnlyOnce
<1> USE DEF InOneHand, Active
<1>1. ASSUME NEW j \in Job, Create(j)
      PROVE  Ending'
  <2>1. \A w \in Worker : job[w] # j
    BY <1>1 DEF Create, Fresh, InHand
  <2> QED
    BY <1>1, <2>1 DEF Create, worker, history
<1>2. ASSUME NEW j \in Job, Push(j)
      PROVE  Ending'
  BY <1>2 DEF Push, store, worker, stream, history
<1>3. ASSUME NEW j \in Job, PushFails(j)
      PROVE  Ending'
  BY <1>3 DEF PushFails, store, worker, stream, history
<1>4. ASSUME NEW j \in Job, Delete(j)
      PROVE  Ending'
  BY <1>4 DEF Delete, Exists, store, worker, stream, history
<1>5. ASSUME NEW x \in Stream, NEW j \in Job, Listen(x, j)
      PROVE  Ending'
  BY <1>5 DEF Listen, Exists, Ended, store, worker, stream, history
<1>6. ASSUME NEW x \in Stream, Subscribe(x)
      PROVE  Ending'
  BY <1>6 DEF Subscribe, store, worker, stream, history
<1>7. ASSUME NEW x \in Stream, Deliver(x)
      PROVE  Ending'
  BY <1>7 DEF Deliver, Ended, store, worker, stream, history
<1>8. ASSUME NEW x \in Stream, GiveUp(x)
      PROVE  Ending'
  BY <1>8 DEF GiveUp, store, worker, stream, history
<1>9. ASSUME NEW x \in Stream, Close(x)
      PROVE  Ending'
  BY <1>9 DEF Close, store, worker, stream, history
<1>10. ASSUME NEW w \in Worker, Pop(w)
      PROVE  Ending'
  BY <1>10 DEF Pop, store, worker, stream, history
<1>11. ASSUME NEW w \in Worker, Load(w)
      PROVE  Ending'
  BY <1>11 DEF Load, Enter, Goto, Exists, store, worker, stream, history
<1>12. ASSUME NEW w \in Worker, PublishStage(w)
      PROVE  Ending'
  BY <1>12 DEF PublishStage, Publish, Goto, store, worker, stream, history
<1>13. ASSUME NEW w \in Worker, SetStage(w)
      PROVE  Ending'
  BY <1>13 DEF SetStage, SetStatus, Exists, Goto, store, worker, stream, history
<1>14. ASSUME NEW w \in Worker, Direct(w)
      PROVE  Ending'
  BY <1>14 DEF Direct, Enter, Goto, store, worker, stream, history
<1>15. ASSUME NEW w \in Worker, NEW s \in Slot, StartSlot(w, s)
      PROVE  Ending'
  BY <1>15 DEF StartSlot, Working, SlotTo, store, worker, stream, history
<1>16. ASSUME NEW w \in Worker, NEW s \in Slot, PersistSlot(w, s)
      PROVE  Ending'
  BY <1>16 DEF PersistSlot, Working, SlotTo, Insert, Exists, store, worker, stream, history
<1>17. ASSUME NEW w \in Worker, NEW s \in Slot, TellSlot(w, s)
      PROVE  Ending'
  BY <1>17 DEF TellSlot, Working, SlotTo, Publish, store, worker, stream, history
<1>18. ASSUME NEW w \in Worker, Joined(w)
      PROVE  Ending'
  BY <1>18 DEF Joined, Working, AllThrough, Enter, Goto, store, worker, stream, history
<1>19. ASSUME NEW w \in Worker, Finish(w)
      PROVE  Ending'
  BY <1>19 DEF Finish, SetStatus, Exists, Goto, store, worker, stream, history
<1>20. ASSUME NEW w \in Worker, Announce(w)
      PROVE  Ending'
  BY <1>20 DEF Announce, Publish, Rest, Goto, NoSlots, store, worker, stream, history
<1>21. ASSUME NEW w \in Worker, Fails(w)
      PROVE  Ending'
  BY <1>21 DEF Fails, Goto, NoSlots, Publish, SetStatus, Exists, Working, Insert, store,
     worker, stream, history
<1>22. ASSUME NEW w \in Worker, Book(w)
      PROVE  Ending'
  BY <1>22 DEF Book, SetStatus, Exists, Goto, store, worker, stream, history
<1>23. ASSUME NEW w \in Worker, BookFails(w)
      PROVE  Ending'
  BY <1>23 DEF BookFails, Goto, store, worker, stream, history
<1>24. ASSUME NEW w \in Worker, TellFailed(w)
      PROVE  Ending'
  BY <1>24 DEF TellFailed, Publish, Rest, Goto, NoSlots, store, worker, stream, history
<1>25. ASSUME NEW w \in Worker, Die(w)
      PROVE  Ending'
  BY <1>25 DEF Die, Rest, Goto, NoSlots, store, worker, stream, history
<1>26. CASE RedisRestarts
  BY <1>26 DEF RedisRestarts, store, worker, stream, history
<1>27. CASE UNCHANGED vars
  BY <1>27 DEF vars, store, worker, stream, history
<1> QED
  BY <1>1, <1>2, <1>3, <1>4, <1>5, <1>6, <1>7, <1>8, <1>9, <1>10, <1>11, <1>12, <1>13,
     <1>14, <1>15, <1>16, <1>17, <1>18, <1>19, <1>20, <1>21, <1>22, <1>23, <1>24, <1>25,
        <1>26, <1>27
     DEF Next, WorkStep, ApiStep, StreamStep

-----------------------------------------------------------------------------
(* A job that no worker has yet has no results.                            *)
Untouched ==
  \A j \in calling \cup Listed : /\ row[j] \in {"queued", "deleted"}
                                /\ results[j] = [s \in Slot |-> 0]

(* A worker on its way knows the results its job has: one of each slot it  *)
(* has persisted.                                                          *)
OnItsWay == {"load", "publish", "set", "work"}

Running ==
  \A w \in Worker :
    /\ at[w] \in {"idle", "load"} => slots[w] = NoSlots
    /\ at[w] \in OnItsWay =>
         /\ row[job[w]] \in Active \cup {"deleted"}
         /\ row[job[w]] # "deleted" =>
              \A s \in Slot : results[job[w]][s] = IF slots[w][s] \in {"told", "ok"} THEN 1 ELSE 0
    /\ at[w] \in OnItsWay \ {"load"} /\ stage[w] = "uploading" => AllThrough(w)

LEMMA UntouchedStep ==
  ASSUME TypeOK, NothingForgotten, Fresh, Untouched, [Next]_vars
  PROVE  Untouched'
<1> USE DEF TypeOK, Untouched
<1>a. \A w \in Worker : job[w] \notin calling \cup Listed
  BY DEF NothingForgotten, OnlyOnce, InHand
<1>b. queue' = queue => Listed' = Listed
  BY DEF Listed
<1>c. Listed \subseteq Job
  <2>1. ASSUME NEW i \in DOMAIN queue
        PROVE  queue[i] \in Job
    OBVIOUS
  <2> QED
    BY <2>1 DEF Listed
<1>1. ASSUME NEW j \in Job, Create(j)
      PROVE  Untouched'
  BY <1>1, <1>b, <1>c DEF Create, Fresh
<1>2. ASSUME NEW j \in Job, Push(j)
      PROVE  Untouched'
  <2>1. Listed' = Listed \cup {j}
    BY <1>2, Pushed DEF Push
  <2> QED
    BY <1>2, <2>1 DEF Push, store
<1>3. ASSUME NEW j \in Job, PushFails(j)
      PROVE  Untouched'
  BY <1>3, <1>a, <1>b, <1>c DEF PushFails, store, worker, stream, history
<1>4. ASSUME NEW j \in Job, Delete(j)
      PROVE  Untouched'
  BY <1>4, <1>a, <1>b, <1>c DEF Delete, Exists, store, worker, stream, history
<1>5. ASSUME NEW x \in Stream, NEW j \in Job, Listen(x, j)
      PROVE  Untouched'
  BY <1>5, <1>a, <1>b, <1>c DEF Listen, Exists, Ended, store, worker, stream, history
<1>6. ASSUME NEW x \in Stream, Subscribe(x)
      PROVE  Untouched'
  BY <1>6, <1>a, <1>b, <1>c DEF Subscribe, store, worker, stream, history
<1>7. ASSUME NEW x \in Stream, Deliver(x)
      PROVE  Untouched'
  BY <1>7, <1>a, <1>b, <1>c DEF Deliver, Ended, store, worker, stream, history
<1>8. ASSUME NEW x \in Stream, GiveUp(x)
      PROVE  Untouched'
  BY <1>8, <1>a, <1>b, <1>c DEF GiveUp, store, worker, stream, history
<1>9. ASSUME NEW x \in Stream, Close(x)
      PROVE  Untouched'
  BY <1>9, <1>a, <1>b, <1>c DEF Close, store, worker, stream, history
<1>10. ASSUME NEW w \in Worker, Pop(w)
      PROVE  Untouched'
  <2>1. Listed' \subseteq Listed
    BY <1>10, Popped DEF Pop
  <2> QED
    BY <1>10, <2>1 DEF Pop, store
<1>11. ASSUME NEW w \in Worker, Load(w)
      PROVE  Untouched'
  BY <1>11, <1>a, <1>b, <1>c DEF Load, Enter, Goto, Exists, store, worker, stream, history
<1>12. ASSUME NEW w \in Worker, PublishStage(w)
      PROVE  Untouched'
  BY <1>12, <1>a, <1>b, <1>c DEF PublishStage, Publish, Goto, store, worker, stream, history
<1>13. ASSUME NEW w \in Worker, SetStage(w)
      PROVE  Untouched'
  BY <1>13, <1>a, <1>b, <1>c DEF SetStage, SetStatus, Exists, Goto, store, worker, stream,
     history
<1>14. ASSUME NEW w \in Worker, Direct(w)
      PROVE  Untouched'
  BY <1>14, <1>a, <1>b, <1>c DEF Direct, Enter, Goto, store, worker, stream, history
<1>15. ASSUME NEW w \in Worker, NEW s \in Slot, StartSlot(w, s)
      PROVE  Untouched'
  BY <1>15, <1>a, <1>b, <1>c DEF StartSlot, Working, SlotTo, store, worker, stream, history
<1>16. ASSUME NEW w \in Worker, NEW s \in Slot, PersistSlot(w, s)
      PROVE  Untouched'
  BY <1>16, <1>a, <1>b, <1>c DEF PersistSlot, Working, SlotTo, Insert, Exists, store,
     worker, stream, history
<1>17. ASSUME NEW w \in Worker, NEW s \in Slot, TellSlot(w, s)
      PROVE  Untouched'
  BY <1>17, <1>a, <1>b, <1>c DEF TellSlot, Working, SlotTo, Publish, store, worker, stream,
     history
<1>18. ASSUME NEW w \in Worker, Joined(w)
      PROVE  Untouched'
  BY <1>18, <1>a, <1>b, <1>c DEF Joined, Working, AllThrough, Enter, Goto, store, worker,
     stream, history
<1>19. ASSUME NEW w \in Worker, Finish(w)
      PROVE  Untouched'
  BY <1>19, <1>a, <1>b, <1>c DEF Finish, SetStatus, Exists, Goto, store, worker, stream,
     history
<1>20. ASSUME NEW w \in Worker, Announce(w)
      PROVE  Untouched'
  BY <1>20, <1>a, <1>b, <1>c DEF Announce, Publish, Rest, Goto, NoSlots, store, worker,
     stream, history
<1>21. ASSUME NEW w \in Worker, Fails(w)
      PROVE  Untouched'
  BY <1>21, <1>a, <1>b, <1>c DEF Fails, Goto, NoSlots, Publish, SetStatus, Exists, Working,
     Insert, store, worker, stream, history
<1>22. ASSUME NEW w \in Worker, Book(w)
      PROVE  Untouched'
  BY <1>22, <1>a, <1>b, <1>c DEF Book, SetStatus, Exists, Goto, store, worker, stream, history
<1>23. ASSUME NEW w \in Worker, BookFails(w)
      PROVE  Untouched'
  BY <1>23, <1>a, <1>b, <1>c DEF BookFails, Goto, store, worker, stream, history
<1>24. ASSUME NEW w \in Worker, TellFailed(w)
      PROVE  Untouched'
  BY <1>24, <1>a, <1>b, <1>c DEF TellFailed, Publish, Rest, Goto, NoSlots, store, worker,
     stream, history
<1>25. ASSUME NEW w \in Worker, Die(w)
      PROVE  Untouched'
  BY <1>25, <1>a, <1>b, <1>c DEF Die, Rest, Goto, NoSlots, store, worker, stream, history
<1>26. CASE RedisRestarts
  <2>1. Listed' = {}
    BY <1>26 DEF RedisRestarts, Listed
  <2> QED
    BY <1>26, <2>1 DEF RedisRestarts, store
<1>27. CASE UNCHANGED vars
  BY <1>27, <1>b DEF vars, store, worker, stream, history
<1> QED
  BY <1>1, <1>2, <1>3, <1>4, <1>5, <1>6, <1>7, <1>8, <1>9, <1>10, <1>11, <1>12, <1>13,
     <1>14, <1>15, <1>16, <1>17, <1>18, <1>19, <1>20, <1>21, <1>22, <1>23, <1>24, <1>25,
        <1>26, <1>27
     DEF Next, WorkStep, ApiStep, StreamStep

LEMMA RunningStep ==
  ASSUME TypeOK, NothingForgotten, Fresh, Untouched, Running, [Next]_vars
  PROVE  Running'
<1> InOneHand
  BY DEF NothingForgotten, OnlyOnce
<1> USE JobAssumption DEF TypeOK, Running, InOneHand, OnItsWay, Active, AllThrough
<1>1. ASSUME NEW j \in Job, Create(j)
      PROVE  Running'
  BY <1>1 DEF Create, store, worker, stream, history
<1>2. ASSUME NEW j \in Job, Push(j)
      PROVE  Running'
  BY <1>2 DEF Push, store, worker, stream, history
<1>3. ASSUME NEW j \in Job, PushFails(j)
      PROVE  Running'
  BY <1>3 DEF PushFails, store, worker, stream, history
<1>4. ASSUME NEW j \in Job, Delete(j)
      PROVE  Running'
  BY <1>4 DEF Delete, Exists, store, worker, stream, history
<1>5. ASSUME NEW x \in Stream, NEW j \in Job, Listen(x, j)
      PROVE  Running'
  BY <1>5 DEF Listen, Exists, Ended, store, worker, stream, history
<1>6. ASSUME NEW x \in Stream, Subscribe(x)
      PROVE  Running'
  BY <1>6 DEF Subscribe, store, worker, stream, history
<1>7. ASSUME NEW x \in Stream, Deliver(x)
      PROVE  Running'
  BY <1>7 DEF Deliver, Ended, store, worker, stream, history
<1>8. ASSUME NEW x \in Stream, GiveUp(x)
      PROVE  Running'
  BY <1>8 DEF GiveUp, store, worker, stream, history
<1>9. ASSUME NEW x \in Stream, Close(x)
      PROVE  Running'
  BY <1>9 DEF Close, store, worker, stream, history
<1>10. ASSUME NEW w \in Worker, Pop(w)
      PROVE  Running'
  <2>1. Head(queue) \in Job /\ Head(queue) \in Listed
    BY <1>10, Popped DEF Pop
  <2>2. /\ row[Head(queue)] \in {"queued", "deleted"}
        /\ \A s \in Slot : results[Head(queue)][s] = 0
    BY <2>1 DEF Untouched
  <2>3. \A s \in Slot : slots[w][s] = "wait"
    BY <1>10 DEF Pop, NoSlots
  <2> QED
    BY <1>10, <2>1, <2>2, <2>3 DEF Pop, store, worker
<1>11. ASSUME NEW w \in Worker, Load(w)
      PROVE  Running'
  BY <1>11 DEF Load, Enter, Goto, Exists, store, worker, stream, history
<1>12. ASSUME NEW w \in Worker, PublishStage(w)
      PROVE  Running'
  BY <1>12 DEF PublishStage, Publish, Goto, store, worker, stream, history
<1>13. ASSUME NEW w \in Worker, SetStage(w)
      PROVE  Running'
  BY <1>13 DEF SetStage, SetStatus, Exists, Goto, store, worker, stream, history
<1>14. ASSUME NEW w \in Worker, Direct(w)
      PROVE  Running'
  BY <1>14 DEF Direct, Enter, Goto, store, worker, stream, history
<1>15. ASSUME NEW w \in Worker, NEW s \in Slot, StartSlot(w, s)
      PROVE  Running'
  BY <1>15 DEF StartSlot, Working, SlotTo, store, worker, stream, history
<1>16. ASSUME NEW w \in Worker, NEW s \in Slot, PersistSlot(w, s)
      PROVE  Running'
  BY <1>16 DEF PersistSlot, Working, SlotTo, Insert, Exists, store, worker, stream, history
<1>17. ASSUME NEW w \in Worker, NEW s \in Slot, TellSlot(w, s)
      PROVE  Running'
  BY <1>17 DEF TellSlot, Working, SlotTo, Publish, store, worker, stream, history
<1>18. ASSUME NEW w \in Worker, Joined(w)
      PROVE  Running'
  BY <1>18 DEF Joined, Working, AllThrough, Enter, Goto, store, worker, stream, history
<1>19. ASSUME NEW w \in Worker, Finish(w)
      PROVE  Running'
  BY <1>19 DEF Finish, SetStatus, Exists, Goto, store, worker, stream, history
<1>20. ASSUME NEW w \in Worker, Announce(w)
      PROVE  Running'
  BY <1>20 DEF Announce, Publish, Rest, Goto, NoSlots, store, worker, stream, history
<1>21. ASSUME NEW w \in Worker, Fails(w)
      PROVE  Running'
  BY <1>21 DEF Fails, Goto, NoSlots, Publish, SetStatus, Exists, Working, Insert, store,
     worker, stream, history
<1>22. ASSUME NEW w \in Worker, Book(w)
      PROVE  Running'
  BY <1>22 DEF Book, SetStatus, Exists, Goto, store, worker, stream, history
<1>23. ASSUME NEW w \in Worker, BookFails(w)
      PROVE  Running'
  BY <1>23 DEF BookFails, Goto, store, worker, stream, history
<1>24. ASSUME NEW w \in Worker, TellFailed(w)
      PROVE  Running'
  BY <1>24 DEF TellFailed, Publish, Rest, Goto, NoSlots, store, worker, stream, history
<1>25. ASSUME NEW w \in Worker, Die(w)
      PROVE  Running'
  BY <1>25 DEF Die, Rest, Goto, NoSlots, store, worker, stream, history
<1>26. CASE RedisRestarts
  BY <1>26 DEF RedisRestarts, store, worker, stream, history
<1>27. CASE UNCHANGED vars
  BY <1>27 DEF vars, store, worker, stream, history
<1> QED
  BY <1>1, <1>2, <1>3, <1>4, <1>5, <1>6, <1>7, <1>8, <1>9, <1>10, <1>11, <1>12, <1>13,
     <1>14, <1>15, <1>16, <1>17, <1>18, <1>19, <1>20, <1>21, <1>22, <1>23, <1>24, <1>25,
        <1>26, <1>27
     DEF Next, WorkStep, ApiStep, StreamStep

LEMMA HasOpenJob ==
  ASSUME TypeOK, Running, NEW w \in Worker, at[w] \in OnItsWay
  PROVE  job[w] \in Job /\ row[job[w]] \in Active \cup {"deleted"} /\ row[job[w]] # "done"
BY DEF TypeOK, Running, OnItsWay, Active

LEMMA UploadsAll ==
  ASSUME TypeOK, Running, NEW w \in Worker, at[w] = "work", stage[w] = "uploading",
         row[job[w]] # "deleted"
  PROVE  \A s \in Slot : results[job[w]][s] = 1
BY DEF Running, OnItsWay, AllThrough

LEMMA StatusSet ==
  ASSUME TypeOK, NEW j \in Job, NEW s, SetStatus(j, s)
  PROVE  /\ \A k \in Job : row'[k] # row[k] => k = j /\ row'[k] = s
         /\ row'[j] = s => row[j] \notin {"none", "deleted"} \/ row[j] = s
BY DEF TypeOK, SetStatus, Exists

LEMMA StillComplete ==
  ASSUME DoneIsComplete,
         \A j \in Job : row'[j] = "done" => row[j] = "done" /\ results'[j] = results[j]
  PROVE  DoneIsComplete'
BY DEF DoneIsComplete

LEMMA DoneStep ==
  ASSUME TypeOK, NothingForgotten, Fresh, Untouched, Running, DoneIsComplete, [Next]_vars
  PROVE  DoneIsComplete'
<1>1. ASSUME NEW j \in Job, Create(j)
      PROVE  DoneIsComplete'
  BY <1>1, StillComplete DEF Create, TypeOK
<1>2. ASSUME NEW j \in Job, Push(j)
      PROVE  DoneIsComplete'
  BY <1>2, StillComplete DEF Push, store
<1>3. ASSUME NEW j \in Job, PushFails(j)
      PROVE  DoneIsComplete'
  BY <1>3, StillComplete DEF PushFails, store
<1>4. ASSUME NEW j \in Job, Delete(j)
      PROVE  DoneIsComplete'
  BY <1>4, StillComplete DEF Delete, TypeOK
<1>5. ASSUME NEW x \in Stream, NEW j \in Job, Listen(x, j)
      PROVE  DoneIsComplete'
  BY <1>5, StillComplete DEF Listen, store
<1>6. ASSUME NEW x \in Stream, Subscribe(x)
      PROVE  DoneIsComplete'
  BY <1>6, StillComplete DEF Subscribe, store
<1>7. ASSUME NEW x \in Stream, Deliver(x)
      PROVE  DoneIsComplete'
  BY <1>7, StillComplete DEF Deliver, store
<1>8. ASSUME NEW x \in Stream, GiveUp(x)
      PROVE  DoneIsComplete'
  BY <1>8, StillComplete DEF GiveUp, store
<1>9. ASSUME NEW x \in Stream, Close(x)
      PROVE  DoneIsComplete'
  BY <1>9, StillComplete DEF Close, store
<1>10. ASSUME NEW w \in Worker, Pop(w)
      PROVE  DoneIsComplete'
  BY <1>10, StillComplete DEF Pop, store
<1>11. ASSUME NEW w \in Worker, Load(w)
      PROVE  DoneIsComplete'
  BY <1>11, StillComplete DEF Load, store
<1>12. ASSUME NEW w \in Worker, PublishStage(w)
      PROVE  DoneIsComplete'
  BY <1>12, StillComplete DEF PublishStage, store
<1>13. ASSUME NEW w \in Worker, SetStage(w)
      PROVE  DoneIsComplete'
  <2>1. job[w] \in Job /\ stage[w] # "done"
    BY <1>13, HasOpenJob DEF SetStage, OnItsWay, TypeOK, Active
  <2>2. \A j \in Job : row'[j] = "done" => row[j] = "done"
    BY <1>13, <2>1, StatusSet DEF SetStage
  <2> QED
    BY <1>13, <2>2, StillComplete DEF SetStage
<1>14. ASSUME NEW w \in Worker, Direct(w)
      PROVE  DoneIsComplete'
  BY <1>14, StillComplete DEF Direct, store
<1>15. ASSUME NEW w \in Worker, NEW s \in Slot, StartSlot(w, s)
      PROVE  DoneIsComplete'
  BY <1>15, StillComplete DEF StartSlot, store
<1>16. ASSUME NEW w \in Worker, NEW s \in Slot, PersistSlot(w, s)
      PROVE  DoneIsComplete'
  <2>1. job[w] \in Job /\ row[job[w]] # "done"
    BY <1>16, HasOpenJob DEF PersistSlot, Working, OnItsWay
  <2>2. \A j \in Job : j # job[w] => results'[j] = results[j]
    BY <1>16, <2>1 DEF PersistSlot, Insert, TypeOK
  <2> QED
    BY <1>16, <2>1, <2>2, StillComplete DEF PersistSlot
<1>17. ASSUME NEW w \in Worker, NEW s \in Slot, TellSlot(w, s)
      PROVE  DoneIsComplete'
  BY <1>17, StillComplete DEF TellSlot, store
<1>18. ASSUME NEW w \in Worker, Joined(w)
      PROVE  DoneIsComplete'
  BY <1>18, StillComplete DEF Joined, store
<1>19. ASSUME NEW w \in Worker, Finish(w)
      PROVE  DoneIsComplete'
  <2>1. job[w] \in Job /\ row[job[w]] # "none"
    BY <1>19, HasOpenJob DEF Finish, OnItsWay, Active
  <2>2. row[job[w]] # "deleted" => \A s \in Slot : results[job[w]][s] = 1
    BY <1>19, UploadsAll DEF Finish
  <2>3. \A j \in Job : row'[j] = "done" => row[j] = "done" \/ (j = job[w] /\ row[j] # "deleted")
    BY <1>19, <2>1, StatusSet DEF Finish
  <2> QED
    BY <1>19, <2>2, <2>3 DEF Finish, DoneIsComplete
<1>20. ASSUME NEW w \in Worker, Announce(w)
      PROVE  DoneIsComplete'
  BY <1>20, StillComplete DEF Announce, store
<1>21. ASSUME NEW w \in Worker, Fails(w)
      PROVE  DoneIsComplete'
  <2>1. job[w] \in Job
    BY <1>21 DEF Fails, TypeOK
  <2>2. CASE UNCHANGED <<row, results>>
    BY <2>2, StillComplete
  <2>3. CASE at[w] = "set" /\ SetStatus(job[w], stage[w]) /\ UNCHANGED results
    <3>1. stage[w] # "done"
      BY DEF TypeOK, Active
    <3>2. \A j \in Job : row'[j] = "done" => row[j] = "done"
      BY <2>1, <2>3, <3>1, StatusSet
    <3> QED
      BY <2>3, <3>2, StillComplete
  <2>4. CASE at[w] = "work" /\ stage[w] = "uploading" /\ SetStatus(job[w], "done") /\ UNCHANGED results
    <3>1. job[w] \in Job /\ row[job[w]] # "none"
      BY <2>4, HasOpenJob DEF OnItsWay, Active
    <3>2. row[job[w]] # "deleted" => \A s \in Slot : results[job[w]][s] = 1
      BY <2>4, UploadsAll
    <3>3. \A j \in Job : row'[j] = "done" => row[j] = "done" \/ (j = job[w] /\ row[j] # "deleted")
      BY <2>4, <3>1, StatusSet
    <3> QED
      BY <2>4, <3>2, <3>3 DEF DoneIsComplete
  <2>5. ASSUME NEW S \in SUBSET Slot, Insert(job[w], S), Working(w), UNCHANGED row
        PROVE  DoneIsComplete'
    <3>1. row[job[w]] # "done"
      BY <2>5, HasOpenJob DEF Working, OnItsWay
    <3>2. \A j \in Job : j # job[w] => results'[j] = results[j]
      BY <2>1, <2>5 DEF Insert, TypeOK
    <3> QED
      BY <2>5, <3>1, <3>2, StillComplete
  <2> QED
    BY <1>21, <2>2, <2>3, <2>4, <2>5 DEF Fails, store
<1>22. ASSUME NEW w \in Worker, Book(w)
      PROVE  DoneIsComplete'
  <2>1. job[w] \in Job
    BY <1>22 DEF Book, TypeOK
  <2>2. \A j \in Job : row'[j] = "done" => row[j] = "done"
    BY <1>22, <2>1, StatusSet DEF Book
  <2> QED
    BY <1>22, <2>2, StillComplete DEF Book
<1>23. ASSUME NEW w \in Worker, BookFails(w)
      PROVE  DoneIsComplete'
  BY <1>23, StillComplete DEF BookFails, store
<1>24. ASSUME NEW w \in Worker, TellFailed(w)
      PROVE  DoneIsComplete'
  BY <1>24, StillComplete DEF TellFailed, store
<1>25. ASSUME NEW w \in Worker, Die(w)
      PROVE  DoneIsComplete'
  BY <1>25, StillComplete DEF Die, store
<1>26. CASE RedisRestarts
  BY <1>26, StillComplete DEF RedisRestarts, store
<1>27. CASE UNCHANGED vars
  BY <1>27, StillComplete DEF vars, store, worker, stream, history
<1> QED
  BY <1>1, <1>2, <1>3, <1>4, <1>5, <1>6, <1>7, <1>8, <1>9, <1>10, <1>11, <1>12, <1>13,
     <1>14, <1>15, <1>16, <1>17, <1>18, <1>19, <1>20, <1>21, <1>22, <1>23, <1>24, <1>25,
        <1>26, <1>27
     DEF Next, WorkStep, ApiStep, StreamStep

-----------------------------------------------------------------------------
(* A job is settled when nothing can change its row but its owner: it is   *)
(* gone, or done with nobody but a worker that is about to say so.  A      *)
(* worker that has a job that is done is about to say so, or in doubt.     *)
Settled(j) ==
  \/ row[j] = "deleted"
  \/ row[j] = "done" /\ \A w \in Worker : job[w] = j => at[w] = "announce"

Finishing ==
  \A w \in Worker :
    /\ at[w] = "announce" => row[job[w]] \in {"done", "deleted"}
    /\ at[w] # "idle" /\ row[job[w]] = "done" => at[w] = "announce" \/ job[w] \in doubted

(* A worker's step on the row of its own job disturbs no other worker.     *)
LEMMA FinishingKept ==
  ASSUME TypeOK, InOneHand, Finishing, NEW w \in Worker, job[w] \in Job,
         job' = job, doubted \subseteq doubted',
         \A v \in Worker : v # w => at'[v] = at[v],
         \A k \in Job : row'[k] # row[k] => k = job[w],
         at'[w] = "announce" => row'[job[w]] \in {"done", "deleted"},
         at'[w] # "announce" /\ row'[job[w]] = "done" => job[w] \in doubted'
  PROVE  Finishing'
<1>1. ASSUME NEW v \in Worker, v # w, at[v] # "idle"
      PROVE  job[v] \in Job /\ row'[job[v]] = row[job[v]]
  BY <1>1 DEF TypeOK, InOneHand
<1> QED
  BY <1>1 DEF Finishing

LEMMA FinishingStep ==
  ASSUME TypeOK, NothingForgotten, Fresh, Untouched, Running, Finishing, [Next]_vars
  PROVE  Finishing'
<1> InOneHand
  BY DEF NothingForgotten, OnlyOnce
<1> USE JobAssumption DEF TypeOK, Finishing, InOneHand
<1>1. ASSUME NEW j \in Job, Create(j)
      PROVE  Finishing'
  <2>1. \A w \in Worker : job[w] # j
    BY <1>1 DEF Create, Fresh, InHand
  <2> QED
    BY <1>1, <2>1 DEF Create, worker, history
<1>2. ASSUME NEW j \in Job, Push(j)
      PROVE  Finishing'
  BY <1>2 DEF Push, store, worker, stream, history
<1>3. ASSUME NEW j \in Job, PushFails(j)
      PROVE  Finishing'
  BY <1>3 DEF PushFails, store, worker, stream, history
<1>4. ASSUME NEW j \in Job, Delete(j)
      PROVE  Finishing'
  BY <1>4 DEF Delete, Exists, store, worker, stream, history
<1>5. ASSUME NEW x \in Stream, NEW j \in Job, Listen(x, j)
      PROVE  Finishing'
  BY <1>5 DEF Listen, Exists, Ended, store, worker, stream, history
<1>6. ASSUME NEW x \in Stream, Subscribe(x)
      PROVE  Finishing'
  BY <1>6 DEF Subscribe, store, worker, stream, history
<1>7. ASSUME NEW x \in Stream, Deliver(x)
      PROVE  Finishing'
  BY <1>7 DEF Deliver, Ended, store, worker, stream, history
<1>8. ASSUME NEW x \in Stream, GiveUp(x)
      PROVE  Finishing'
  BY <1>8 DEF GiveUp, store, worker, stream, history
<1>9. ASSUME NEW x \in Stream, Close(x)
      PROVE  Finishing'
  BY <1>9 DEF Close, store, worker, stream, history
<1>10. ASSUME NEW w \in Worker, Pop(w)
      PROVE  Finishing'
  <2>1. Head(queue) \in Job /\ row[Head(queue)] # "done"
    BY <1>10, Popped DEF Pop, Untouched
  <2> QED
    BY <1>10, <2>1 DEF Pop, store, history
<1>11. ASSUME NEW w \in Worker, Load(w)
      PROVE  Finishing'
  BY <1>11 DEF Load, Enter, Goto, Exists, store, worker, stream, history
<1>12. ASSUME NEW w \in Worker, PublishStage(w)
      PROVE  Finishing'
  BY <1>12 DEF PublishStage, Publish, Goto, store, worker, stream, history
<1>13. ASSUME NEW w \in Worker, SetStage(w)
      PROVE  Finishing'
  <2>1. job[w] \in Job /\ row[job[w]] # "done" /\ stage[w] # "done"
    BY <1>13, HasOpenJob DEF SetStage, OnItsWay, Active
  <2>2. /\ \A k \in Job : row'[k] # row[k] => k = job[w]
        /\ row'[job[w]] # "done"
    BY <1>13, <2>1, StatusSet DEF SetStage
  <2>3. at' = [at EXCEPT ![w] = "work"]
    BY <1>13 DEF SetStage, Goto
  <2> QED
    BY <1>13, <2>1, <2>2, <2>3, FinishingKept DEF SetStage, history
<1>14. ASSUME NEW w \in Worker, Direct(w)
      PROVE  Finishing'
  BY <1>14 DEF Direct, Enter, Goto, store, worker, stream, history
<1>15. ASSUME NEW w \in Worker, NEW s \in Slot, StartSlot(w, s)
      PROVE  Finishing'
  BY <1>15 DEF StartSlot, Working, SlotTo, store, worker, stream, history
<1>16. ASSUME NEW w \in Worker, NEW s \in Slot, PersistSlot(w, s)
      PROVE  Finishing'
  BY <1>16 DEF PersistSlot, Working, SlotTo, Insert, Exists, store, worker, stream, history
<1>17. ASSUME NEW w \in Worker, NEW s \in Slot, TellSlot(w, s)
      PROVE  Finishing'
  BY <1>17 DEF TellSlot, Working, SlotTo, Publish, store, worker, stream, history
<1>18. ASSUME NEW w \in Worker, Joined(w)
      PROVE  Finishing'
  BY <1>18 DEF Joined, Working, AllThrough, Enter, Goto, store, worker, stream, history
<1>19. ASSUME NEW w \in Worker, Finish(w)
      PROVE  Finishing'
  <2>1. job[w] \in Job /\ row[job[w]] \in Active \cup {"deleted"}
    BY <1>19, HasOpenJob DEF Finish, OnItsWay
  <2>2. /\ \A k \in Job : row'[k] # row[k] => k = job[w]
        /\ row'[job[w]] \in {"done", "deleted"}
    BY <1>19, <2>1 DEF Finish, SetStatus, Exists, Active
  <2>3. at' = [at EXCEPT ![w] = "announce"]
    BY <1>19 DEF Finish, Goto
  <2> QED
    BY <1>19, <2>1, <2>2, <2>3, FinishingKept DEF Finish, history
<1>20. ASSUME NEW w \in Worker, Announce(w)
      PROVE  Finishing'
  BY <1>20 DEF Announce, Publish, Rest, Goto, NoSlots, store, worker, stream, history
<1>21. ASSUME NEW w \in Worker, Fails(w)
      PROVE  Finishing'
  <2>1. job[w] \in Job /\ job' = job
    BY <1>21 DEF Fails
  <2>2. at' = [at EXCEPT ![w] = "fail"] /\ doubted \subseteq doubted'
    BY <1>21 DEF Fails, Goto
  <2>3. \/ row' = row
        \/ at[w] = "set" /\ SetStatus(job[w], stage[w])
        \/ at[w] = "work" /\ stage[w] = "uploading" /\ SetStatus(job[w], "done")
    BY <1>21 DEF Fails, store
  <2>4. \A k \in Job : row'[k] # row[k] => k = job[w]
    BY <2>1, <2>3, StatusSet
  <2>5. ASSUME row'[job[w]] = "done"
        PROVE  job[w] \in doubted'
    <3>1. CASE at[w] = "announce" \/ (at[w] = "work" /\ stage[w] = "uploading")
      BY <1>21, <2>1, <3>1 DEF Fails
    <3>2. CASE ~(at[w] = "announce" \/ (at[w] = "work" /\ stage[w] = "uploading"))
      <4>1. at[w] \in OnItsWay /\ row[job[w]] # "done"
        BY <1>21, <3>2, HasOpenJob DEF Fails, OnItsWay
      <4>2. stage[w] # "done"
        BY DEF Active
      <4> QED
        BY <2>1, <2>3, <2>5, <3>2, <4>1, <4>2, StatusSet
    <3> QED
      BY <3>1, <3>2
  <2>6. at'[w] = "fail" /\ \A v \in Worker : v # w => at'[v] = at[v]
    BY <2>2
  <2> QED
    BY <2>1, <2>2, <2>4, <2>5, <2>6, FinishingKept
<1>22. ASSUME NEW w \in Worker, Book(w)
      PROVE  Finishing'
  BY <1>22 DEF Book, SetStatus, Exists, Goto, store, worker, stream, history
<1>23. ASSUME NEW w \in Worker, BookFails(w)
      PROVE  Finishing'
  BY <1>23 DEF BookFails, Goto, store, worker, stream, history
<1>24. ASSUME NEW w \in Worker, TellFailed(w)
      PROVE  Finishing'
  BY <1>24 DEF TellFailed, Publish, Rest, Goto, NoSlots, store, worker, stream, history
<1>25. ASSUME NEW w \in Worker, Die(w)
      PROVE  Finishing'
  BY <1>25 DEF Die, Rest, Goto, NoSlots, store, worker, stream, history
<1>26. CASE RedisRestarts
  BY <1>26 DEF RedisRestarts, store, worker, stream, history
<1>27. CASE UNCHANGED vars
  BY <1>27 DEF vars, store, worker, stream, history
<1> QED
  BY <1>1, <1>2, <1>3, <1>4, <1>5, <1>6, <1>7, <1>8, <1>9, <1>10, <1>11, <1>12, <1>13,
     <1>14, <1>15, <1>16, <1>17, <1>18, <1>19, <1>20, <1>21, <1>22, <1>23, <1>24, <1>25,
        <1>26, <1>27
     DEF Next, WorkStep, ApiStep, StreamStep

LEMMA SettledStep ==
  ASSUME TypeOK, NothingForgotten, Fresh, Untouched, Running, [Next]_vars,
         NEW j \in Job, Settled(j), j \notin doubted'
  PROVE  Settled(j)'
<1> USE JobAssumption DEF TypeOK, Settled
<1>1. ASSUME NEW k \in Job, Create(k)
      PROVE  Settled(j)'
  BY <1>1 DEF Create, store, worker, stream, history
<1>2. ASSUME NEW k \in Job, Push(k)
      PROVE  Settled(j)'
  BY <1>2 DEF Push, store, worker, stream, history
<1>3. ASSUME NEW k \in Job, PushFails(k)
      PROVE  Settled(j)'
  BY <1>3 DEF PushFails, store, worker, stream, history
<1>4. ASSUME NEW k \in Job, Delete(k)
      PROVE  Settled(j)'
  BY <1>4 DEF Delete, Exists, store, worker, stream, history
<1>5. ASSUME NEW x \in Stream, NEW k \in Job, Listen(x, k)
      PROVE  Settled(j)'
  BY <1>5 DEF Listen, Exists, Ended, store, worker, stream, history
<1>6. ASSUME NEW x \in Stream, Subscribe(x)
      PROVE  Settled(j)'
  BY <1>6 DEF Subscribe, store, worker, stream, history
<1>7. ASSUME NEW x \in Stream, Deliver(x)
      PROVE  Settled(j)'
  BY <1>7 DEF Deliver, Ended, store, worker, stream, history
<1>8. ASSUME NEW x \in Stream, GiveUp(x)
      PROVE  Settled(j)'
  BY <1>8 DEF GiveUp, store, worker, stream, history
<1>9. ASSUME NEW x \in Stream, Close(x)
      PROVE  Settled(j)'
  BY <1>9 DEF Close, store, worker, stream, history
<1>10. ASSUME NEW w \in Worker, Pop(w)
      PROVE  Settled(j)'
  <2>1. Head(queue) \in Job /\ row[Head(queue)] # "done"
    BY <1>10, Popped DEF Pop, Untouched
  <2> QED
    BY <1>10, <2>1 DEF Pop, store, history
<1>11. ASSUME NEW w \in Worker, Load(w)
      PROVE  Settled(j)'
  BY <1>11 DEF Load, Enter, Goto, Exists, store, worker, stream, history
<1>12. ASSUME NEW w \in Worker, PublishStage(w)
      PROVE  Settled(j)'
  BY <1>12 DEF PublishStage, Publish, Goto, store, worker, stream, history
<1>13. ASSUME NEW w \in Worker, SetStage(w)
      PROVE  Settled(j)'
  BY <1>13 DEF SetStage, SetStatus, Exists, Goto, store, worker, stream, history
<1>14. ASSUME NEW w \in Worker, Direct(w)
      PROVE  Settled(j)'
  BY <1>14 DEF Direct, Enter, Goto, store, worker, stream, history
<1>15. ASSUME NEW w \in Worker, NEW s \in Slot, StartSlot(w, s)
      PROVE  Settled(j)'
  BY <1>15 DEF StartSlot, Working, SlotTo, store, worker, stream, history
<1>16. ASSUME NEW w \in Worker, NEW s \in Slot, PersistSlot(w, s)
      PROVE  Settled(j)'
  BY <1>16 DEF PersistSlot, Working, SlotTo, Insert, Exists, store, worker, stream, history
<1>17. ASSUME NEW w \in Worker, NEW s \in Slot, TellSlot(w, s)
      PROVE  Settled(j)'
  BY <1>17 DEF TellSlot, Working, SlotTo, Publish, store, worker, stream, history
<1>18. ASSUME NEW w \in Worker, Joined(w)
      PROVE  Settled(j)'
  BY <1>18 DEF Joined, Working, AllThrough, Enter, Goto, store, worker, stream, history
<1>19. ASSUME NEW w \in Worker, Finish(w)
      PROVE  Settled(j)'
  BY <1>19 DEF Finish, SetStatus, Exists, Goto, store, worker, stream, history
<1>20. ASSUME NEW w \in Worker, Announce(w)
      PROVE  Settled(j)'
  BY <1>20 DEF Announce, Publish, Rest, Goto, NoSlots, store, worker, stream, history
<1>21. ASSUME NEW w \in Worker, Fails(w)
      PROVE  Settled(j)'
  BY <1>21 DEF Fails, Goto, NoSlots, Publish, SetStatus, Exists, Working, Insert, store,
     worker, stream, history
<1>22. ASSUME NEW w \in Worker, Book(w)
      PROVE  Settled(j)'
  BY <1>22 DEF Book, SetStatus, Exists, Goto, store, worker, stream, history
<1>23. ASSUME NEW w \in Worker, BookFails(w)
      PROVE  Settled(j)'
  BY <1>23 DEF BookFails, Goto, store, worker, stream, history
<1>24. ASSUME NEW w \in Worker, TellFailed(w)
      PROVE  Settled(j)'
  BY <1>24 DEF TellFailed, Publish, Rest, Goto, NoSlots, store, worker, stream, history
<1>25. ASSUME NEW w \in Worker, Die(w)
      PROVE  Settled(j)'
  BY <1>25 DEF Die, Rest, Goto, NoSlots, store, worker, stream, history
<1>26. CASE RedisRestarts
  BY <1>26 DEF RedisRestarts, store, worker, stream, history
<1>27. CASE UNCHANGED vars
  BY <1>27 DEF vars, store, worker, stream, history
<1> QED
  BY <1>1, <1>2, <1>3, <1>4, <1>5, <1>6, <1>7, <1>8, <1>9, <1>10, <1>11, <1>12, <1>13,
     <1>14, <1>15, <1>16, <1>17, <1>18, <1>19, <1>20, <1>21, <1>22, <1>23, <1>24, <1>25,
        <1>26, <1>27
     DEF Next, WorkStep, ApiStep, StreamStep

-----------------------------------------------------------------------------
(* What a stream has shown, or is about to show.                           *)
Heard(x) == {shown[x]} \cup {inbox[x][i] : i \in DOMAIN inbox[x]}

Honest ==
  \A x \in Stream :
    "done" \in Heard(x) => hears[x] \in Job /\ (hears[x] \in doubted \/ Settled(hears[x]))

LEMMA HeardInit == Init => Honest
BY DEF Init, Honest, Heard

(* A stream hears nothing new but what is published of its job.            *)
LEMMA HeardPublish ==
  ASSUME TypeOK, NEW j \in Job, NEW s, Publish(j, s), UNCHANGED <<ear, hears, shown>>,
         NEW x \in Stream, "done" \in Heard(x)'
  PROVE  "done" \in Heard(x) \/ (hears[x] = j /\ s = "done")
<1>1. CASE inbox'[x] = inbox[x]
  BY <1>1 DEF Heard
<1>2. CASE hears[x] = j /\ inbox'[x] = Append(inbox[x], s)
  <2>1. /\ DOMAIN inbox[x] = 1 .. Len(inbox[x]) /\ DOMAIN inbox'[x] = 1 .. Len(inbox[x]) + 1
        /\ \A i \in 1 .. Len(inbox[x]) : inbox'[x][i] = inbox[x][i]
        /\ inbox'[x][Len(inbox[x]) + 1] = s
        /\ Len(inbox[x]) \in Nat
    BY <1>2 DEF TypeOK
  <2>2. \A i \in 1 .. Len(inbox[x]) + 1 : i \in 1 .. Len(inbox[x]) \/ i = Len(inbox[x]) + 1
    BY <2>1
  <2> QED
    BY <1>2, <2>1, <2>2 DEF Heard
<1> QED
  BY <1>1, <1>2 DEF Publish

(* Delivering shows what was in the inbox.                                 *)
LEMMA HeardDeliver ==
  ASSUME TypeOK, NEW x \in Stream, Deliver(x)
  PROVE  Heard(x)' \subseteq Heard(x)
<1>1. /\ DOMAIN inbox[x] = 1 .. Len(inbox[x]) /\ Len(inbox[x]) \in Nat \ {0}
      /\ Head(inbox[x]) = inbox[x][1]
      /\ DOMAIN Tail(inbox[x]) = 1 .. Len(inbox[x]) - 1
      /\ \A i \in 1 .. Len(inbox[x]) - 1 : Tail(inbox[x])[i] = inbox[x][i + 1]
  BY DEF TypeOK, Deliver
<1>2. inbox'[x] = Tail(inbox[x]) /\ shown'[x] = Head(inbox[x])
  BY DEF TypeOK, Deliver
<1>3. 1 \in 1 .. Len(inbox[x]) /\ \A i \in 1 .. Len(inbox[x]) - 1 : i + 1 \in 1 .. Len(inbox[x])
  BY <1>1
<1>4. shown'[x] \in Heard(x)
  BY <1>1, <1>2, <1>3 DEF Heard
<1>5. ASSUME NEW i \in 1 .. Len(inbox[x]) - 1
      PROVE  inbox'[x][i] \in Heard(x)
  <2>1. inbox'[x][i] = inbox[x][i + 1] /\ i + 1 \in DOMAIN inbox[x]
    BY <1>1, <1>2, <1>3
  <2> QED
    BY <2>1 DEF Heard
<1>6. DOMAIN inbox'[x] = 1 .. Len(inbox[x]) - 1
  BY <1>1, <1>2
<1> QED
  BY <1>4, <1>5, <1>6 DEF Heard

(* Streams that hear no more than before stay honest.                      *)
LEMMA StayHonest ==
  ASSUME TypeOK, NothingForgotten, Fresh, Untouched, Running, Honest, [Next]_vars,
         doubted \subseteq doubted', NEW x \in Stream, hears'[x] = hears[x],
         "done" \in Heard(x)
  PROVE  hears'[x] \in Job /\ (hears'[x] \in doubted' \/ Settled(hears[x])')
<1>1. hears[x] \in Job /\ (hears[x] \in doubted \/ Settled(hears[x]))
  BY DEF Honest
<1>2. PICK j \in Job : j = hears[x]
  BY <1>1
<1>3. j \in doubted' \/ Settled(j)
  BY <1>1, <1>2 DEF Settled
<1>4. j \in doubted' \/ Settled(j)'
  BY <1>3, SettledStep
<1> QED
  BY <1>2, <1>4 DEF Settled

(* What doubt there is remains.                                            *)
LEMMA DoubtRemains == [Next]_vars => doubted \subseteq doubted'
<1> SUFFICES ASSUME [Next]_vars
             PROVE  doubted \subseteq doubted'
  OBVIOUS
<1>1. ASSUME NEW j \in Job, Create(j)
      PROVE  doubted \subseteq doubted'
  BY <1>1 DEF Create, history
<1>2. ASSUME NEW j \in Job, Push(j)
      PROVE  doubted \subseteq doubted'
  BY <1>2 DEF Push, history
<1>3. ASSUME NEW j \in Job, PushFails(j)
      PROVE  doubted \subseteq doubted'
  BY <1>3 DEF PushFails, history
<1>4. ASSUME NEW j \in Job, Delete(j)
      PROVE  doubted \subseteq doubted'
  BY <1>4 DEF Delete, history
<1>5. ASSUME NEW x \in Stream, NEW j \in Job, Listen(x, j)
      PROVE  doubted \subseteq doubted'
  BY <1>5 DEF Listen, history
<1>6. ASSUME NEW x \in Stream, Subscribe(x)
      PROVE  doubted \subseteq doubted'
  BY <1>6 DEF Subscribe, history
<1>7. ASSUME NEW x \in Stream, Deliver(x)
      PROVE  doubted \subseteq doubted'
  BY <1>7 DEF Deliver, history
<1>8. ASSUME NEW x \in Stream, GiveUp(x)
      PROVE  doubted \subseteq doubted'
  BY <1>8 DEF GiveUp, history
<1>9. ASSUME NEW x \in Stream, Close(x)
      PROVE  doubted \subseteq doubted'
  BY <1>9 DEF Close, history
<1>10. ASSUME NEW w \in Worker, Pop(w)
      PROVE  doubted \subseteq doubted'
  BY <1>10 DEF Pop, history
<1>11. ASSUME NEW w \in Worker, Load(w)
      PROVE  doubted \subseteq doubted'
  BY <1>11 DEF Load, history
<1>12. ASSUME NEW w \in Worker, PublishStage(w)
      PROVE  doubted \subseteq doubted'
  BY <1>12 DEF PublishStage, history
<1>13. ASSUME NEW w \in Worker, SetStage(w)
      PROVE  doubted \subseteq doubted'
  BY <1>13 DEF SetStage, history
<1>14. ASSUME NEW w \in Worker, Direct(w)
      PROVE  doubted \subseteq doubted'
  BY <1>14 DEF Direct, history
<1>15. ASSUME NEW w \in Worker, NEW s \in Slot, StartSlot(w, s)
      PROVE  doubted \subseteq doubted'
  BY <1>15 DEF StartSlot, history
<1>16. ASSUME NEW w \in Worker, NEW s \in Slot, PersistSlot(w, s)
      PROVE  doubted \subseteq doubted'
  BY <1>16 DEF PersistSlot, history
<1>17. ASSUME NEW w \in Worker, NEW s \in Slot, TellSlot(w, s)
      PROVE  doubted \subseteq doubted'
  BY <1>17 DEF TellSlot, history
<1>18. ASSUME NEW w \in Worker, Joined(w)
      PROVE  doubted \subseteq doubted'
  BY <1>18 DEF Joined, history
<1>19. ASSUME NEW w \in Worker, Finish(w)
      PROVE  doubted \subseteq doubted'
  BY <1>19 DEF Finish, history
<1>20. ASSUME NEW w \in Worker, Announce(w)
      PROVE  doubted \subseteq doubted'
  BY <1>20 DEF Announce, history
<1>21. ASSUME NEW w \in Worker, Fails(w)
      PROVE  doubted \subseteq doubted'
  BY <1>21 DEF Fails, history
<1>22. ASSUME NEW w \in Worker, Book(w)
      PROVE  doubted \subseteq doubted'
  BY <1>22 DEF Book, history
<1>23. ASSUME NEW w \in Worker, BookFails(w)
      PROVE  doubted \subseteq doubted'
  BY <1>23 DEF BookFails, history
<1>24. ASSUME NEW w \in Worker, TellFailed(w)
      PROVE  doubted \subseteq doubted'
  BY <1>24 DEF TellFailed, history
<1>25. ASSUME NEW w \in Worker, Die(w)
      PROVE  doubted \subseteq doubted'
  BY <1>25 DEF Die, history
<1>26. CASE RedisRestarts
  BY <1>26 DEF RedisRestarts, history
<1>27. CASE UNCHANGED vars
  BY <1>27 DEF vars, store, worker, stream, history
<1> QED
  BY <1>1, <1>2, <1>3, <1>4, <1>5, <1>6, <1>7, <1>8, <1>9, <1>10, <1>11, <1>12, <1>13,
     <1>14, <1>15, <1>16, <1>17, <1>18, <1>19, <1>20, <1>21, <1>22, <1>23, <1>24, <1>25,
        <1>26, <1>27
     DEF Next, WorkStep, ApiStep, StreamStep

(* A browser that is away listens to no job.                               *)
ClosedHearsNone == \A x \in Stream : ear[x] = "closed" => hears[x] = NoJob

LEMMA ClosedStep == TypeOK /\ ClosedHearsNone /\ [Next]_vars => ClosedHearsNone'
<1> SUFFICES ASSUME TypeOK, ClosedHearsNone, [Next]_vars
             PROVE  ClosedHearsNone'
  OBVIOUS
<1> USE DEF TypeOK, ClosedHearsNone
<1>1. ASSUME NEW j \in Job, Create(j)
      PROVE  ClosedHearsNone'
  BY <1>1 DEF Create, stream
<1>2. ASSUME NEW j \in Job, Push(j)
      PROVE  ClosedHearsNone'
  BY <1>2 DEF Push, stream
<1>3. ASSUME NEW j \in Job, PushFails(j)
      PROVE  ClosedHearsNone'
  BY <1>3 DEF PushFails, stream
<1>4. ASSUME NEW j \in Job, Delete(j)
      PROVE  ClosedHearsNone'
  BY <1>4 DEF Delete, stream
<1>5. ASSUME NEW x \in Stream, NEW j \in Job, Listen(x, j)
      PROVE  ClosedHearsNone'
  BY <1>5 DEF Listen, stream
<1>6. ASSUME NEW x \in Stream, Subscribe(x)
      PROVE  ClosedHearsNone'
  BY <1>6 DEF Subscribe, stream
<1>7. ASSUME NEW x \in Stream, Deliver(x)
      PROVE  ClosedHearsNone'
  BY <1>7 DEF Deliver, stream
<1>8. ASSUME NEW x \in Stream, GiveUp(x)
      PROVE  ClosedHearsNone'
  BY <1>8 DEF GiveUp, stream
<1>9. ASSUME NEW x \in Stream, Close(x)
      PROVE  ClosedHearsNone'
  BY <1>9 DEF Close, stream
<1>10. ASSUME NEW w \in Worker, Pop(w)
      PROVE  ClosedHearsNone'
  BY <1>10 DEF Pop, stream
<1>11. ASSUME NEW w \in Worker, Load(w)
      PROVE  ClosedHearsNone'
  BY <1>11 DEF Load, stream
<1>12. ASSUME NEW w \in Worker, PublishStage(w)
      PROVE  ClosedHearsNone'
  BY <1>12 DEF PublishStage, stream
<1>13. ASSUME NEW w \in Worker, SetStage(w)
      PROVE  ClosedHearsNone'
  BY <1>13 DEF SetStage, stream
<1>14. ASSUME NEW w \in Worker, Direct(w)
      PROVE  ClosedHearsNone'
  BY <1>14 DEF Direct, stream
<1>15. ASSUME NEW w \in Worker, NEW s \in Slot, StartSlot(w, s)
      PROVE  ClosedHearsNone'
  BY <1>15 DEF StartSlot, stream
<1>16. ASSUME NEW w \in Worker, NEW s \in Slot, PersistSlot(w, s)
      PROVE  ClosedHearsNone'
  BY <1>16 DEF PersistSlot, stream
<1>17. ASSUME NEW w \in Worker, NEW s \in Slot, TellSlot(w, s)
      PROVE  ClosedHearsNone'
  BY <1>17 DEF TellSlot, stream
<1>18. ASSUME NEW w \in Worker, Joined(w)
      PROVE  ClosedHearsNone'
  BY <1>18 DEF Joined, stream
<1>19. ASSUME NEW w \in Worker, Finish(w)
      PROVE  ClosedHearsNone'
  BY <1>19 DEF Finish, stream
<1>20. ASSUME NEW w \in Worker, Announce(w)
      PROVE  ClosedHearsNone'
  BY <1>20 DEF Announce, stream
<1>21. ASSUME NEW w \in Worker, Fails(w)
      PROVE  ClosedHearsNone'
  BY <1>21 DEF Fails, stream
<1>22. ASSUME NEW w \in Worker, Book(w)
      PROVE  ClosedHearsNone'
  BY <1>22 DEF Book, stream
<1>23. ASSUME NEW w \in Worker, BookFails(w)
      PROVE  ClosedHearsNone'
  BY <1>23 DEF BookFails, stream
<1>24. ASSUME NEW w \in Worker, TellFailed(w)
      PROVE  ClosedHearsNone'
  BY <1>24 DEF TellFailed, stream
<1>25. ASSUME NEW w \in Worker, Die(w)
      PROVE  ClosedHearsNone'
  BY <1>25 DEF Die, stream
<1>26. CASE RedisRestarts
  BY <1>26 DEF RedisRestarts, stream
<1>27. CASE UNCHANGED vars
  BY <1>27 DEF vars, store, worker, stream, history
<1> QED
  BY <1>1, <1>2, <1>3, <1>4, <1>5, <1>6, <1>7, <1>8, <1>9, <1>10, <1>11, <1>12, <1>13,
     <1>14, <1>15, <1>16, <1>17, <1>18, <1>19, <1>20, <1>21, <1>22, <1>23, <1>24, <1>25,
        <1>26, <1>27
     DEF Next, WorkStep, ApiStep, StreamStep

LEMMA HonestStep ==
  ASSUME ClosedHearsNone, TypeOK, NothingForgotten, Fresh, Untouched, Running, Finishing, Honest, [Next]_vars
  PROVE  Honest'
<1> SUFFICES ASSUME NEW x \in Stream, "done" \in Heard(x)'
             PROVE  hears'[x] \in Job /\ (hears'[x] \in doubted' \/ Settled(hears[x])')
  BY DEF Honest
<1>a. doubted \subseteq doubted'
  BY DoubtRemains
<1>b. ASSUME hears'[x] = hears[x], "done" \in Heard(x)
      PROVE  hears'[x] \in Job /\ (hears'[x] \in doubted' \/ Settled(hears[x])')
  BY <1>a, <1>b, StayHonest
<1>c. UNCHANGED stream => hears'[x] = hears[x] /\ "done" \in Heard(x)
  BY DEF stream, Heard
<1>d. ASSUME NEW w \in Worker, NEW s \in Status \ {"done"}, job[w] \in Job, Publish(job[w], s),
             UNCHANGED <<ear, hears, shown>>
      PROVE  hears'[x] = hears[x] /\ "done" \in Heard(x)
  BY <1>d, HeardPublish
<1>e. (inbox' = inbox /\ UNCHANGED <<ear, hears, shown>>) => hears'[x] = hears[x] /\ "done" \in Heard(x)
  BY DEF Heard
<1>1. ASSUME NEW j \in Job, Create(j)
      PROVE  hears'[x] \in Job /\ (hears'[x] \in doubted' \/ Settled(hears[x])')
  BY <1>1, <1>b, <1>c DEF Create
<1>2. ASSUME NEW j \in Job, Push(j)
      PROVE  hears'[x] \in Job /\ (hears'[x] \in doubted' \/ Settled(hears[x])')
  BY <1>2, <1>b, <1>c DEF Push
<1>3. ASSUME NEW j \in Job, PushFails(j)
      PROVE  hears'[x] \in Job /\ (hears'[x] \in doubted' \/ Settled(hears[x])')
  BY <1>3, <1>b, <1>c DEF PushFails
<1>4. ASSUME NEW j \in Job, Delete(j)
      PROVE  hears'[x] \in Job /\ (hears'[x] \in doubted' \/ Settled(hears[x])')
  BY <1>4, <1>b, <1>c DEF Delete
<1>5. ASSUME NEW y \in Stream, NEW j \in Job, Listen(y, j)
      PROVE  hears'[x] \in Job /\ (hears'[x] \in doubted' \/ Settled(hears[x])')
  <2>1. CASE x # y
    <3>1. hears'[x] = hears[x] /\ "done" \in Heard(x)
      BY <1>5, <2>1 DEF Listen, Heard, TypeOK
    <3> QED
      BY <3>1, <1>b
  <2>2. CASE x = y
    <3>1. hears'[x] = j /\ shown'[x] = row[j] /\ inbox' = inbox
      BY <1>5, <2>2 DEF Listen, TypeOK
    <3>2. row' = row /\ job' = job /\ at' = at /\ doubted' = doubted
      BY <1>5 DEF Listen, store, worker, history
    <3>3. "done" \notin Heard(x)
      BY <1>5, <2>2, JobAssumption DEF Listen, Honest, ClosedHearsNone
    <3>4. row[j] = "done"
      BY <3>1, <3>3 DEF Heard
    <3>5. \A w \in Worker : job[w] = j => at[w] = "announce" \/ j \in doubted
      BY <3>4, JobAssumption DEF Finishing, TypeOK
    <3> QED
      BY <3>1, <3>2, <3>4, <3>5 DEF Settled
  <2> QED
    BY <2>1, <2>2
<1>6. ASSUME NEW y \in Stream, Subscribe(y)
      PROVE  hears'[x] \in Job /\ (hears'[x] \in doubted' \/ Settled(hears[x])')
  BY <1>6, <1>b, <1>e DEF Subscribe, Heard
<1>7. ASSUME NEW y \in Stream, Deliver(y)
      PROVE  hears'[x] \in Job /\ (hears'[x] \in doubted' \/ Settled(hears[x])')
  <2>1. hears'[x] = hears[x]
    BY <1>7 DEF Deliver
  <2>2. "done" \in Heard(x)
    <3>1. CASE x = y
      BY <1>7, <3>1, HeardDeliver
    <3>2. CASE x # y
      BY <1>7, <3>2 DEF Deliver, Heard, TypeOK
    <3> QED
      BY <3>1, <3>2
  <2> QED
    BY <2>1, <2>2, <1>b
<1>8. ASSUME NEW y \in Stream, GiveUp(y)
      PROVE  hears'[x] \in Job /\ (hears'[x] \in doubted' \/ Settled(hears[x])')
  BY <1>8, <1>b, <1>e DEF GiveUp, Heard
<1>9. ASSUME NEW y \in Stream, Close(y)
      PROVE  hears'[x] \in Job /\ (hears'[x] \in doubted' \/ Settled(hears[x])')
  <2>1. x # y
    BY <1>9 DEF Close, Heard, TypeOK
  <2>2. hears'[x] = hears[x] /\ "done" \in Heard(x)
    BY <1>9, <2>1 DEF Close, Heard, TypeOK
  <2> QED
    BY <2>2, <1>b
<1>10. ASSUME NEW w \in Worker, Pop(w)
      PROVE  hears'[x] \in Job /\ (hears'[x] \in doubted' \/ Settled(hears[x])')
  BY <1>10, <1>b, <1>c DEF Pop
<1>11. ASSUME NEW w \in Worker, Load(w)
      PROVE  hears'[x] \in Job /\ (hears'[x] \in doubted' \/ Settled(hears[x])')
  BY <1>11, <1>b, <1>c DEF Load
<1>12. ASSUME NEW w \in Worker, PublishStage(w)
      PROVE  hears'[x] \in Job /\ (hears'[x] \in doubted' \/ Settled(hears[x])')
  <2>1. job[w] \in Job /\ stage[w] \in Status \ {"done"}
    BY <1>12 DEF PublishStage, TypeOK, Status, Active, Ended
  <2> QED
    BY <1>12, <2>1, <1>b, <1>d DEF PublishStage
<1>13. ASSUME NEW w \in Worker, SetStage(w)
      PROVE  hears'[x] \in Job /\ (hears'[x] \in doubted' \/ Settled(hears[x])')
  BY <1>13, <1>b, <1>c DEF SetStage
<1>14. ASSUME NEW w \in Worker, Direct(w)
      PROVE  hears'[x] \in Job /\ (hears'[x] \in doubted' \/ Settled(hears[x])')
  BY <1>14, <1>b, <1>c DEF Direct
<1>15. ASSUME NEW w \in Worker, NEW s \in Slot, StartSlot(w, s)
      PROVE  hears'[x] \in Job /\ (hears'[x] \in doubted' \/ Settled(hears[x])')
  BY <1>15, <1>b, <1>c DEF StartSlot
<1>16. ASSUME NEW w \in Worker, NEW s \in Slot, PersistSlot(w, s)
      PROVE  hears'[x] \in Job /\ (hears'[x] \in doubted' \/ Settled(hears[x])')
  BY <1>16, <1>b, <1>c DEF PersistSlot
<1>17. ASSUME NEW w \in Worker, NEW s \in Slot, TellSlot(w, s)
      PROVE  hears'[x] \in Job /\ (hears'[x] \in doubted' \/ Settled(hears[x])')
  <2>1. job[w] \in Job /\ "generating" \in Status \ {"done"}
    BY <1>17 DEF TellSlot, Working, TypeOK, Status, Active, Ended
  <2> QED
    BY <1>17, <2>1, <1>b, <1>d DEF TellSlot
<1>18. ASSUME NEW w \in Worker, Joined(w)
      PROVE  hears'[x] \in Job /\ (hears'[x] \in doubted' \/ Settled(hears[x])')
  BY <1>18, <1>b, <1>c DEF Joined
<1>19. ASSUME NEW w \in Worker, Finish(w)
      PROVE  hears'[x] \in Job /\ (hears'[x] \in doubted' \/ Settled(hears[x])')
  BY <1>19, <1>b, <1>c DEF Finish
<1>20. ASSUME NEW w \in Worker, Announce(w)
      PROVE  hears'[x] \in Job /\ (hears'[x] \in doubted' \/ Settled(hears[x])')
  <2>1. job[w] \in Job /\ row[job[w]] \in {"done", "deleted"}
    BY <1>20 DEF Announce, TypeOK, Finishing
  <2>2. hears'[x] = hears[x]
    BY <1>20 DEF Announce
  <2>3. CASE "done" \in Heard(x)
    BY <2>2, <2>3, <1>b
  <2>4. CASE hears[x] = job[w]
    <3>1. row' = row /\ \A v \in Worker : job'[v] # job[w]
      BY <1>20, <2>1, JobAssumption DEF Announce, Rest, store, TypeOK, NothingForgotten,
         OnlyOnce, InOneHand
    <3> QED
      BY <2>1, <2>2, <2>4, <3>1 DEF Settled
  <2> QED
    BY <1>20, <2>1, <2>3, <2>4, HeardPublish DEF Announce
<1>21. ASSUME NEW w \in Worker, Fails(w)
      PROVE  hears'[x] \in Job /\ (hears'[x] \in doubted' \/ Settled(hears[x])')
  <2>1. job[w] \in Job /\ UNCHANGED <<ear, hears, shown>>
    BY <1>21 DEF Fails, TypeOK
  <2>2. CASE inbox' = inbox
    BY <2>1, <2>2, <1>b, <1>e
  <2>3. CASE at[w] = "publish" /\ Publish(job[w], stage[w])
    <3>1. stage[w] \in Status \ {"done"}
      BY DEF TypeOK, Status, Active
    <3> QED
      BY <2>1, <2>3, <3>1, <1>b, <1>d
  <2>4. CASE at[w] = "announce" /\ Publish(job[w], "done")
    <3>1. doubted' = doubted \cup {job[w]}
      BY <1>21, <2>4 DEF Fails
    <3> QED
      BY <2>1, <2>4, <3>1, <1>b, HeardPublish
  <2>5. CASE Publish(job[w], "generating")
    <3>1. "generating" \in Status \ {"done"}
      BY DEF Status, Active
    <3> QED
      BY <2>1, <2>5, <3>1, <1>b, <1>d
  <2> QED
    BY <1>21, <2>2, <2>3, <2>4, <2>5 DEF Fails
<1>22. ASSUME NEW w \in Worker, Book(w)
      PROVE  hears'[x] \in Job /\ (hears'[x] \in doubted' \/ Settled(hears[x])')
  BY <1>22, <1>b, <1>c DEF Book
<1>23. ASSUME NEW w \in Worker, BookFails(w)
      PROVE  hears'[x] \in Job /\ (hears'[x] \in doubted' \/ Settled(hears[x])')
  BY <1>23, <1>b, <1>c DEF BookFails
<1>24. ASSUME NEW w \in Worker, TellFailed(w)
      PROVE  hears'[x] \in Job /\ (hears'[x] \in doubted' \/ Settled(hears[x])')
  <2>1. job[w] \in Job /\ "failed" \in Status \ {"done"}
    BY <1>24 DEF TellFailed, TypeOK, Status, Ended
  <2> QED
    BY <1>24, <2>1, <1>b, <1>d, <1>e DEF TellFailed
<1>25. ASSUME NEW w \in Worker, Die(w)
      PROVE  hears'[x] \in Job /\ (hears'[x] \in doubted' \/ Settled(hears[x])')
  BY <1>25, <1>b, <1>c DEF Die
<1>26. CASE RedisRestarts
  BY <1>26, <1>b, <1>e DEF RedisRestarts, Heard
<1>27. CASE UNCHANGED vars
  BY <1>27, <1>b, <1>c DEF vars
<1> QED
  BY <1>1, <1>2, <1>3, <1>4, <1>5, <1>6, <1>7, <1>8, <1>9, <1>10, <1>11, <1>12, <1>13,
     <1>14, <1>15, <1>16, <1>17, <1>18, <1>19, <1>20, <1>21, <1>22, <1>23, <1>24, <1>25,
        <1>26, <1>27
     DEF Next, WorkStep, ApiStep, StreamStep

-----------------------------------------------------------------------------
IInv ==
  /\ TypeOK /\ NothingForgotten /\ DoneIsComplete
  /\ Fresh /\ Ending /\ Untouched /\ Running
  /\ Finishing /\ ClosedHearsNone /\ Honest

LEMMA IInvInit == Init => IInv
<1> SUFFICES ASSUME Init
             PROVE  IInv
  OBVIOUS
<1>1. Untouched
  BY DEF Init, Untouched, Listed
<1>2. Running /\ DoneIsComplete
  BY DEF Init, Running, OnItsWay, DoneIsComplete
<1>3. Finishing /\ ClosedHearsNone
  BY DEF Init, Finishing, ClosedHearsNone
<1> QED
  BY <1>1, <1>2, <1>3, TypeInit, PlacedInit, HeardInit DEF IInv, Placed

LEMMA IInvStep == IInv /\ [Next]_vars => IInv'
BY TypeStep, PlacedStep, EndingStep, UntouchedStep, RunningStep, DoneStep,
   FinishingStep, ClosedStep, HonestStep DEF IInv

LEMMA IInvAlways == Spec => []IInv
BY IInvInit, IInvStep, PTL DEF Spec

(* The pipeline stays within its types.                                    *)
THEOREM TypeCorrect == Spec => []TypeOK
BY IInvAlways, PTL DEF IInv

(* Whatever fails or dies, no job is in two places, and none whose row     *)
(* says that it is under way is nowhere, unless the fault took it.         *)
THEOREM NothingIsForgotten == Spec => []NothingForgotten
BY IInvAlways, PTL DEF IInv

(* A job that is done has one result of each slot, for any number of       *)
(* workers, of slots side by side, and of jobs deleted meanwhile.          *)
THEOREM DoneMeansComplete == Spec => []DoneIsComplete
BY IInvAlways, PTL DEF IInv

(* What a step may write in the row of a job that has ended.               *)
LEMMA EndedStep ==
  ASSUME IInv, [Next]_vars, NEW j \in Job, row[j] \in Ended, row'[j] # row[j]
  PROVE  row'[j] = "deleted" \/ (row'[j] = "failed" /\ j \in doubted)
<1> USE DEF Ended, Exists
<1>1. ASSUME NEW w \in Worker, at[w] \in OnItsWay
      PROVE  job[w] # j
  BY <1>1 DEF IInv, Running, Active
<1>2. ASSUME NEW w \in Worker, WorkStep(w)
      PROVE  row'[j] = "failed" /\ j \in doubted
  <2>1. CASE SetStage(w)
    BY <1>1, <2>1 DEF SetStage, SetStatus, OnItsWay, IInv, TypeOK
  <2>2. CASE Finish(w)
    BY <1>1, <2>2 DEF Finish, SetStatus, OnItsWay, IInv, TypeOK
  <2>3. CASE Book(w)
    <3>1. job[w] = j /\ row'[j] = "failed"
      BY <2>3 DEF Book, SetStatus, IInv, TypeOK
    <3>2. row[j] = "done"
      BY <3>1
    <3> QED
      BY <2>3, <3>1, <3>2 DEF Book, IInv, Finishing
  <2> QED
    BY <1>2, <2>1, <2>2, <2>3
       DEF WorkStep, Pop, Load, PublishStage, Direct, StartSlot, PersistSlot, TellSlot, Joined,
           Announce, TellFailed, store
<1>3. ASSUME NEW w \in Worker, Fails(w)
      PROVE  FALSE
  BY <1>1, <1>3 DEF Fails, SetStatus, OnItsWay, store, IInv, TypeOK
<1>4. ASSUME NEW w \in Worker, BookFails(w) \/ Die(w)
      PROVE  FALSE
  BY <1>4 DEF BookFails, Die, store
<1>5. ASSUME NEW i \in Job, ApiStep(i)
      PROVE  row'[j] = "deleted"
  BY <1>5 DEF ApiStep, Create, Push, PushFails, Delete, store, IInv, TypeOK
<1>6. ASSUME NEW x \in Stream, StreamStep(x)
      PROVE  FALSE
  BY <1>6 DEF StreamStep, Listen, Subscribe, Deliver, GiveUp, Close, store
<1>7. ~RedisRestarts /\ ~UNCHANGED vars
  BY DEF RedisRestarts, vars, store
<1> QED
  BY <1>2, <1>3, <1>4, <1>5, <1>6, <1>7 DEF Next

(* A job that has ended is not brought back, however many workers there    *)
(* are and whatever they were doing when they failed.                      *)
THEOREM EndedRemains == Spec => EndedStaysEnded
<1>1. IInv /\ [Next]_vars =>
        [\A j \in Job : row[j] \in Ended /\ row'[j] # row[j]
                          => \/ row'[j] = "deleted"
                             \/ row'[j] = "failed" /\ j \in doubted]_vars
  BY EndedStep
<1> QED
  BY <1>1, IInvAlways, PTL DEF Spec, EndedStaysEnded

(* A browser that is told "done" finds the job done or deleted, unless its *)
(* worker saw an error after the last slot, for any number of browsers     *)
(* that come and go, whatever is still on its way to them.                 *)
THEOREM DoneIsTrue == Spec => []ToldDoneIsDone
<1>1. IInv => ToldDoneIsDone
  BY DEF IInv, Honest, Heard, Settled, ToldDoneIsDone
<1> QED
  BY <1>1, IInvAlways, PTL

-----------------------------------------------------------------------------
(* How far a worker is with its job: what it publishes next ranks no lower *)
(* than Reach.  Rows and workers keep pace, one stage apart at most.       *)
Reach(w) == IF at[w] \in {"announce", "fail", "tell"} THEN 5 ELSE Rank(stage[w])

Pace(w) ==
  /\ at[w] \in {"idle", "load"} => stage[w] = "queued"
  /\ at[w] = "load" => row[job[w]] \in {"queued", "deleted"}
  /\ at[w] \in {"publish", "set"} =>
       /\ stage[w] # "queued"
       /\ row[job[w]] # "deleted" => /\ row[job[w]] \in Active
                                     /\ Rank(stage[w]) = Rank(row[job[w]]) + 1
  /\ at[w] = "work" => row[job[w]] \in {stage[w], "deleted"} /\ stage[w] # "queued"

Paced == \A w \in Worker : Pace(w)

(* A stream that hears a job hears one that was submitted; it has events   *)
(* only once it has subscribed, and goes on until it has shown the end.    *)
TunedTo(x) ==
  /\ (hears[x] = NoJob) <=> (ear[x] = "closed")
  /\ ear[x] \in {"closed", "asked"} => inbox[x] = <<>>
  /\ ear[x] \in {"asked", "open", "cut"} => shown[x] \in Active
  /\ hears[x] # NoJob => row[hears[x]] # "none"

Tuned == \A x \in Stream : TunedTo(x)

(* Events wait in the order of the stages, none behind what is shown.      *)
Orderly(x) ==
  \A i \in DOMAIN inbox[x] :
    /\ Rank(shown[x]) <= Rank(inbox[x][i])
    /\ \A k \in DOMAIN inbox[x] : i < k => Rank(inbox[x][i]) <= Rank(inbox[x][k])

InOrder == \A x \in Stream : Orderly(x)

(* Nothing that the streams of a job know, or may learn from its row, is   *)
(* past n.                                                                 *)
KnowsAtMost(x, n) ==
  /\ Rank(shown[x]) <= n
  /\ \A i \in DOMAIN inbox[x] : Rank(inbox[x][i]) <= n

NotPast(j, n) ==
  /\ row[j] \in Active \cup Ended => Rank(row[j]) <= n
  /\ \A x \in Stream : hears[x] = j => KnowsAtMost(x, n)

Timely ==
  /\ \A w \in Worker : job[w] # NoJob => NotPast(job[w], Reach(w))
  /\ \A j \in calling \cup Listed : NotPast(j, 1)

(* The events on their way are one stage ahead of the row at most, and     *)
(* "done" is only for a job that has ended with all its results.           *)
Whole(j) == row[j] \in Ended /\ \A s \in Slot : results[j][s] = 1

Fits(e, j) ==
  row[j] # "deleted" => /\ e \in Active => Rank(e) <= Rank(row[j]) + 1
                        /\ e = "done" => Whole(j)

Foretold == \A x \in Stream : \A i \in DOMAIN inbox[x] : Fits(inbox[x][i], hears[x])

LEMMA Ranks ==
  /\ Rank("queued") = 1 /\ Rank("directing") = 2 /\ Rank("generating") = 3
  /\ Rank("uploading") = 4 /\ Rank("done") = 5 /\ Rank("failed") = 5
  /\ \A s : Rank(s) \in 1 .. 5
BY DEF Rank

(* What a step of one worker leaves alone.                                 *)
Steps(w) == WorkStep(w) \/ Fails(w) \/ BookFails(w) \/ Die(w)

LEMMA OneWorks ==
  ASSUME TypeOK, NEW w \in Worker, Steps(w)
  PROVE  /\ \A v \in Worker : v # w => at'[v] = at[v] /\ job'[v] = job[v] /\ stage'[v] = stage[v]
         /\ UNCHANGED <<calling, ear, hears, shown>>
         /\ at[w] # "idle" => queue' = queue
         /\ \A k \in Job : k # job[w] => row'[k] = row[k] /\ results'[k] = results[k]
<1> USE DEF TypeOK, store, worker, stream, history
<1>1. CASE Pop(w)
  BY <1>1 DEF Pop
<1>2. CASE Load(w)
  BY <1>2 DEF Load, Enter, Goto
<1>3. CASE PublishStage(w) \/ SetStage(w)
  BY <1>3 DEF PublishStage, SetStage, SetStatus, Goto
<1>4. CASE Direct(w) \/ Joined(w)
  BY <1>4 DEF Direct, Joined, Enter, Goto
<1>5. ASSUME NEW s \in Slot, StartSlot(w, s) \/ PersistSlot(w, s) \/ TellSlot(w, s)
      PROVE  /\ \A v \in Worker : v # w => at'[v] = at[v] /\ job'[v] = job[v] /\ stage'[v] = stage[v]
             /\ UNCHANGED <<calling, ear, hears, shown>>
             /\ at[w] # "idle" => queue' = queue
             /\ \A k \in Job : k # job[w] => row'[k] = row[k] /\ results'[k] = results[k]
  BY <1>5 DEF StartSlot, PersistSlot, TellSlot, Insert
<1>6. CASE Finish(w) \/ Book(w) \/ BookFails(w)
  BY <1>6 DEF Finish, Book, BookFails, SetStatus, Goto
<1>7. CASE Announce(w) \/ TellFailed(w) \/ Die(w)
  BY <1>7 DEF Announce, TellFailed, Die, Rest, Goto
<1>8. CASE Fails(w)
  <2>1. /\ \A k \in Job : k # job[w] => row'[k] = row[k]
    BY <1>8 DEF Fails, SetStatus
  <2>2. ASSUME NEW S, Insert(job[w], S)
        PROVE  \A k \in Job : k # job[w] => results'[k] = results[k]
    BY <2>2 DEF Insert
  <2>3. \A k \in Job : k # job[w] => results'[k] = results[k]
    BY <1>8, <2>2 DEF Fails
  <2> QED
    BY <1>8, <2>1, <2>3 DEF Fails, Goto
<1> QED
  BY <1>1, <1>2, <1>3, <1>4, <1>5, <1>6, <1>7, <1>8 DEF Steps, WorkStep

(* The worker itself: it goes on with its job, takes one from the list, or *)
(* rests.                                                                  *)
LEMMA OwnJob ==
  ASSUME TypeOK, NEW w \in Worker, Steps(w)
  PROVE  \/ at[w] # "idle" /\ job' = job
         \/ at[w] # "idle" /\ Rest(w)
         \/ Pop(w)
<1> USE DEF TypeOK, store, worker, stream, history
<1>1. CASE at[w] = "idle"
  BY <1>1 DEF Steps, WorkStep, Load, PublishStage, SetStage, Direct, StartSlot, PersistSlot, TellSlot,
     Joined, Working, Finish, Announce, Fails, Book, BookFails, TellFailed, Die
<1>2. CASE at[w] # "idle"
  BY <1>2 DEF Steps, WorkStep, Pop, Load, PublishStage, SetStage, Direct, StartSlot, PersistSlot, TellSlot,
     Joined, Working, Finish, Announce, Fails, Book, BookFails, TellFailed, Die
<1> QED
  BY <1>1, <1>2

-----------------------------------------------------------------------------
(* What a worker's step does to the store: a stage further, the end, or    *)
(* results that were not there.                                            *)
StoreStep(w) ==
  LET j == job[w] IN
  \/ UNCHANGED <<row, results>>
  \/ /\ at[w] = "set" /\ row[j] \in Active /\ Rank(stage[w]) = Rank(row[j]) + 1
     /\ row' = [row EXCEPT ![j] = stage[w]] /\ results' = results
  \/ /\ at[w] = "work" /\ row[j] = "uploading" /\ \A s \in Slot : results[j][s] = 1
     /\ row' = [row EXCEPT ![j] = "done"] /\ results' = results
  \/ /\ at[w] = "fail" /\ row[j] \in Active \cup Ended
     /\ row' = [row EXCEPT ![j] = "failed"] /\ results' = results
  \/ /\ row[j] = "generating" /\ row' = row
     /\ \E S \in SUBSET Slot : Insert(j, S) /\ \A s \in S : results[j][s] = 0

(* An UPDATE finds a row or none.                                          *)
LEMMA Updates ==
  ASSUME TypeOK, NEW j \in Job, row[j] # "none", NEW s, SetStatus(j, s)
  PROVE  \/ row[j] = "deleted" /\ row' = row
         \/ row[j] # "deleted" /\ row' = [row EXCEPT ![j] = s]
BY DEF SetStatus, Exists, TypeOK

LEMMA Inserts ==
  ASSUME TypeOK, Running, Paced, NEW w \in Worker, Working(w), Exists(job[w]),
         NEW S \in SUBSET {s \in Slot : slots[w][s] = "image"}
  PROVE  row[job[w]] = "generating" /\ \A s \in S : results[job[w]][s] = 0
BY DEF Working, Exists, Running, OnItsWay, Paced, Pace

LEMMA HasSubmitted ==
  ASSUME TypeOK, Fresh, NEW w \in Worker, at[w] # "idle"
  PROVE  job[w] \in Job /\ row[job[w]] \in Active \cup Ended \cup {"deleted"}
BY DEF TypeOK, Fresh, InHand, Status

LEMMA WorkerStores ==
  ASSUME IInv, Paced, NEW w \in Worker, Steps(w)
  PROVE  StoreStep(w)
<1> USE DEF store
<1>1. TypeOK /\ Running /\ Fresh
  BY DEF IInv
<1>2. CASE Pop(w) \/ Load(w) \/ PublishStage(w) \/ Direct(w) \/ Joined(w) \/ Announce(w)
             \/ TellFailed(w) \/ BookFails(w) \/ Die(w)
  BY <1>2 DEF StoreStep, Pop, Load, PublishStage, Direct, Joined, Announce, TellFailed, BookFails, Die
<1>3. ASSUME NEW s \in Slot, StartSlot(w, s) \/ TellSlot(w, s)
      PROVE  StoreStep(w)
  BY <1>3 DEF StoreStep, StartSlot, TellSlot
<1>4. ASSUME at[w] = "set", SetStatus(job[w], stage[w]), results' = results
      PROVE  StoreStep(w)
  <2>1. job[w] \in Job /\ row[job[w]] # "none"
    BY <1>1, <1>4, HasSubmitted DEF Active, Ended
  <2>2. row[job[w]] # "deleted" => row[job[w]] \in Active /\ Rank(stage[w]) = Rank(row[job[w]]) + 1
    BY <1>4 DEF Paced, Pace
  <2> QED
    BY <1>1, <1>4, <2>1, <2>2, Updates DEF StoreStep
<1>5. ASSUME at[w] = "work", stage[w] = "uploading", SetStatus(job[w], "done"), results' = results
      PROVE  StoreStep(w)
  <2>1. job[w] \in Job /\ row[job[w]] \in {"uploading", "deleted"}
    BY <1>1, <1>5, HasSubmitted DEF Paced, Pace
  <2>2. row[job[w]] # "deleted" => \A s \in Slot : results[job[w]][s] = 1
    BY <1>1, <1>5, UploadsAll
  <2> QED
    BY <1>1, <1>5, <2>1, <2>2, Updates DEF StoreStep
<1>6. CASE Book(w)
  <2>1. job[w] \in Job /\ row[job[w]] \in Active \cup Ended \cup {"deleted"}
    BY <1>1, <1>6, HasSubmitted DEF Book
  <2>2. row[job[w]] # "none"
    BY <2>1 DEF Active, Ended
  <2> QED
    BY <1>1, <1>6, <2>1, <2>2, Updates DEF StoreStep, Book
<1>7. ASSUME Working(w), Exists(job[w]), row' = row,
             NEW S \in SUBSET {s \in Slot : slots[w][s] = "image"}, Insert(job[w], S)
      PROVE  StoreStep(w)
  <2>1. S \in SUBSET Slot
    OBVIOUS
  <2> QED
    BY <1>1, <1>7, <2>1, Inserts DEF StoreStep
<1>8. ASSUME NEW s \in Slot, PersistSlot(w, s)
      PROVE  StoreStep(w)
  BY <1>7, <1>8 DEF PersistSlot
<1>9. CASE Fails(w)
  BY <1>4, <1>5, <1>7, <1>9 DEF Fails, StoreStep
<1> QED
  BY <1>2, <1>3, <1>4, <1>5, <1>6, <1>8, <1>9 DEF Steps, WorkStep, SetStage, Finish

(* What a worker's step publishes fits the row, ranks no lower than what   *)
(* its streams know, and no higher than what it will say next.             *)
Says(w, s) ==
  /\ Publish(job[w], s) /\ row' = row /\ results' = results
  /\ s \in Active \cup Ended /\ Fits(s, job[w])
  /\ Reach(w) <= Rank(s) /\ (at'[w] # "idle" => Rank(s) <= Reach(w)')

LEMMA WorkerSays ==
  ASSUME IInv, Paced, NEW w \in Worker, Steps(w)
  PROVE  /\ inbox' = inbox \/ \E s : Says(w, s)
         /\ at[w] # "idle" /\ at'[w] # "idle" => Reach(w) <= Reach(w)'
<1> USE DEF store, stream, TypeOK
<1>1. TypeOK /\ Running /\ Fresh /\ Finishing /\ DoneIsComplete
  BY DEF IInv
<1>2. CASE Pop(w)
  BY <1>1, <1>2 DEF Pop
<1>3. CASE Load(w)
  BY <1>1, <1>3, Ranks DEF Load, Enter, Goto, Reach, Paced, Pace
<1>4. ASSUME at[w] = "publish", Publish(job[w], stage[w]), UNCHANGED store,
             at'[w] = "fail" \/ (at'[w] = "set" /\ stage' = stage)
      PROVE  Says(w, stage[w])
  <2>1. stage[w] \in Active /\ stage[w] # "done"
    BY <1>1 DEF Active
  <2>2. Fits(stage[w], job[w])
    BY <1>4, <2>1, Ranks DEF Fits, Paced, Pace
  <2>3. Reach(w) = Rank(stage[w]) /\ Rank(stage[w]) <= Reach(w)'
    BY <1>4, Ranks DEF Reach
  <2> QED
    BY <1>4, <2>1, <2>2, <2>3, Ranks DEF Says
<1>5. CASE PublishStage(w)
  <2>1. at'[w] = "set"
    BY <1>1, <1>5 DEF PublishStage, Goto
  <2>2. Says(w, stage[w])
    BY <1>4, <1>5, <2>1 DEF PublishStage
  <2>3. Reach(w) <= Reach(w)'
    BY <1>5, <2>1, Ranks DEF Reach, PublishStage
  <2> QED
    BY <2>2, <2>3
<1>6. CASE SetStage(w)
  <2>1. at[w] = "set" /\ at'[w] = "work" /\ stage' = stage /\ inbox' = inbox
    BY <1>1, <1>6 DEF SetStage, Goto
  <2> QED
    BY <2>1, Ranks DEF Reach
<1>7. CASE Direct(w) \/ Joined(w)
  BY <1>1, <1>7, Ranks DEF Direct, Joined, Working, Enter, Goto, Reach
<1>8. ASSUME NEW s \in Slot, StartSlot(w, s) \/ PersistSlot(w, s)
      PROVE  inbox' = inbox /\ Reach(w) <= Reach(w)'
  BY <1>8, Ranks DEF StartSlot, PersistSlot, Reach
<1>9. ASSUME Working(w), Publish(job[w], "generating"), UNCHANGED store,
             at'[w] = "fail" \/ (at' = at /\ stage' = stage)
      PROVE  Says(w, "generating")
  <2>1. Fits("generating", job[w])
    BY <1>9, Ranks DEF Fits, Paced, Pace, Working
  <2>2. Reach(w) = 3 /\ 3 <= Reach(w)'
    BY <1>9, Ranks DEF Reach, Working
  <2> QED
    BY <1>9, <2>1, <2>2, Ranks DEF Says, Active
<1>10. ASSUME NEW s \in Slot, TellSlot(w, s)
       PROVE  Says(w, "generating") /\ Reach(w) <= Reach(w)'
  BY <1>9, <1>10, Ranks DEF TellSlot, Reach
<1>11. CASE Finish(w) \/ Book(w) \/ BookFails(w)
  BY <1>1, <1>11, Ranks DEF Finish, Book, BookFails, Goto, Reach
<1>12. ASSUME at[w] = "announce", Publish(job[w], "done"), UNCHANGED store,
              at'[w] \in {"fail", "idle"}
       PROVE  Says(w, "done")
  <2>1. Fits("done", job[w])
    BY <1>1, <1>12, HasSubmitted DEF Fits, Whole, Finishing, DoneIsComplete, Active, Ended
  <2>2. Reach(w) = 5 /\ (at'[w] # "idle" => 5 <= Reach(w)')
    BY <1>12 DEF Reach
  <2> QED
    BY <1>12, <2>1, <2>2, Ranks DEF Says, Ended
<1>13. CASE Announce(w)
  <2>1. at'[w] = "idle"
    BY <1>1, <1>13 DEF Announce, Rest, Goto
  <2> QED
    BY <1>12, <1>13, <2>1 DEF Announce
<1>14. CASE TellFailed(w)
  <2>1. at'[w] = "idle"
    BY <1>1, <1>14 DEF TellFailed, Rest, Goto
  <2>2. Fits("failed", job[w]) /\ Reach(w) = 5
    BY <1>14 DEF TellFailed, Fits, Active, Reach
  <2>3. Publish(job[w], "failed") => Says(w, "failed")
    BY <1>14, <2>1, <2>2, Ranks DEF TellFailed, Says, Ended
  <2> QED
    BY <1>14, <2>1, <2>3 DEF TellFailed
<1>15. CASE Die(w)
  <2>1. at'[w] = "idle"
    BY <1>1, <1>15 DEF Die, Rest, Goto
  <2> QED
    BY <1>15, <2>1 DEF Die
<1>16. CASE Fails(w)
  <2>1. at'[w] = "fail"
    BY <1>1, <1>16 DEF Fails, Goto
  <2>2. Reach(w) <= Reach(w)'
    BY <2>1, Ranks DEF Reach
  <2>3. inbox' = inbox \/ \E s : Says(w, s)
    BY <1>4, <1>9, <1>12, <1>16, <2>1 DEF Fails
  <2> QED
    BY <2>2, <2>3
<1> QED
  BY <1>2, <1>3, <1>5, <1>6, <1>7, <1>8, <1>10, <1>11, <1>13, <1>14, <1>15, <1>16
     DEF Steps, WorkStep

-----------------------------------------------------------------------------
(* Workers keep pace: whoever does not move keeps it while its row stays   *)
(* as it is, or is deleted.                                                *)
LEMMA PaceKept ==
  ASSUME NEW v \in Worker, Pace(v), job'[v] = job[v], at'[v] = at[v], stage'[v] = stage[v],
         at[v] # "idle" => row'[job[v]] \in {row[job[v]], "deleted"}
  PROVE  Pace(v)'
BY DEF Pace

LEMMA ApiRows ==
  ASSUME IInv, NEW j \in Job, ApiStep(j)
  PROVE  /\ UNCHANGED <<worker, stream>>
         /\ \A k \in Job : k \in InHand \cup Listed => row'[k] \in {row[k], "deleted"}
         /\ \A k \in Job : k # j => row'[k] = row[k]
         /\ row[j] # "none" => row'[j] \in {row[j], "deleted"}
         /\ row[j] = "none" => row'[j] \in {"none", "queued"} /\ results' = results
         /\ results' # results => row'[j] = "deleted" /\ \A k \in Job : k # j => results'[k] = results[k]
<1> USE DEF IInv, TypeOK, store
<1>1. CASE Create(j)
  BY <1>1 DEF Create, Fresh
<1>2. CASE Push(j) \/ PushFails(j)
  BY <1>2 DEF Push, PushFails
<1>3. CASE Delete(j)
  BY <1>3 DEF Delete, Exists
<1> QED
  BY <1>1, <1>2, <1>3 DEF ApiStep

LEMMA PacedStep ==
  ASSUME IInv, Paced, [Next]_vars
  PROVE  Paced'
<1>1. TypeOK /\ Running /\ Fresh /\ InOneHand
  BY DEF IInv, NothingForgotten, OnlyOnce
<1>2. ASSUME NEW j \in Job, ApiStep(j)
      PROVE  Paced'
  <2>1. UNCHANGED <<job, at, stage>>
    BY <1>2, ApiRows DEF worker
  <2>2. ASSUME NEW v \in Worker, at[v] # "idle"
        PROVE  row'[job[v]] \in {row[job[v]], "deleted"}
    <3>1. job[v] \in Job /\ job[v] \in InHand
      BY <1>1, <2>2 DEF TypeOK, InHand
    <3> QED
      BY <1>2, <3>1, ApiRows
  <2> QED
    BY <2>1, <2>2, PaceKept DEF Paced
<1>3. ASSUME UNCHANGED <<row, job, at, stage>>
      PROVE  Paced'
  BY <1>3 DEF Paced, Pace
<1>4. ASSUME NEW w \in Worker, Steps(w)
      PROVE  Paced'
  <2>1. ASSUME NEW v \in Worker, v # w
        PROVE  Pace(v)'
    <3>1. at[v] # "idle" => job[v] \in Job /\ job[v] # job[w]
      BY <1>1, <2>1 DEF TypeOK, InOneHand
    <3>2. /\ at'[v] = at[v] /\ job'[v] = job[v] /\ stage'[v] = stage[v]
          /\ at[v] # "idle" => row'[job[v]] = row[job[v]]
      BY <1>1, <1>4, <2>1, <3>1, OneWorks
    <3> QED
      BY <3>2, PaceKept DEF Paced
  <2>2. Pace(w)
    BY DEF Paced
  <2> USE DEF store, Goto
  <2>3. ASSUME Pop(w)
        PROVE  Pace(w)'
    <3>1. /\ Head(queue) \in Job /\ Head(queue) \in Listed
      BY <1>1, <2>3, Popped DEF Pop, TypeOK
    <3>2. row[Head(queue)] \in {"queued", "deleted"}
      BY <3>1 DEF IInv, Untouched, Pace
    <3>3. at[w] = "idle" /\ job'[w] = Head(queue) /\ at'[w] = "load" /\ row' = row /\ stage' = stage
      BY <1>1, <2>3 DEF Pop, TypeOK
    <3> QED
      BY <2>2, <3>2, <3>3 DEF Pace
  <2>4. ASSUME Load(w)
        PROVE  Pace(w)'
    <3>1. CASE Exists(job[w]) /\ Enter(w, "directing")
      <4>1. /\ at'[w] = "publish" /\ stage'[w] = "directing" /\ row' = row /\ job' = job
            /\ row[job[w]] = "queued"
        BY <1>1, <2>2, <2>4, <3>1 DEF Load, Enter, Exists, TypeOK, Pace
      <4> QED
        BY <4>1, Ranks DEF Active, Pace
    <3>2. CASE ~Exists(job[w]) /\ Goto(w, "fail")
      <4>1. at'[w] = "fail"
        BY <1>1, <3>2 DEF TypeOK
      <4> QED
        BY <4>1 DEF Pace
    <3> QED
      BY <2>4, <3>1, <3>2 DEF Load
  <2>5. ASSUME PublishStage(w)
        PROVE  Pace(w)'
    <3>1. at[w] = "publish" /\ at'[w] = "set" /\ UNCHANGED <<row, job, stage>>
      BY <1>1, <2>5 DEF PublishStage, TypeOK
    <3> QED
      BY <2>2, <3>1 DEF Pace
  <2>6. ASSUME SetStage(w)
        PROVE  Pace(w)'
    <3>1. at[w] = "set" /\ at'[w] = "work" /\ UNCHANGED <<job, stage>>
      BY <1>1, <2>6 DEF SetStage, TypeOK
    <3>2. job[w] \in Job /\ row[job[w]] \in Active \cup {"deleted"}
      BY <1>1, <3>1, HasOpenJob DEF OnItsWay, TypeOK
    <3>3. row[job[w]] # "none"
      BY <3>2 DEF Active
    <3>4. row'[job[w]] \in {stage[w], "deleted"}
      BY <1>1, <2>6, <3>2, <3>3, Updates DEF SetStage, TypeOK
    <3> QED
      BY <2>2, <3>1, <3>4 DEF Pace
  <2>7. ASSUME Direct(w) \/ Joined(w)
        PROVE  Pace(w)'
    <3>1. /\ at[w] = "work" /\ at'[w] = "publish" /\ row' = row /\ job' = job
          /\ \/ stage[w] = "directing" /\ stage'[w] = "generating"
             \/ stage[w] = "generating" /\ stage'[w] = "uploading"
      BY <1>1, <2>7 DEF Direct, Joined, Working, Enter, TypeOK
    <3> QED
      BY <2>2, <3>1, Ranks DEF Active, Pace
  <2>8. ASSUME NEW s \in Slot, StartSlot(w, s) \/ PersistSlot(w, s) \/ TellSlot(w, s)
        PROVE  Pace(w)'
    <3>1. UNCHANGED <<job, at, stage, row>>
      BY <2>8 DEF StartSlot, PersistSlot, TellSlot
    <3> QED
      BY <2>2, <3>1 DEF Pace
  <2>9. ASSUME Finish(w) \/ Fails(w) \/ Book(w) \/ BookFails(w)
        PROVE  Pace(w)'
    <3>1. at'[w] \in {"announce", "fail", "tell"}
      BY <1>1, <2>9 DEF Finish, Fails, Book, BookFails, TypeOK
    <3> QED
      BY <3>1 DEF Pace
  <2>10. ASSUME Announce(w) \/ TellFailed(w) \/ Die(w)
        PROVE  Pace(w)'
    <3>1. at'[w] = "idle" /\ stage'[w] = "queued"
      BY <1>1, <2>10 DEF Announce, TellFailed, Die, Rest, TypeOK
    <3> QED
      BY <3>1 DEF Pace
  <2>11. Pace(w)'
    BY <1>4, <2>3, <2>4, <2>5, <2>6, <2>7, <2>8, <2>9, <2>10 DEF Steps, WorkStep
  <2> QED
    BY <2>1, <2>11 DEF Paced
<1>5. ASSUME NEW x \in Stream, StreamStep(x)
      PROVE  Paced'
  BY <1>3, <1>5 DEF StreamStep, Listen, Subscribe, Deliver, GiveUp, Close, store, worker
<1>6. CASE RedisRestarts \/ UNCHANGED vars
  BY <1>3, <1>6 DEF RedisRestarts, vars, store, worker
<1> QED
  BY <1>2, <1>4, <1>5, <1>6 DEF Next, Steps

-----------------------------------------------------------------------------
(* Sequences that an event is appended to, or taken from.                  *)
LEMMA Appended ==
  ASSUME NEW E, NEW q \in Seq(E), NEW s
  PROVE  /\ Len(q) \in Nat /\ DOMAIN q = 1 .. Len(q)
         /\ DOMAIN Append(q, s) = 1 .. Len(q) + 1
         /\ \A i \in DOMAIN q : Append(q, s)[i] = q[i]
         /\ Append(q, s)[Len(q) + 1] = s
         /\ \A i \in DOMAIN Append(q, s) : i \in DOMAIN q \/ i = Len(q) + 1
<1>1. /\ Len(q) \in Nat /\ DOMAIN q = 1 .. Len(q)
      /\ DOMAIN Append(q, s) = 1 .. Len(q) + 1
      /\ \A i \in 1 .. Len(q) : Append(q, s)[i] = q[i]
      /\ Append(q, s)[Len(q) + 1] = s
  OBVIOUS
<1>2. \A i \in 1 .. Len(q) + 1 : i \in 1 .. Len(q) \/ i = Len(q) + 1
  BY <1>1
<1> QED
  BY <1>1, <1>2

LEMMA Tailed ==
  ASSUME NEW E, NEW q \in Seq(E), q # <<>>
  PROVE  /\ Head(q) \in E /\ Head(q) = q[1] /\ 1 \in DOMAIN q /\ DOMAIN q \subseteq Int
         /\ \A i \in DOMAIN Tail(q) : /\ i \in Int /\ i + 1 \in DOMAIN q /\ 1 < i + 1
                                     /\ Tail(q)[i] = q[i + 1]
<1>1. /\ DOMAIN q = 1 .. Len(q) /\ DOMAIN Tail(q) = 1 .. Len(q) - 1
      /\ \A i \in 1 .. Len(q) - 1 : Tail(q)[i] = q[i + 1]
      /\ Head(q) = q[1] /\ Len(q) \in Nat \ {0}
  OBVIOUS
<1>2. Head(q) \in E
  OBVIOUS
<1>3. \A i \in 1 .. Len(q) - 1 : i \in Int /\ i + 1 \in 1 .. Len(q) /\ 1 < i + 1
  BY <1>1
<1> QED
  BY <1>1, <1>2, <1>3

(* What the rows of submitted jobs do in a worker's step.                  *)
LEMMA RowsForward ==
  ASSUME IInv, Paced, NEW w \in Worker, Steps(w), NEW k \in Job, row[k] # "none"
  PROVE  /\ row'[k] = row[k] \/ /\ row[k] \in Active \cup Ended
                                /\ row'[k] \in Active \cup Ended
                                /\ Rank(row[k]) <= Rank(row'[k])
         /\ Whole(k) => Whole(k)'
<1>1. TypeOK /\ StoreStep(w)
  BY WorkerStores DEF IInv
<1>2. CASE UNCHANGED <<row, results>>
  BY <1>2 DEF Whole
<1>3. CASE k # job[w]
  BY <1>1, <1>3, OneWorks DEF Whole
<1>4. ASSUME k = job[w], row[k] \in Active, row' = [row EXCEPT ![k] = stage[w]],
             Rank(stage[w]) = Rank(row[k]) + 1
      PROVE  /\ row[k] \in Active /\ row'[k] \in Active /\ Rank(row[k]) <= Rank(row'[k])
             /\ ~Whole(k)
  BY <1>1, <1>4, Ranks DEF TypeOK, Whole, Active, Ended
<1>5. ASSUME k = job[w], row[k] \in Active \cup Ended, results' = results,
             NEW s \in Ended, row' = [row EXCEPT ![k] = s]
      PROVE  /\ row'[k] \in Ended /\ Rank(row[k]) <= Rank(row'[k])
             /\ Whole(k) => Whole(k)'
  <2>1. row'[k] = s /\ s \in Ended
    BY <1>1, <1>5 DEF TypeOK
  <2>2. Rank(s) = 5 /\ Rank(row[k]) \in 1 .. 5
    BY <2>1, Ranks DEF Ended
  <2>3. Rank(row[k]) <= Rank(row'[k])
    BY <2>1, <2>2
  <2> QED
    BY <1>5, <2>1, <2>3 DEF Whole
<1>6. ASSUME row[k] = "generating", row' = row
      PROVE  row'[k] = row[k] /\ ~Whole(k)
  BY <1>6 DEF Whole, Ended
<1> QED
  BY <1>1, <1>2, <1>3, <1>4, <1>5, <1>6 DEF StoreStep, Active, Ended

(* And a row is never past what its worker says next.                      *)
LEMMA RowInReach ==
  ASSUME IInv, Paced, NEW w \in Worker, Steps(w), at[w] # "idle", at'[w] # "idle",
         row'[job[w]] # row[job[w]]
  PROVE  Rank(row'[job[w]]) <= Reach(w)'
<1>1. TypeOK /\ StoreStep(w) /\ job[w] \in Job
  BY WorkerStores DEF IInv, TypeOK
<1>2. Reach(w) <= Reach(w)'
  BY WorkerSays
<1>3. Reach(w) \in 1 .. 5 /\ Reach(w)' \in 1 .. 5
  BY Ranks DEF Reach
<1>4. CASE at[w] = "set" /\ row' = [row EXCEPT ![job[w]] = stage[w]]
  BY <1>1, <1>2, <1>4 DEF TypeOK, Reach
<1>5. CASE at[w] = "work" /\ row[job[w]] = "uploading" /\ row' = [row EXCEPT ![job[w]] = "done"]
  <2>1. stage[w] = "uploading"
    BY <1>5 DEF Paced, Pace
  <2>2. Finish(w) \/ Fails(w)
    BY <1>1, <1>5, <2>1 DEF Steps, WorkStep, Pop, Load, PublishStage, SetStage, Direct, StartSlot,
       PersistSlot, TellSlot, Joined, Working, Announce, Book, TellFailed, BookFails, Die, store, TypeOK
  <2>3. at'[w] \in {"announce", "fail"}
    BY <1>1, <2>2 DEF Finish, Fails, Goto, TypeOK
  <2> QED
    BY <2>3, Ranks DEF Reach
<1>6. CASE at[w] = "fail"
  BY <1>2, <1>3, <1>6, Ranks DEF Reach
<1>7. row' # row /\ row'[job[w]] # row[job[w]]
  OBVIOUS
<1> QED
  BY <1>1, <1>4, <1>5, <1>6, <1>7 DEF StoreStep

-----------------------------------------------------------------------------
(* Streams: what a step of one of them changes.                            *)
LEMMA OneListens ==
  ASSUME TypeOK, NEW x \in Stream, StreamStep(x)
  PROVE  /\ UNCHANGED <<row, results, calling, queue, worker>>
         /\ \A y \in Stream : y # x => /\ ear'[y] = ear[y] /\ hears'[y] = hears[y]
                                      /\ shown'[y] = shown[y] /\ inbox'[y] = inbox[y]
BY DEF TypeOK, StreamStep, Listen, Subscribe, Deliver, GiveUp, Close, store

(* What one stream may do.                                                 *)
LEMMA Listens ==
  ASSUME TypeOK, Tuned, NEW x \in Stream, StreamStep(x)
  PROVE  \/ /\ hears'[x] = hears[x] /\ shown'[x] = shown[x] /\ inbox'[x] = inbox[x]
            /\ ear[x] # "closed" /\ ear'[x] \in {"open", "over"}
            /\ ear'[x] = "open" => ear[x] = "asked"
         \/ /\ inbox[x] # <<>> /\ inbox'[x] = Tail(inbox[x]) /\ shown'[x] = Head(inbox[x])
            /\ hears'[x] = hears[x] /\ ear[x] \in {"open", "cut"}
            /\ ear'[x] = IF Head(inbox[x]) \in Ended THEN "over" ELSE ear[x]
         \/ /\ hears[x] = NoJob /\ inbox[x] = <<>> /\ inbox'[x] = <<>>
            /\ hears'[x] \in Job /\ Exists(hears'[x]) /\ shown'[x] = row[hears'[x]]
            /\ ear'[x] = IF shown'[x] \in Ended THEN "over" ELSE "asked"
         \/ hears'[x] = NoJob /\ inbox'[x] = <<>> /\ ear'[x] = "closed" /\ shown'[x] = "none"
<1>1. CASE Subscribe(x) \/ GiveUp(x)
  BY <1>1 DEF TypeOK, Subscribe, GiveUp
<1>2. CASE Deliver(x)
  BY <1>2 DEF TypeOK, Deliver
<1>3. CASE Close(x)
  BY <1>3 DEF TypeOK, Close
<1>4. ASSUME NEW j \in Job, Listen(x, j)
      PROVE  /\ hears[x] = NoJob /\ inbox[x] = <<>> /\ inbox'[x] = <<>>
             /\ hears'[x] \in Job /\ Exists(hears'[x]) /\ shown'[x] = row[hears'[x]]
             /\ ear'[x] = IF shown'[x] \in Ended THEN "over" ELSE "asked"
  BY <1>4 DEF TypeOK, Tuned, TunedTo, Listen
<1> QED
  BY <1>1, <1>2, <1>3, <1>4 DEF StreamStep

(* What is published reaches the streams of that job at their end.         *)
LEMMA Reaches ==
  ASSUME TypeOK, NEW j, NEW s, Publish(j, s), NEW x \in Stream
  PROVE  \/ inbox'[x] = inbox[x]
         \/ hears[x] = j /\ ear[x] = "open" /\ inbox'[x] = Append(inbox[x], s)
BY DEF TypeOK, Publish

LEMMA TunedStep ==
  ASSUME IInv, Paced, Tuned, [Next]_vars
  PROVE  Tuned'
<1>1. TypeOK /\ NoJob \notin Job
  BY JobAssumption DEF IInv
<1>2. \A x \in Stream : TunedTo(x) /\ (hears[x] # NoJob => hears[x] \in Job)
  BY <1>1 DEF Tuned, TypeOK
<1>3. SUFFICES ASSUME NEW x \in Stream
               PROVE  TunedTo(x)'
  BY <1>3 DEF Tuned
<1>4. ASSUME ear'[x] = ear[x] \/ (ear[x] = "open" /\ ear'[x] = "cut"),
             hears'[x] = hears[x], shown'[x] = shown[x],
             inbox'[x] = inbox[x] \/ ear[x] = "open",
             hears[x] # NoJob => row'[hears[x]] # "none"
      PROVE  TunedTo(x)'
  BY <1>2, <1>4 DEF TunedTo
<1>5. ASSUME NEW j \in Job, ApiStep(j)
      PROVE  TunedTo(x)'
  <2>1. hears[x] # NoJob => row'[hears[x]] # "none"
    BY <1>2, <1>5, ApiRows DEF TunedTo
  <2>2. UNCHANGED <<ear, hears, shown, inbox>>
    BY <1>5, ApiRows DEF stream
  <2> QED
    BY <1>4, <2>1, <2>2
<1>6. ASSUME NEW w \in Worker, Steps(w)
      PROVE  TunedTo(x)'
  <2>1. hears[x] # NoJob => row'[hears[x]] # "none"
    BY <1>2, <1>6, RowsForward DEF TunedTo, Active, Ended
  <2>2. inbox'[x] = inbox[x] \/ ear[x] = "open"
    BY <1>1, <1>6, WorkerSays, Reaches DEF Says
  <2>3. UNCHANGED <<ear, hears, shown>>
    BY <1>1, <1>6, OneWorks
  <2> QED
    BY <1>4, <2>1, <2>2, <2>3
<1>7. ASSUME NEW y \in Stream, StreamStep(y)
      PROVE  TunedTo(x)'
  <2>1. row' = row
    BY <1>1, <1>7, OneListens
  <2>2. CASE x # y
    BY <1>1, <1>2, <1>4, <1>7, <2>1, <2>2, OneListens DEF TunedTo
  <2>3. CASE x = y
    <3>1. inbox[x] # <<>> => Head(inbox[x]) \in Active \cup Ended
      BY <1>1, Tailed DEF TypeOK
    <3>2. StreamStep(x)
      BY <1>7, <2>3
    <3>3. hears[x] # NoJob => row'[hears[x]] # "none"
      BY <1>2, <2>1 DEF TunedTo
    <3>4. ASSUME hears'[x] \in Job, Exists(hears'[x])
          PROVE  row[hears'[x]] \in Active \cup Ended
      BY <1>1, <3>4 DEF Exists, TypeOK, Status
    <3>5. ASSUME ear[x] # "closed", hears'[x] = hears[x]
          PROVE  hears'[x] # NoJob /\ row'[hears'[x]] # "none"
      BY <1>2, <3>3, <3>5 DEF TunedTo
    <3> QED
      BY <1>1, <1>2, <2>1, <3>1, <3>2, <3>4, <3>5, Listens DEF TunedTo, Exists
  <2> QED
    BY <2>2, <2>3
<1>8. CASE RedisRestarts
  BY <1>1, <1>2, <1>4, <1>8 DEF RedisRestarts, store, TunedTo, TypeOK
<1>9. CASE UNCHANGED vars
  BY <1>2, <1>4, <1>9 DEF vars, stream, store, TunedTo
<1> QED
  BY <1>5, <1>6, <1>7, <1>8, <1>9 DEF Next, Steps

-----------------------------------------------------------------------------
(* Timely and in order: workers publish nothing that ranks below what the  *)
(* streams of their job know.                                              *)
LEMMA KnowsMore ==
  ASSUME NEW x \in Stream, NEW m \in Int, NEW n \in Int, m <= n, KnowsAtMost(x, m)
  PROVE  KnowsAtMost(x, n)
<1>1. Rank(shown[x]) \in Int /\ \A i \in DOMAIN inbox[x] : Rank(inbox[x][i]) \in Int
  BY Ranks
<1> QED
  BY <1>1 DEF KnowsAtMost

LEMMA KnowsAppended ==
  ASSUME TypeOK, NEW x \in Stream, NEW n \in Int, NEW s, shown'[x] = shown[x],
         inbox'[x] = Append(inbox[x], s), Rank(s) <= n, KnowsAtMost(x, n)
  PROVE  /\ Rank(shown'[x]) <= n
         /\ \A i \in DOMAIN inbox'[x] : Rank(inbox'[x][i]) <= n
<1>1. inbox[x] \in Seq(Active \cup Ended)
  BY DEF TypeOK
<1>2. /\ DOMAIN inbox'[x] = DOMAIN Append(inbox[x], s)
      /\ \A i \in DOMAIN inbox[x] : inbox'[x][i] = inbox[x][i]
      /\ inbox'[x][Len(inbox[x]) + 1] = s
      /\ \A i \in DOMAIN inbox'[x] : i \in DOMAIN inbox[x] \/ i = Len(inbox[x]) + 1
  BY <1>1, Appended
<1> QED
  BY <1>2 DEF KnowsAtMost

LEMMA KnowsHeard ==
  ASSUME NEW x \in Stream, NEW n
  PROVE  /\ KnowsAtMost(x, n) => \A e \in Heard(x) : Rank(e) <= n
         /\ (\A e \in Heard(x)' : Rank(e) <= n) => /\ Rank(shown'[x]) <= n
                                                  /\ \A i \in DOMAIN inbox'[x] : Rank(inbox'[x][i]) <= n
BY DEF KnowsAtMost, Heard

(* A job whose row and streams stay as they are, or whose row is deleted.  *)
LEMMA NotPastKept ==
  ASSUME NEW j, NEW n, NotPast(j, n), row'[j] \in {row[j], "deleted"},
         \A x \in Stream : hears'[x] = j =>
           hears[x] = j /\ shown'[x] = shown[x] /\ inbox'[x] = inbox[x]
  PROVE  /\ row'[j] \in Active \cup Ended => Rank(row'[j]) <= n
         /\ \A x \in Stream : hears'[x] = j =>
              /\ Rank(shown'[x]) <= n
              /\ \A i \in DOMAIN inbox'[x] : Rank(inbox'[x][i]) <= n
BY DEF NotPast, KnowsAtMost, Active, Ended

(* What a worker publishes leaves the streams of other jobs alone.         *)
LEMMA OthersHear ==
  ASSUME IInv, Paced, NEW w \in Worker, Steps(w), NEW x \in Stream, hears[x] # job[w]
  PROVE  hears'[x] = hears[x] /\ shown'[x] = shown[x] /\ inbox'[x] = inbox[x]
<1>1. TypeOK
  BY DEF IInv
<1>2. hears' = hears /\ shown' = shown
  BY <1>1, OneWorks
<1>3. ASSUME NEW s, Says(w, s)
      PROVE  inbox'[x] = inbox[x]
  BY <1>1, <1>3, Reaches DEF Says
<1> QED
  BY <1>2, <1>3, WorkerSays

(* The streams of the worker's own job know no more than it says next.     *)
LEMMA OwnHear ==
  ASSUME IInv, Paced, NEW w \in Worker, Steps(w), at[w] # "idle", at'[w] # "idle",
         NEW x \in Stream, KnowsAtMost(x, Reach(w))
  PROVE  /\ Rank(shown'[x]) <= Reach(w)'
         /\ \A i \in DOMAIN inbox'[x] : Rank(inbox'[x][i]) <= Reach(w)'
<1> DEFINE n == Reach(w)'
<1>1. TypeOK /\ shown' = shown
  BY OneWorks DEF IInv
<1>2. Reach(w) \in Int /\ n \in Int /\ Reach(w) <= n
  BY Ranks, WorkerSays DEF Reach
<1>3. KnowsAtMost(x, n)
  BY <1>2, KnowsMore
<1> HIDE DEF n
<1>4. CASE inbox'[x] = inbox[x]
  BY <1>1, <1>3, <1>4 DEF KnowsAtMost, n
<1>5. ASSUME NEW s, Says(w, s), inbox'[x] = Append(inbox[x], s)
      PROVE  /\ Rank(shown'[x]) <= n
             /\ \A i \in DOMAIN inbox'[x] : Rank(inbox'[x][i]) <= n
  <2>1. Rank(s) <= n
    BY <1>5 DEF Says, n
  <2> QED
    BY <1>1, <1>2, <1>3, <1>5, <2>1, KnowsAppended
<1>6. ASSUME NEW s, Says(w, s)
      PROVE  inbox'[x] = inbox[x] \/ inbox'[x] = Append(inbox[x], s)
  BY <1>1, <1>6, Reaches DEF Says
<1> QED
  BY <1>4, <1>5, <1>6, WorkerSays DEF n

TimelyFor(w) == job[w] # NoJob => NotPast(job[w], Reach(w))

LEMMA TimelyByApi ==
  ASSUME IInv, Tuned, Timely, NEW j \in Job, ApiStep(j)
  PROVE  Timely'
<1>1. TypeOK /\ Fresh /\ NoJob \notin Job
  BY JobAssumption DEF IInv
<1>2. UNCHANGED <<job, at, stage, hears, shown, inbox>>
  BY <1>1, ApiRows DEF worker, stream
<1>3. ASSUME NEW k \in Job, NEW n, NotPast(k, n), row'[k] \in {row[k], "deleted"}
      PROVE  NotPast(k, n)'
  BY <1>2, <1>3 DEF NotPast, KnowsAtMost, Active, Ended
<1>4. ASSUME NEW v \in Worker, job'[v] # NoJob
      PROVE  NotPast(job[v], Reach(v))'
  <2>1. job[v] \in Job /\ job[v] \in InHand /\ job' = job
    BY <1>1, <1>2, <1>4 DEF TypeOK, InHand
  <2>2. row'[job[v]] \in {row[job[v]], "deleted"}
    BY <2>1, ApiRows
  <2>3. NotPast(job[v], Reach(v)) /\ Reach(v)' = Reach(v)
    BY <1>2, <1>4, <2>1 DEF Timely, Reach
  <2> QED
    BY <1>2, <2>1, <2>2, <2>3 DEF NotPast, KnowsAtMost, Active, Ended
<1>5. ASSUME NEW k \in calling' \cup Listed'
      PROVE  NotPast(k, 1)'
  <2>1. CASE k \in calling \cup Listed
    <3>1. k \in Job /\ NotPast(k, 1) /\ row[k] # "none"
      BY <1>1, <2>1 DEF Timely, Fresh, TypeOK, Listed
    <3>2. row'[k] \in {row[k], "deleted"}
      BY <3>1, ApiRows
    <3> QED
      BY <1>3, <3>1, <3>2
  <2>2. CASE k \notin calling \cup Listed
    <3>1. Create(j) \/ Push(j) \/ PushFails(j) \/ Delete(j)
      BY DEF ApiStep
    <3>2. ASSUME Push(j)
          PROVE  FALSE
      <4>1. Listed' = Listed \cup {j} /\ j \in calling /\ calling' \subseteq calling
        BY <1>1, <3>2, Pushed DEF Push, TypeOK
      <4> QED
        BY <1>5, <2>2, <4>1
    <3>3. Create(j)
      BY <1>5, <2>2, <3>1, <3>2 DEF PushFails, Delete, Listed
    <3>4. k = j /\ row[k] = "none" /\ row'[k] = "queued"
      BY <1>1, <1>5, <2>2, <3>3 DEF Create, Listed, TypeOK
    <3>5. \A x \in Stream : hears'[x] # k
      BY <1>1, <1>2, <3>4 DEF Tuned, TunedTo
    <3> QED
      BY <3>4, <3>5, Ranks DEF NotPast
  <2> QED
    BY <2>1, <2>2
<1>6. \A v \in Worker : job'[v] = job[v]
  BY <1>2
<1> QED
  BY <1>4, <1>5, <1>6 DEF Timely

LEMMA TimelyByWorker ==
  ASSUME IInv, Paced, Timely, NEW w \in Worker, Steps(w)
  PROVE  Timely'
<1>1. /\ TypeOK /\ Fresh /\ InOneHand /\ NoJob \notin Job /\ Listed \cap InHand = {}
      /\ calling \cap InHand = {}
  BY JobAssumption DEF IInv, NothingForgotten, OnlyOnce
<1>2. ASSUME NEW k \in Job, NEW n, NotPast(k, n), k # job[w]
      PROVE  /\ row'[k] \in Active \cup Ended => Rank(row'[k]) <= n
             /\ \A x \in Stream : hears'[x] = k =>
                  /\ Rank(shown'[x]) <= n
                  /\ \A i \in DOMAIN inbox'[x] : Rank(inbox'[x][i]) <= n
  <2>1. row'[k] = row[k] /\ hears' = hears
    BY <1>1, <1>2, OneWorks
  <2>2. \A x \in Stream : hears'[x] = k =>
           hears[x] = k /\ shown'[x] = shown[x] /\ inbox'[x] = inbox[x]
    BY <1>2, <2>1, OthersHear
  <2> QED
    BY <1>2, <2>1, <2>2, NotPastKept
<1>3. ASSUME NEW v \in Worker, v # w, job'[v] # NoJob
      PROVE  NotPast(job[v], Reach(v))'
  <2>1. job'[v] = job[v] /\ Reach(v)' = Reach(v)
    BY <1>1, <1>3, OneWorks DEF Reach
  <2>2. job[v] \in Job /\ job[v] # job[w] /\ NotPast(job[v], Reach(v))
    BY <1>1, <1>3, <2>1 DEF TypeOK, InOneHand, Timely
  <2> QED
    BY <1>2, <2>1, <2>2 DEF NotPast, KnowsAtMost
<1>4. ASSUME Pop(w)
      PROVE  NotPast(job[w], Reach(w))' /\ Listed' \subseteq Listed /\ calling' = calling
  <2> DEFINE h == Head(queue)
  <2>1. h \in Job /\ h \in Listed /\ Listed' \subseteq Listed
    BY <1>1, <1>4, Popped DEF Pop, TypeOK
  <2>2. h # job[w] /\ NotPast(h, 1) /\ stage[w] = "queued"
    BY <1>1, <1>4, <2>1 DEF Pop, Timely, Paced, Pace, TypeOK
  <2>3. job'[w] = h /\ at'[w] = "load" /\ stage' = stage /\ calling' = calling
    BY <1>1, <1>4 DEF Pop, TypeOK
  <2>4. Reach(w)' = 1
    BY <2>2, <2>3, Ranks DEF Reach
  <2> QED
    BY <1>2, <2>1, <2>2, <2>3, <2>4 DEF NotPast, KnowsAtMost
<1>5. ASSUME at[w] # "idle", job'[w] # NoJob
      PROVE  NotPast(job[w], Reach(w))'
  <2>1. job'[w] = job[w] /\ at'[w] # "idle" /\ job[w] \in Job
    <3>1. [Next]_vars
      BY DEF Next, Steps
    <3>2. TypeOK'
      BY <1>1, <3>1, TypeStep
    <3>3. job'[w] = job[w]
      BY <1>1, <1>5, OwnJob DEF TypeOK, Rest, Pop
    <3> QED
      BY <1>1, <1>5, <3>2, <3>3 DEF TypeOK
  <2>2. NotPast(job[w], Reach(w)) /\ hears' = hears
    BY <1>1, <2>1, OneWorks DEF Timely
  <2>3. \A x \in Stream : hears'[x] = job[w] =>
           /\ Rank(shown'[x]) <= Reach(w)'
           /\ \A i \in DOMAIN inbox'[x] : Rank(inbox'[x][i]) <= Reach(w)'
    BY <1>5, <2>1, <2>2, OwnHear DEF NotPast
  <2>4. row'[job[w]] = row[job[w]] => (row'[job[w]] \in Active \cup Ended => Rank(row'[job[w]]) <= Reach(w)')
    <3>1. Reach(w) \in Int /\ Reach(w)' \in Int /\ Rank(row[job[w]]) \in Int /\ Reach(w) <= Reach(w)'
      BY <1>5, <2>1, Ranks, WorkerSays DEF Reach
    <3> QED
      BY <2>2, <3>1 DEF NotPast
  <2>5. row'[job[w]] # row[job[w]] => Rank(row'[job[w]]) <= Reach(w)'
    BY <1>5, <2>1, RowInReach
  <2> QED
    BY <2>1, <2>3, <2>4, <2>5 DEF NotPast, KnowsAtMost
<1>6. ASSUME NEW k \in calling \cup Listed
      PROVE  NotPast(k, 1)'
  <2>1. k \in Job /\ k # job[w] /\ NotPast(k, 1)
    <3>1. k \in Job
      BY <1>1 DEF TypeOK, Listed
    <3>2. k \notin InHand
      BY <1>1
    <3> QED
      BY <3>1, <3>2 DEF InHand, Timely
  <2> QED
    BY <1>2, <2>1 DEF NotPast, KnowsAtMost
<1>7. Listed' \subseteq Listed /\ calling' = calling
  <2>1. CASE at[w] = "idle"
    BY <1>1, <1>4, <2>1, OwnJob
  <2>2. CASE at[w] # "idle"
    BY <1>1, <2>2, OneWorks DEF Listed
  <2> QED
    BY <2>1, <2>2
<1>8. job'[w] # NoJob => NotPast(job[w], Reach(w))'
  BY <1>1, <1>4, <1>5, OwnJob
<1> QED
  BY <1>3, <1>6, <1>7, <1>8 DEF Timely

LEMMA TimelyStep ==
  ASSUME IInv, Paced, Tuned, Timely, [Next]_vars
  PROVE  Timely'
<1>1. TypeOK /\ Fresh /\ NoJob \notin Job
  BY JobAssumption DEF IInv
<1>2. ASSUME UNCHANGED <<row, calling, worker>>, Listed' \subseteq Listed,
             \A x \in Stream : hears'[x] # NoJob => \/ /\ hears[x] = hears'[x]
                                                     /\ Heard(x)' \subseteq Heard(x)
                                                  \/ /\ row[hears'[x]] \in Active \cup Ended
                                                     /\ Heard(x)' = {row[hears'[x]]}
      PROVE  Timely'
  <2>1. ASSUME NEW j \in Job, NEW n, NotPast(j, n)
        PROVE  /\ row'[j] \in Active \cup Ended => Rank(row'[j]) <= n
               /\ \A x \in Stream : hears'[x] = j =>
                    /\ Rank(shown'[x]) <= n
                    /\ \A i \in DOMAIN inbox'[x] : Rank(inbox'[x][i]) <= n
    <3>1. ASSUME NEW x \in Stream, hears'[x] = j
          PROVE  \A e \in Heard(x)' : Rank(e) <= n
      <4>1. hears[x] = j => \A e \in Heard(x) : Rank(e) <= n
        BY <2>1, KnowsHeard DEF NotPast
      <4> QED
        BY <1>1, <1>2, <2>1, <3>1, <4>1 DEF NotPast
    <3> QED
      BY <1>2, <2>1, <3>1, KnowsHeard DEF NotPast
  <2>2. \A v \in Worker : job[v] # NoJob => job[v] \in Job
    BY <1>1 DEF TypeOK
  <2>3. \A k \in calling \cup Listed : k \in Job
    BY <1>1 DEF TypeOK, Listed
  <2>4. UNCHANGED <<job, at, stage>>
    BY <1>2 DEF worker
  <2>5. \A v \in Worker : Reach(v)' = Reach(v) /\ job'[v] = job[v]
    BY <2>4 DEF Reach
  <2>6. ASSUME NEW v \in Worker, job'[v] # NoJob
        PROVE  NotPast(job[v], Reach(v))'
    <3>1. job[v] \in Job /\ NotPast(job[v], Reach(v))
      BY <2>2, <2>5, <2>6 DEF Timely
    <3> QED
      BY <2>1, <2>5, <3>1 DEF NotPast, KnowsAtMost
  <2>7. ASSUME NEW k \in calling' \cup Listed'
        PROVE  NotPast(k, 1)'
    <3>1. k \in Job /\ NotPast(k, 1)
      BY <1>2, <2>3, <2>7 DEF Timely
    <3> QED
      BY <2>1, <3>1 DEF NotPast, KnowsAtMost
  <2> QED
    BY <2>6, <2>7 DEF Timely
<1>3. ASSUME NEW x \in Stream, StreamStep(x)
      PROVE  Timely'
  <2>1. /\ UNCHANGED <<row, calling, queue, worker>>
        /\ \A y \in Stream : y # x => /\ hears'[y] = hears[y]
                                     /\ shown'[y] = shown[y] /\ inbox'[y] = inbox[y]
    BY <1>1, <1>3, OneListens
  <2>2. \A y \in Stream : y # x => Heard(y)' \subseteq Heard(y)
    BY <2>1 DEF Heard
  <2>3. ASSUME hears'[x] # NoJob
        PROVE  \/ /\ hears[x] = hears'[x]
                  /\ Heard(x)' \subseteq Heard(x)
               \/ /\ row[hears'[x]] \in Active \cup Ended
                  /\ Heard(x)' = {row[hears'[x]]}
    <3>1. CASE Deliver(x)
      BY <1>1, <3>1, HeardDeliver DEF Deliver
    <3>2. CASE shown'[x] = shown[x] /\ inbox'[x] = inbox[x] /\ hears'[x] = hears[x]
      BY <3>2 DEF Heard
    <3>3. ASSUME NEW j \in Job, Listen(x, j)
          PROVE  /\ row[hears'[x]] \in Active \cup Ended
                 /\ Heard(x)' = {row[hears'[x]]}
      <4>1. /\ hears'[x] = j /\ shown'[x] = row[j] /\ inbox'[x] = inbox[x] /\ inbox[x] = <<>>
            /\ Exists(j)
        BY <1>1, <3>3 DEF Listen, TypeOK, Tuned, TunedTo
      <4> QED
        BY <1>1, <4>1 DEF Heard, Exists, TypeOK, Status
    <3>4. CASE Subscribe(x) \/ GiveUp(x)
      BY <3>2, <3>4 DEF Subscribe, GiveUp
    <3>5. ~Close(x)
      BY <1>1, <2>3 DEF Close, TypeOK
    <3> QED
      BY <1>3, <3>1, <3>3, <3>4, <3>5 DEF StreamStep
  <2>4. Listed' \subseteq Listed
    BY <2>1 DEF Listed
  <2> QED
    BY <1>2, <2>1, <2>2, <2>3, <2>4
<1>4. CASE RedisRestarts \/ UNCHANGED vars
  <2>1. UNCHANGED <<row, calling, worker, hears, shown, inbox>>
    BY <1>4 DEF RedisRestarts, vars, store, stream
  <2>2. Listed' \subseteq Listed
    BY <1>4 DEF RedisRestarts, vars, Listed
  <2>3. \A x \in Stream : hears'[x] = hears[x] /\ Heard(x)' \subseteq Heard(x)
    BY <2>1 DEF Heard
  <2> QED
    BY <1>2, <2>1, <2>2, <2>3
<1> QED
  BY <1>3, <1>4, TimelyByApi, TimelyByWorker DEF Next, Steps

(* Events stay in the order of the stages.                                 *)
LEMMA InOrderStep ==
  ASSUME IInv, Paced, Tuned, Timely, InOrder, [Next]_vars
  PROVE  InOrder'
<1>1. TypeOK
  BY DEF IInv
<1>2. SUFFICES ASSUME NEW x \in Stream
               PROVE  Orderly(x)'
  BY <1>2 DEF InOrder
<1>3. Orderly(x) /\ inbox[x] \in Seq(Active \cup Ended)
  BY <1>1 DEF InOrder, TypeOK
<1>4. ASSUME shown'[x] = shown[x], inbox'[x] = inbox[x]
      PROVE  Orderly(x)'
  BY <1>3, <1>4 DEF Orderly
<1>5. ASSUME NEW w \in Worker, Steps(w)
      PROVE  Orderly(x)'
  <2>1. shown' = shown
    BY <1>1, <1>5, OneWorks
  <2>2. CASE inbox'[x] = inbox[x]
    BY <1>4, <2>1, <2>2
  <2>3. CASE inbox'[x] # inbox[x]
    <3>1. PICK s : Says(w, s)
      BY <1>5, <2>3, WorkerSays
    <3>2. hears[x] = job[w] /\ ear[x] = "open" /\ inbox'[x] = Append(inbox[x], s)
      BY <1>1, <2>3, <3>1, Reaches DEF Says
    <3>3. KnowsAtMost(x, Reach(w))
      BY <3>2 DEF Timely, NotPast, Tuned, TunedTo
    <3>4. Rank(s) \in Int /\ Reach(w) \in Int /\ Reach(w) <= Rank(s)
      BY <3>1, Ranks DEF Says, Reach
    <3>5. KnowsAtMost(x, Rank(s))
      BY <3>3, <3>4, KnowsMore
    <3>6. /\ Len(inbox[x]) \in Nat /\ DOMAIN inbox[x] = 1 .. Len(inbox[x])
          /\ \A i \in DOMAIN inbox[x] : inbox'[x][i] = inbox[x][i]
          /\ inbox'[x][Len(inbox[x]) + 1] = s
          /\ \A i \in DOMAIN inbox'[x] : i \in DOMAIN inbox[x] \/ i = Len(inbox[x]) + 1
      BY <1>3, <3>2, Appended
    <3>7. ASSUME NEW i \in DOMAIN inbox'[x]
          PROVE  Rank(shown'[x]) <= Rank(inbox'[x][i])
      BY <1>3, <2>1, <3>5, <3>6, <3>7 DEF Orderly, KnowsAtMost
    <3>8. ASSUME NEW i \in DOMAIN inbox'[x], NEW k \in DOMAIN inbox'[x], i < k
          PROVE  Rank(inbox'[x][i]) <= Rank(inbox'[x][k])
      <4>1. i \in DOMAIN inbox[x]
        BY <3>6, <3>8
      <4>2. CASE k \in DOMAIN inbox[x]
        BY <1>3, <3>6, <3>8, <4>1, <4>2 DEF Orderly
      <4>3. CASE k = Len(inbox[x]) + 1
        BY <3>5, <3>6, <4>1, <4>3 DEF KnowsAtMost
      <4> QED
        BY <3>6, <3>8, <4>2, <4>3
    <3> QED
      BY <3>7, <3>8 DEF Orderly
  <2> QED
    BY <2>2, <2>3
<1>6. ASSUME NEW y \in Stream, StreamStep(y)
      PROVE  Orderly(x)'
  <2>1. CASE y # x
    BY <1>1, <1>4, <1>6, <2>1, OneListens
  <2>2. ASSUME inbox[x] # <<>>, inbox'[x] = Tail(inbox[x]), shown'[x] = Head(inbox[x])
        PROVE  Orderly(x)'
    <3>1. /\ shown'[x] = inbox[x][1] /\ 1 \in DOMAIN inbox[x]
          /\ \A i \in DOMAIN inbox'[x] : /\ i \in Int /\ i + 1 \in DOMAIN inbox[x] /\ 1 < i + 1
                                        /\ inbox'[x][i] = inbox[x][i + 1]
      BY <1>3, <2>2, Tailed
    <3>2. \A i, k \in DOMAIN inbox'[x] : i < k => i + 1 < k + 1
      BY <3>1
    <3> QED
      BY <1>3, <3>1, <3>2 DEF Orderly
  <2>3. ASSUME inbox'[x] = <<>>
        PROVE  Orderly(x)'
    BY <2>3 DEF Orderly
  <2> QED
    BY <1>1, <1>4, <1>6, <2>1, <2>2, <2>3, Listens
<1>7. CASE (\E j \in Job : ApiStep(j)) \/ RedisRestarts \/ UNCHANGED vars
  <2>1. UNCHANGED <<shown, inbox>>
    BY <1>7, ApiRows DEF RedisRestarts, vars, stream
  <2> QED
    BY <1>4, <2>1
<1> QED
  BY <1>5, <1>6, <1>7 DEF Next, Steps

(* What has been announced of a job stays true of its row as it moves on.  *)
FitsAfter(e, j) ==
  row'[j] # "deleted" => /\ e \in Active => Rank(e) <= Rank(row'[j]) + 1
                         /\ e = "done" => row'[j] \in Ended /\ \A s \in Slot : results'[j][s] = 1

LEMMA FitsKept ==
  ASSUME NEW e, NEW j, Fits(e, j),
         \/ row'[j] = "deleted"
         \/ /\ row'[j] = row[j] \/ Rank(row[j]) <= Rank(row'[j])
            /\ row[j] # "deleted"
            /\ Whole(j) => row'[j] \in Ended /\ \A s \in Slot : results'[j][s] = 1
  PROVE  FitsAfter(e, j)
<1>1. Rank(e) \in Int /\ Rank(row[j]) \in Int /\ Rank(row'[j]) \in Int
  BY Ranks
<1> QED
  BY <1>1 DEF Fits, FitsAfter

LEMMA ForetoldStep ==
  ASSUME IInv, Paced, Tuned, Foretold, [Next]_vars
  PROVE  Foretold'
<1>1. TypeOK /\ NoJob \notin Job
  BY JobAssumption DEF IInv
<1>2. SUFFICES ASSUME NEW x \in Stream, NEW i \in DOMAIN inbox'[x]
               PROVE  FitsAfter(inbox'[x][i], hears'[x])
  BY <1>2 DEF Foretold, Fits, FitsAfter, Whole
<1>3. inbox[x] \in Seq(Active \cup Ended) /\ \A k \in DOMAIN inbox[x] : Fits(inbox[x][k], hears[x])
  BY <1>1 DEF Foretold, TypeOK
<1>4. inbox[x] # <<>> => hears[x] \in Job /\ row[hears[x]] # "none"
  BY <1>1 DEF Tuned, TunedTo, TypeOK
<1>5. ASSUME NEW k \in DOMAIN inbox[x]
      PROVE  inbox[x] # <<>> /\ hears[x] \in Job /\ row[hears[x]] # "none"
  BY <1>3, <1>4
<1>6. ASSUME UNCHANGED <<row, results>>, NEW e, NEW j, Fits(e, j)
      PROVE  FitsAfter(e, j)
  BY <1>6 DEF Fits, FitsAfter, Whole
<1>7. ASSUME NEW j \in Job, ApiStep(j)
      PROVE  FitsAfter(inbox'[x][i], hears'[x])
  <2>1. hears' = hears /\ inbox' = inbox
    BY <1>7, ApiRows DEF stream
  <2>2. hears[x] \in Job /\ row[hears[x]] # "none" /\ Fits(inbox[x][i], hears[x])
    BY <1>3, <1>5, <2>1
  <2>3. row'[hears[x]] \in {row[hears[x]], "deleted"}
    BY <1>7, <2>2, ApiRows
  <2>4. row'[hears[x]] # "deleted" => results'[hears[x]] = results[hears[x]]
    BY <1>7, <2>2, ApiRows
  <2> QED
    BY <2>1, <2>2, <2>3, <2>4, FitsKept DEF Whole
<1>8. ASSUME NEW w \in Worker, Steps(w)
      PROVE  FitsAfter(inbox'[x][i], hears'[x])
  <2>1. hears' = hears
    BY <1>1, <1>8, OneWorks
  <2>2. ASSUME i \in DOMAIN inbox[x], inbox'[x][i] = inbox[x][i]
        PROVE  FitsAfter(inbox'[x][i], hears'[x])
    <3>1. hears[x] \in Job /\ row[hears[x]] # "none" /\ Fits(inbox[x][i], hears[x])
      BY <1>3, <1>5, <2>2
    <3>2. /\ row'[hears[x]] = row[hears[x]] \/ Rank(row[hears[x]]) <= Rank(row'[hears[x]])
          /\ row[hears[x]] = "deleted" => row'[hears[x]] = "deleted"
          /\ Whole(hears[x]) => Whole(hears[x])'
      BY <1>8, <2>1, <3>1, RowsForward DEF Active, Ended, Whole
    <3> QED
      BY <2>1, <2>2, <3>1, <3>2, FitsKept DEF Whole
  <2>3. CASE inbox'[x] = inbox[x]
    BY <2>2, <2>3
  <2>4. CASE inbox'[x] # inbox[x]
    <3>1. PICK s : Says(w, s)
      BY <1>8, <2>4, WorkerSays
    <3>2. hears[x] = job[w] /\ inbox'[x] = Append(inbox[x], s)
      BY <1>1, <2>4, <3>1, Reaches DEF Says
    <3>3. /\ \A k \in DOMAIN inbox[x] : inbox'[x][k] = inbox[x][k]
          /\ inbox'[x][Len(inbox[x]) + 1] = s
          /\ i \in DOMAIN inbox[x] \/ i = Len(inbox[x]) + 1
      BY <1>3, <3>2, Appended
    <3>4. CASE i = Len(inbox[x]) + 1
      <4>1. inbox'[x][i] = s /\ Fits(s, hears[x]) /\ UNCHANGED <<row, results>>
        BY <3>1, <3>2, <3>3, <3>4 DEF Says
      <4> QED
        BY <1>6, <2>1, <4>1
    <3> QED
      BY <2>2, <3>3, <3>4
  <2> QED
    BY <2>3, <2>4
<1>9. ASSUME NEW y \in Stream, StreamStep(y)
      PROVE  FitsAfter(inbox'[x][i], hears'[x])
  <2>1. UNCHANGED <<row, results>>
    BY <1>1, <1>9, OneListens
  <2>2. ASSUME hears'[x] = hears[x], NEW k \in DOMAIN inbox[x], inbox'[x][i] = inbox[x][k]
        PROVE  FitsAfter(inbox'[x][i], hears'[x])
    BY <1>3, <1>6, <2>1, <2>2
  <2>3. CASE y # x
    BY <1>1, <1>9, <2>2, <2>3, OneListens
  <2>4. CASE y = x
    <3>1. inbox'[x] # <<>>
      OBVIOUS
    <3>2. CASE hears'[x] = hears[x] /\ inbox'[x] = inbox[x]
      BY <2>2, <3>2
    <3>3. CASE inbox[x] # <<>> /\ inbox'[x] = Tail(inbox[x]) /\ hears'[x] = hears[x]
      BY <1>3, <2>2, <3>3, Tailed
    <3> QED
      BY <1>1, <1>9, <2>4, <3>1, <3>2, <3>3, Listens
  <2> QED
    BY <2>3, <2>4
<1>10. CASE RedisRestarts \/ UNCHANGED vars
  <2>1. UNCHANGED <<row, results, hears, inbox>>
    BY <1>10 DEF RedisRestarts, vars, store, stream
  <2> QED
    BY <1>3, <1>6, <2>1
<1> QED
  BY <1>7, <1>8, <1>9, <1>10 DEF Next, Steps

-----------------------------------------------------------------------------
(* All of it: what the board needs to know of the pipeline.                *)
BoardInv == IInv /\ Paced /\ Tuned /\ Timely /\ InOrder /\ Foretold

LEMMA BoardInvInit == Init => BoardInv
<1> SUFFICES ASSUME Init
             PROVE  BoardInv
  OBVIOUS
<1>1. IInv
  BY IInvInit
<1>2. Paced
  BY DEF Init, Paced, Pace
<1>3. Tuned /\ InOrder /\ Foretold
  BY DEF Init, Tuned, TunedTo, InOrder, Orderly, Foretold
<1>4. Timely
  BY DEF Init, Timely, Listed
<1> QED
  BY <1>1, <1>2, <1>3, <1>4 DEF BoardInv

LEMMA BoardInvStep == BoardInv /\ [Next]_vars => BoardInv'
BY IInvStep, PacedStep, TunedStep, TimelyStep, InOrderStep, ForetoldStep DEF BoardInv

LEMMA BoardInvAlways == Spec => []BoardInv
BY BoardInvInit, BoardInvStep, PTL DEF Spec

(* A browser that is shown another stage is shown a later one.             *)
LEMMA ShownStep ==
  ASSUME BoardInv, [Next]_vars, NEW x \in Stream, hears[x] # NoJob, hears'[x] = hears[x]
  PROVE  Rank(shown'[x]) >= Rank(shown[x])
<1>1. TypeOK
  BY DEF BoardInv, IInv
<1>2. Rank(shown[x]) \in Int
  BY Ranks
<1>3. CASE shown'[x] = shown[x]
  BY <1>2, <1>3
<1>4. ASSUME NEW y \in Stream, StreamStep(y)
      PROVE  Rank(shown'[x]) >= Rank(shown[x])
  <2>1. CASE y # x
    BY <1>1, <1>3, <1>4, <2>1, OneListens
  <2>2. CASE inbox[x] # <<>> /\ shown'[x] = Head(inbox[x])
    <3>1. 1 \in DOMAIN inbox[x] /\ shown'[x] = inbox[x][1]
      BY <1>1, <2>2, Tailed DEF TypeOK
    <3>2. Rank(shown[x]) <= Rank(shown'[x])
      BY <3>1 DEF BoardInv, InOrder, Orderly
    <3> QED
      BY <1>2, <3>2, Ranks
  <2> QED
    BY <1>1, <1>3, <1>4, <2>1, <2>2, Listens DEF BoardInv
<1>5. CASE (\E j \in Job : ApiStep(j)) \/ RedisRestarts \/ UNCHANGED vars
  <2>1. shown' = shown
    BY <1>5, ApiRows DEF RedisRestarts, vars, stream, BoardInv
  <2> QED
    BY <1>3, <2>1
<1>6. CASE \E w \in Worker : Steps(w)
  BY <1>1, <1>3, <1>6, OneWorks
<1> QED
  BY <1>4, <1>5, <1>6 DEF Next, Steps

(* Nobody is shown an earlier stage than before, for any number of         *)
(* browsers that join at any moment, of workers, and of jobs that fail,    *)
(* although a stage is published before it is written and a browser reads  *)
(* the row before it subscribes.                                           *)
THEOREM ShownOnlyMovesOn == Spec => ShownMovesOn
<1>1. BoardInv /\ [Next]_vars =>
        [\A x \in Stream : hears[x] # NoJob /\ hears'[x] = hears[x]
                             => Rank(shown'[x]) >= Rank(shown[x])]_vars
  BY ShownStep
<1> QED
  BY <1>1, BoardInvAlways, PTL DEF Spec, ShownMovesOn

-----------------------------------------------------------------------------
(* The pipeline implements the board.                                      *)
Came == [j \in Job |-> {s \in Slot : results[j][s] > 0}]

BoardNames ==
  /\ Board!Ended = Ended /\ Board!Active = Active
  /\ \A s : Board!Rank(s) = Rank(s)
  /\ \A j : Board!Stands(j) <=> Exists(j)

LEMMA SameNames == BoardNames
BY DEF BoardNames, Board!Ended, Board!Active, Board!Rank, Board!Stands, Ended, Active, Rank, Exists

LEMMA RefInit == Init => Board!Init
<1> SUFFICES ASSUME Init
             PROVE  Board!Init
  OBVIOUS
<1>1. Came = [j \in Job |-> {}]
  BY DEF Init, Came
<1> QED
  BY <1>1 DEF Init, Board!Init, Came

LEMMA CameSame ==
  ASSUME results' = results
  PROVE  Came' = Came
BY DEF Came

LEMMA RefRow ==
  ASSUME TypeOK, NEW j \in Job, NEW s, row' = [row EXCEPT ![j] = s], Came' = Came,
         UNCHANGED <<hears, shown>>
  PROVE  Board!To(j, s)
BY DEF Board!To, Came

LEMMA RefWorker ==
  ASSUME BoardInv, NEW w \in Worker, Steps(w)
  PROVE  Board!Next \/ UNCHANGED Board!vars
<1>1. TypeOK /\ StoreStep(w) /\ UNCHANGED <<hears, shown>>
  BY WorkerStores, OneWorks DEF BoardInv, IInv
<1>2. CASE UNCHANGED <<row, results>>
  <2>1. Came' = Came
    BY <1>2, CameSame
  <2> QED
    BY <1>1, <1>2, <2>1 DEF Board!vars, Came
<1>3. CASE at[w] # "idle"
  <2>1. PICK j \in Job : j = job[w]
    BY <1>1, <1>3 DEF TypeOK
  <2>2. Board!JobStep(j) => Board!Next
    BY <2>1 DEF Board!Next
  <2>3. SUFFICES ASSUME ~UNCHANGED <<row, results>>
                 PROVE  Board!JobStep(j)
    BY <1>2, <2>1, <2>2
  <2>4. ASSUME at[w] = "set", row[j] \in Active, Rank(stage[w]) = Rank(row[j]) + 1,
               row' = [row EXCEPT ![j] = stage[w]], results' = results
        PROVE  Board!JobStep(j)
    <3>1. stage[w] \in Active
      BY <1>1 DEF TypeOK
    <3>2. Board!To(j, stage[w])
      BY <1>1, <2>1, <2>4, RefRow, CameSame
    <3> QED
      BY <2>4, <3>1, <3>2, SameNames DEF Board!JobStep, Board!Advance, BoardNames
  <2>5. ASSUME row[j] = "uploading", \A s \in Slot : results[j][s] = 1,
               row' = [row EXCEPT ![j] = "done"], results' = results
        PROVE  Board!JobStep(j)
    <3>1. Board!To(j, "done")
      BY <1>1, <2>1, <2>5, RefRow, CameSame
    <3>2. Came[j] = Slot
      BY <2>1, <2>5 DEF Came
    <3>3. Board!Complete(j)
      BY <2>5, <3>1, <3>2 DEF Board!Complete, Came
    <3> QED
      BY <3>3 DEF Board!JobStep
  <2>6. ASSUME row[j] \in Active \cup Ended, row' = [row EXCEPT ![j] = "failed"], results' = results
        PROVE  Board!JobStep(j)
    <3>1. row[j] # "failed"
      BY <1>1, <2>1, <2>3, <2>6 DEF TypeOK
    <3>2. row[j] \in Active \cup {"done"}
      BY <2>6, <3>1 DEF Ended
    <3>3. Board!To(j, "failed")
      BY <1>1, <2>1, <2>6, RefRow, CameSame
    <3> QED
      BY <3>2, <3>3, SameNames DEF Board!JobStep, Board!Fail, BoardNames
  <2>7. ASSUME row[j] = "generating", row' = row,
               NEW S \in SUBSET Slot, Insert(j, S), \A s \in S : results[j][s] = 0
        PROVE  Board!JobStep(j)
    <3>1. \A k \in Job : results'[k] = IF k = j THEN [s \in Slot |-> IF s \in S THEN results[j][s] + 1
                                                                   ELSE results[j][s]]
                                       ELSE results[k]
      BY <1>1, <2>1, <2>7 DEF Insert, TypeOK
    <3>2. \A s \in Slot : results'[j][s] = IF s \in S THEN 1 ELSE results[j][s]
      <4>1. results'[j] = [s \in Slot |-> IF s \in S THEN results[j][s] + 1 ELSE results[j][s]]
        BY <2>1, <3>1
      <4>2. \A s \in S : results[j][s] + 1 = 1
        BY <2>7
      <4> QED
        BY <4>1, <4>2
    <3>3. Came'[j] = Came[j] \cup S
      BY <2>1, <3>2 DEF Came
    <3>4. \A k \in Job : k # j => Came'[k] = Came[k]
      BY <3>1 DEF Came
    <3>5. S \cap Came[j] = {}
      BY <2>1, <2>7 DEF Came
    <3>6. Came' = [Came EXCEPT ![j] = @ \cup S]
      <4>1. Came' = [k \in Job |-> Came'[k]] /\ Came = [k \in Job |-> Came[k]]
        BY DEF Came
      <4> QED
        BY <2>1, <3>3, <3>4, <4>1
    <3>7. Board!AddImages(j, S)
      BY <1>1, <2>7, <3>5, <3>6 DEF Board!AddImages, Came
    <3> QED
      BY <3>7 DEF Board!JobStep
  <2> QED
    BY <1>1, <2>1, <2>3, <2>4, <2>5, <2>6, <2>7 DEF StoreStep, Insert
<1>4. CASE at[w] = "idle"
  <2>1. Pop(w)
    BY <1>1, <1>4, OwnJob
  <2> QED
    BY <1>2, <2>1 DEF Pop, store
<1> QED
  BY <1>3, <1>4

LEMMA RefApi ==
  ASSUME BoardInv, NEW j \in Job, ApiStep(j)
  PROVE  Board!Next \/ UNCHANGED Board!vars
<1>1. TypeOK /\ UNCHANGED <<hears, shown>>
  BY ApiRows DEF BoardInv, IInv, stream
<1>2. Board!JobStep(j) => Board!Next
  BY DEF Board!Next
<1>3. CASE Create(j)
  <2>1. Board!To(j, "queued")
    BY <1>1, <1>3, RefRow, CameSame DEF Create
  <2> QED
    BY <1>2, <1>3, <2>1 DEF Create, Board!JobStep, Board!Submit
<1>4. CASE Push(j) \/ PushFails(j)
  <2>1. UNCHANGED <<row, results>>
    BY <1>4 DEF Push, PushFails, store
  <2>2. Came' = Came
    BY <2>1, CameSame
  <2> QED
    BY <1>1, <2>1, <2>2 DEF Board!vars, Came
<1>5. CASE Delete(j)
  <2>1. \A k \in Job : results'[k] = IF k = j THEN [s \in Slot |-> 0] ELSE results[k]
    BY <1>1, <1>5 DEF Delete, TypeOK
  <2>2. Came'[j] = {} /\ \A k \in Job : k # j => Came'[k] = Came[k]
    BY <2>1 DEF Came
  <2>3. Came' = [Came EXCEPT ![j] = {}]
    <3>1. Came' = [k \in Job |-> Came'[k]] /\ Came = [k \in Job |-> Came[k]]
      BY DEF Came
    <3> QED
      BY <2>2, <3>1
  <2>4. Board!Delete(j)
    BY <1>1, <1>5, <2>3, SameNames DEF Delete, Board!Delete, BoardNames, Came
  <2> QED
    BY <1>2, <2>4 DEF Board!JobStep
<1> QED
  BY <1>3, <1>4, <1>5 DEF ApiStep

LEMMA RefStream ==
  ASSUME BoardInv, NEW x \in Stream, StreamStep(x)
  PROVE  Board!Next \/ UNCHANGED Board!vars
<1>1. TypeOK /\ UNCHANGED <<row, results>>
  BY OneListens DEF BoardInv, IInv
<1>2. Came' = Came
  BY <1>1, CameSame
<1>3. Board!WatcherStep(x) => Board!Next
  BY DEF Board!Next
<1>4. CASE Subscribe(x) \/ GiveUp(x)
  BY <1>1, <1>2, <1>4 DEF Subscribe, GiveUp, Board!vars, Came
<1>5. ASSUME NEW j \in Job, Listen(x, j)
      PROVE  Board!WatcherStep(x)
  <2>1. hears[x] = NoJob
    BY <1>5 DEF Listen, BoardInv, Tuned, TunedTo
  <2>2. Board!Watch(x, j)
    BY <1>1, <1>2, <1>5, <2>1, SameNames DEF Listen, Board!Watch, BoardNames, Came
  <2> QED
    BY <2>2 DEF Board!WatcherStep
<1>6. CASE Close(x)
  <2>1. hears[x] # NoJob
    BY <1>6 DEF Close, BoardInv, Tuned, TunedTo
  <2>2. Board!Leave(x)
    BY <1>1, <1>2, <1>6, <2>1 DEF Close, Board!Leave, Came
  <2> QED
    BY <1>3, <2>2 DEF Board!WatcherStep
<1>7. CASE Deliver(x)
  <2> DEFINE e == Head(inbox[x])
  <2>1. inbox[x] \in Seq(Active \cup Ended) /\ inbox[x] # <<>>
    BY <1>1, <1>7 DEF Deliver, TypeOK
  <2>2. e \in Active \cup Ended /\ e = inbox[x][1] /\ 1 \in DOMAIN inbox[x]
    BY <2>1, Tailed
  <2>3. hears[x] # NoJob /\ shown[x] \in Active /\ hears[x] \in Job
    BY <1>1, <1>7 DEF Deliver, BoardInv, Tuned, TunedTo, TypeOK
  <2>4. Rank(shown[x]) <= Rank(e) /\ Fits(e, hears[x])
    BY <2>2 DEF BoardInv, InOrder, Orderly, Foretold
  <2>5. shown' = [shown EXCEPT ![x] = e] /\ hears' = hears
    BY <1>7 DEF Deliver
  <2> HIDE DEF e
  <2>6. e \in Active => Board!Foreseen(hears[x], e)
    BY <2>4, SameNames DEF Fits, Board!Foreseen, BoardNames
  <2>7. e = "done" => Board!Warranted(hears[x])
    <3>1. Whole(hears[x]) => Came[hears[x]] = Slot
      BY <2>3 DEF Whole, Came
    <3> QED
      BY <2>4, <3>1, SameNames DEF Fits, Whole, Board!Warranted, BoardNames, Came
  <2>8. shown[x] \notin Ended
    BY <2>3 DEF Active, Ended
  <2>9. Board!Hear(x, e)
    BY <1>1, <1>2, <2>3, <2>4, <2>5, <2>6, <2>7, <2>8, SameNames DEF Board!Hear, BoardNames, Came
  <2> QED
    BY <1>3, <2>2, <2>9, SameNames DEF Board!WatcherStep, BoardNames, e
<1> QED
  BY <1>3, <1>4, <1>5, <1>6, <1>7 DEF StreamStep

LEMMA RefStep == BoardInv /\ [Next]_vars => [Board!Next]_(Board!vars)
<1> SUFFICES ASSUME BoardInv, [Next]_vars
             PROVE  Board!Next \/ UNCHANGED Board!vars
  OBVIOUS
<1>1. CASE RedisRestarts \/ UNCHANGED vars
  <2>1. UNCHANGED <<row, results, hears, shown>>
    BY <1>1 DEF RedisRestarts, vars, store, stream
  <2>2. Came' = Came
    BY <2>1, CameSame
  <2> QED
    BY <2>1, <2>2 DEF Board!vars, Came
<1> QED
  BY <1>1, RefWorker, RefApi, RefStream DEF Next, Steps

(* With its list that forgets, workers that die or fail half way and       *)
(* events that arrive late or not at all, the pipeline does nothing that   *)
(* the board does not: jobs go stage by stage, every image comes once, and *)
(* a watcher is told nothing that goes back, is more than a stage ahead,   *)
(* or says "done" without all the images.                                  *)
THEOREM ImplementsBoard == Spec => BoardSpec
BY RefInit, RefStep, BoardInvAlways, PTL DEF Spec, BoardSpec, Board!Spec
=============================================================================
