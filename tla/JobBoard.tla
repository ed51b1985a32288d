------------------------------ MODULE JobBoard ------------------------------
(***************************************************************************)
(* What the owner of image jobs may rely on, with no queue, no worker and  *)
(* no channel: a board that says how far each job is and which of its      *)
(* images have come, and watchers who are told of one job each.            *)
(*                                                                         *)
(* A job goes through its stages one by one and each of its images comes   *)
(* once.  What a watcher is told never goes back, is at most one stage     *)
(* ahead of the board, and is "done" only of a job that has ended with all *)
(* its images.  "failed" is no such promise: it may be all the watcher     *)
(* gets to know when the board could not be reached.                       *)
(* JobPipeline implements this with rows, a list and events.               *)
(***************************************************************************)
EXTENDS Naturals, FiniteSets

CONSTANTS Job,      \* jobs submitted
          Image,    \* images of each job
          Watcher,  \* those who follow a job
          NoJob     \* no job

VARIABLES status,   \* how far each job is
          images,   \* the images of each job that have come
          watches,  \* the job each watcher follows, or NoJob
          sees      \* what each watcher was told last

vars == <<status, images, watches, sees>>

Ended == {"done", "failed"}
Active == {"queued", "directing", "generating", "uploading"}

Stands(j) == status[j] \notin {"none", "deleted"}

Rank(s) == CASE s = "queued" -> 1 [] s = "directing" -> 2 [] s = "generating" -> 3
             [] s = "uploading" -> 4 [] OTHER -> 5

To(j, s) ==
  /\ status' = [status EXCEPT ![j] = s]
  /\ UNCHANGED <<images, watches, sees>>

-----------------------------------------------------------------------------
Init ==
  /\ status = [j \in Job |-> "none"]
  /\ images = [j \in Job |-> {}]
  /\ watches = [x \in Watcher |-> NoJob]
  /\ sees = [x \in Watcher |-> "none"]

Submit(j) == status[j] = "none" /\ To(j, "queued")

(* The next stage, none left out.                                          *)
Advance(j) ==
  \E s \in Active : /\ status[j] \in Active /\ Rank(s) = Rank(status[j]) + 1
                    /\ To(j, s)

(* Images that have not come before come, some at a time.                  *)
AddImages(j, S) ==
  /\ status[j] = "generating" /\ S \cap images[j] = {}
  /\ images' = [images EXCEPT ![j] = @ \cup S]
  /\ UNCHANGED <<status, watches, sees>>

Complete(j) == status[j] = "uploading" /\ images[j] = Image /\ To(j, "done")

(* A job fails at any stage, or after all: its worker could not be sure    *)
(* that it was done.                                                       *)
Fail(j) == status[j] \in Active \cup {"done"} /\ To(j, "failed")

Delete(j) ==
  /\ Stands(j)
  /\ status' = [status EXCEPT ![j] = "deleted"]
  /\ images' = [images EXCEPT ![j] = {}]
  /\ UNCHANGED <<watches, sees>>

Watch(x, j) ==
  /\ watches[x] = NoJob /\ Stands(j)
  /\ watches' = [watches EXCEPT ![x] = j]
  /\ sees' = [sees EXCEPT ![x] = status[j]]
  /\ UNCHANGED <<status, images>>

(* A watcher is told s.  Of a job that is deleted no more can be said.     *)
Foreseen(j, s) ==
  status[j] = "deleted" \/ Rank(s) <= Rank(status[j]) + 1

Warranted(j) ==
  status[j] = "deleted" \/ (status[j] \in Ended /\ images[j] = Image)

Hear(x, s) ==
  /\ watches[x] # NoJob /\ sees[x] \notin Ended
  /\ Rank(sees[x]) <= Rank(s)
  /\ s \in Active => Foreseen(watches[x], s)
  /\ s = "done" => Warranted(watches[x])
  /\ sees' = [sees EXCEPT ![x] = s]
  /\ UNCHANGED <<status, images, watches>>

Leave(x) ==
  /\ watches[x] # NoJob
  /\ watches' = [watches EXCEPT ![x] = NoJob]
  /\ sees' = [sees EXCEPT ![x] = "none"]
  /\ UNCHANGED <<status, images>>

JobStep(j) ==
  \/ Submit(j) \/ Advance(j) \/ Complete(j) \/ Fail(j) \/ Delete(j)
  \/ \E S \in SUBSET Image : AddImages(j, S)

WatcherStep(x) ==
  \/ \E j \in Job : Watch(x, j)
  \/ \E s \in Active \cup Ended : Hear(x, s)
  \/ Leave(x)

Next == (\E j \in Job : JobStep(j)) \/ (\E x \in Watcher : WatcherStep(x))

Spec == Init /\ [][Next]_vars
=============================================================================
