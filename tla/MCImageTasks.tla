---------------------------- MODULE MCImageTasks ----------------------------
(* Two handlers: one whose task a worker takes up, and one that comes      *)
(* after it.                                                               *)
EXTENDS ImageTasks
=============================================================================
