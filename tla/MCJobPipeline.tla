---------------------------- MODULE MCJobPipeline ----------------------------
(* Instances of JobPipeline.                                               *)
EXTENDS JobPipeline
=============================================================================
