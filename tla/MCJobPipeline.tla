---------------------------- MODULE MCJobPipeline ----------------------------
(* Model-checking instance of JobPipeline: the worker sets are model values
   and the bounds are given in the .cfg files. *)
EXTENDS JobPipeline, TLC

\* Consumers of one group are interchangeable: nothing in the code depends
\* on a consumer's name.  Used by the safety runs only.
WorkerSymmetry == Permutations(CW) \cup Permutations(PW)
=============================================================================
