-------------------------- MODULE MCWorkflowService --------------------------
(* WorkflowService on small instances.                                     *)
EXTENDS WorkflowService, TLC

\* Ids and threads are interchangeable: nothing compares or orders them.
Interchangeable ==
  Permutations(Project) \cup Permutations(Checkpoint) \cup Permutations(Thread)
=============================================================================
