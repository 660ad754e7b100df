------------------------ MODULE MCWechatMessageService ------------------------
(* WechatMessageService on small instances.                                *)
EXTENDS WechatMessageService, TLC

\* Ids, users and threads are interchangeable: nothing compares or orders them.
Interchangeable ==
  Permutations(Project) \cup Permutations(Checkpoint)
    \cup Permutations(User) \cup Permutations(Thread)
=============================================================================
