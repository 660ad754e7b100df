---------------------------- MODULE MCProjectWork ----------------------------
(* ProjectWork on small instances.                                         *)
EXTENDS ProjectWork, TLC

\* Neither paths nor texts are ordered or told apart by what they are.
Interchangeable == Permutations(File) \cup Permutations(Content)
=============================================================================
