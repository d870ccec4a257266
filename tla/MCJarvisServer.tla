-------------------------- MODULE MCJarvisServer --------------------------
(* JarvisServer for TLC: tool calls and requests are interchangeable. *)
EXTENDS JarvisServer, TLC

Symmetry == Permutations(Calls) \cup Permutations(Requests)
=============================================================================
