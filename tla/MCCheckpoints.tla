--------------------------- MODULE MCCheckpoints ---------------------------
(* Instances of Checkpoints for TLC; the bounds are in the configurations. *)
EXTENDS Checkpoints, TLC

\* The identifiers of requests are random, and processes, files and images
\* have no order.  Used with safety properties only.
Symmetry == Permutations(Process) \cup Permutations(Request)
              \cup Permutations(Covered) \cup Permutations(Image)
=============================================================================
