---------------------------- MODULE MCExtensions ----------------------------
(* Instances of Extensions for TLC.  One content claims the names, the other *)
(* has regression checks; Unfinished is the one that is rejected.            *)
EXTENDS Extensions, TLC

MCBundles == {[valid |-> TRUE, names |-> Name, checks |-> FALSE],
              [valid |-> TRUE, names |-> {}, checks |-> TRUE]}
MCProcesses == Permutations(Process)
=============================================================================
