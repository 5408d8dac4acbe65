----------------------------- MODULE MCComposer -----------------------------
(* An instance of Composer for TLC; the bounds are in the configuration.   *)
EXTENDS Composer, TLC

Symmetry == Permutations(Texts)

\* Two submissions of any texts; or three of one text in one run, until something
\* comes back.
Bounded ==
  \/ sent <= 2
  \/ /\ exchange_id = 1 /\ failed = Nothing /\ back = Nothing
     /\ Cardinality(({text[p] : p \in 1 .. sent} \cup {draft}) \ {Nothing}) <= 1
=============================================================================
