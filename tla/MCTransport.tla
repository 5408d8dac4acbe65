---------------------------- MODULE MCTransport -----------------------------
(***************************************************************************)
(* An instance of Transport for TLC.  With MaxBytes = 3 and MaxRecords = 2 *)
(* two records may be too many bytes, three too many records, and one too  *)
(* long by itself; one does not decode.                                    *)
(***************************************************************************)
EXTENDS Transport

MCFrame == {[size |-> 2, ok |-> TRUE], [size |-> 4, ok |-> TRUE], [size |-> 1, ok |-> FALSE]}
=============================================================================
