------------------------------ MODULE Mailbox -------------------------------
(***************************************************************************)
(* What the client of the engine is promised of the records it is sent:    *)
(* each comes once and in order, until the connection ends, and it ends    *)
(* without an error only when nothing was lost.                            *)
(***************************************************************************)
EXTENDS Naturals, Sequences

CONSTANT Frame

VARIABLES
  sent,  \* every record written to the connection
  got,   \* how many of them the client has
  told   \* what the client knows of the connection

vars == <<sent, got, told>>

Init == sent = <<>> /\ got = 0 /\ told = "open"

Send == \E f \in Frame : sent' = Append(sent, f) /\ UNCHANGED <<got, told>>

Deliver ==
  /\ told = "open" /\ got < Len(sent)
  /\ got' = got + 1
  /\ UNCHANGED <<sent, told>>

Fail == told = "open" /\ told' = "failed" /\ UNCHANGED <<sent, got>>

End ==
  /\ told = "open" /\ got = Len(sent)
  /\ told' = "ended"
  /\ UNCHANGED <<sent, got>>

Next == Send \/ Deliver \/ Fail \/ End

Spec == Init /\ [][Next]_vars
=============================================================================
