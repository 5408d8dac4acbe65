---------------------------- MODULE Conversation ----------------------------
(***************************************************************************)
(* The engine with its real client, and what the two together promise: the *)
(* composer comes back when the work is over, and a submission is run,     *)
(* handed back or cleared, never both run and handed back.  Seen from the  *)
(* socket, this engine does what Submissions says.                         *)
(***************************************************************************)
EXTENDS Engine, Client

VARIABLE stray  \* history: a queued submission has begun a run of its own

engine == <<queue, signal, session, task>>

ConversationInit == Init /\ ClientInit /\ stray = FALSE

\* The worker is joined and a session is opened from its file.
Reconnect ==
  /\ Restart
  /\ ForgetExchange
  /\ stray' = FALSE

LoopStep ==
  /\ Loop
  /\ stray' = (stray \/ (pc = "none" /\ pc' = "begin" /\ Head(commands).mode # "none"))
  /\ UNCHANGED client
TaskStep == Task /\ UNCHANGED <<client, stray>>
UserStep == ClientStep /\ UNCHANGED <<engine, stray>>

ConversationNext == UserStep \/ LoopStep \/ TaskStep \/ Reconnect

cvars == <<vars, client, stray>>
ConversationSpec == ConversationInit /\ [][ConversationNext]_cvars

\* Something goes on while it can: the client reads records and asks for the status
\* after an exchange, the engine handles commands, its task goes on; providers answer
\* and tools return in the end.
FairConversation ==
  /\ ConversationSpec
  /\ WF_cvars(LoopStep \/ TaskStep \/ ((ReadStep \/ AskStatus) /\ UNCHANGED <<engine, stray>>))

-----------------------------------------------------------------------------
(* Properties.                                                             *)

\* When the composer is back, no run is active (exchange, bridge.rs: "only
\* leave once ... agree there is no more work").
ComposerMeansIdle == kind = "none" => ~running

\* When the composer is back, every command of its exchange has been handled and
\* its answer read, so that no late Esc or submission reaches the next one; and no
\* run is active, until the first submission that comes too late for its run and
\* begins one of its own, whose settlement a later exchange may take for its own.
LeftAtRest ==
  /\ kind \in {"left", "none"} => commands = <<>> /\ \A i \in DOMAIN records : records[i].type # "response"
  /\ kind = "none" => ~running \/ stray

\* A submission handed back for review was not taken by the engine: sending
\* it again repeats nothing.
ReturnedNotRun ==
  \A p \in Prompts : fate[p] = "returned" =>
    /\ \A i \in DOMAIN mem : mem[i] # User(p)
    /\ \A i \in DOMAIN items : items[i].id # p
    /\ p \notin Undelivered

\* Seen from the socket, the engine does what Submissions says: it holds, takes,
\* delivers and hands back submissions in that order and with those records.
Stage == CASE pc \in {"none", "begin", "turn"} -> [none |-> "none", begin |-> "begins", turn |-> "turn"][pc]
           [] pc = "push" \/ (pc = "summary" /\ resume = "push") -> "turn"
           [] pc \in {"compact", "extension"} \/ (pc = "summary" /\ resume = "reply") -> "task"
           [] pc = "settle" -> "over"
           [] OTHER -> "works"
Promised == INSTANCE Submissions WITH
  active <- running, waiting <- items, stage <- Stage,
  lead <- IF Stage \in {"begins", "turn"} THEN turn ELSE 0
ImplementsSubmissions == Promised!SubmissionsSpec

\* Every exchange ends and the composer comes back.
ExchangeEnds == []<>(kind = "none")
=============================================================================
