-------------------------------- MODULE Wire --------------------------------
(***************************************************************************)
(* The local socket between the client (src/runtime/bridge.rs) and the     *)
(* engine (src/runtime/engine.rs): commands one way, records the other,    *)
(* both in order.  Engine and Submissions are two descriptions of the      *)
(* engine's end, Client describes the other.                               *)
(***************************************************************************)
EXTENDS Naturals, SequencesExt

CONSTANTS
  MaxPrompts,     \* bound: prompts a client ever submits
  QueueLimit,     \* accepted submissions that may wait (16 in the code)
  KeepRecords     \* FALSE: the client reads every record as it is written

ASSUME WireAssumption ==
  MaxPrompts \in Nat /\ QueueLimit \in Nat \ {0} /\ KeepRecords \in BOOLEAN

VARIABLES
  commands,   \* client to engine: complete command lines, in order
  records,    \* engine to client: records not read yet
  sent        \* client side: prompts submitted so far

wire == <<commands, records>>

Prompts == 1 .. MaxPrompts
Modes == {"none", "steer", "followUp"}
Kinds == {"prompt", "clear_queue", "abort", "compact", "extension_command",
          "new_session", "switch_session", "set_model", "get_state"}
\* A command's id: the number of the exchange it belongs to and its part.
Ids == Nat \X {"main", "clear", "abort", "request"}
Queued == [id : Prompts, steer : BOOLEAN]
Command == [kind : Kinds, id : Ids, mode : Modes]

\* Mutant: counts the running prompt too.
QueueUpdate_OneMore(q) ==
  [type |-> "queue_update", waiting |-> Append(q, [id |-> 1, steer |-> FALSE])]

Response(id, ok) == [type |-> "response", id |-> id, ok |-> ok]
QueueUpdate(q)   == [type |-> "queue_update", waiting |-> q]
MessageStart(p)  == [type |-> "message_start", prompt |-> p]
QueueRejected(p) == [type |-> "queue_rejected", prompt |-> p]
AgentStart       == [type |-> "agent_start"]
Failed           == [type |-> "failed"]
Settled          == [type |-> "agent_settled"]

Record == [type : {"response"}, id : Ids, ok : BOOLEAN]
            \cup [type : {"queue_update"}, waiting : Seq(Queued)]
            \cup [type : {"message_start", "queue_rejected"}, prompt : Prompts]
            \cup [type : {"agent_start", "failed", "agent_settled"}]

Emit(rs) == records' = IF KeepRecords THEN records \o rs ELSE <<>>

WireInit == commands = <<>> /\ records = <<>> /\ sent = 0

\* The engine takes the next command.
Take(kind) ==
  /\ commands # <<>>
  /\ Head(commands).kind = kind
  /\ commands' = Tail(commands)

Answer(ok) == Emit(<<Response(Head(commands).id, ok)>>)

-----------------------------------------------------------------------------
(* The queue of submissions, as the engine keeps it.                       *)

\* Mutant: every submission goes to the back.
Insert_Back(q, p) == Append(q, p)

\* A steering prompt goes before the first that is not one.
Insert(q, p) ==
  IF p.steer
  THEN InsertAt(q, Min({i \in DOMAIN q : ~q[i].steer} \cup {Len(q) + 1}), p)
  ELSE Append(q, p)

Submission(command) == [id |-> command.id[1], steer |-> command.mode = "steer"]
=============================================================================
