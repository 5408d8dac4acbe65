------------------------------- MODULE Client -------------------------------
(***************************************************************************)
(* Client of src/runtime/bridge.rs as the chat loop of src/chat/mod.rs     *)
(* drives it.  The client runs one exchange at a time: a prompt, a manual  *)
(* compaction, or a short request.  During a prompt the user may queue     *)
(* submissions and press Esc.  The engine's end of the socket is left to   *)
(* the modules that extend this one: Conversation has the engine itself,   *)
(* Composer what the engine promises about submissions.                    *)
(***************************************************************************)
EXTENDS Wire, FiniteSets

CONSTANTS
  MaxQueued,  \* bound: submissions queued during one exchange
  Requests    \* bound: the request kinds the user asks for at the composer

ASSUME ClientAssumption == MaxQueued \in Nat /\ Requests \subseteq Kinds \ {"prompt"}

VARIABLES
  kind,         \* the exchange in progress; "none": the composer waits
  exchange_id,  \* the number in the id of that exchange
  accepted, settled, interrupted, clear_done, abort_done, rejection,
  pending,      \* pending_queued: submissions with no response yet
  queued,       \* how many submissions this exchange has sent
  queued_count, \* waiting submissions in the latest queue_update
  fate          \* what the client has shown of each submission

flags  == <<accepted, settled, interrupted, clear_done, abort_done, rejection>>
client == <<kind, exchange_id, flags, pending, queued, queued_count, fate>>

\* "uncertain": handed back, but the engine may have taken it.
Fates == {"none", "pending", "waiting", "delivered", "returned", "uncertain", "cleared",
          "lost"}

ClientInit ==
  /\ kind = "none" /\ exchange_id = 0
  /\ accepted = FALSE /\ settled = FALSE /\ interrupted = FALSE
  /\ clear_done = FALSE /\ abort_done = FALSE /\ rejection = FALSE
  /\ pending = {} /\ queued = 0 /\ queued_count = 0
  /\ fate = [p \in Prompts |-> "none"]

-----------------------------------------------------------------------------
(* Sending.                                                                *)

Line(what, id, mode) == [kind |-> what, id |-> id, mode |-> mode]
Write(lines) == commands' = commands \o lines

\* The locals of exchange() and of compact().
FreshLocals ==
  /\ accepted' = FALSE /\ settled' = FALSE /\ interrupted' = FALSE
  /\ clear_done' = FALSE /\ abort_done' = FALSE /\ rejection' = FALSE
  /\ pending' = {} /\ queued' = 0 /\ queued_count' = 0

Open(what) ==
  /\ kind = "none" /\ sent < MaxPrompts
  /\ sent' = sent + 1 /\ exchange_id' = sent + 1
  /\ kind' = what
  /\ Write(<<Line(what, <<sent + 1, "main">>, "none")>>)
  /\ FreshLocals
  /\ UNCHANGED records

SubmitPrompt ==
  /\ Open("prompt")
  /\ fate' = [fate EXCEPT ![sent + 1] = "pending"]

SubmitCompact ==
  /\ "compact" \in Requests
  /\ Open("compact")
  /\ UNCHANGED fate

\* A request that waits only for its own response; every prompt is followed
\* by one (show_session_status).
Ask(what) ==
  /\ kind' = "request"
  /\ Write(<<Line(what, <<exchange_id, "request">>, "none")>>)
  /\ UNCHANGED <<records, sent, exchange_id, flags, pending, queued, queued_count,
                 fate>>

AskStatus == kind = "left" /\ Ask("get_state")

AskRequest == kind = "none" /\ \E what \in Requests \ {"compact"} : Ask(what)

\* Keys are read until the exchange is interrupted or all seems settled.
ReadsKeys ==
  /\ kind = "prompt" /\ ~interrupted
  /\ ~(settled /\ pending = {} /\ queued_count = 0)

QueueSubmission ==
  /\ ReadsKeys /\ accepted
  /\ Cardinality(pending) + queued_count < QueueLimit
  /\ queued < MaxQueued /\ sent < MaxPrompts
  /\ sent' = sent + 1 /\ queued' = queued + 1
  /\ \E mode \in {"steer", "followUp"} :
       Write(<<Line("prompt", <<sent + 1, "main">>, mode)>>)
  /\ pending' = pending \cup {sent + 1}
  /\ fate' = [fate EXCEPT ![sent + 1] = "pending"]
  /\ UNCHANGED <<records, kind, exchange_id, flags, queued_count>>

Escape ==
  /\ ReadsKeys
  /\ interrupted' = TRUE
  /\ Write(<<Line("clear_queue", <<exchange_id, "clear">>, "none"),
             Line("abort", <<exchange_id, "abort">>, "none")>>)
  /\ UNCHANGED <<records, sent, kind, exchange_id, accepted, settled, clear_done,
                 abort_done, rejection, pending, queued, queued_count, fate>>

\* A compaction is only aborted: nothing can be queued behind it.
EscapeCompact ==
  /\ kind = "compact" /\ ~interrupted
  /\ interrupted' = TRUE
  /\ Write(<<Line("abort", <<exchange_id, "abort">>, "none")>>)
  /\ UNCHANGED <<records, sent, kind, exchange_id, accepted, settled, clear_done,
                 abort_done, rejection, pending, queued, queued_count, fate>>

-----------------------------------------------------------------------------
(* Reading one record of a prompt's exchange.                              *)

Read(type) == records # <<>> /\ Head(records).type = type /\ records' = Tail(records)

\* Mutants: leave on acceptance; with submissions unanswered.
Complete_OnAcceptance ==
  /\ accepted' /\ pending' = {} /\ queued_count' = 0
  /\ interrupted => abort_done' /\ clear_done'

Complete_Pending ==
  /\ accepted' /\ settled' /\ queued_count' = 0
  /\ interrupted => abort_done' /\ clear_done'

\* The completion check after every record.
Complete ==
  /\ accepted' /\ settled' /\ pending' = {} /\ queued_count' = 0
  /\ interrupted => abort_done' /\ clear_done'

\* A rejected prompt is reported once a cancellation is acknowledged too.
RejectionDue == rejection' /\ (interrupted => abort_done' /\ clear_done')

\* Leaving an exchange forgets what the display still showed as waiting.
Forget(f) == [p \in Prompts |-> IF f[p] = "waiting" THEN "lost" ELSE f[p]]

\* Ends every reading action of a prompt: go on, or leave with fates f.
Proceed(f) ==
  /\ kind' = IF Complete \/ RejectionDue THEN "left" ELSE kind
  /\ fate' = IF Complete \/ RejectionDue THEN Forget(f) ELSE f
  /\ UNCHANGED <<commands, sent, exchange_id, interrupted, queued>>

InPrompt(type) == kind = "prompt" /\ Read(type)

AcknowledgeQueued ==
  LET r == Head(records)
      p == r.id[1]
  IN  /\ InPrompt("response")
      /\ r.id[2] = "main" /\ p \in pending
      /\ pending' = pending \ {p}
      /\ UNCHANGED <<accepted, settled, clear_done, abort_done, rejection, queued_count>>
      /\ Proceed([fate EXCEPT ![p] = CASE ~r.ok -> "returned"
                                       [] r.ok /\ interrupted -> "uncertain"
                                       [] r.ok /\ ~interrupted /\ @ = "delivered" -> @
                                       [] OTHER -> "waiting"])

AcknowledgeClear ==
  /\ InPrompt("response") /\ Head(records).id = <<exchange_id, "clear">>
  /\ clear_done' = TRUE /\ queued_count' = 0
  /\ UNCHANGED <<accepted, settled, abort_done, rejection, pending>>
  /\ Proceed([p \in Prompts |-> IF fate[p] = "waiting" THEN "cleared" ELSE fate[p]])

AcknowledgeAbort ==
  /\ InPrompt("response") /\ Head(records).id = <<exchange_id, "abort">>
  /\ abort_done' = TRUE
  /\ UNCHANGED <<accepted, settled, clear_done, rejection, pending, queued_count>>
  /\ Proceed(fate)

AcknowledgePrompt ==
  LET ok == Head(records).ok
  IN  /\ InPrompt("response") /\ Head(records).id = <<exchange_id, "main">>
      /\ accepted' = ok /\ rejection' = ~ok
      /\ UNCHANGED <<settled, clear_done, abort_done, pending, queued_count>>
      /\ Proceed(IF ok THEN fate ELSE [fate EXCEPT ![exchange_id] = "returned"])

ObserveStart ==
  /\ InPrompt("agent_start")
  /\ settled' = FALSE
  /\ UNCHANGED <<accepted, clear_done, abort_done, rejection, pending, queued_count>>
  /\ Proceed(fate)

ObserveSettled ==
  /\ InPrompt("agent_settled")
  /\ settled' = TRUE
  /\ UNCHANGED <<accepted, clear_done, abort_done, rejection, pending, queued_count>>
  /\ Proceed(fate)

ObserveQueue ==
  /\ InPrompt("queue_update")
  /\ queued_count' = Len(Head(records).waiting)
  /\ UNCHANGED <<accepted, settled, clear_done, abort_done, rejection, pending>>
  /\ Proceed(fate)

ObserveDelivery ==
  /\ InPrompt("message_start")
  /\ UNCHANGED <<accepted, settled, clear_done, abort_done, rejection, pending, queued_count>>
  /\ Proceed([fate EXCEPT ![Head(records).prompt] =
                IF @ \in {"pending", "waiting"} THEN "delivered" ELSE @])

\* The one submission that is handed back; the display drops the others.
ObserveRejected ==
  LET p == Head(records).prompt
  IN  /\ InPrompt("queue_rejected")
      /\ UNCHANGED <<accepted, settled, clear_done, abort_done, rejection, pending,
                     queued_count>>
      /\ Proceed([Forget(fate) EXCEPT ![p] = "returned"])

\* Text, tool and failure records, and responses of no exchange in progress.
ObserveOther ==
  /\ kind = "prompt" /\ records # <<>>
  /\ \/ Head(records).type = "failed"
     \/ /\ Head(records).type = "response"
        /\ Head(records).id \notin {<<exchange_id, part>> : part \in {"main", "clear", "abort"}}
        /\ ~(Head(records).id[2] = "main" /\ Head(records).id[1] \in pending)
  /\ records' = Tail(records)
  /\ UNCHANGED <<accepted, settled, clear_done, abort_done, rejection, pending, queued_count>>
  /\ Proceed(fate)

ReadPrompt == \/ AcknowledgeQueued \/ AcknowledgeClear \/ AcknowledgeAbort
              \/ AcknowledgePrompt \/ ObserveStart \/ ObserveSettled \/ ObserveQueue
              \/ ObserveDelivery \/ ObserveRejected \/ ObserveOther

-----------------------------------------------------------------------------
(* Reading for a compaction or a request: all other records are dropped.   *)

ReadCompact ==
  LET r == Head(records)
      is(part) == r.type = "response" /\ r.id = <<exchange_id, part>>
  IN  /\ kind = "compact" /\ records # <<>>
      /\ records' = Tail(records)
      /\ accepted' = (accepted \/ is("main"))
      /\ abort_done' = (abort_done \/ is("abort"))
      /\ kind' = IF accepted' /\ (interrupted => abort_done') THEN "left" ELSE kind
      /\ UNCHANGED <<commands, sent, exchange_id, settled, interrupted, clear_done,
                     rejection, pending, queued, queued_count, fate>>

ReadRequest ==
  LET r == Head(records)
  IN  /\ kind = "request" /\ records # <<>>
      /\ records' = Tail(records)
      /\ IF r.type = "response" /\ r.id = <<exchange_id, "request">>
         THEN kind' = "none" /\ FreshLocals
         ELSE UNCHANGED <<kind, flags, pending, queued, queued_count>>
      /\ UNCHANGED <<commands, sent, exchange_id, fate>>

-----------------------------------------------------------------------------
\* The process dies, the stream fails, or a cancellation takes longer than ten
\* seconds: the client starts over with a new engine.
ForgetExchange ==
  /\ kind' = "none" /\ FreshLocals
  /\ fate' = [p \in Prompts |->
                IF fate[p] \in {"pending", "waiting"} THEN "uncertain" ELSE fate[p]]
  /\ UNCHANGED exchange_id

ReadStep == ReadPrompt \/ ReadCompact \/ ReadRequest

ClientStep == \/ SubmitPrompt \/ SubmitCompact \/ AskStatus \/ AskRequest
              \/ QueueSubmission \/ Escape \/ EscapeCompact \/ ReadStep

\* Every client variable has its type.
ClientTypeOK ==
  /\ kind \in {"none", "prompt", "compact", "left", "request"} /\ exchange_id \in 0 .. MaxPrompts
  /\ \A f \in {accepted, settled, interrupted, clear_done, abort_done, rejection} :
       f \in BOOLEAN
  /\ pending \subseteq Prompts /\ queued \in 0 .. MaxQueued /\ queued_count \in 0 .. QueueLimit
  /\ fate \in [Prompts -> Fates]
=============================================================================
