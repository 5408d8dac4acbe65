------------------------------ MODULE History ------------------------------
(***************************************************************************)
(* The conversation a session keeps and saves (src/runtime/session.rs):    *)
(* user prompts, assistant replies with the tool calls they request, and   *)
(* one result per call.  Texts, images and arguments are abstracted; what  *)
(* is left is which prompt a message carries and which calls it makes or   *)
(* answers.  Pure operators only.                                          *)
(***************************************************************************)
EXTENDS Naturals, SequencesExt

\* The user message a compaction puts in place of the history it summarizes.
SummaryText == 0

\* A user message carries a prompt number, or 0 for a compaction summary.
User(p) == [role |-> "user", text |-> p]
\* A reply with the identifiers of the calls it makes, in order of request.
Assistant(calls) == [role |-> "assistant", calls |-> calls]
ToolResult(call) == [role |-> "toolResult", call |-> call]

Message == [role : {"user"}, text : Nat]
             \cup [role : {"assistant"}, calls : Seq(Nat)]
             \cup [role : {"toolResult"}, call : Nat]

Calls(message) == IF message.role = "assistant" THEN ToSet(message.calls) ELSE {}

\* The calls of h that no later message answers: the map `pending` that a
\* load builds by inserting calls and removing the ones a result names.
Unanswered(h) ==
  {c \in UNION {Calls(h[i]) : i \in DOMAIN h} :
     \E i \in DOMAIN h :
       /\ c \in Calls(h[i])
       /\ \A j \in DOMAIN h : j > i => h[j] # ToolResult(c)}

\* Mutant: the messages are taken as they are.
Repair_None(h) == h

\* What a load makes of the messages of a file: one "interrupted" result for
\* every unanswered call, after the last message.  The code adds them in the
\* order of the identifiers, which are opaque.
Repair(h) == LET missing == SetToSeq(Unanswered(h))
             IN  h \o [i \in DOMAIN missing |-> ToolResult(missing[i])]

-----------------------------------------------------------------------------
\* The calls answered by the results that follow message i without a gap.
AnswersAt(h, i) ==
  {h[j].call : j \in {k \in (i + 1) .. Len(h) :
                        \A m \in (i + 1) .. k : h[m].role = "toolResult"}}

\* What a provider accepts: the results of a reply's calls follow the reply,
\* and no result answers a call that the reply before it did not make.  The
\* calls in lost may have no result, or have it elsewhere.
PairedBut(h, lost) ==
  /\ \A i \in DOMAIN h :
       h[i].role = "assistant" => AnswersAt(h, i) \ lost = Calls(h[i]) \ lost
  /\ \A i \in DOMAIN h :
       h[i].role = "toolResult" =>
         \/ h[i].call \in lost
         \/ \E j \in 1 .. (i - 1) :
              /\ h[i].call \in Calls(h[j])
              /\ \A m \in (j + 1) .. i : h[m].role = "toolResult"
=============================================================================
