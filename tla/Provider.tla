------------------------------ MODULE Provider ------------------------------
(***************************************************************************)
(* One request to a model (src/runtime/provider.rs): the streams of its    *)
(* exchanges, event by event, for the three wire formats; the follow-up    *)
(* requests that continue a reply cut at the output limit; what is shown   *)
(* meanwhile; and the reply that is committed in the end, or the error.    *)
(* The provider may send any event at any time, and stop.                  *)
(***************************************************************************)
EXTENDS Naturals, SequencesExt, FiniteSetsExt

CONSTANTS
  MaxContinuations,  \* MAX_CONTINUATIONS (3 in the code)
  Indices,           \* indices of blocks and calls
  MaxDeltas,         \* bound: text deltas a provider sends
  MaxPieces          \* bound: pieces a provider sends of one call

VARIABLES
  api,        \* Provider.api
  anonymous,  \* the Rooxcode gateway, which tells when a request waits
  tools,      \* tools are offered; a summary is asked for without
  asking,     \* where the request is
  follow,     \* what the continuations have appended to body["messages"]: the
              \* assistant's partial text, and the user's demands behind it
  stream,     \* Stream: the exchange in progress
  cut,        \* Continuation
  capacity,   \* Capacity
  shown,      \* the text emitted to the display, delta by delta
  waits,      \* the display says that the request waits
  said,       \* history: every text delta received
  reply       \* the committed reply

request == <<api, anonymous, tools>>
pvars == <<request, asking, follow, stream, cut, capacity, shown, waits, said, reply>>

Apis == {"responses", "anthropic", "chat"}
\* Arguments come in two halves; a call is [id, args], ids concatenate.
Whole == 2
NoCalls == <<>>
NoItems == [text |-> <<>>, calls |-> NoCalls]
\* marked is history: "[DONE]" ended the stream.
NewStream == [text |-> <<>>, calls |-> NoCalls, blocks |-> <<>>, raw |-> NoItems, done |-> FALSE,
              finish |-> "", marked |-> FALSE]
NoCut == [text |-> <<>>, rounds |-> 0, reissued |-> FALSE]
NoReply == [text |-> <<>>, calls |-> <<>>, finish |-> "none"]
\* CUT_NOTICE, as a piece of text.
CutNotice == 0
\* A piece of text that was not streamed.
Unstreamed == MaxDeltas + 1

ProviderInit ==
  /\ api \in Apis /\ tools \in BOOLEAN
  /\ anonymous \in (IF api = "chat" THEN BOOLEAN ELSE {FALSE})
  /\ asking = "send" /\ follow = <<>> /\ stream = NewStream
  /\ cut = NoCut
  /\ capacity = "pending" /\ shown = <<>> /\ waits = FALSE
  /\ said = <<>> /\ reply = NoReply

\* Any `?` and every Err: what was received is dropped, and nothing committed.
Fails == /\ asking' = "failed"
         /\ follow' = <<>> /\ stream' = NewStream /\ cut' = NoCut
         /\ UNCHANGED reply

-----------------------------------------------------------------------------
(* exchange().                                                             *)

Send ==
  /\ asking = "send"
  /\ asking' = "stream" /\ stream' = NewStream /\ capacity' = "pending"
  /\ UNCHANGED <<request, follow, cut, shown, waits, said, reply>>

\* The network, the status, a frame that is malformed or too long, an event
\* that reports an error or does not fit, a stream that ends early; or the
\* engine drops the request.
Break ==
  /\ asking \in {"send", "stream"}
  /\ Fails
  /\ UNCHANGED <<request, capacity, shown, waits, said>>

\* ": rooxcode waiting"
Waiting ==
  /\ asking = "stream" /\ anonymous /\ capacity = "pending"
  /\ capacity' = "waiting" /\ waits' = TRUE
  /\ UNCHANGED <<request, asking, follow, stream, cut, shown, said, reply>>

\* An event with effect s on the stream, that brings text or other output.
Observed(s, text, output) ==
  LET delta == IF text THEN <<Len(said) + 1>> ELSE <<>>
      starts == anonymous /\ output
  IN  /\ asking = "stream"
      /\ Len(said) + Len(delta) <= MaxDeltas
      /\ said' = said \o delta
      /\ shown' = IF tools THEN shown \o delta ELSE shown
      /\ stream' = [s EXCEPT !.text = @ \o delta]
      /\ capacity' = IF starts THEN "started" ELSE capacity
      /\ waits' = (waits /\ ~(starts /\ capacity = "waiting"))
      /\ asking' = IF s.done THEN "settle" ELSE asking
      /\ UNCHANGED <<request, follow, cut, reply>>

With(f, i, x) == [j \in DOMAIN f \cup {i} |-> IF j = i THEN x ELSE f[j]]
CallAt(s, i) == IF i \in DOMAIN s.calls THEN s.calls[i] ELSE [id |-> <<>>, args |-> 0]

\* "[DONE]" ends a stream of any format; it is the end of Chat Completions only.
Done == Observed([stream EXCEPT !.done = TRUE, !.marked = TRUE], FALSE, FALSE)

\* Chat Completions: one choice's delta and finish_reason ("stop" is also
\* "tool_calls").
ChatText == api = "chat" /\ Observed(stream, TRUE, TRUE)
ChatCall ==
  /\ api = "chat"
  /\ \E i \in Indices, id \in {<<>>} \cup {<<n>> : n \in Indices}, half \in 0 .. 1 :
       LET call == [id |-> CallAt(stream, i).id \o id, args |-> CallAt(stream, i).args + half]
       IN  /\ id # <<>> \/ half = 1
           /\ Len(call.id) < MaxPieces /\ Len(call.id) + call.args <= MaxPieces
           /\ Observed([stream EXCEPT !.calls = With(@, i, call)], FALSE, TRUE)
ChatFinish ==
  /\ api = "chat"
  /\ \E reason \in {"stop", "length", "content_filter"} :
       Observed([stream EXCEPT !.finish = reason], FALSE, FALSE)

\* Anthropic: typed blocks by index; "end_turn" is also "tool_use" and
\* "stop_sequence".
BlockStart ==
  /\ api = "anthropic"
  /\ \E i \in Indices, type \in {"text", "tool_use"}, n \in Indices :
       Observed([stream EXCEPT
                   !.blocks = With(@, i, [type |-> type, text |-> <<>>]),
                   !.calls = IF type = "tool_use" THEN With(@, i, [id |-> <<n>>, args |-> 0]) ELSE @],
                FALSE, FALSE)
BlockText ==
  /\ api = "anthropic"
  /\ \E i \in DOMAIN stream.blocks :
       /\ stream.blocks[i].type = "text"
       /\ Observed([stream EXCEPT !.blocks[i].text = Append(@, Len(said) + 1)], TRUE, FALSE)
BlockArguments ==
  /\ api = "anthropic"
  /\ \E i \in DOMAIN stream.calls :
       /\ stream.calls[i].args + 1 < MaxPieces
       /\ Observed([stream EXCEPT !.calls[i].args = @ + 1], FALSE, FALSE)
MessageDelta ==
  /\ api = "anthropic"
  /\ \E reason \in {"end_turn", "max_tokens"} :
       Observed([stream EXCEPT !.finish = reason], FALSE, FALSE)
MessageStop ==
  /\ api = "anthropic" /\ stream.finish = "end_turn"
  /\ Observed([stream EXCEPT !.done = TRUE], FALSE, FALSE)

\* Responses: the completed response lists all its items; its messages hold the
\* text that was streamed, or another.
OutputText == api = "responses" /\ Observed(stream, TRUE, FALSE)
Completed ==
  /\ api = "responses"
  /\ \E n \in 0 .. 2, ids \in [1 .. 2 -> Indices], halves \in [1 .. 2 -> 0 .. Whole],
        text \in {stream.text, <<>>, <<Unstreamed>>} :
       LET calls == [i \in 1 .. n |-> [id |-> <<ids[i]>>, args |-> halves[i]]]
       IN  Observed([stream EXCEPT !.raw = [text |-> text, calls |-> calls], !.done = TRUE],
                    FALSE, FALSE)

-----------------------------------------------------------------------------
(* request(): continue, or reply.                                          *)

\* Mutant: a call that was cut is asked for again without end.
Continues_Always ==
  /\ api = "chat" /\ stream.finish = "length"
  /\ \/ cut.rounds < MaxContinuations
     \/ stream.calls # NoCalls /\ cut.rounds < MaxContinuations + 1

\* Continuation::next(): whether another request is made.
Continues ==
  /\ api = "chat" /\ stream.finish = "length"
  /\ cut.rounds < MaxContinuations
  /\ ~(stream.calls # NoCalls /\ cut.reissued)

Continue ==
  LET tool == stream.calls # NoCalls
      partial == stream.text
      said_again == IF partial = <<>> THEN <<>> ELSE <<[says |-> "partial", text |-> partial]>>
      prompt == [says |-> IF tool THEN "reissue" ELSE "continue", text |-> <<>>]
  IN  /\ asking = "settle" /\ Continues
      /\ cut' = [text |-> cut.text \o partial, rounds |-> cut.rounds + 1,
                 reissued |-> cut.reissued \/ tool]
      /\ follow' = follow \o said_again \o <<prompt>>
      /\ asking' = "send"
      /\ UNCHANGED <<request, stream, capacity, shown, waits, said, reply>>

\* Stream::reply(): the calls as blocks, in the order of their indices.
InOrder(calls) == LET order == SetToSortSeq(DOMAIN calls, <)
                  IN  [n \in DOMAIN order |-> calls[order[n]]]
Blocks == IF api = "responses" THEN stream.raw.calls ELSE InOrder(stream.calls)
Text == IF api = "responses" THEN stream.raw.text ELSE cut.text \o stream.text

\* Arguments parse to an object; an Anthropic block without any has its input.
Parses(call) == call.args = Whole \/ (api = "anthropic" /\ call.args = 0)

\* Mutant: a reply that was cut keeps its calls.
Acceptable_Cut ==
  /\ api = "chat" => stream.finish \in {"stop", "length"}
  /\ \A i \in DOMAIN Blocks : Parses(Blocks[i]) /\ Blocks[i].id # <<>>

\* Stream::reply() gives a reply and no error.
Acceptable ==
  /\ api = "chat" => \/ stream.finish = "stop"
                     \/ stream.finish = "length" /\ stream.calls = NoCalls
  /\ \A i \in DOMAIN Blocks : Parses(Blocks[i]) /\ Blocks[i].id # <<>>
  /\ \A i, j \in DOMAIN Blocks : Blocks[i].id = Blocks[j].id => i = j

\* A reply that is still cut, and not in the middle of a call.
StillCut == stream.finish = "length" /\ stream.calls = NoCalls

Reply ==
  LET notice == IF StillCut THEN <<CutNotice>> ELSE <<>>
  IN  /\ asking = "settle" /\ ~Continues
      /\ StillCut => tools
      /\ shown' = shown \o notice
      /\ IF Acceptable
         THEN /\ asking' = "replied"
              /\ reply' = [text |-> Text \o notice, calls |-> Blocks,
                           finish |-> stream.finish]
              /\ UNCHANGED <<follow, stream, cut>>
         ELSE Fails
      /\ UNCHANGED <<request, capacity, waits, said>>

\* A summary is not cut: "Compaction summary exceeded the provider output limit".
SummaryCut ==
  /\ asking = "settle" /\ ~Continues /\ StillCut /\ ~tools
  /\ Fails
  /\ UNCHANGED <<request, capacity, shown, waits, said>>

ProviderNext ==
  \/ Send \/ Break \/ Waiting
  \/ Done \/ ChatText \/ ChatCall \/ ChatFinish
  \/ BlockStart \/ BlockText \/ BlockArguments \/ MessageDelta \/ MessageStop
  \/ OutputText \/ Completed
  \/ Continue \/ Reply \/ SummaryCut

ProviderSpec == ProviderInit /\ [][ProviderNext]_pvars

-----------------------------------------------------------------------------
(* Properties.                                                             *)

\* A committed reply is what the user has read, through all its continuations
\* and with the notice at its end; a summary is all that was said, and shown
\* to nobody.  A Responses reply is what its completed items say: that is what was
\* read if they repeat it, and if "[DONE]" did not end the stream before them.
Repeated == api = "responses" => ~stream.marked /\ stream.raw.text = stream.text
RepliesWhatWasShown ==
  asking = "replied" /\ Repeated =>
    /\ SelectSeq(reply.text, LAMBDA t : t # CutNotice) = said
    /\ shown = IF tools THEN reply.text ELSE <<>>

\* Calls are committed only whole, once each, and from a reply that ran to its
\* end: never what the output limit cut (docs/native-runtime.md:144).  The end of
\* an Anthropic stream that "[DONE]" cuts short is not looked at (provider.rs:356):
\* its calls are committed if what came of their arguments parses.
CallsAreWhole ==
  reply.calls # <<>> =>
    /\ \/ api = "responses" /\ ~stream.marked
       \/ api = "anthropic" /\ (reply.finish = "end_turn" \/ stream.marked)
       \/ api = "chat" /\ reply.finish = "stop"
    /\ \A i \in DOMAIN reply.calls :
         /\ reply.calls[i].args \in {Whole} \cup (IF api = "anthropic" THEN {0} ELSE {})
         /\ \A j \in DOMAIN reply.calls : reply.calls[i].id = reply.calls[j].id => i = j

\* A continuation goes on behind exactly what was said so far, asks for a cut
\* call again at most once, and there are only so many.
Replayed == FlattenSeq([i \in DOMAIN follow |-> follow[i].text])
Asked(what) == Cardinality({i \in DOMAIN follow : follow[i].says = what})
ContinuesWhatWasSaid ==
  /\ asking = "send" => Replayed = said
  /\ Asked("continue") + Asked("reissue") <= MaxContinuations
  /\ Asked("reissue") <= 1

\* Output of the model ends the status that the request waits.  A status that an
\* earlier exchange left, cut before any output, stays: the next exchange does
\* not know of it (docs/native-runtime.md:49 says that output clears it).
WaitsForCapacity == waits /\ capacity = "started" => cut.rounds > 0 \/ asking = "failed"

\* What a request promises the engine and the user.
ProviderPromise == RepliesWhatWasShown /\ CallsAreWhole /\ ContinuesWhatWasSaid /\ WaitsForCapacity
=============================================================================
