---------------------------- MODULE WireMessages ----------------------------
(***************************************************************************)
(* The history of a session as the messages of a request, for each of the  *)
(* three wire formats (wire_messages in src/runtime/provider.rs).  A reply *)
(* keeps the provider's own record of it (provider_data), which is sent    *)
(* back to where it came from.  The conversation grows by whole turns, and *)
(* the user changes the model in between.                                  *)
(***************************************************************************)
EXTENDS History

CONSTANTS
  Source,    \* models: records of api, provider and model
  MaxTurns   \* bound: turns of the conversation

VARIABLES
  turns,     \* the conversation, turn by turn
  to         \* the selected model

\* A reply with where its own record came from.
From(calls, source) == [role |-> "assistant", calls |-> calls, source |-> source]

\* The messages of a request.
Says(role) == [role |-> role, calls |-> <<>>, results |-> <<>>, raw |-> FALSE]
Calling(calls, raw) == [Says("assistant") EXCEPT !.calls = calls, !.raw = raw]
Results(role, results) == [Says(role) EXCEPT !.results = results]

\* Mutant: the record goes back to any provider of its format.
Raw_AnyProvider(m, model) == m.source.api = model.api

\* Whether the provider's own record of a reply is sent back as it was; for
\* Anthropic the format alone decides.
Raw(m, model) ==
  /\ m.source.api = model.api
  /\ model.api = "anthropic" \/ (m.source.provider = model.provider /\ m.source.model = model.model)

\* Responses: every call and every result is an item of its own.
ResponsesItems(m, model) ==
  CASE m.role = "user" -> <<Says("user")>>
    [] m.role = "assistant" ->
         <<Says("assistant")>> \o [i \in DOMAIN m.calls |-> Calling(<<m.calls[i]>>, Raw(m, model))]
    [] OTHER -> <<Results("tool", <<m.call>>)>>

\* Anthropic: results join the user message before them.
JoinAnthropic(wire, m, model) ==
  CASE m.role = "user" -> Append(wire, Says("user"))
    [] m.role = "assistant" -> Append(wire, Calling(m.calls, Raw(m, model)))
    [] m.role = "toolResult" /\ wire # <<>> /\ Last(wire).role = "user" ->
         [wire EXCEPT ![Len(wire)].results = Append(@, m.call)]
    [] OTHER -> Append(wire, Results("user", <<m.call>>))

\* Chat Completions: one message each, behind the instructions.
ChatMessage(m, model) ==
  CASE m.role = "user" -> Says("user")
    [] m.role = "assistant" -> Calling(m.calls, Raw(m, model))
    [] OTHER -> Results("tool", <<m.call>>)

WireOf(h, model) ==
  CASE model.api = "responses" -> FlattenSeq([i \in DOMAIN h |-> ResponsesItems(h[i], model)])
    [] model.api = "anthropic" -> FoldLeft(LAMBDA wire, m : JoinAnthropic(wire, m, model), <<>>, h)
    [] OTHER -> <<Says("system")>> \o [i \in DOMAIN h |-> ChatMessage(h[i], model)]

-----------------------------------------------------------------------------
(* The conversation.                                                       *)

WireMessagesInit == turns = <<>> /\ to \in Source

\* A prompt is delivered.
Prompted == turns' = Append(turns, <<User(1)>>) /\ UNCHANGED to

\* The selected model replies with up to two calls, and they are answered.
Replied ==
  \E n \in 0 .. 2 :
    LET calls == [i \in 1 .. n |-> 2 * Len(turns) + i]
    IN  /\ turns' = Append(turns, <<From(calls, to)>> \o [i \in 1 .. n |-> ToolResult(calls[i])])
        /\ UNCHANGED to

\* /models
Chosen == to' \in Source \ {to} /\ UNCHANGED turns

WireMessagesNext == (Len(turns) < MaxTurns /\ (Prompted \/ Replied)) \/ Chosen

history == FlattenSeq(turns)
wire_messages == WireOf(history, to)

-----------------------------------------------------------------------------
(* Properties.                                                             *)

\* The calls made before message i of a request, and answered up to i.
CallsBefore(w, i) == UNION {ToSet(w[j].calls) : j \in 1 .. (i - 1)}
AnsweredBy(w, i) == UNION {ToSet(w[j].results) : j \in 1 .. i}

\* In every format a reply's calls are answered before anybody speaks again,
\* and no result stands before its call.
WirePaired ==
  \A i \in DOMAIN wire_messages :
    LET w == wire_messages
    IN  /\ ToSet(w[i].results) \subseteq CallsBefore(w, i)
        /\ w[i].role = "user" => CallsBefore(w, i) \subseteq AnsweredBy(w, i)

\* An Anthropic reply with calls is followed at once by one user message that
\* holds all its results, in order.
WireGrouped ==
  to.api = "anthropic" =>
    \A i \in DOMAIN wire_messages :
      LET w == wire_messages
      IN  w[i].calls # <<>> => i < Len(w) /\ w[i + 1].results = w[i].calls

\* In the formats that tie a provider's own record to where it came from, it
\* goes back there and nowhere else.
RawStaysHome ==
  to.api # "anthropic" =>
    \A i \in DOMAIN wire_messages :
      wire_messages[i].raw =>
        \E j \in DOMAIN history :
          /\ history[j].role = "assistant" /\ history[j].source = to
          /\ ToSet(wire_messages[i].calls) \subseteq ToSet(history[j].calls)

\* What providers demand of the messages of a request.
WireSound == WirePaired /\ WireGrouped /\ RawStaysHome
=============================================================================
