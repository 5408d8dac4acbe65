------------------------------- MODULE MCParts -------------------------------
(***************************************************************************)
(* The parts that share no state with one another, each with an instance   *)
(* of its own.  A behaviour runs one of them, chosen at the start; the     *)
(* variables hold the state of the part that runs.                         *)
(***************************************************************************)
EXTENDS Naturals

CONSTANTS
  MaxContinuations, Indices, MaxDeltas, MaxPieces,
  Source, MaxTurns,
  MaxBuffer, MaxStream,
  Widths, MaxText, Budget, Fixed, SummaryBytes, MaxRequests,
  Process, Account, Nobody, MaxTokens,
  KeyProvider, NoProvider, MaxKeyChanges,
  OutputLimit, Label, MaxSteps, MaxCalls,
  Byte, MaxContent, MaxPart,
  Command, Submitted, Entry, MaxImages, PasteLimit, MaxDraft,
  Saved, Setting, Configured,
  SessionFile, Title, Scanner, MaxAge, MaxTick, MaxInode,
  Labels, Term, MaxQuery, MaxVisible,
  Size, DraftLimit, Pasted,
  Kind, Height, MaxTranscript, MaxEvents

\* Models of the three wire formats, two of one provider.
Sources == {[api |-> "responses", provider |-> "a", model |-> "m"],
            [api |-> "anthropic", provider |-> "b", model |-> "m"],
            [api |-> "chat", provider |-> "c", model |-> "m"],
            [api |-> "chat", provider |-> "c", model |-> "n"]}

\* A command whose name begins another's, a message, a file and a folder.
Commands == {<<"/", "x">>, <<"/", "x", "x">>}
Drafts == {<<"x">>}
Entries == {<<"x">>, <<"x", "/">>}

\* A list of one, and one in which terms and their combinations recur.
Lists == {<<{"a"}>>, <<{"a", "b"}, {"a"}, {"b"}, {"b"}, {"a", "b"}>>}

\* Terminals in which a row holds two and three cells, of one and of two rows.
Sizes == {<<5, 1>>, <<6, 2>>}
Pastes == {<<"x", "\n">>}

VARIABLES part, v1, v2, v3, v4, v5, v6, v7, v8, v9, v10, v11, v12, v13, v14

vars == <<part, v1, v2, v3, v4, v5, v6, v7, v8, v9, v10, v11, v12, v13, v14>>

Request == INSTANCE Provider WITH
  api <- v1, anonymous <- v2, tools <- v3, asking <- v4, follow <- v5, stream <- v6,
  cut <- v7, capacity <- v8, shown <- v9, waits <- v10, said <- v11, reply <- v12
Messages == INSTANCE WireMessages WITH
  turns <- v1, to <- v2
Frames == INSTANCE Decoder WITH
  arrived <- v1, buffer <- v2, frames <- v3, broken <- v4
Chunks == INSTANCE Summaries WITH
  transcript <- v1, remaining <- v2, len <- v3, summary <- v4, requested <- v5,
  progress <- v6
Tokens == INSTANCE Accounts WITH
  file <- v1, lock <- v2, runtime <- v3, chat <- v4, token <- v5, refreshed <- v6,
  login <- v7, port <- v8, issued <- v9, spent <- v10, once <- v11, twice <- v12,
  unheard <- v13
Keys == INSTANCE ApiKeys WITH
  Terminal <- Process, keys <- v1, dialog <- v2, map <- v3, chosen <- v4,
  overlaps <- v5, changes <- v6
Programs == INSTANCE Tools WITH
  calls <- v1, tool <- v2, stage <- v3, alive <- v4, zombie <- v5, pipes <- v6,
  written <- v7, input <- v8, code <- v9, outcome <- v10, stopped <- v11,
  noticed <- v12, steps <- v13, answer <- v14
Editing == INSTANCE Edits WITH
  content <- v1, before <- v2, edit <- v3
Typed == INSTANCE Typing WITH
  mode <- v1, draft <- v2, cursor <- v3, images <- v4, clipboard <- v5, joined <- v6,
  suggestions <- v7, dismissed <- v8, file_prefix <- v9, file_search <- v10,
  file_matches <- v11, paste <- v12, exit_armed <- v13, message <- v14
Loop == INSTANCE Chat WITH
  connected <- v1, open <- v2, setting <- v3, files <- v4, resume <- v5, flagged <- v6,
  status_line <- v7, screen <- v8, todo <- v9, target <- v10, failed <- v11,
  recovered <- v12
List == INSTANCE SessionList WITH
  disk <- v1, tick <- v2, inodes <- v3, cache <- v4, holder <- v5, scan <- v6,
  awaited <- v7, coarse <- v8, during <- v9
Menu == INSTANCE Picker WITH
  source <- v1, searchable <- v2, query <- v3, indices <- v4, selected <- v5, first <- v6,
  current <- v7, rows <- v8, marked <- v9, answer <- v10
Lines == INSTANCE Editor WITH
  text <- v1, at <- v2, preferred <- v3, pending <- v4, pasting <- v5, notice <- v6,
  size <- v7, frame <- v8, terminal <- v9, outcome <- v10
Pane == INSTANCE Display WITH
  transcript <- v1, timeline <- v2, activity <- v3, call <- v4, scroll <- v5, anchor <- v6,
  layout <- v7, dirty <- v8, drawn <- v9, past <- v10, events <- v11

\* The variables that a part does not use.
Off14 == v14 = 0
Off13 == v13 = 0 /\ Off14
Off12 == v12 = 0 /\ Off13
Off11 == v11 = 0 /\ Off12
Off10 == v10 = 0 /\ Off11
Off7 == v7 = 0 /\ v8 = 0 /\ v9 = 0 /\ Off10
Off5 == v5 = 0 /\ v6 = 0 /\ Off7
Off4 == v4 = 0 /\ Off5
Off3 == v3 = 0 /\ Off4
rest14 == <<v14>>
rest13 == <<v13, rest14>>
rest12 == <<v12, rest13>>
rest11 == <<v11, rest12>>
rest10 == <<v10, rest11>>
rest7 == <<v7, v8, v9, rest10>>
rest5 == <<v5, v6, rest7>>
rest4 == <<v4, rest5>>
rest3 == <<v3, rest4>>

Init ==
  \/ part = "provider" /\ Request!ProviderInit /\ Off13
  \/ part = "messages" /\ Messages!WireMessagesInit /\ Off3
  \/ part = "frames" /\ Frames!DecoderInit /\ Off5
  \/ part = "summary" /\ Chunks!SummariesInit /\ Off7
  \/ part = "account" /\ Tokens!AccountsInit /\ Off14
  \/ part = "keys" /\ Keys!ApiKeysInit /\ Off7
  \/ part = "calls" /\ Programs!ToolsInit
  \/ part = "edit" /\ Editing!EditsInit /\ Off4
  \/ part = "typing" /\ Typed!TypingInit
  \/ part = "chat" /\ Loop!ChatInit /\ Off13
  \/ part = "list" /\ List!SessionListInit /\ Off10
  \/ part = "menu" /\ Menu!PickerInit /\ Off11
  \/ part = "lines" /\ Lines!EditorInit /\ Off11
  \/ part = "pane" /\ Pane!DisplayInit /\ Off12

Next ==
  /\ UNCHANGED part
  /\ \/ part = "provider" /\ Request!ProviderNext /\ UNCHANGED rest13
     \/ part = "messages" /\ Messages!WireMessagesNext /\ UNCHANGED rest3
     \/ part = "frames" /\ Frames!DecoderNext /\ UNCHANGED rest5
     \/ part = "summary" /\ Chunks!SummariesNext /\ UNCHANGED rest7
     \/ part = "account" /\ Tokens!AccountsNext /\ UNCHANGED rest14
     \/ part = "keys" /\ Keys!ApiKeysNext /\ UNCHANGED rest7
     \/ part = "calls" /\ Programs!ToolsNext
     \/ part = "edit" /\ Editing!EditsNext /\ UNCHANGED rest4
     \/ part = "typing" /\ Typed!TypingNext
     \/ part = "chat" /\ Loop!ChatNext /\ UNCHANGED rest13
     \/ part = "list" /\ List!SessionListNext /\ UNCHANGED rest10
     \/ part = "menu" /\ Menu!PickerNext /\ UNCHANGED rest11
     \/ part = "lines" /\ Lines!EditorNext /\ UNCHANGED rest11
     \/ part = "pane" /\ Pane!DisplayNext /\ UNCHANGED rest12

Spec == Init /\ [][Next]_vars

-----------------------------------------------------------------------------
(* Properties.                                                             *)

\* A request to a model commits what the user has read, calls only whole, and
\* continues what was said (provider.rs).
RequestsKept == part = "provider" => Request!ProviderPromise

\* What is sent to a provider is the conversation, with every call answered; what
\* comes back is decoded whole, however it is cut; and a summary is made from all
\* of a transcript (provider.rs, context.rs).
MessagesWhole ==
  CASE part = "messages" -> Messages!WireSound
    [] part = "frames" -> Frames!ChunksDoNotMatter
    [] part = "summary" -> Chunks!SummaryCoversAll
    [] OTHER -> TRUE

\* Processes that share the files of the credentials do not undo each other's work
\* there beyond what the code accepts (oauth.rs, auth.rs, logout.rs).
CredentialsKept ==
  /\ [](part = "account" => Tokens!AccountsSafe)
  /\ [][CASE part = "account" -> Tokens!AccountStays
          [] part = "keys" -> Keys!KeysAsChosen
          [] OTHER -> TRUE]_vars

\* A tool call leaves nothing running, answers with the whole of an output, and
\* shows what an edit did (process.rs, extensions/process.rs, tools.rs).
ToolCallsEnd ==
  CASE part = "calls" -> Programs!ToolsPromise
    [] part = "edit" -> Editing!EditsPromise
    [] OTHER -> TRUE

\* What the composers send is what they show, and what they complete is what is typed
\* (input.rs, events.rs, editor.rs).
ComposerTrue == /\ [](CASE part = "typing" -> Typed!TypedPromise
                        [] part = "lines" -> Lines!EditorTrue
                        [] OTHER -> TRUE)
                /\ [][part = "typing" => Typed!SendsWhatIsShown]_vars

\* While the composer waits, the status line, the transcript, its timeline and the
\* lists of sessions and models are true (chat/mod.rs, models.rs, sessions.rs,
\* activity.rs, picker.rs).
ChatTrue ==
  /\ [](CASE part = "chat" -> Loop!ChatPromise
          [] part = "list" -> List!ListedTrue
          [] part = "menu" -> Menu!PickerTrue
          [] part = "pane" -> Pane!TimelineTrue
          [] OTHER -> TRUE)
  /\ [][part = "pane" => Pane!RowsStayPut]_vars
=============================================================================
