# Hibiscus: models, checks and proofs

Hibiscus is a terminal coding agent written in Rust. This directory holds TLA+
modules of the parts of it where several activities meet (the runtime thread
that runs a conversation, the client and the composer that drive it, the stores
that several processes share) and of those that compute something a test hardly
reaches: a provider request with its breaks and continuations, the messages made
of a history, the editors, the pickers and the transcript. TLC checks them on
small instances; the proof system checks theorems about the engine, the
checkpoint store, the extensions, the transport and the sign-in for every instance. Paths below are relative to the repository; line numbers are those of
`PROJECT.json`, which maps every definition to the lines it models.

## 1. Inventory

### Parts, their state and their operations

| Part | Code | State | Operations |
|---|---|---|---|
| Engine loop | `src/runtime/engine.rs` `serve_async` | the queue (`running`, `items`), the `cancel` watch, one spawned task | one handler per `Command`: prompt, abort, clear_queue, compact, extension_command, new_session, switch_session, set_model, the status requests |
| Run | `engine.rs` `run_turns`, `compact` | `Session.messages`, the prompt of the turn, the calls of the reply | push the prompt, take steering, compact under pressure, ask the model, run tools, next turn |
| Session files | `src/runtime/session.rs` | one JSONL file per session, archives | save (whole file, renamed), load and repair |
| Context | `src/runtime/context.rs` | none | pressure, kept tail, chunked summary |
| Client | `src/runtime/bridge.rs` | the exchange in progress and what it has seen acknowledged, the session to resume | prompt, compact, request, live submissions, Esc, reconnect |
| Transport | `src/runtime/transport.rs` | a bounded mailbox of frames, a wake-up generation | push, receive, fail, write with a deadline |
| Provider requests | `src/runtime/provider.rs`, `rooxcode.rs` | a stream, a continuation, the waiting status | make the messages, decode frames, read events, continue, reissue, commit |
| Tools | `src/runtime/tools.rs` | the checklist of goals | read, write, edit, bash, goal |
| Processes | `src/process.rs`, `src/extensions/process.rs` | a child, its group and its pipes | run with timeout, output limit and cancellation |
| Chat loop | `src/chat/` | the status line, what the screen shows, the last failed prompt | prompt, slash commands, reconnect, pickers |
| Composer and display | `src/tui/screen/` | the draft, the images, the lists; the waiting submissions; the transcript and the scroll position | keys, pastes, searches, records, painting |
| Timeline, picker | `src/tui/activity.rs`, `picker.rs` | the rows of the tool calls; a filtered list and its window | calls begin and end; keys |
| Command-line editor | `src/cli/editor.rs` | the draft and the frame last painted | keys, pastes, resizes |
| Checkpoints | `src/checkpoints/` | images by hash, one record and lease per request, one lock | write, restore, prune, history, diff |
| Extensions | `src/extensions/` | versions, candidates, `active.json`, one lock | create, update, rollback, reload, run |
| Sign-in | `src/runtime/oauth/`, `auth.rs`, `logout.rs` | a token file and its lock, a key file | sign in, refresh, sign out |
| Self-update, CLI, packaging | `src/update.rs`, `src/cli/`, `npm/` | a cache file | check, install |

### How they interact

The client writes command lines to the runtime thread over a local socket and
reads records from it; both directions are FIFO, and a record in one direction
says nothing of what is on its way in the other. In the runtime thread the
command loop and one task (a run, a compaction or an extension command) are
interleaved at their awaits on one executor and share the session, the queue
and the cancellation signal. A run calls the provider (messages out, a stream of
frames back) and the tools (programs in process groups of their own). The
composer shows what the client tells it; records carry texts and no numbers, so
it matches submissions by their text. The chat loop keeps its own idea of the
open session and its settings, which it refreshes by requests. Tools and the
checkpoint store work on files that other Hibiscus processes and people also
change; the store's lock, the leases and the phases in its records are the only
coordination between processes. The processes share the extensions directory in
the same way, under a lock of its own that is held for an activation only; the
token file, under a lock held over a refresh; and the key file, without any lock.

### What is hard here

* The run, the loop, the client and the composer each hold part of the truth
  about a submission; it must be delivered once, or visibly handed back.
* A cancellation, a failed save or a lost thread may come at any await; the
  history must stay one the provider accepts, in memory and on disk.
* A stream may break anywhere; what was shown must be what is kept, and a call of
  which a part is missing must not run.
* A checkpointed write is several I/O steps. A crash between any two of them
  must leave a workspace that the store can explain and undo, while another
  process prunes it or restores from it.
* A refresh token works once, and several processes hold copies of it.
* Searches, clipboard reads, scans and programs end while what they were begun
  for goes on changing.
* Limits (queue, requests, images, mailbox, output) are checked at one place and
  filled at another.

`PROJECT.json` lists each of these hazards at its line with the properties that
cover it.

### What makes each part correct

| Part | Properties |
|---|---|
| Engine loop | the queue keeps its order and its limit; a submission is delivered once, and none is left behind; no command replaces a session or its model under a task; a cancelled task ends |
| Run, session files | requests pair calls with results; nothing is done that is not on disk; a lost thread leaves loadable files; saved history only grows or is archived |
| Client | no late command or response reaches the next exchange; no run goes on behind the composer; what is handed back was not run; every exchange ends |
| Composer | what waits is shown, what was delivered is in the transcript, what came back can be restored; what is sent is what is shown |
| Chat loop | status line, transcript and the session to resume are those of the runtime |
| Provider requests | a reply is what was read, calls are whole, a continuation continues what was said; messages pair calls with results in each format |
| Tools, processes | nothing of a program outlives its call; an answer is a whole output; a diff is a patch from the old file to the new one |
| Checkpoints | the images of saved records are kept; interrupted work is explained; the first image of a request is the one restored; other people's work is never replaced; running requests are left alone; limits hold; the lock is freed |
| Extensions | what is active is complete and was checked; activations of several processes lose nothing and leave no name registered twice; the lock is freed |
| Transport | each record arrives once and in order, or the loss of one is told; no wake is slept through; no byte follows a failure; a write ends, and so does the reader thread |
| Sign-in | a refresh token is not used twice; a newer login is not overwritten; other keys are kept |

## 2. Modules

| Module | Models |
|---|---|
| `History` | the messages of a session, which calls are unanswered, and the repair a load makes |
| `Wire` | the socket between client and engine: commands one way, records the other |
| `Engine`, `EngineProofs` | the command loop and its tasks, with any client that keeps to the record types; theorems |
| `Submissions` | abstract specification: what the engine promises about submissions |
| `Client`, `ClientProofs` | the client of `bridge.rs` with any engine at the other end; lemmas about it and its socket |
| `Conversation`, `ConversationProofs` | `Engine` composed with `Client`; implements `Submissions`; theorems |
| `Composer`, `ComposerProofs` | `Client` in front of `Submissions`, with the display of the waiting submissions; theorems |
| `Checkpoints`, `CheckpointsProofs` | the checkpoint store, its processes, their crashes and the people who edit files; theorems |
| `Extensions`, `ExtensionsProofs` | discovery, creation, update and rollback of extensions by several processes; theorems |
| `Transport`, `TransportProofs` | the client's end of the connection: mailbox, reader thread, writer, wake-up; theorems |
| `Mailbox` | abstract specification: what the client is promised of the records it is sent |
| `Provider`, `WireMessages`, `Decoder` | a request to a model: its stream, its messages, its frames |
| `Summaries` | the chunks of a long summary |
| `Tools`, `Edits` | the programs of tool calls and the checklist; the edit tool and its diff |
| `Accounts`, `AccountsProofs`, `ApiKeys` | the token and the keys, shared by several processes; theorems |
| `Typing`, `Editor` | the draft of the fullscreen composer; the editor of the command line with its terminal |
| `Chat`, `SessionList`, `Picker`, `Display` | the chat loop; the list of sessions; a list to choose from; the transcript with its timeline |
| `MCEngine`, `MCConversation`, `MCComposer`, `MCCheckpoints`, `MCExtensions`, `MCTransport`, `MCParts` | what TLC needs: bounds, symmetry, and one run over the parts that share no state |

Definitions keep the names of the code where they can. A definition whose name
has a suffix and whose comment begins with "Mutant" is a plausible bug in the
definition after it; no action uses it. It is there to show that a property
would notice the bug.

### Engine

*State.* `running` and `items` are `Queue`; `cancel` is the value of the watch
channel and `changed` whether the active task's receiver has a value it has not
seen; `current`, `mem`, `context` are the `Session`; `files` are the session
files (`<<>>`: none), `archive` the newest file of `archives/`; `pc`, `turn`,
`step`, `calls`, `resume`, `caller` are the active task: its place between two
awaits and its locals. `commands` and `records` are the two halves of the
socket. `nextCall` makes the provider's call identifiers fresh and `sent`
numbers the client's prompts. `lost` is history: the calls that a failed save
has left without a result; it constrains nothing.

*Steps.* Code between two awaits is one action: the executor has one thread, so
nothing else runs there. A handler that emits twice in a row is one action too;
the outgoing channel holds 256 records and does not fill in these instances.
Every early return of a handler is a disjunct or an action (`RefusePrompt`,
`RefuseCommand`, `LeaveSteps`, ...). A save writes a new file and renames it,
so it happens or it does not (`Save`, `SaveFails`).

*Data.* A message keeps its role, the number of its prompt and the identifiers
of its calls; texts, images, usage and models are left out. `context` is the
one bit that `maybe_compact` reads from the usage of the last reply. `provider`
is the kind of the selected model's provider: for a Rooxcode provider pressure
may be found before any request and a tail is kept (`Tails`); for others a
summary replaces the history. The model a session file names is not kept: a
load selects any configured one.

*Failure.* `Restart` stands for a crash of the process and for a client that
drops the connection and joins the thread: everything in memory is lost and a
session is loaded from its file and repaired.

*Environment.* Any client: prompts in any mode and the kinds of commands in
`Offered`, whatever the state. The provider and the tools return anything, or
nothing at all.

### Conversation

`Client` has the client's locals (`accepted`, `settled`, `interrupted`,
`clear_done`, `abort_done`, `rejection`, `pending`, `queued`, `queued_count`)
and `fate`, what the client has shown of each submission. Its actions are: begin
an exchange, queue a submission, press Esc, read one record. `Proceed` and
`Complete` are the condition at `bridge.rs:956` that ends an exchange. The
deadlines of the client appear as `Reconnect`, which may happen at any time; the
extension command exchange and dialogs are left out.

`Conversation` puts the engine behind it and adds `stray`, a history variable
that says whether a queued submission has begun a run of its own.
`ImplementsSubmissions` says that this engine, seen from the socket, does what
`Submissions` promises: the refinement maps the twenty places of a run to six
stages (`Stage`), the queue to `waiting` and the prompt of the turn to `lead`.

### Composer

`Composer` puts `Submissions` behind the client instead, which leaves room for
what the engine's details hid: several submissions with equal texts. `shown`,
`early`, `initial`, `slot`, `draft` are the fields of `Screen`, `failed` is
`last_failed` of the chat loop; a step of the client and what the display makes
of the same record are one action, as in the code. `transcript` counts how often
each text was put there as sent or delivered. `Disconnect` may come at any time and
loses the wire in both directions; until /reconnect (`Reconnect`) the client is
`offline`, and a prompt typed then takes the place that /restore reads
(`SubmitOffline`). `renewing` marks the request /new: once it is confirmed, the
screen and that place are emptied (`NewSession`). The other requests leave the
display alone (`Elsewhere`).

### Checkpoints

*State.* `files` is the workspace; `dirs`, `records`, `made`, `blobs` are the
store on disk; `request`, `leases`, `view` belong to the processes; `op` is the
one operation that holds the lock, with its place and its locals. `last`,
`origin` and `wrote` are history variables: who wrote a file last, the image
each request found and the results it announced. They constrain nothing.

*Steps.* The lock is a nonblocking `flock`, so an operation that does not get it
returns an error and changes nothing; this is why one `op` is enough. The steps
of an operation lie between the points where the program may die, where an I/O
call may fail, or where a person may edit a file. `files::atomic` syncs and
renames, so each save and each replacement is one step. The last check of a
file and its replacement are also one step: `docs/checkpoints.md` asks people
not to edit a file during its checked replacement.

*Data.* An image is a file's bytes and mode. Only the number of traced calls is
kept of the trace. The size limits of a file and a record are not modelled; the
limits on requests, images and calls are.

*Failure.* `Crash` loses a process with its lease and its lock at any step;
`Fail` is an I/O error, after which `restore` saves the record again and other
operations return.

A person who writes into a file exactly the bytes that a request announced
cannot be told from that request. Two properties therefore speak of announced
results (`wrote`) and not of authors.

### Extensions

*State.* `folders` and `source` are the folders authors work in; `active`,
`candidates` and `versions` are `active.json`, `candidates/` and `versions/` of
each extension under `.versions`; `lock` is its holder. Each process has a place
in its operation (`at`), what the operation is for (`job`), `Candidate.record`
(`record`), the registry it is loading (`building`) and the one in use
(`registry`). Version identifiers are random in the code and numbered here.
`orphaned` is history: an extension has been active without its source folder.

*Steps.* Another process can act between any two accesses to the shared
directory, so the listing, the scan of each extension, the preparation, each check, the taking
of the lock and every write of `activate` are steps of their own. A test under
the lock is one step with what it reads: pointers and retained files are written
under the same lock only, and a source folder counts by its presence at one moment.

*Folders.* Their authors make, change and remove them at any time (`EditSource`,
`RemoveSource`), while `active.json` stays. A load works on the directories it
listed at its start (`left` are those it has not gone through); a candidate is compared with what is active of the
extensions that have a folder then (`Holds`, `Compatible`).

*Data.* A manifest with its files is one content: valid or not, the names it
registers (of tools and slash commands alike), and whether it has regression
checks. A patch of an active version may yield any content. `refresh` rewrites
paths inside a manifest without changing any of the three.

*Failure.* `Crash` ends a process at any step and frees its lock; it is not
bounded. `ActivateFails` is an I/O error at any write under the lock, after which
the record of the failed candidate is written again (`Reject`), under
`candidates/` also when its files are already in `versions/`. `RunChecks` lets
the programs of a candidate change its files although they get a copy.

### Transport

`Transport` has four threads, each with its place in a variable. `reader` is the
loop of `Inbox::start`: it looks at `closed`, takes a record off the socket
(`ReadFrame`), and pushes it under the mailbox's lock; `Overflow` lets the lock go
before `Shared::fail` takes it again. `client` is a loop of `exchange` (capture
the generation, keys, a command perhaps, one poll, sleep on the generation) or of
`receive_record` (wait on the mailbox itself), with the steps of `write_checked`
inside: the mailbox is looked at once before the callback and once under the lock
that the write holds (`WriteChecks`, `Write`). `keyboard` hands over bytes first
and signals afterwards. The engine's end of the socket is the environment: it
writes records (`Send`), reads or not (`Drain`), and ends (`EngineEnds`).

The generation is a counter of which only one thing is ever asked, whether it
is still the captured one; `changed` is the answer. A record is its
capacity and whether it decodes. `sent` keeps every record, and the mailbox
their numbers. A transport or protocol error always makes the caller
disconnect (`chat/mod.rs:771`), so what fails leads to `Leave`.

`Mailbox` is the abstract specification, and `ImplementsMailbox` says that
`Transport` implements it: a record is delivered once and in order, and the end
of the connection is told as an end only when nothing was lost; otherwise
as a failure. The variables `sent`, `got` and `told` are shared, so the
refinement mapping is the identity on them.

Two ways a wake is late are outside `NoLostWake`, by the code's choice or its
bounds of 40 ms: keys beyond the eight that a round takes wait for the next
round, and the loop of `Client::compact`, which is not modelled, captures
the generation after it has polled the keys (`bridge.rs:330`).

### Provider, WireMessages, Decoder

`Provider` is one request with its exchanges. The provider sends any event of
the three formats at any time; `stream` is the `Stream` that is read, `cut` the
`Continuation`, `follow` what the follow-up requests append, `shown` what the
display was sent. The stream breaks at any moment; the output limit, reissued
calls and the notice of a cut reply are steps. A break is an error, and
nothing is sent again; only a reply that the output limit cut is continued. `[DONE]`
ends a stream of every format (`Done`; `marked` is history and tells that it did).
A Responses reply is made of its completed items, which may say other than what was
streamed or, after `[DONE]`, be missing (`Text`, `Blocks`). Text is counted
in deltas, arguments in pieces of which the last makes them `Whole`.

`WireMessages` is `wire_messages` as an operator over a history that grows by
whole turns while the user changes the model. A message keeps its role, its
calls, its results and whether it is the provider's own record (`raw`).

`Decoder` takes bytes that are a line end of either kind or something else, in
chunks that end anywhere; its property compares it with the frames of all bytes
at once.

### Summaries

The transcript is a sequence of characters of 1 to 4 bytes. `NextChunk`, `Fits` and `Halve`
(the search for the length of the next chunk) are steps as in the code; the
summary that comes back has any size.

### Tools, Edits

In `Tools` the group of a program is its living members (`alive`), who hold its
pipes; the child may exit while a descendant lives and writes. `run` waits for
the exit, the outputs, the timeout, the cancellation and the limit at once and
then ends the group. Two assumptions are the operating system's: a member does
not leave its group (`setsid`), and the number of a group is not used again
between the child's end and the last signal. `Edits` is `edit` and the diff on
texts of up to four bytes, lines included.

### Accounts, ApiKeys

`Accounts` has, for each process, the place of its runtime in `credential` and
of its chat loop in `/login` and `/logout`; the server issues numbered tokens
and takes each once. The lock file is held from the read to the write of a
refresh. `ApiKeys` has no lock to model: a process reads the file, opens its
dialogs, and writes the file whole; `overlaps` says that another one wrote in
between, which the code accepts.

### Typing, Editor

`Typing` is a draft with its cursor, the list of commands or files below it, the
search in progress and the images, in the three situations in which keys arrive
(idle, a run, a compaction). Commands, files and messages are short sequences of
characters. `Editor` has a terminal beside the draft that does what the control
sequences ask of it, scrolling included; `frame` is what the editor remembers.
Terminals narrower than five columns are left out.

### Chat, SessionList, Picker, Display

`Chat` runs a command as a sequence of requests (`todo`) any of which may be
refused or lose the connection. `SessionList` has scanning threads that share a
cache under a mutex, and other processes that replace files or write into them;
a stamp is what `Stamp` compares. `Picker` is the filtered list and its window:
a label is the set of the terms it contains. `Display` is the transcript in rows
with the open timeline in its place, and the position from which it is shown;
rows are not wrapped.

### Why one run for fourteen parts

These fourteen modules share no variable with one another. `MCParts` gives each
of them its part of fourteen variables, and a behaviour runs the part chosen at
its start; the properties are grouped by what they promise. Nothing is composed
there: the numbers of states add up.

## 3. Checks

Run one with `tlc -config X.cfg M`. Numbers are distinct states.

| Run | Asks | Bounds | States |
|---|---|---|---|
| `engine_queue` | Does the queue keep its order and limit while the run takes from it (`SteersFirst`), is every submission delivered at most once (`DeliveredOnce`) and none left behind by a run that completes (`WaitingTaken`), and does every cancelled task end (`CancelStops`)? | 4 prompts, limit 3, 1 step with 1 tool call, pressure after the first turn; abort, clear_queue and compaction at any time | 0.8 million |
| `engine_tools` | Are calls and results paired, in each request and after each restart, but for the calls that a failed save lost (`CallsAnswered`), with cancellations and with compactions between turns and in the middle of them? | 2 turns, 2 steps, 2 parallel calls, a Rooxcode provider (pressure before any request, kept tails), failing writes | 2.7 million |
| `engine_sessions` | Is everything on disk before it is acted on (`ActOnSaved`), is saved history kept (`HistoryRetained`), and are the session and its model stable under a task (`SessionStable`)? | 2 sessions, 2 turns, 1 step with 1 call, both kinds of provider, every command that changes a session, failing writes | 1.3 million |
| `conversation` | Is the wire quiet and the engine idle whenever the composer is back (`LeftAtRest`), is no submission handed back after it ran (`ReturnedNotRun`), does the engine keep the promise of `Submissions`, and does every exchange end (`ExchangeEnds`)? | 3 prompts, 1 queued during an exchange, compaction, switch_session, Esc, reconnection, pressure after the first turn | 0.4 million |
| `composer` | Is what waits shown once and what was delivered in the transcript, although texts may be equal (`DisplayExact`), and can what came back last be restored (`LatestKept`)? | 2 submissions of two texts, or 3 of one text in one run until something comes back; limit 2, Esc, /restore, /new, disconnection, prompts typed without a connection, /reconnect | 2.1 million |
| `checkpoints` | Do crashes, failures and a second process leave every record restorable, every running request alone (`OthersSpared`) and the limits in force? | 2 processes, 3 requests, 1 file, 2 images, limits of 2 directories and 2 images, 1 fault | 0.8 million |
| `checkpoints_restore` | Does a restore of several files, taken up again after an interruption, replace only its own results, and does every operation free the lock? | 1 process, 2 requests, 2 files and one outside the workspace, 1 fault, 1 edit by a person | 0.4 million |
| `extensions` | Is what is active complete, checked and free of name collisions, and does an activation replace only what its maker saw, with activations, edits, removed folders, failures and crashes in between? | 2 processes, 2 extensions, 2 contents and an invalid one, 3 versions, 4 events | 2.2 million |
| `transport` | Does the client get each record once, learn when it lost one, never sleep through work and write nothing after a failure, and do writes and the reader thread end? | 3 records of 3 kinds, limits of 3 bytes and 2 records, 1 command of 2 writes, room for 1, 1 key | 0.8 million |
| `parts` | The questions of the next table | there | 1.1 million |

The six properties of `parts` and what they say of each part:

| Property | Part | Says | Bounds |
|---|---|---|---|
| `RequestsKept` | `Provider` | `ProviderPromise`: a committed reply is what was shown (or, in Responses, what the completed items say), calls are whole and from a reply that ended or that `[DONE]` cut, a continuation follows what was said and there are few, the waiting status ends with output | 2 continuations, 2 deltas, calls of 2 pieces, 2 indices, 3 formats |
| `MessagesWhole` | `WireMessages` | `WireSound`: in each format calls are answered before anybody speaks again, Anthropic's results stand together, a provider's record goes home | 3 turns, 4 models of 3 formats |
| | `Decoder` | `ChunksDoNotMatter`: the frames are those of all bytes at once, and what waits fits the buffer | 6 bytes, a buffer of 5 |
| | `Summaries` | `SummaryCoversAll`: the chunks are the transcript, none over the budget | 5 characters of 1 to 4 bytes, summaries of 3 sizes, 3 requests |
| `ToolCallsEnd` | `Tools` | `ToolsPromise`: nothing of a program outlives its call, an output is whole, steps are distinct | 2 calls, 2 steps of 2 labels, 1 byte of output, 1 descendant |
| | `Edits` | `EditsPromise`: the diff is a patch, other bytes stay | 4 bytes of 3 kinds, parts of 2 |
| `CredentialsKept` | `Accounts` | `AccountsSafe`, `AccountStays`: a refresh token is sent once unless its answer was lost, a refresh replaces the token it refreshed, only a sign-in changes the account | 2 processes, 2 accounts, 3 tokens |
| | `ApiKeys` | `KeysAsChosen`: a save changes the chosen key only, without another process's save in between | 2 processes, 2 providers, 4 changes |
| `ComposerTrue` | `Typing` | `TypedPromise`, `SendsWhatIsShown`: the list that Tab inserts is for the token at the cursor; what is sent was shown, whole, and not in the middle of a paste | 3 characters, 2 commands, 2 files, 1 image |
| | `Editor` | `EditorTrue`: the terminal shows what the editor remembers, and that is the draft | 3 characters, wide ones and line ends among them, rows of 2 and 3 cells |
| `ChatTrue` | `Chat` | `ChatPromise`: status line, flag, transcript and the session to resume | 3 sessions, 2 settings |
| | `SessionList` | `ListedTrue`: a title listed was the file's while the scan ran | 1 file, 2 scans, 2 ticks, 1 replacement |
| | `Picker` | `PickerTrue`: the caret keeps its item, the window is full, Enter takes what is marked | lists of 1 and 5, queries of 2 terms, windows of up to 3 rows |
| | `Display` | `TimelineTrue`, `RowsStayPut`: each call is shown once with its outcome; a view that was scrolled up stays at its row | 5 events, 3 rows kept, heights 1 and 2 |

Why the bounds are enough. Order and limit of the queue need a steering
submission behind a follow-up and one more than fits: four prompts and a limit
of three. In `conversation` one submission may cross the end of its run, and the
exchange after it shows what is left over. In `composer` the third of three equal
texts is the first that two others may be mistaken for. Pairing needs two parallel calls, one answered and one not, and a turn
after them. Swapping sessions needs two. In the store, all interference goes
through one file, one record or one image, so two processes and two requests
meet in every way; a restore that is interrupted between files needs two files,
and an order of ages among a spared, a kept and a dropped record needs three
requests. One fault and one edit may fall at every step; a second fault finds
what the recovery from the first one saved, which is again a record of the same
phases. Among extensions, an update is overwritten or a name taken twice when two
processes interleave, each with one candidate, beside what was imported before:
three versions, and four events, which count the operations begun, the edits and
removals of a source and the failed writes; with the same bounds a removed folder makes
two active extensions share a name. In the mailbox two records may be too many bytes,
three too many records and one too long by itself; a command of two writes is
cut short between them when the socket has room for one.
In `parts`: a continuation that is itself cut needs two; a call is broken between
two pieces; two models of one provider differ in nothing but the model; a blank
line of the longer kind has four bytes, with one before and one behind it; a
chunk is halved in the middle of a character of any width; a newer login and a
lost answer need a third token; a row is left, entered, filled and overflowed by
three characters; two scans overlap on one file; a window that scrolls needs more
items than rows, and two of equal labels; a view above the end needs a row more
than the terminal has. `MaxWire`, `MaxPrompts`, `MaxQueued`, `MaxFaults`, `MaxEdits`, `MaxEvents`,
`MaxVersions`, `Offered`, `MaxFrames`, `MaxCommands`, `MaxKeys`, `Chunks`, `Room`, `MaxDeltas`, `MaxPieces`,
`MaxTurns`, `MaxStream`, `MaxText`, `MaxTokens`, `MaxKeyChanges`, `MaxContent`,
`MaxPart`, `MaxDraft`, `MaxTick`, `MaxInode`, `MaxQuery` and the two constants of
tools' calls and of the display's events bound the environment; `Filling` says after which turns the context may be under pressure; `MaxSteps`, `QueueLimit`, `MaxRequests`,
`MaxImages`, `MaxCalls` (of `Checkpoints`), `MaxBytes`, `MaxRecords`, `EarlyLimit`,
`MaxContinuations`, `MaxBuffer`, `Budget`, `OutputLimit`, `PasteLimit`,
`DraftLimit`, `MaxVisible` and `MaxTranscript` are limits of the code with small
values. The store's runs allow deadlock, since a finite set of request
identifiers is used up, and so do `extensions`, whose processes may all have
ended, and `transport`, whose connection may; the others forbid it.

### Disagreements

Two runs expect a violation; each shows the program doing other than its
comments or documents say.

* `late_steer` (`ComposerMeansIdle`): a submission reaches the engine when the
  run it was meant for has just settled, so it starts a new run
  (`engine.rs:275`). The client takes its acknowledgement together with the
  earlier settlement and returns to the composer while that run works; a later
  exchange may then take that run's settlement for its own. Until the first such
  submission no run is left behind (`LeftAtRest`, checked in `conversation`).
  `bridge.rs:601` reads "Acceptance is not a new agent run", and `bridge.rs:965`
  "Only leave once both the final settlement and all correlated queue responses
  (and queue counts) agree there is no more work." Nothing ties a settlement to
  the run it settles.
* `compaction_save_fails` (`CompactionKeeps`): `compact` replaces the messages
  in memory before it saves, and does not put them back when the save fails.
  `docs/error-handling.md:13`: "Compaction failure/cancellation leaves active
  history unchanged."

The models contain the following as well; no run states them, and the properties
are worded around them, each with the exception in its comment.

*Engine and client.* When a run fails, the wrapper pops one waiting submission,
announces its rejection, and clears the others without a word (`engine.rs:306`;
`README.md:79`: "Waiting messages stay beside the composer until the runtime
delivers them"). A reply or a result whose save fails ends the run and stays in
memory, so the next prompt is sent after calls without results
(`engine.rs:650`, `:724`; `docs/native-runtime.md:144`), and a load adds those results at the
end of the history, behind what followed. `lost` names these calls, and
`CallsAnswered` holds of all others. A
cancellation that takes too long returns without the waiting submissions
(`bridge.rs:555`).

*Composer and chat.* The chat loop keeps one failed prompt, and the submission
that the run handed back replaces it (`chat/mod.rs:664`; `README.md:148`); a
prompt typed while disconnected replaces it too (`chat/mod.rs:353`). After Esc has
closed the list of files, further Escs do not reach the run until the draft
changes, since only `suggestions_dismissed` is set (`events.rs:265`,
`input.rs:583`; `README.md:111`). A message with four images that comes back
while a fifth is read has five (`input.rs:213`; `docs/terminal.md:87`); the engine
refuses them. A tool called behind a delivered message, without text before it,
joins the timeline above the message (`events.rs:338`). Half of a wide character,
then a control key that keeps it, swallows the next character (`cli/editor.rs:355`).

*Provider, summaries, tools.* An exchange that waited for capacity and broke
before output leaves the status that it waits (`docs/native-runtime.md:47`).
`[DONE]` ends a stream of every format (`provider.rs:356`): an Anthropic reply it
cuts short is committed with the calls whose arguments parse, although it did not
end (`docs/native-runtime.md:144`: "Tools run only after an authoritative complete
provider response"), and a Responses reply without the items that had not come. A
Responses reply is committed with the text of its completed items, which need not
be the text that was shown (`provider.rs:662`). The Anthropic format sends back any
record of that format, whoever's it was (`provider.rs:72`). Mixed line ends are no end of a frame. A summary whose
chunk has been halved to nothing is asked for again without progress, up to 1024 times
(`docs/development/rooxcode.md:120`). `edit` counts occurrences that do not
overlap, so an ambiguous text may pass (`tools.rs:13`). A program that replies
without reading its request may fail the call (`process.rs:90`).

*Stores.* A crash between `save` and the rename leaves an extension's candidate
whose record says `passed` (`versions.rs:598`), where `docs/extensions.md:97` has
interrupted candidates show `preparing`; an I/O error after the rename makes
`fail` write a record of a failed candidate for a version that is in `versions/`
and may be active. An extension whose source folder is removed stays active, but
the names of a candidate are compared only with extensions that have a folder
(`mod.rs:190`), so another may become active with its names; when the folder is
back, a catalog leaves out the one that comes later in the alphabet
(`NamesDisjoint` says what holds of both, pointers and catalogs). `/logout` saves the keys it read before its dialogs
(`logout.rs:13`). A session file that is deleted between the listing of its
directory and its inspection fails the whole list.

### Fairness

`engine_queue` assumes weak fairness of the command loop and of those steps of
a task that need nobody outside: the executor polls what is ready. A model call
is only assumed to end once it is cancelled, because the code selects on the
cancellation there. A tool or an extension gets the cancellation and has to act on
it: that one which runs then ends is an assumption (programs are killed, `Tools`; other
tools return by themselves). What `CancelStops` says is that a task which is cancelled begins
nothing more, wherever the cancellation finds it. `conversation`
assumes less of who goes on and more of what is outside: something of the engine,
its task and the client's reading happens while any of it can, whichever it is,
which is less than a fair scheduler gives; and providers and tools return in the
end.
`checkpoints_restore` assumes that a process that holds the lock is scheduled until
it lets go or dies. `transport` assumes that the reader thread runs, that a
client in the middle of a write or of a disconnection goes on, and that the
deadline of a write passes; nothing of the engine, the keyboard or the rest of
the client. `composer` and `parts` state safety only and assume no fairness.

## 4. Proofs

Theorems are of the specifications that TLC checks, with no bound: for any
sets of processes, sessions, files and records and any limits that the
assumption of the module allows. These assumptions say that limits are positive,
that special values are not among the others, and how the settings of the
environment are typed.

| Module | Properties proved |
|---|---|
| `EngineProofs` | `TypeOK`, `SteersFirst`, `DeliveredOnce`, `ActOnSaved`, `CallsAnswered`, `WaitingTaken`, `SessionStable`, `HistoryRetained` |
| `ConversationProofs` | the refinement `ImplementsSubmissions`, `LeftAtRest`, `ReturnedNotRun`, and `IInv` of the engine behind its real client |
| `ComposerProofs`, on `ClientProofs` | `DisplayExact` (if records are kept on the wire), `LatestKept` |
| `CheckpointsProofs` | `TypeOK`, `ImagesRetained`, `Recoverable`, `OriginalKept`, `RequestLimit`, `ReplacementsAnnounced`, `RestoresOwnResults`, `OthersSpared` |
| `ExtensionsProofs` | `TypeOK`, `ActiveSound`, `NamesDisjoint`, `ChecksRan`, `NothingOverwritten` |
| `TransportProofs` | `TypeOK`, `BytesCounted`, `NoLostWake`, `NoByteAfterFailure`, the refinement `ImplementsMailbox` |
| `AccountsProofs` | `AccountsSafe`, `AccountStays` |

Each invariant was found with TLC, on the instance of the run, before it was proved
inductive, with one lemma for each action; short theorems conclude the properties from
it. A module has one such invariant, or, where it holds two arguments
(`CheckpointsProofs`, `ComposerProofs`, `ExtensionsProofs`), two.

### The engine

The parts of `IInv` of `EngineProofs` and why they are needed:

* `Arriving`, `OnePlace`: `DeliveredOnce` counts a prompt in memory, in the queue
  and in the run. A session that is loaded brings back what its file holds, so a
  prompt is not in the queue or the run either when a file holds it, and once in
  each file at most; and prompts arrive in the order of their numbers, so that
  one which arrives is nowhere yet.
* `InOrder`: the order of the whole queue, of which `SteersFirst` is an instance.
  `InsertAtPlace` says what `Insert` does to any queue.
* `Saved`, `Retained`: from the first save of a turn on the file is what is in
  memory; otherwise the file is a prefix of it, or its old contents are in the archive.
* `Requested`: the calls that are left to run are the ones the last reply waits
  for, each once. It gives half of `ActOnSaved` (a load would report the call that runs as
  interrupted) and the step in which a result is pushed.
* `Whole`: the histories in memory and on disk are `Repairable` (only calls of the last
  reply, and those in `lost`, may lack results, and every result belongs to a call
  of the reply before it); outside of the calls all but the `lost` ones are paired.

The lemmas about `History` hold for histories of any length: a load adds
results of the unanswered calls and nothing else; what it returns is paired; a
reply, a result, a message and a summary each keep what they have to.

`CallsAlwaysAnswered` makes no assumption about saves. A failed save leaves calls
without results in memory, and the next prompt follows them (*Disagreements*); `lost` collects
these calls, `MoreExcepted` shows that more of them disturb nothing that holds, and
`LostTyped` and `LostSteps` that it grows only where a save fails, so that it is empty if none may
(a conjunct of `CallsAnswered`). `engine_tools` and `engine_sessions` check with failing writes.

### The engine with its client

`Conversation` has a next-state relation of its own, so `ConversationProofs` builds its
invariant, `Agreement`, on the engine's: `UserKeeps` shows that the client keeps
`IInv` by writing commands with growing numbers at the end and reading records
from the front (`ClientWire`). The engine's actions are not taken one by one again:
`LoopTells` and `TaskTells` reduce them to what the client can tell apart (a
command answered at once, a run or a task begun; a task's answer, a settlement,
or work going on), and the refinement lemmas (`LoopImplements`, `TaskImplements`,
`LoseImplements`, `UserImplements`) give the same steps as steps of `Submissions`. The other parts:

* `Traffic`: every command under way, every response not read and the answer a
  task owes is one the client still waits for (`Expects`), and there is one of each. It
  holds because an exchange is left only when the client waits for nothing; `Locals`
  and `Commanded` say what its flags mean by then and which commands an exchange sends.
  `LeftAtRest` needs it for the socket, and all the rest needs it to know that the
  response just read is the one the flag stands for.
* `HandedBack`: a submission that is shown as returned, or that a record on its way
  is going to return, is nowhere in the engine and in no command (`Gone`). `RefusedGone` and `RejectedGone`
  show this for the two ways a submission comes back. Nothing brings a number back
  once it is gone: `Arriving` orders the numbers, and a load of a session file
  cannot, because what is gone is in no file either. `ReturnedNotRun` is an instance.
* `Phases`: until a submission begins a run of its own, a run is active only between
  the prompt of the exchange and its settlement, and the client reads that
  settlement once and after the run is over. `settled` alone does not say so: what counts is also
  how many settlements are still unread, and that there is none before the prompt is
  taken. `LeftAtRest` follows with `Traffic`.

`Expects`, `OnTheWay` and the lemmas about each of the client's actions stand in
`ClientProofs`: they know nothing of the engine but the answers it owes, and
`ComposerProofs` uses them with another engine.

`ClientAssumption` is what the theorems assume of the client: the number of submissions
in an exchange is a natural number, and the requests made at the composer are not prompts.

### Checkpoints

`ImagesRetained` is not inductive. A record is saved (`SaveIntent`,
`SaveApplied`, `SaveRestoring`, ...) from the copy an operation has in memory,
so what counts is which images of that copy are stored by then; and pruning
removes images that the records it has looked at do not name, so it matters that
it has looked at all of them and that no record changes meanwhile. `OperationOK`
says this, place by place: while a write keeps images, which of the two it still
owes; from `intent` on and during a restore, that all images of the copy are
stored; while pruning, that `named` covers every record not in `left`.
`Inductive` is `TypeOK /\ ImagesRetained /\ OperationOK`. One lemma per action
shows that the action preserves it, and lemmas about `Put`, `Settled`, `Resolve`
and `Named` say which images an entry refers to after each change.

Recovery builds `Safe` on it. `Recoverable` compares a file with the record
of the request that wrote it last, but between an announcement and its
replacement it depends on what the operation holds in memory: `WriteOK` says that
the file is still what the write read, or what it has put there, or a person's;
`RestoreOK` that the announcement of a restore explains each file that is still
to do; `PruneOK` that among those kept is a finished record newer than all that may go.
`Explained` ties every image a record names to what its request announced or
found there, which is what makes a restore bring back its own; `Owners` says that
a request has one process, is not taken up again, and has its lease and its record
once it has replaced a file; `Dated` that no two records are of the same age.
A crash at any step leaves `Safe`, because each of these parts speaks of the disk,
or of an operation that a crash ends. `OthersSpared` is the conjunction of
`EditsWhatItRead`, `ActiveUntouched` and `PruneSpares`, each a theorem.

### The display

`DisplayExact` relates the list beside the composer to what the client knows of each
submission (`fate`), and neither names the other: items have no numbers, records of
deliveries and of the queue are matched by text, and they come after
the engine has gone on. So the invariant `Inner` of `ComposerProofs` says what the records under way
are still going to do to the display. `Told` asks for a sequence of points, one before
each unread record and one at the end. A point says which submissions are listed
(`here`), which have left the engine's queue and are not yet delivered (`gone`), which deliveries have been heard
of, whether the prompt is still to come and whether the run is over; `After` is
what a record makes of it and `Fits` which record may come there.

* The display is at the first point (`Begins`): its items are those of `here` and
  `gone`, one for each (`Lists`, a bijection), those of `gone` marked as being sent; the transcript
  has as many lines of a text as submissions of it have been heard of (`Transcribed`).
* The engine is at the last (`Ends`): while a run works, what waits is `here`, and the
  submission it has taken and not announced is `gone`.
* A step of the engine adds a point for each record it writes (`StoryOne`, `StoryTwo`), a
  record read drops the first (`PointRead`), and the user's steps leave them as they are: a
  submission just queued is in no record yet (`CourseGrows`).

That a delivery, matched by its text, removes one item of the right text and mode is where equal
texts matter: by `Fits` it comes when exactly the submission that is delivered has left the
queue, or for one that steers while those that steer are shown before the others (`Neat`), so
that the item found is one of the right mode. `UpdateLists` shows that the matching of a queue update
(a fold over the queue from its end, `FoldSteps`) keeps the bijection, and `InsertPlaces` and `InsertOrdered`
that the engine's `Insert` keeps the order of modes. `ShownCounts` and `WhatIsShown` count the items at last.

The invariant holds until a submission begins a run of its own (`~stray`), which is where
`DisplayExact` ends too. `KeepRecords` is a hypothesis because without it records are
not kept until they are read; the runs of `Conversation` and `Composer` have it.
`EarlyLimit`, the texts and the limits are arbitrary.

`LatestKept` needs none of this: `KInv` adds that `slot` is empty outside of a prompt's
exchange, and that during one it is what came back last, if anything did.

### Extensions

`activate` tests three things under the lock (the parent, the
files, the names) and writes the pointer several steps later, so what it tested
must still hold then. `GrantedOf` says so of the parent and the files, for a process between
`save` and `point`. It is preserved because only `Point` changes a pointer, and a
process at `point` holds the lock, so the others are not between these places;
and because the record and the files tested are of a version that no other
process works on (`Owned`, with `Fresh` for the identifiers not given out).
`PendingOf` ties the candidate on disk to the record in memory until the rename,
and `TestedOf` carries the test of an import to its activation. `IInv` is
`TypeOK` with these, `ActiveSound` and `ChecksRan`. `Leaves` and `GoesOn` treat the
steps that end with a candidate and those that go on with it; `PrepareStep` and
`PointStep` the two that are neither.

Names need a second invariant. `ActiveNames`: as long as nothing was orphaned, all that is
active has its folder and its names to itself, and so would the content of a process
between `save` and `point`. `CompatibleFits` shows it at the test: the scan of the folders then
registers everything that is active (`Holds`), because no two collide. `LoadedNames` needs
no such condition: what a process loads or has published are retained versions, which are never
replaced (`VersionsRetained`), and each was compared with those before it.

### Transport

Records have numbers, so everything follows from where they are. `Order`: what
waits in the mailbox are the numbers after the last one taken, without a gap, up to
the one the reader holds, as long as the mailbox is open. `Ending`: a mailbox that is closed
without a failure has been given everything that was sent, and the socket is shut.
`Telling`: a client that works on has been told of no end. The steps `Decode`,
`ReceiveEnd`, and `ReceiveFailure` or `DecodeFails` then are `Deliver`, `End` and `Fail` of
`Mailbox`, `Send` is `Send`, and all others are stutters, which is
`AlwaysImplementsMailbox`. `Signals` says for a key that came what `NoLostWake` says
for a record, also while the client is awake; `NoLostWake` itself is inductive with it.

`BytesCounted` says that `State.bytes` is the sum of the sizes that wait. `SizeOf`
is a recursive function, and no induction principle can be used here (see
below); `Induction` proves the instance that is needed from the least number that is not in a
set, and `SumExists`, `SumAgrees` and `SumShifts` say with it what a sum is, and
what it is with a number more at its end or one less at its beginning.

### Sign-in

`SentOnce` is not inductive: a refresh token goes out when the file is read, so
what counts is where each token is. `FreshOK` says that the token of a login or
of an answer that is not stored yet was never sent and is nobody else's;
`SentOK` that a stored token that was sent has lost its answer or is awaiting it.
The second case is excluded for a process that has just taken the lock, because
only its holder awaits an answer. `AccountsAssumption` asks for one token at least and
a value `Nobody` that is no process and no token.

### What is only model-checked

* All liveness, and what rests on ENABLED: `CancelStops`, `ExchangeEnds`,
  `OperationsEnd`, `WriteEnds`, `ReaderEnds`. They are out of this prover's reach.
* `ComposerMeansIdle` and `CompactionKeeps`, which are violated.
* The properties of `parts`, except those of `Accounts`. Most compare what a recursive operator
  computes (messages, frames, chunks, diffs, rows) with a reference. The library's
  induction theorems take an operator as parameter, which the installed provers
  cannot instantiate, so each needs an induction over sets of numbers of its
  own, as `BytesCounted` has; and no proof can reach a module that declares a
  RECURSIVE operator.

## 5. Not modelled

Layout, colours, Markdown and diagrams; the rows that the command line prints for
tools; the header and the dialogs; argument parsing, configuration, policy and
thinking levels; the capture and formatting of tool output, diagnostics;
self-update and packaging. In the parts that are modelled: the presentation
records of the engine; the requests for the model catalogue and accounts; the extension command
exchange on the client's side; the client's deadlines other than reconnection;
the size limits of the store; headers, images, usage and the body of a request
apart from its messages; the HTTP exchange of the Rooxcode provider; which of several errors
an exchange reports. Outside the models by assumption: a program that leaves its process
group, the reuse of a process group's number, and terminals of fewer than five
columns. `PROJECT.json` gives the reason for each component.

## 6. Plan

1. *Models, done*: the engine, the client and the composer with `Submissions` between
   them; checkpoints, extensions, sign-in; transport with `Mailbox`; provider
   requests, tools, editors, lists.
2. *Proofs, done*: every safety property that a run checks of the engine, the engine with its
   client, the composer's display, the checkpoint store, the extensions, the transport and the sign-in.
3. *Proofs, left*: the parts of `MCParts` whose operators are recursive functions or folds,
   each with an induction of its own.
4. *Models, left*: the abstract specification of extensions, in which `active`
   is a register changed only by a compare-and-set to a validated version; the
   exchange of an extension command with its dialogs (`bridge.rs`), and the rows
   of tools on the command line (`cli/tools.rs`), whose grouping is like the
   timeline's.
