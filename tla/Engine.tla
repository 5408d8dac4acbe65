------------------------------- MODULE Engine -------------------------------
(***************************************************************************)
(* The runtime thread of src/runtime/engine.rs: the command loop of        *)
(* serve_async, the run task it spawns (run_turns and its wrapper), the    *)
(* compaction and extension tasks, and the session they write.  The thread *)
(* runs on one executor, so code between two awaits is one step.           *)
(*                                                                         *)
(* commands and records are the two directions of the local socket.  The   *)
(* environment of this module is any client that keeps to the protocol's   *)
(* record types; Conversation.tla puts the real client in its place.       *)
(***************************************************************************)
EXTENDS Wire, History, Integers, FiniteSets

CONSTANTS
  Session,        \* identifiers of session files
  MaxWire,        \* bound: commands waiting in the socket
  MaxSteps,       \* config.max_steps: model requests in one turn
  MaxCalls,       \* bound: tool calls in one reply
  Providers,      \* kinds of configured providers; "rooxcode" budgets by size
  SaveMayFail,    \* TRUE: a write of the session file or archive may fail
  Filling,        \* bound: the turns after which the context may be under pressure
  Offered         \* bound: the kinds of commands the client sends beside prompts

ASSUME EngineAssumption ==
  /\ MaxWire \in Nat /\ MaxCalls \in Nat /\ MaxSteps \in Nat \ {0}
  /\ Providers # {} /\ SaveMayFail \in BOOLEAN /\ Offered \subseteq Kinds \ {"prompt"}

VARIABLES
  running,    \* Queue.running
  items,      \* Queue.items
  cancel,     \* the value of the watch channel `cancel`
  changed,    \* the active task's receiver has a change it has not consumed
  current,    \* Session.id of the session in memory
  provider,   \* the kind of the provider of Session.model
  mem,        \* Session.messages
  context,    \* Session.context is above four fifths of the window
  files,      \* the messages in each session file; <<>>: none saved
  archive,    \* the newest file under archives/
  lost,       \* history: calls left without a result because a save failed
  pc,         \* where the active task is; "none": no task
  turn,       \* run_turns' `prompt`
  step,       \* iterations of the step loop that are over
  calls,      \* calls of the latest reply that have no result yet
  resume,     \* where a compaction returns to
  caller,     \* id of the command a compaction or extension task answers
  nextCall    \* provider side: identifiers of calls are fresh

queue   == <<running, items>>
signal  == <<cancel, changed>>
session == <<current, provider, mem, context, files, archive, lost>>
task    == <<pc, turn, step, calls, resume, caller, nextCall>>
vars    == <<wire, queue, signal, session, task, sent>>

-----------------------------------------------------------------------------
Init ==
  /\ WireInit
  /\ running = FALSE /\ items = <<>>
  /\ cancel = FALSE /\ changed = FALSE
  /\ current \in Session /\ provider \in Providers /\ mem = <<>> /\ context = FALSE
  /\ files = [s \in Session |-> <<>>] /\ archive = <<>> /\ lost = {}
  /\ pc = "none" /\ turn = 0 /\ step = 0 /\ calls = <<>>
  /\ resume = "none" /\ caller = <<0, "main">> /\ nextCall = 1

Rooxcode == provider = "rooxcode"

-----------------------------------------------------------------------------
(* The session file: Session.save writes the whole file and renames it, so *)
(* it happens or it does not.                                              *)

\* Mutant: the file is written before the message is added.
Save_First(history) == files' = [files EXCEPT ![current] = mem]

Save(history) == files' = [files EXCEPT ![current] = history]
SaveFails == SaveMayFail /\ UNCHANGED files

\* The usage that a reply in turn p reports.
Usage(p) == IF p \in Filling THEN BOOLEAN ELSE {FALSE}

\* Session.load of file s; a file that was never saved is a new session.  Its
\* model is the one in the file or the configured one.
Load(s) ==
  /\ current' = s /\ provider' \in Providers
  /\ mem' = Repair(files[s])
  /\ context' \in IF files[s] = <<>> THEN {FALSE} ELSE UNION {Usage(p) : p \in Prompts}
  /\ UNCHANGED <<files, archive, lost>>

-----------------------------------------------------------------------------
(* The command loop.  A command is taken and handled in one step; the ones *)
(* that spawn a task first join the task before it (pc = "none").          *)

\* Mutant: the value is stored, but the receiver is not woken.
Abort_Silent ==
  /\ Take("abort")
  /\ cancel' = TRUE
  /\ Answer(TRUE)
  /\ UNCHANGED <<changed, queue, session, task, sent>>

Abort ==
  /\ Take("abort")
  /\ cancel' = TRUE /\ changed' = (pc # "none")
  /\ Answer(TRUE)
  /\ UNCHANGED <<queue, session, task, sent>>

ClearQueue ==
  /\ Take("clear_queue")
  /\ items' = <<>>
  /\ Emit(<<Response(Head(commands).id, TRUE), QueueUpdate(<<>>)>>)
  /\ UNCHANGED <<running, signal, session, task, sent>>

\* The prompt is out of bounds, its model has no access, or the run is busy
\* and the prompt may not or cannot wait.
RefusePrompt ==
  /\ Take("prompt")
  /\ Answer(FALSE)
  /\ UNCHANGED <<queue, signal, session, task, sent>>

\* Mutant: one submission too many.
MayWait_OneMore(command) == command.mode # "none" /\ Len(items) <= QueueLimit

MayWait(command) == command.mode # "none" /\ Len(items) < QueueLimit

QueuePrompt ==
  LET command == Head(commands)
      q == Insert(items, Submission(command))
  IN  /\ Take("prompt")
      /\ running /\ MayWait(command)
      /\ items' = q
      /\ Emit(<<Response(command.id, TRUE), QueueUpdate(q)>>)
      /\ UNCHANGED <<running, signal, session, task, sent>>

Spawn(at) ==
  /\ ~running /\ pc = "none"
  /\ running' = TRUE
  /\ cancel' = FALSE /\ changed' = FALSE
  /\ pc' = at

StartPrompt ==
  /\ Take("prompt")
  /\ Spawn("begin")
  /\ turn' = Head(commands).id[1]
  /\ Answer(TRUE)
  /\ UNCHANGED <<items, session, step, calls, resume, caller, nextCall, sent>>

StartCompact ==
  /\ Take("compact")
  /\ Spawn("compact")
  /\ caller' = Head(commands).id
  /\ UNCHANGED <<records, items, session, turn, step, calls, resume, nextCall, sent>>

StartExtension ==
  /\ Take("extension_command")
  /\ Spawn("extension")
  /\ caller' = Head(commands).id
  /\ UNCHANGED <<records, items, session, turn, step, calls, resume, nextCall, sent>>

\* The new identifier is one no session has used.
NewSession ==
  /\ Take("new_session") /\ ~running
  /\ \E s \in Session \ {current} : files[s] = <<>> /\ Load(s)
  /\ Answer(TRUE)
  /\ UNCHANGED <<queue, signal, task, sent>>

\* Mutant: allowed while a task is active.
SwitchSession_Busy ==
  /\ Take("switch_session")
  /\ \E s \in Session : files[s] # <<>> /\ Load(s)
  /\ Answer(TRUE)
  /\ UNCHANGED <<queue, signal, task, sent>>

SwitchSession ==
  /\ Take("switch_session") /\ ~running
  /\ \E s \in Session : files[s] # <<>> /\ Load(s)
  /\ Answer(TRUE)
  /\ UNCHANGED <<queue, signal, task, sent>>

\* Mutant: allowed while a task is active.
SetModel_Busy ==
  /\ Take("set_model")
  /\ Save(mem) /\ Answer(TRUE)
  /\ provider' \in Providers /\ context' = FALSE
  /\ UNCHANGED <<queue, signal, current, mem, archive, lost, task, sent>>

\* SetModel and SetThinkingLevel save the session and undo a failed change.
SetModel ==
  /\ Take("set_model") /\ ~running
  /\ \/ /\ Save(mem) /\ Answer(TRUE)
        /\ \/ provider' \in Providers /\ context' = FALSE
           \/ UNCHANGED <<provider, context>>
     \/ SaveFails /\ UNCHANGED <<provider, context>> /\ Answer(FALSE)
  /\ UNCHANGED <<queue, signal, current, mem, archive, lost, task, sent>>

\* A command that names no session, model or extension, or that a run excludes.
RefuseCommand ==
  /\ \E kind \in {"compact", "extension_command", "new_session", "switch_session",
                  "set_model"} :
       Take(kind) /\ (running \/ kind \in {"new_session", "switch_session", "set_model"})
  /\ Answer(FALSE)
  /\ UNCHANGED <<queue, signal, session, task, sent>>

GetState ==
  /\ Take("get_state")
  /\ Answer(TRUE)
  /\ UNCHANGED <<queue, signal, session, task, sent>>

Loop == \/ Abort \/ ClearQueue \/ RefusePrompt \/ QueuePrompt \/ StartPrompt
        \/ StartCompact \/ StartExtension \/ NewSession \/ SwitchSession
        \/ SetModel \/ RefuseCommand \/ GetState

-----------------------------------------------------------------------------
(* The run task.  Every error of run_turns ends in the wrapper's handler:  *)
(* the queue q is dropped, its last submission is handed back.             *)

\* The task is over: its locals and its receiver are dropped.
Drop ==
  /\ pc' = "none"
  /\ turn' = 0 /\ step' = 0 /\ calls' = <<>>
  /\ resume' = "none" /\ caller' = <<0, "main">>
  /\ changed' = FALSE

\* Mutant: the queue is left in place.
RunFails_Keeps(q) ==
  /\ pc' = "settle"
  /\ running' = FALSE /\ items' = q
  /\ Emit(<<Failed>> \o IF q = <<>> THEN <<>> ELSE <<QueueRejected(Last(q).id)>>)

RunFails(q) ==
  /\ pc' = "settle"
  /\ running' = FALSE /\ items' = <<>>
  /\ Emit(<<Failed>> \o IF q = <<>> THEN <<>> ELSE <<QueueRejected(Last(q).id)>>)

Begin ==
  /\ pc = "begin"
  /\ pc' = "turn"
  /\ Emit(<<AgentStart>>)
  /\ UNCHANGED <<commands, queue, signal, session, turn, step, calls, resume, caller,
                 nextCall, sent>>

\* maybe_compact
NeedsSummary == context /\ ~Rooxcode

StartSummary ==
  /\ NeedsSummary
  /\ \/ pc = "turn" /\ resume' = "push"
     \/ pc = "step" /\ step < MaxSteps /\ ~cancel /\ resume' = "steer"
  /\ pc' = "summary"
  /\ UNCHANGED <<wire, queue, signal, session, turn, step, calls, caller, nextCall, sent>>

PushPrompt ==
  /\ pc = "push" \/ (pc = "turn" /\ ~NeedsSummary)
  /\ mem' = Append(mem, User(turn))
  /\ step' = 0
  /\ \/ /\ Save(mem')
        /\ pc' = "step"
        /\ Emit(<<MessageStart(turn)>>)
        /\ UNCHANGED queue
     \/ SaveFails /\ RunFails(items)
  /\ UNCHANGED <<commands, signal, current, provider, context, archive, lost, turn, calls, resume,
                 caller, nextCall, sent>>

\* The step loop ends on a cancellation or when its steps are used up.
LeaveSteps ==
  /\ pc = "step"
  /\ cancel \/ step = MaxSteps
  /\ pc' = "ended"
  /\ UNCHANGED <<wire, queue, signal, session, turn, step, calls, resume, caller, nextCall,
                 sent>>

AtSteer == \/ pc = "steer"
           \/ pc = "step" /\ step < MaxSteps /\ ~cancel /\ ~NeedsSummary

TakeSteering ==
  /\ AtSteer
  /\ items # <<>> /\ Head(items).steer
  /\ mem' = Append(mem, User(Head(items).id))
  /\ \/ /\ Save(mem')
        /\ pc' = "request"
        /\ items' = Tail(items)
        /\ Emit(<<MessageStart(Head(items).id), QueueUpdate(Tail(items))>>)
        /\ UNCHANGED running
     \/ SaveFails /\ RunFails(Tail(items))
  /\ UNCHANGED <<commands, signal, current, provider, context, archive, lost, turn, step, calls,
                 resume, caller, nextCall, sent>>

NoSteering ==
  /\ AtSteer
  /\ items # <<>> => ~Head(items).steer
  /\ pc' = "request"
  /\ UNCHANGED <<wire, queue, signal, session, turn, step, calls, resume, caller, nextCall,
                 sent>>

\* context::pressure of a Rooxcode request: compact first, once.
Pressure ==
  /\ pc = "request" /\ Rooxcode
  /\ resume' = "recheck"
  /\ \/ Save(mem) /\ pc' = "summary" /\ UNCHANGED <<records, queue>>
     \/ SaveFails /\ RunFails(items)
  /\ UNCHANGED <<commands, signal, current, provider, mem, context, archive, lost, turn, step, calls,
                 caller, nextCall, sent>>

StillTooLarge ==
  /\ pc = "recheck"
  /\ RunFails(items)
  /\ UNCHANGED <<commands, signal, session, turn, step, calls, resume, caller, nextCall, sent>>

CallModel ==
  /\ pc \in {"request", "recheck"}
  /\ pc' = "model"
  /\ UNCHANGED <<wire, queue, signal, session, turn, step, calls, resume, caller, nextCall,
                 sent>>

\* The reply is recorded before any of its calls is performed.
Reply ==
  /\ pc = "model"
  /\ \E n \in 0 .. MaxCalls :
       LET made == [i \in 1 .. n |-> nextCall + i - 1]
       IN  /\ mem' = Append(mem, Assistant(made))
           /\ calls' = made
           /\ nextCall' = nextCall + n
           /\ \/ /\ Save(mem')
                 /\ pc' = IF n = 0 THEN "completed" ELSE "call"
                 /\ UNCHANGED <<records, queue, lost>>
              \/ SaveFails /\ RunFails(items) /\ lost' = lost \cup ToSet(made)
  /\ context' \in Usage(turn)
  /\ UNCHANGED <<commands, signal, current, provider, archive, turn, step, resume, caller, sent>>

ModelFails ==
  /\ pc = "model"
  /\ RunFails(items)
  /\ UNCHANGED <<commands, signal, session, turn, step, calls, resume, caller, nextCall, sent>>

ModelCancelled ==
  /\ pc = "model" /\ changed
  /\ changed' = FALSE
  /\ pc' = "ended"
  /\ UNCHANGED <<wire, queue, cancel, session, turn, step, calls, resume, caller, nextCall,
                 sent>>

RecordResult ==
  /\ mem' = Append(mem, ToolResult(Head(calls)))
  /\ calls' = Tail(calls)
  /\ \/ /\ Save(mem')
        /\ IF Tail(calls) = <<>> THEN pc' = "step" /\ step' = step + 1
                                 ELSE pc' = "call" /\ UNCHANGED step
        /\ UNCHANGED <<records, queue, lost>>
     \/ SaveFails /\ RunFails(items) /\ lost' = lost \cup ToSet(Tail(calls)) /\ UNCHANGED step
  /\ UNCHANGED <<commands, cancel, current, provider, context, archive, turn, resume, caller,
                 nextCall, sent>>

StartTool ==
  /\ pc = "call" /\ ~cancel
  /\ pc' = "tool"
  /\ UNCHANGED <<wire, queue, signal, session, turn, step, calls, resume, caller, nextCall,
                 sent>>

SkipTool ==
  /\ pc = "call" /\ cancel
  /\ RecordResult
  /\ UNCHANGED changed

\* A tool may or may not have consumed the cancellation it ran into.
ToolReturns ==
  /\ pc = "tool"
  /\ RecordResult
  /\ changed' \in IF cancel THEN {changed, FALSE} ELSE {changed}

\* The end of a turn: out of steps, cancelled, or on to the next submission.
OutOfSteps ==
  /\ pc = "ended" /\ ~cancel
  /\ RunFails(items)
  /\ UNCHANGED <<commands, signal, session, turn, step, calls, resume, caller, nextCall, sent>>

StopCancelled ==
  /\ pc \in {"ended", "completed"} /\ cancel
  /\ items' = <<>>
  /\ pc' = "settle"
  /\ UNCHANGED <<wire, running, signal, session, turn, step, calls, resume, caller, nextCall,
                 sent>>

\* Mutant: the submission stays in the queue.
NextTurn_Peeks ==
  /\ pc = "completed" /\ ~cancel /\ items # <<>>
  /\ turn' = Head(items).id
  /\ Emit(<<QueueUpdate(items)>>)
  /\ pc' = "turn"
  /\ UNCHANGED <<commands, queue, signal, session, step, calls, resume, caller, nextCall, sent>>

NextTurn ==
  /\ pc = "completed" /\ ~cancel /\ items # <<>>
  /\ turn' = Head(items).id
  /\ items' = Tail(items)
  /\ Emit(<<QueueUpdate(Tail(items))>>)
  /\ pc' = "turn"
  /\ UNCHANGED <<commands, running, signal, session, step, calls, resume, caller, nextCall,
                 sent>>

\* Mutant: submissions are accepted until the run has settled.
LastTurn_Later ==
  /\ pc = "completed" /\ ~cancel /\ items = <<>>
  /\ Emit(<<QueueUpdate(<<>>)>>)
  /\ pc' = "settle"
  /\ UNCHANGED <<commands, queue, signal, session, turn, step, calls, resume, caller, nextCall,
                 sent>>

LastTurn ==
  /\ pc = "completed" /\ ~cancel /\ items = <<>>
  /\ running' = FALSE
  /\ Emit(<<QueueUpdate(<<>>)>>)
  /\ pc' = "settle"
  /\ UNCHANGED <<commands, items, signal, session, turn, step, calls, resume, caller, nextCall,
                 sent>>

\* Mutant: no last queue_update.
Settle_Unannounced ==
  /\ pc = "settle"
  /\ running' = FALSE /\ items' = <<>>
  /\ Emit(<<Settled>>)
  /\ Drop
  /\ UNCHANGED <<commands, cancel, session, nextCall, sent>>

Settle ==
  /\ pc = "settle"
  /\ running' = FALSE /\ items' = <<>>
  /\ Emit(<<QueueUpdate(<<>>), Settled>>)
  /\ Drop
  /\ UNCHANGED <<commands, cancel, session, nextCall, sent>>

-----------------------------------------------------------------------------
(* Compaction, inside a run or as a task of its own.                       *)

\* A task that answers `caller` ends; a run goes on or fails.
EndTask(ok) ==
  /\ running' = FALSE
  /\ Emit(<<Response(caller, ok)>>)
  /\ Drop
  /\ UNCHANGED items

SummaryContinues ==
  \/ resume = "reply" /\ EndTask(TRUE)
  \/ /\ resume # "reply"
     /\ pc' = resume /\ resume' = "none"
     /\ UNCHANGED <<records, queue, changed, turn, step, calls, caller>>

SummaryEnds ==
  \/ resume = "reply" /\ EndTask(FALSE)
  \/ /\ resume # "reply"
     /\ RunFails(items)
     /\ resume' = "none" /\ changed' \in {changed, FALSE}
     /\ UNCHANGED <<turn, step, calls, caller>>

ManualSummary ==
  /\ pc = "compact"
  /\ \/ mem = <<>> /\ EndTask(FALSE) /\ UNCHANGED files
     \/ mem # <<>> /\ Rooxcode /\ SaveFails /\ EndTask(FALSE)
     \/ /\ mem # <<>>
        /\ IF Rooxcode THEN Save(mem) ELSE UNCHANGED files
        /\ pc' = "summary" /\ resume' = "reply"
        /\ UNCHANGED <<records, queue, changed, turn, step, calls, caller>>
  /\ UNCHANGED <<commands, cancel, current, provider, mem, context, archive, lost, nextCall, sent>>

\* Mutant: the suffix may begin with a result.
Tails_Anywhere ==
  {<<>>} \cup {SubSeq(mem, i, Len(mem)) : i \in {j \in 2 .. Len(mem) : Rooxcode}}

\* The messages kept after a summary: none, or for Rooxcode a proper suffix
\* that does not begin with a result (context::tail_start).
Tails ==
  {<<>>} \cup {SubSeq(mem, i, Len(mem)) :
                 i \in {j \in 2 .. Len(mem) : Rooxcode /\ mem[j].role # "toolResult"}}

\* Mutant: the new history is archived.
ArchiveFile_Late == archive' = mem'

ArchiveFile == archive' = IF files[current] = <<>> THEN archive ELSE files[current]

\* The old file is archived, then the history is replaced and saved.
SummaryArrives ==
  /\ pc = "summary"
  /\ \E tail \in Tails : mem' = <<User(SummaryText)>> \o tail
  /\ ArchiveFile
  /\ context' = FALSE
  /\ \/ Save(mem') /\ SummaryContinues
     \/ SaveFails /\ SummaryEnds
  /\ UNCHANGED <<commands, cancel, current, provider, lost, nextCall, sent>>

\* The provider failed or sent an empty summary, the archive failed, or the
\* cancellation came first.
SummaryFails ==
  /\ pc = "summary"
  /\ SummaryEnds
  /\ UNCHANGED <<commands, cancel, session, nextCall, sent>>

ExtensionReturns ==
  /\ pc = "extension"
  /\ \E ok \in BOOLEAN : EndTask(ok)
  /\ UNCHANGED <<commands, cancel, session, nextCall, sent>>

Task == \/ Begin \/ StartSummary \/ PushPrompt \/ LeaveSteps \/ TakeSteering \/ NoSteering
        \/ Pressure \/ StillTooLarge \/ CallModel \/ Reply \/ ModelFails \/ ModelCancelled
        \/ StartTool \/ SkipTool \/ ToolReturns \/ OutOfSteps \/ StopCancelled \/ NextTurn
        \/ LastTurn \/ Settle \/ ManualSummary \/ SummaryArrives \/ SummaryFails
        \/ ExtensionReturns

-----------------------------------------------------------------------------
(* The thread can be lost at any await: a crash, or a client that closes   *)
(* its connection and joins the worker.  What is left is the files; a new  *)
(* thread opens a session from them.                                       *)

Restart ==
  /\ commands' = <<>> /\ records' = <<>>
  /\ running' = FALSE /\ items' = <<>>
  /\ cancel' = FALSE /\ changed' = FALSE
  /\ \E s \in Session : Load(s)
  /\ pc' = "none" /\ turn' = 0 /\ step' = 0 /\ calls' = <<>>
  /\ resume' = "none" /\ caller' = <<0, "main">>
  /\ UNCHANGED <<nextCall, sent>>

\* Any client: prompts are numbered in the order they are written.
SendPrompt ==
  /\ sent < MaxPrompts /\ Len(commands) < MaxWire
  /\ sent' = sent + 1
  /\ \E mode \in Modes :
       commands' = Append(commands,
                          [kind |-> "prompt", id |-> <<sent + 1, "main">>, mode |-> mode])
  /\ UNCHANGED <<records, queue, signal, session, task>>

SendCommand ==
  /\ Len(commands) < MaxWire
  /\ \E kind \in Offered :
       commands' = Append(commands, [kind |-> kind, id |-> <<0, "main">>, mode |-> "none"])
  /\ UNCHANGED <<records, queue, signal, session, task, sent>>

Environment == SendPrompt \/ SendCommand

Next == Loop \/ Task \/ Restart \/ Environment

Spec == Init /\ [][Next]_vars

\* The executor runs every ready step of the loop and of the task.  Nothing is
\* assumed of a provider, nor of a tool or extension that is not cancelled.
Prompted == \/ Begin \/ StartSummary \/ PushPrompt \/ LeaveSteps \/ TakeSteering \/ NoSteering
            \/ Pressure \/ StillTooLarge \/ CallModel \/ ModelCancelled \/ StartTool \/ SkipTool
            \/ (ToolReturns /\ cancel) \/ OutOfSteps \/ StopCancelled \/ NextTurn \/ LastTurn
            \/ Settle \/ ManualSummary \/ (SummaryFails /\ changed) \/ (ExtensionReturns /\ cancel)

FairSpec == Spec /\ WF_vars(Loop) /\ WF_vars(Prompted)

-----------------------------------------------------------------------------
(* Properties.                                                             *)

Places == {"none", "begin", "turn", "push", "step", "steer", "request", "recheck", "model",
           "call", "tool", "ended", "completed", "settle", "compact", "summary", "extension"}

\* Every variable has its type; the queue never grows past its limit.
TypeOK ==
  /\ commands \in Seq(Command) /\ records \in Seq(Record)
  /\ running \in BOOLEAN /\ items \in Seq(Queued) /\ Len(items) <= QueueLimit
  /\ cancel \in BOOLEAN /\ changed \in BOOLEAN
  /\ current \in Session /\ provider \in Providers /\ mem \in Seq(Message) /\ context \in BOOLEAN
  /\ files \in [Session -> Seq(Message)] /\ archive \in Seq(Message)
  /\ pc \in Places /\ turn \in 0 .. MaxPrompts /\ step \in 0 .. MaxSteps
  /\ calls \in Seq(Nat) /\ lost \in SUBSET Nat /\ resume \in {"none", "push", "steer", "recheck", "reply"}
  /\ caller \in Ids /\ nextCall \in Nat /\ sent \in 0 .. MaxPrompts

\* Steering submissions come before follow-ups, and each kind waits in the
\* order it was submitted (the insertion in serve_async, engine.rs).
SteersFirst ==
  \A i, j \in DOMAIN items :
    i < j => /\ items[j].steer => items[i].steer
             /\ items[i].steer = items[j].steer => items[i].id < items[j].id

\* A submission is in one place only: waiting in the queue, taken by the run
\* for its next turn, or once in the history; no path delivers it twice.
Undelivered == IF pc \in {"begin", "turn", "push"} \/ (pc = "summary" /\ resume = "push")
               THEN {turn} ELSE {}
DeliveredOnce ==
  \A p \in Prompts :
    Cardinality({i \in DOMAIN mem : mem[i] = User(p)})
      + Cardinality({i \in DOMAIN items : items[i].id = p})
      + Cardinality({p} \cap Undelivered) <= 1

\* A run that is over without a failure or a cancellation leaves no accepted
\* submission behind: each goes into its next turn or still waits.  The wrapper
\* decides that nothing waits and refuses more in one step (engine.rs).
WaitingTaken ==
  [][~cancel /\ pc \in {"completed", "settle"} /\ pc' # pc =>
       \/ Restart
       \/ \A i \in DOMAIN items :
            turn' = items[i].id \/ \E j \in DOMAIN items' : items'[j].id = items[i].id]_vars

\* The model is asked and a tool is run only when the file holds everything
\* in memory, and the running call is one a load would report as interrupted.
ActOnSaved ==
  /\ pc \in {"model", "tool"} => files[current] = mem
  /\ pc = "tool" => Head(calls) \in Unanswered(files[current])

\* What is sent to the provider, and what each session file loads into whenever the
\* thread is lost, pairs every call with its result (engine.rs, Session::load).  The
\* exception is a call that a failed save has ended the run before (engine.rs:650 and
\* 724 return and leave the message in memory): the next save of the conversation
\* writes it without its result, and a load adds that at the end.  No other call is
\* disturbed by it, and without a failed save there is none.
CallsAnswered ==
  /\ pc = "model" => PairedBut(mem, lost)
  /\ \A s \in Session : PairedBut(Repair(files[s]), lost)
  /\ lost # {} => SaveMayFail

\* A session file only grows, or its old contents have just been archived.
HistoryRetained ==
  [][\A s \in Session :
       files'[s] # files[s] => IsPrefix(files[s], files'[s]) \/ archive' = files[s]]_vars

\* While a task works on the session, no command replaces it or its model: the calls,
\* budget and compaction of a run are those of the provider it began with.
SessionStable ==
  [][current' # current \/ provider' # provider => pc \in {"none", "settle"} \/ Restart]_vars

\* A failed compaction leaves the history in memory as it was.
CompactionKeeps ==
  [][pc = "summary" /\ mem' # mem => files'[current] = mem']_vars

\* A cancelled task ends, whatever the provider does and in whatever place the
\* cancellation finds the task: a request and a summary are dropped, a call that has
\* not begun is skipped, and nothing that waits is begun.  A tool or extension that
\* runs is assumed to end once it is cancelled (FairSpec).
CancelStops == cancel /\ running ~> pc = "none"
=============================================================================
