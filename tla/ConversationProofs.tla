------------------------- MODULE ConversationProofs -------------------------
(***************************************************************************)
(* What the engine and its real client promise together, for any number of *)
(* submissions, requests, queue and step limits and providers.             *)
(***************************************************************************)
EXTENDS Conversation, EngineProofs, ClientProofs

-----------------------------------------------------------------------------
(* The engine as its client sees it: each of its steps is one of           *)
(* Submissions, or is not visible on the socket.                           *)

\* A compaction or an extension command answers at its end.
AtTask == pc \in {"compact", "extension"} \/ (pc = "summary" /\ resume = "reply")

\* What the task remembers for its end.
Answering ==
  /\ ~AtTask => caller = <<0, "main">>
  /\ pc = "summary" => resume # "none"

\* The stage of each place.
LEMMA StageIs ==
  /\ pc = "none" => Stage = "none"
  /\ pc = "begin" => Stage = "begins"
  /\ pc \in {"turn", "push"} \/ (pc = "summary" /\ resume = "push") => Stage = "turn"
  /\ AtTask => Stage = "task"
  /\ pc = "settle" => Stage = "over"
  /\ pc \in {"step", "steer", "request", "recheck", "model", "call", "tool", "ended", "completed"}
       \/ (pc = "summary" /\ resume \notin {"push", "reply"}) => Stage = "works"
  BY DEF Stage, AtTask

LEMMA StageBecomes ==
  /\ pc' = "none" => Stage' = "none"
  /\ pc' = "begin" => Stage' = "begins"
  /\ pc' \in {"turn", "push"} \/ (pc' = "summary" /\ resume' = "push") => Stage' = "turn"
  /\ AtTask' => Stage' = "task"
  /\ pc' = "settle" => Stage' = "over"
  /\ pc' \in {"step", "steer", "request", "recheck", "model", "call", "tool", "ended", "completed"}
       \/ (pc' = "summary" /\ resume' \notin {"push", "reply"}) => Stage' = "works"
  BY DEF Stage, AtTask

\* A command that leaves the task alone leaves its stage.
LEMMA StageStays == UNCHANGED <<pc, resume>> => UNCHANGED Stage
  BY DEF Stage

\* The instance speaks of the same socket.
LEMMA SameWire ==
  /\ \A k : Promised!Take(k) <=> Take(k)
  /\ \A ok : Promised!Answer(ok) <=> Answer(ok)
  /\ \A rs : Promised!Emit(rs) <=> Emit(rs)
  /\ \A id, ok : Promised!Response(id, ok) = Response(id, ok)
  /\ \A q : Promised!QueueUpdate(q) = QueueUpdate(q)
  /\ \A p : Promised!MessageStart(p) = MessageStart(p) /\ Promised!QueueRejected(p) = QueueRejected(p)
  /\ Promised!AgentStart = AgentStart /\ Promised!Failed = Failed /\ Promised!Settled = Settled
  /\ Promised!Kinds = Kinds /\ \A q : Promised!Last(q) = Last(q)
  /\ \A q, p : Promised!Insert(q, p) = Insert(q, p)
  /\ \A c : Promised!Submission(c) = Submission(c)
<1>1. \A k : Promised!Take(k) <=> Take(k)
  BY DEF Promised!Take, Take
<1>2. \A id, ok : Promised!Response(id, ok) = Response(id, ok)
  BY DEF Promised!Response, Response
<1>3. \A rs : Promised!Emit(rs) <=> Emit(rs)
  BY DEF Promised!Emit, Emit
<1>4. \A ok : Promised!Answer(ok) <=> Answer(ok)
  BY DEF Promised!Answer, Answer, Promised!Emit, Emit, Promised!Response, Response
<1>5. /\ \A q : Promised!QueueUpdate(q) = QueueUpdate(q)
      /\ \A p : Promised!MessageStart(p) = MessageStart(p) /\ Promised!QueueRejected(p) = QueueRejected(p)
  BY DEF Promised!QueueUpdate, QueueUpdate, Promised!MessageStart, MessageStart, Promised!QueueRejected,
    QueueRejected
<1>6. Promised!AgentStart = AgentStart /\ Promised!Failed = Failed /\ Promised!Settled = Settled
  BY DEF Promised!AgentStart, AgentStart, Promised!Failed, Failed, Promised!Settled, Settled
<1>7. Promised!Kinds = Kinds /\ \A q : Promised!Last(q) = Last(q)
  BY DEF Promised!Kinds, Kinds, Promised!Last, Last
<1>8. \A q, p : Promised!Insert(q, p) = Insert(q, p)
  BY DEF Promised!Insert, Insert, Promised!InsertAt, InsertAt, Promised!Min, Min
<1>9. \A c : Promised!Submission(c) = Submission(c)
  BY DEF Promised!Submission, Submission
<1>10. QED
  BY <1>1, <1>2, <1>3, <1>4, <1>5, <1>6, <1>7, <1>8, <1>9

\* A command that is only answered.
LEMMA AnswerImplements ==
  ASSUME NEW what \in Kinds \ {"clear_queue"}, NEW ok \in BOOLEAN, what = "prompt" => ~ok,
         Take(what), Answer(ok), UNCHANGED <<running, items, pc, turn, resume, caller>>
  PROVE  Promised!AnswerOnly
<1>1. Promised!Take(what) /\ Promised!Answer(ok) /\ what \in Promised!Kinds \ {"clear_queue"}
  BY SameWire
<1>2. ok \in (IF what = "prompt" THEN {FALSE} ELSE BOOLEAN)
  OBVIOUS
<1>3. UNCHANGED Promised!work
  BY StageStays DEF Promised!work
<1>4. QED
  BY <1>1, <1>2, <1>3 DEF Promised!AnswerOnly

\* Every command is handled as Submissions says.
LEMMA LoopImplements ==
  ASSUME Loop
  PROVE  (Promised!BeginRun \/ Promised!Wait \/ Promised!ClearWaiting \/ Promised!AnswerOnly
            \/ Promised!BeginTask) /\ UNCHANGED sent
<1>1. CASE Abort
  <2>1. Take("abort") /\ Answer(TRUE) /\ UNCHANGED <<running, items, pc, turn, resume, caller, sent>>
    BY <1>1 DEF Abort, queue, session, task, Kinds
  <2>2. QED
    BY <2>1, AnswerImplements DEF Kinds
<1>2. CASE RefusePrompt
  <2>1. Take("prompt") /\ Answer(FALSE) /\ UNCHANGED <<running, items, pc, turn, resume, caller, sent>>
    BY <1>2 DEF RefusePrompt, queue, session, task, Kinds
  <2>2. QED
    BY <2>1, AnswerImplements DEF Kinds
<1>3. CASE NewSession
  <2>1. Take("new_session") /\ Answer(TRUE) /\ UNCHANGED <<running, items, pc, turn, resume, caller, sent>>
    BY <1>3 DEF NewSession, queue, task, Kinds
  <2>2. QED
    BY <2>1, AnswerImplements DEF Kinds
<1>4. CASE SwitchSession
  <2>1. Take("switch_session") /\ Answer(TRUE) /\ UNCHANGED <<running, items, pc, turn, resume, caller, sent>>
    BY <1>4 DEF SwitchSession, queue, task, Kinds
  <2>2. QED
    BY <2>1, AnswerImplements DEF Kinds
<1>5. CASE SetModel
  <2>1. Take("set_model") /\ \E ok \in BOOLEAN : Answer(ok) /\ UNCHANGED <<running, items, pc, turn, resume, caller, sent>>
    BY <1>5 DEF SetModel, queue, task, Kinds
  <2>2. QED
    BY <2>1, AnswerImplements DEF Kinds
<1>6. CASE RefuseCommand
  <2>1. (\E kd \in Kinds \ {"clear_queue", "prompt"} : Take(kd)) /\ Answer(FALSE) /\ UNCHANGED <<running, items, pc, turn, resume, caller, sent>>
    BY <1>6 DEF RefuseCommand, queue, task, Kinds
  <2>2. QED
    BY <2>1, AnswerImplements DEF Kinds
<1>7. CASE GetState
  <2>1. Take("get_state") /\ Answer(TRUE) /\ UNCHANGED <<running, items, pc, turn, resume, caller, sent>>
    BY <1>7 DEF GetState, queue, task, Kinds
  <2>2. QED
    BY <2>1, AnswerImplements DEF Kinds
<1>8. CASE ClearQueue
  BY <1>8, SameWire, StageStays DEF ClearQueue, session, task, Promised!ClearWaiting
<1>9. CASE QueuePrompt
  BY <1>9, SameWire, StageStays DEF QueuePrompt, MayWait, session, task, Promised!Wait
<1>10. CASE StartPrompt
  BY <1>10, SameWire, StageIs, StageBecomes DEF StartPrompt, Spawn, session, Promised!BeginRun
<1>11. CASE StartCompact
  BY <1>11, SameWire, StageIs, StageBecomes DEF StartCompact, Spawn, session, AtTask, Promised!BeginTask
<1>12. CASE StartExtension
  BY <1>12, SameWire, StageIs, StageBecomes DEF StartExtension, Spawn, session, AtTask, Promised!BeginTask
<1>13. QED
  BY <1>1, <1>2, <1>3, <1>4, <1>5, <1>6, <1>7, <1>8, <1>9, <1>10, <1>11, <1>12 DEF Loop

\* A run that fails hands back what Submissions says.
LEMMA FailImplements ==
  ASSUME Stage \in {"turn", "works"}, UNCHANGED caller,
         NEW q, q = items \/ (items # <<>> /\ q = Tail(items)), RunFails(q)
  PROVE  Promised!LeaveFailed
<1>1. Stage' = "over"
  BY StageBecomes DEF RunFails
<1>2. q \in {items} \cup (IF items = <<>> THEN {} ELSE {Tail(items)})
  OBVIOUS
<1>3. Promised!Emit(<<Promised!Failed>> \o IF q = <<>> THEN <<>> ELSE <<Promised!QueueRejected(Promised!Last(q).id)>>)
  BY SameWire DEF RunFails
<1>4. QED
  BY <1>1, <1>2, <1>3 DEF Promised!LeaveFailed, RunFails

\* A task ends with its answer.
LEMMA EndImplements ==
  ASSUME AtTask, NEW ok \in BOOLEAN, EndTask(ok)
  PROVE  Promised!EndOfTask
<1>1. Stage = "task" /\ Stage' = "none"
  BY StageIs, StageBecomes DEF EndTask, Drop
<1>2. Promised!Emit(<<Promised!Response(caller, ok)>>)
  BY SameWire DEF EndTask
<1>3. UNCHANGED items /\ running' = FALSE /\ caller' = <<0, "main">>
  BY DEF EndTask, Drop
<1>4. QED
  BY <1>1, <1>2, <1>3 DEF Promised!EndOfTask

\* A step between places of one stage is not visible.
LEMMA StageKept ==
  ASSUME UNCHANGED <<running, items, turn, caller, Stage>>
  PROVE  UNCHANGED Promised!work
  BY DEF Promised!work

\* A task takes no command.
LEMMA TaskWire ==
  ASSUME Task
  PROVE  UNCHANGED <<commands, sent>>
  BY DEF Task, Begin, StartSummary, PushPrompt, LeaveSteps, TakeSteering, NoSteering, Pressure,
    StillTooLarge, CallModel, Reply, ModelFails, ModelCancelled, StartTool, SkipTool, ToolReturns,
    RecordResult, OutOfSteps, StopCancelled, NextTurn, LastTurn, Settle, ManualSummary,
    SummaryArrives, SummaryFails, ExtensionReturns, wire

\* Every step of the task is one of Submissions, or is not visible.
LEMMA TaskImplements ==
  ASSUME TypeOK, Answering, Task
  PROVE  /\ Promised!Working \/ UNCHANGED <<records, Promised!work>>
         /\ UNCHANGED <<commands, sent>>
<1>1. UNCHANGED <<commands, sent>>
  BY TaskWire
<1>2. resume \in {"none", "push", "steer", "recheck", "reply"}
  BY DEF TypeOK
<1>3. SUFFICES Promised!Working \/ UNCHANGED <<records, Promised!work>>
  BY <1>1
<1>4. CASE Begin
  BY <1>4, SameWire, StageIs, StageBecomes DEF Begin, Promised!Working, Promised!Announce, queue
<1>5. CASE StartSummary
  <2>1. UNCHANGED <<running, items, records, turn, caller>>
    BY <1>5 DEF StartSummary, queue, wire
  <2>2. UNCHANGED Stage
    BY <1>5, StageIs, StageBecomes DEF StartSummary, AtTask
  <2>3. QED
    BY <2>1, <2>2, StageKept
<1>6. CASE PushPrompt
  <2>1. Stage = "turn" /\ UNCHANGED <<turn, caller>>
    BY <1>6, StageIs DEF PushPrompt
  <2>2. CASE pc' = "step" /\ Emit(<<MessageStart(turn)>>) /\ UNCHANGED queue
    BY <2>1, <2>2, SameWire, StageBecomes DEF Promised!Working, Promised!DeliverLead, queue
  <2>3. CASE RunFails(items)
    BY <2>1, <2>3, FailImplements DEF Promised!Working
  <2>4. QED
    BY <1>6, <2>2, <2>3 DEF PushPrompt
<1>7. CASE LeaveSteps
  <2>1. UNCHANGED <<running, items, records, turn, caller>>
    BY <1>7 DEF LeaveSteps, queue, wire
  <2>2. UNCHANGED Stage
    BY <1>7, StageIs, StageBecomes DEF LeaveSteps
  <2>3. QED
    BY <2>1, <2>2, StageKept
<1>8. CASE TakeSteering
  <2>1. Stage = "works" /\ UNCHANGED caller /\ items # <<>> /\ Head(items).steer
    BY <1>8, StageIs DEF TakeSteering, AtSteer
  <2>2. CASE /\ pc' = "request" /\ items' = Tail(items) /\ UNCHANGED running
             /\ Emit(<<MessageStart(Head(items).id), QueueUpdate(Tail(items))>>)
    <3>1. Stage' = "works"
      BY <2>2, StageBecomes
    <3>2. QED
      BY <2>1, <2>2, <3>1, SameWire DEF Promised!Working, Promised!DeliverSteering
  <2>3. CASE RunFails(Tail(items))
    BY <2>1, <2>3, FailImplements DEF Promised!Working
  <2>4. QED
    BY <1>8, <2>2, <2>3 DEF TakeSteering
<1>9. CASE NoSteering
  <2>1. UNCHANGED <<running, items, records, turn, caller>>
    BY <1>9 DEF NoSteering, queue, wire
  <2>2. UNCHANGED Stage
    BY <1>9, StageIs, StageBecomes DEF NoSteering, AtSteer
  <2>3. QED
    BY <2>1, <2>2, StageKept
<1>10. CASE Pressure
  <2>1. Stage = "works" /\ UNCHANGED <<turn, caller>> /\ resume' = "recheck"
    BY <1>10, StageIs DEF Pressure
  <2>2. CASE pc' = "summary" /\ UNCHANGED <<records, queue>>
    <3>1. UNCHANGED Stage
      BY <2>1, <2>2, StageBecomes
    <3>2. QED
      BY <2>1, <2>2, <3>1, StageKept DEF queue
  <2>3. CASE RunFails(items)
    BY <2>1, <2>3, FailImplements DEF Promised!Working
  <2>4. QED
    BY <1>10, <2>2, <2>3 DEF Pressure
<1>11. CASE StillTooLarge
  <2>1. Stage = "works" /\ UNCHANGED caller /\ RunFails(items)
    BY <1>11, StageIs DEF StillTooLarge
  <2>2. QED
    BY <2>1, FailImplements DEF Promised!Working
<1>12. CASE CallModel
  <2>1. UNCHANGED <<running, items, records, turn, caller>>
    BY <1>12 DEF CallModel, queue, wire
  <2>2. UNCHANGED Stage
    BY <1>12, StageIs, StageBecomes DEF CallModel
  <2>3. QED
    BY <2>1, <2>2, StageKept
<1>13. CASE Reply
  <2>1. Stage = "works" /\ UNCHANGED <<turn, caller>>
    BY <1>13, StageIs DEF Reply
  <2>2. \/ pc' \in {"completed", "call"} /\ UNCHANGED <<records, queue>>
        \/ RunFails(items)
    BY <1>13 DEF Reply
  <2>3. CASE pc' \in {"completed", "call"} /\ UNCHANGED <<records, queue>>
    <3>1. UNCHANGED Stage
      BY <2>1, <2>3, StageBecomes
    <3>2. QED
      BY <2>1, <2>3, <3>1, StageKept DEF queue
  <2>4. CASE RunFails(items)
    BY <2>1, <2>4, FailImplements DEF Promised!Working
  <2>5. QED
    BY <2>2, <2>3, <2>4
<1>14. CASE ModelFails
  <2>1. Stage = "works" /\ UNCHANGED caller /\ RunFails(items)
    BY <1>14, StageIs DEF ModelFails
  <2>2. QED
    BY <2>1, FailImplements DEF Promised!Working
<1>15. CASE ModelCancelled
  <2>1. UNCHANGED <<running, items, records, turn, caller>>
    BY <1>15 DEF ModelCancelled, queue, wire
  <2>2. UNCHANGED Stage
    BY <1>15, StageIs, StageBecomes DEF ModelCancelled
  <2>3. QED
    BY <2>1, <2>2, StageKept
<1>16. CASE StartTool
  <2>1. UNCHANGED <<running, items, records, turn, caller>>
    BY <1>16 DEF StartTool, queue, wire
  <2>2. UNCHANGED Stage
    BY <1>16, StageIs, StageBecomes DEF StartTool
  <2>3. QED
    BY <2>1, <2>2, StageKept
<1>17. CASE SkipTool
  <2>1. Stage = "works" /\ UNCHANGED <<turn, caller>>
    BY <1>17, StageIs DEF SkipTool, RecordResult
  <2>2. CASE pc' \in {"step", "call"} /\ UNCHANGED <<records, queue>>
    <3>1. UNCHANGED Stage
      BY <2>1, <2>2, StageBecomes
    <3>2. QED
      BY <2>1, <2>2, <3>1, StageKept DEF queue
  <2>3. CASE RunFails(items)
    BY <2>1, <2>3, FailImplements DEF Promised!Working
  <2>4. QED
    BY <1>17, <2>2, <2>3 DEF SkipTool, RecordResult
<1>18. CASE ToolReturns
  <2>1. Stage = "works" /\ UNCHANGED <<turn, caller>>
    BY <1>18, StageIs DEF ToolReturns, RecordResult
  <2>2. CASE pc' \in {"step", "call"} /\ UNCHANGED <<records, queue>>
    <3>1. UNCHANGED Stage
      BY <2>1, <2>2, StageBecomes
    <3>2. QED
      BY <2>1, <2>2, <3>1, StageKept DEF queue
  <2>3. CASE RunFails(items)
    BY <2>1, <2>3, FailImplements DEF Promised!Working
  <2>4. QED
    BY <1>18, <2>2, <2>3 DEF ToolReturns, RecordResult
<1>19. CASE OutOfSteps
  <2>1. Stage = "works" /\ UNCHANGED caller /\ RunFails(items)
    BY <1>19, StageIs DEF OutOfSteps
  <2>2. QED
    BY <2>1, FailImplements DEF Promised!Working
<1>20. CASE StopCancelled
  BY <1>20, SameWire, StageIs, StageBecomes DEF StopCancelled, Promised!Working, Promised!LeaveCancelled, wire
<1>21. CASE NextTurn
  BY <1>21, SameWire, StageIs, StageBecomes DEF NextTurn, Promised!Working, Promised!TakeNext
<1>22. CASE LastTurn
  BY <1>22, SameWire, StageIs, StageBecomes DEF LastTurn, Promised!Working, Promised!LeaveIdle
<1>23. CASE Settle
  <2>1. Stage = "over" /\ Stage' = "none"
    BY <1>23, StageIs, StageBecomes DEF Settle, Drop
  <2>2. UNCHANGED caller
    BY <1>23 DEF Settle, Drop, Answering, AtTask
  <2>3. QED
    BY <1>23, <2>1, <2>2, SameWire DEF Settle, Promised!Working, Promised!Close
<1>24. CASE ManualSummary
  <2>1. AtTask
    BY <1>24 DEF ManualSummary, AtTask
  <2>2. CASE EndTask(FALSE)
    BY <2>1, <2>2, EndImplements DEF Promised!Working
  <2>3. CASE pc' = "summary" /\ resume' = "reply" /\ UNCHANGED <<records, queue, turn, caller>>
    <3>1. UNCHANGED Stage
      BY <2>1, <2>3, StageIs, StageBecomes DEF AtTask
    <3>2. QED
      BY <2>3, <3>1, StageKept DEF queue
  <2>4. QED
    BY <1>24, <2>2, <2>3 DEF ManualSummary
<1>25. CASE SummaryArrives
  <2>1. CASE resume = "reply"
    <3>1. AtTask
      BY <1>25, <2>1 DEF SummaryArrives, AtTask
    <3>2. \E ok \in BOOLEAN : EndTask(ok)
      BY <1>25, <2>1 DEF SummaryArrives, SummaryContinues, SummaryEnds
    <3>3. QED
      BY <3>1, <3>2, EndImplements DEF Promised!Working
  <2>2. CASE resume # "reply"
    <3>1. Stage \in {"turn", "works"} /\ UNCHANGED <<turn, caller>>
      BY <1>25, <2>2, StageIs DEF SummaryArrives, SummaryContinues, SummaryEnds
    <3>2. CASE pc' = resume /\ resume' = "none" /\ UNCHANGED <<records, queue>>
      <4>1. UNCHANGED Stage
        BY <1>25, <1>2, <2>2, <3>2, StageIs, StageBecomes DEF SummaryArrives, Answering
      <4>2. QED
        BY <3>1, <3>2, <4>1, StageKept DEF queue
    <3>3. CASE RunFails(items)
      BY <3>1, <3>3, FailImplements DEF Promised!Working
    <3>4. QED
      BY <1>25, <2>2, <3>2, <3>3 DEF SummaryArrives, SummaryContinues, SummaryEnds
  <2>3. QED
    BY <2>1, <2>2
<1>26. CASE SummaryFails
  <2>1. CASE resume = "reply"
    <3>1. AtTask
      BY <1>26, <2>1 DEF SummaryFails, AtTask
    <3>2. \E ok \in BOOLEAN : EndTask(ok)
      BY <1>26, <2>1 DEF SummaryFails, SummaryContinues, SummaryEnds
    <3>3. QED
      BY <3>1, <3>2, EndImplements DEF Promised!Working
  <2>2. CASE resume # "reply"
    <3>1. Stage \in {"turn", "works"} /\ UNCHANGED <<turn, caller>>
      BY <1>26, <2>2, StageIs DEF SummaryFails, SummaryContinues, SummaryEnds
    <3>2. CASE pc' = resume /\ resume' = "none" /\ UNCHANGED <<records, queue>>
      <4>1. UNCHANGED Stage
        BY <1>26, <1>2, <2>2, <3>2, StageIs, StageBecomes DEF SummaryFails, Answering
      <4>2. QED
        BY <3>1, <3>2, <4>1, StageKept DEF queue
    <3>3. CASE RunFails(items)
      BY <3>1, <3>3, FailImplements DEF Promised!Working
    <3>4. QED
      BY <1>26, <2>2, <3>2, <3>3 DEF SummaryFails, SummaryContinues, SummaryEnds
  <2>3. QED
    BY <2>1, <2>2
<1>27. CASE ExtensionReturns
  <2>1. AtTask /\ \E ok \in BOOLEAN : EndTask(ok)
    BY <1>27 DEF ExtensionReturns, AtTask
  <2>2. QED
    BY <2>1, EndImplements DEF Promised!Working
<1>28. QED
  BY <1>4, <1>5, <1>6, <1>7, <1>8, <1>9, <1>10, <1>11, <1>12, <1>13, <1>14, <1>15, <1>16, <1>17,
     <1>18, <1>19, <1>20, <1>21, <1>22, <1>23, <1>24, <1>25, <1>26, <1>27 DEF Task

-----------------------------------------------------------------------------
(* The inductive invariant of the engine with its client.                  *)

Owed == IF AtTask THEN {caller} ELSE {}

\* All that is on its way is a response the client waits for, and each is there once.
Traffic == OnTheWay(Owed)

\* Prompt p is nowhere in the engine, nor on its way there.
Gone(p) ==
  /\ p \in 0 .. sent /\ p \notin Known
  /\ \A i \in DOMAIN commands : commands[i].kind = "prompt" => commands[i].id[1] # p

\* The same after a step.
GoneNext(p) ==
  /\ p \in 0 .. sent' /\ p \notin Known'
  /\ \A i \in DOMAIN commands' : commands'[i].kind = "prompt" => commands'[i].id[1] # p

\* What is handed back, or is going to be, is gone.
HandedBack ==
  /\ \A p \in Prompts : fate[p] = "returned" => Gone(p)
  /\ \A i \in DOMAIN records :
       /\ records[i].type = "queue_rejected" => Gone(records[i].prompt)
       /\ records[i].type = "response" /\ records[i].id[2] = "main" /\ ~records[i].ok => Gone(records[i].id[1])
  /\ \A i \in DOMAIN commands :
       commands[i].kind # "prompt" /\ commands[i].id[2] = "main" => Gone(commands[i].id[1])
  /\ AtTask /\ caller[2] = "main" => Gone(caller[1])

\* Until a submission begins a run of its own, a run is that of the prompt's exchange,
\* and the exchange learns once, and only from it, that it is over.
Busy == running \/ pc # "none"
Refused == rejection \/ \E i \in Responses(records) : records[i].id = <<exchange_id, "main">> /\ ~records[i].ok
Phases ==
  ~stray =>
    /\ kind # "prompt" => Settlements(records) = {} /\ (Busy => AtTask)
    /\ kind = "prompt" =>
         /\ Busy => ~settled /\ Settlements(records) = {}
         /\ <<exchange_id, "main">> \in Asked(commands) \/ Refused =>
              ~Busy /\ ~settled /\ Settlements(records) = {}
         /\ settled => Settlements(records) = {}
         /\ \A i, j \in Settlements(records) : i = j

Agreement == IInv /\ Answering /\ Exchange /\ Traffic /\ HandedBack /\ Phases

-----------------------------------------------------------------------------
(* The socket.                                                             *)

\* The engine's types include the socket's.
LEMMA TypedWire == (TypeOK => WireTyped) /\ (TypeOK' => WireTyped')
  BY DEF TypeOK, WireTyped

-----------------------------------------------------------------------------
(* The client: what it writes and reads.                                   *)

\* Seen from the engine, the client writes at the end and reads from the front.
LEMMA WritesAtEnd ==
  ASSUME NEW R, NEW s \in Seq(R), NEW t \in Seq(R)
  PROVE  Promised!IsPrefix(s, s \o t)
<1>1. Len(s) <= Len(s \o t) /\ SubSeq(s, 1, Len(s)) = SubSeq(s \o t, 1, Len(s))
  OBVIOUS
<1>2. QED
  BY <1>1 DEF Promised!IsPrefix

LEMMA ReadsFromFront ==
  ASSUME NEW R, NEW s \in Seq(R)
  PROVE  Promised!IsSuffix(s, s) /\ (s # <<>> => Promised!IsSuffix(Tail(s), s))
<1> DEFINE rev(q) == Promised!Reverse(q)
<1>1. \A q \in Seq(R) : /\ Len(rev(q)) = Len(q) /\ rev(q) \in Seq(R)
                        /\ \A i \in 1 .. Len(q) : rev(q)[i] = q[(Len(q) - i) + 1]
  BY DEF Promised!Reverse
<1>2. ASSUME s # <<>> PROVE Promised!IsPrefix(rev(Tail(s)), rev(s))
  <2>1. Tail(s) \in Seq(R) /\ Len(Tail(s)) = Len(s) - 1 /\ Len(s) \in Nat \ {0}
    BY <1>2
  <2>2. \A i \in 1 .. Len(Tail(s)) : Tail(s)[i] = s[i + 1]
    BY <1>2
  <2> DEFINE a == rev(Tail(s))
             b == rev(s)
  <2>3. a \in Seq(R) /\ b \in Seq(R) /\ Len(a) = Len(s) - 1 /\ Len(b) = Len(s)
    BY <1>1, <2>1
  <2>4. \A i \in 1 .. Len(a) : a[i] = Tail(s)[(Len(Tail(s)) - i) + 1] /\ b[i] = s[(Len(s) - i) + 1]
    <3> HIDE DEF rev
    <3>1. \A i \in 1 .. Len(Tail(s)) : rev(Tail(s))[i] = Tail(s)[(Len(Tail(s)) - i) + 1]
      BY <1>1, <2>1
    <3>2. \A i \in 1 .. Len(s) : rev(s)[i] = s[(Len(s) - i) + 1]
      BY <1>1
    <3> HIDE DEF a, b
    <3>3. /\ \A i \in 1 .. Len(Tail(s)) : a[i] = Tail(s)[(Len(Tail(s)) - i) + 1]
          /\ \A i \in 1 .. Len(s) : b[i] = s[(Len(s) - i) + 1]
      BY <3>1, <3>2 DEF a, b
    <3>4. \A i \in 1 .. Len(a) : i \in 1 .. Len(Tail(s)) /\ i \in 1 .. Len(s)
      BY <2>1, <2>3
    <3>5. QED
      BY <3>3, <3>4
  <2>5. \A i \in 1 .. Len(a) : a[i] = b[i]
    <3> TAKE i \in 1 .. Len(a)
    <3>1. (Len(Tail(s)) - i) + 1 \in 1 .. Len(Tail(s)) /\ ((Len(Tail(s)) - i) + 1) + 1 = (Len(s) - i) + 1
      BY <2>1, <2>3
    <3>2. QED
      BY <2>2, <2>4, <3>1
  <2> HIDE DEF a, b
  <2>6. SubSeq(a, 1, Len(a)) = SubSeq(b, 1, Len(a))
    BY <2>1, <2>3, <2>5
  <2>7. QED
    BY <2>1, <2>3, <2>6 DEF Promised!IsPrefix, a, b
<1>3. Promised!IsPrefix(rev(s), rev(s))
  BY <1>1 DEF Promised!IsPrefix
<1> HIDE DEF rev
<1>4. \A p, q : Promised!IsSuffix(p, q) <=> Promised!IsPrefix(rev(p), rev(q))
  BY DEF Promised!IsSuffix, rev
<1>5. QED
  BY <1>2, <1>3, <1>4

\* The commands cs carry the prompts that come after those of K, in order, up to n.
InTurn(cs, n, K) ==
  \A i \in DOMAIN cs : cs[i].kind = "prompt" =>
    /\ cs[i].id[1] \in 1 .. n
    /\ \A p \in K : p < cs[i].id[1]
    /\ \A j \in 1 .. (i - 1) : cs[j].kind = "prompt" => cs[j].id[1] < cs[i].id[1]

LEMMA InTurnMore ==
  ASSUME NEW n \in Nat, NEW m \in Nat, n <= m, NEW K \in SUBSET (1 .. n), NEW cs \in Seq(Command),
         InTurn(cs, n, K), NEW l \in Command, l.kind = "prompt" => l.id[1] = n + 1 /\ m = n + 1
  PROVE  InTurn(Append(cs, l), m, K)
<1> DEFINE g == Append(cs, l)
           k == Len(cs) + 1
<1>1. /\ k \in DOMAIN g /\ g[k] = l
      /\ \A i \in DOMAIN cs : i \in DOMAIN g /\ g[i] = cs[i]
      /\ \A i \in DOMAIN g : i \in DOMAIN cs \/ i = k
  BY AppendElements
<1>2. /\ \A i \in DOMAIN cs : \A j \in 1 .. (i - 1) : j \in DOMAIN cs
      /\ \A j \in 1 .. (k - 1) : j \in DOMAIN cs
  OBVIOUS
<1> HIDE DEF g, k
<1>3. ASSUME NEW i \in DOMAIN cs, g[i].kind = "prompt"
      PROVE  /\ g[i].id[1] \in 1 .. m /\ \A p \in K : p < g[i].id[1]
             /\ \A j \in 1 .. (i - 1) : g[j].kind = "prompt" => g[j].id[1] < g[i].id[1]
  <2>1. /\ cs[i].id[1] \in 1 .. n /\ \A p \in K : p < cs[i].id[1]
        /\ \A j \in 1 .. (i - 1) : cs[j].kind = "prompt" => cs[j].id[1] < cs[i].id[1]
    BY <1>1, <1>3 DEF InTurn
  <2>2. cs[i].id[1] \in 1 .. m /\ g[i] = cs[i]
    BY <1>1, <2>1
  <2>3. \A j \in 1 .. (i - 1) : g[j] = cs[j]
    BY <1>1, <1>2
  <2>4. QED
    BY <2>1, <2>2, <2>3
<1>4. ASSUME l.kind = "prompt"
      PROVE  /\ l.id[1] \in 1 .. m /\ \A p \in K : p < l.id[1]
             /\ \A j \in 1 .. (k - 1) : g[j].kind = "prompt" => g[j].id[1] < l.id[1]
  <2>1. l.id[1] = n + 1 /\ m = n + 1
    BY <1>4
  <2>2. \A j \in DOMAIN cs : cs[j].kind = "prompt" => cs[j].id[1] \in 1 .. n
    BY DEF InTurn
  <2>3. \A j \in DOMAIN cs : cs[j].kind = "prompt" => cs[j].id[1] < n + 1
    BY <2>2
  <2>4. \A p \in K : p < n + 1
    OBVIOUS
  <2>5. n + 1 \in 1 .. (n + 1)
    OBVIOUS
  <2>6. \A j \in 1 .. (k - 1) : g[j] = cs[j] /\ j \in DOMAIN cs
    BY <1>1, <1>2
  <2>7. QED
    BY <2>1, <2>3, <2>4, <2>5, <2>6
<1>5. QED
  BY <1>1, <1>3, <1>4 DEF InTurn, g

\* The client's steps keep what the engine maintains.
LEMMA UserKeeps ==
  ASSUME IInv, exchange_id \in 0 .. sent, UserStep
  PROVE  IInv'
<1>1. /\ ClientStep /\ UNCHANGED <<queue, signal, session, task>>
      /\ TypeOK /\ Control /\ Arriving /\ OnePlace /\ InOrder(items) /\ Saved /\ Retained /\ Requested /\ Whole
  BY DEF UserStep, engine, IInv
<1>2. UNCHANGED <<running, items, cancel, changed, current, provider, mem, context, files, archive,
                  lost, pc, turn, step, calls, resume, caller, nextCall>>
  BY <1>1 DEF queue, signal, session, task
<1>3. UNCHANGED <<Undelivered, Told, Stepping>>
  BY <1>2 DEF Undelivered, Told, Stepping
<1>4. Control' /\ OnePlace' /\ InOrder(items)' /\ Saved' /\ Retained' /\ Requested' /\ Whole'
  BY <1>1, <1>2, <1>3 DEF Control, OnePlace, InOrder, Saved, Retained, Requested, Whole
<1>5. UNCHANGED Known
  BY <1>2, <1>3 DEF Known
<1>6. /\ commands \in Seq(Command) /\ records \in Seq(Record) /\ sent \in Nat /\ sent \in 0 .. MaxPrompts
      /\ MaxPrompts \in Nat /\ Known \in SUBSET (1 .. sent) /\ InTurn(commands, sent, Known)
  BY <1>1, WireAssumption DEF TypeOK, Arriving, InTurn
<1> DEFINE Written == /\ commands' \in Seq(Command) /\ records' \in Seq(Record) /\ sent' \in 0 .. MaxPrompts
                      /\ Known' \subseteq 1 .. sent' /\ InTurn(commands', sent', Known')
<1>7. Written
  <2>1. CASE Reads
    BY <1>5, <1>6, <2>1 DEF Reads
  <2>2. ASSUME NEW l \in Command, Opens(l)
        PROVE  Written
    <3>1. /\ sent' = sent + 1 /\ UNCHANGED records /\ sent < MaxPrompts /\ l.id[1] = sent + 1
          /\ commands' = Append(commands, l)
      BY <2>2 DEF Opens
    <3>2. sent <= sent + 1 /\ sent + 1 \in Nat /\ sent + 1 \in 0 .. MaxPrompts /\ 1 .. sent \subseteq 1 .. (sent + 1)
      BY <1>6, <3>1
    <3>3. InTurn(Append(commands, l), sent + 1, Known)
      BY <1>6, <3>1, <3>2, InTurnMore
    <3>4. QED
      BY <1>5, <1>6, <3>1, <3>2, <3>3
  <2>3. ASSUME NEW l \in Command, Adds(l)
        PROVE  Written
    <3>1. UNCHANGED <<records, sent>> /\ l.kind # "prompt" /\ commands' = Append(commands, l)
      BY <2>3 DEF Adds
    <3>2. InTurn(Append(commands, l), sent, Known)
      BY <1>6, <3>1, InTurnMore
    <3>3. QED
      BY <1>5, <1>6, <3>1, <3>2
  <2>4. ASSUME NEW l \in Command, NEW m \in Command, AddsTwo(l, m)
        PROVE  Written
    <3>1. /\ UNCHANGED <<records, sent>> /\ l.kind # "prompt" /\ m.kind # "prompt"
          /\ commands' = Append(Append(commands, l), m)
      BY <2>4 DEF AddsTwo
    <3>2. Append(commands, l) \in Seq(Command) /\ Append(Append(commands, l), m) \in Seq(Command)
      BY <1>6
    <3>3. /\ commands \in Seq(Command) /\ sent \in Nat /\ sent <= sent /\ Known \in SUBSET (1 .. sent)
          /\ InTurn(commands, sent, Known)
      BY <1>6
    <3>4. InTurn(Append(Append(commands, l), m), sent, Known)
      <4>1. l.kind # "prompt"
        BY <3>1
      <4>2. InTurn(Append(commands, l), sent, Known)
        BY <3>3, <4>1, InTurnMore
      <4>3. m.kind # "prompt"
        BY <3>1
      <4> DEFINE g == Append(commands, l)
      <4>4. g \in Seq(Command) /\ InTurn(g, sent, Known)
        BY <3>2, <4>2
      <4> HIDE DEF g
      <4>5. InTurn(Append(g, m), sent, Known)
        BY <3>3, <4>3, <4>4, InTurnMore
      <4>6. QED
        BY <4>5 DEF g
    <3>5. QED
      BY <1>5, <1>6, <3>1, <3>2, <3>4
  <2>5. QED
    BY <1>1, <2>1, <2>2, <2>3, <2>4, TypedWire, ClientWire
<1>8. TypeOK'
  BY <1>1, <1>2, <1>7 DEF TypeOK
<1>9. Arriving'
  BY <1>7 DEF Arriving, InTurn
<1>10. QED
  BY <1>4, <1>8, <1>9 DEF IInv

\* Seen from the engine, a client step is anyone's at the other end.
LEMMA UserImplements ==
  ASSUME TypeOK, exchange_id \in 0 .. sent, UserStep
  PROVE  Promised!Outside
<1>1. ClientStep /\ UNCHANGED <<queue, signal, session, task>>
  BY DEF UserStep, engine
<1>2. UNCHANGED <<running, items, turn, caller, Stage>>
  BY <1>1, StageStays DEF queue, task
<1>3. UNCHANGED Promised!work
  BY <1>2, StageKept
<1>4. commands \in Seq(Command) /\ records \in Seq(Record)
  BY DEF TypeOK
<1>5. Promised!IsPrefix(commands, commands) /\ Promised!IsSuffix(records, records)
  <2>1. commands \o <<>> = commands /\ <<>> \in Seq(Command)
    BY <1>4
  <2>2. QED
    BY <1>4, <2>1, WritesAtEnd, ReadsFromFront
<1> DEFINE Seen == Promised!IsPrefix(commands, commands') /\ Promised!IsSuffix(records', records)
<1>6. Seen
  <2>1. CASE Reads
    BY <1>4, <1>5, <2>1, ReadsFromFront DEF Reads
  <2>2. ASSUME NEW l \in Command, commands' = Append(commands, l), UNCHANGED records
        PROVE  Seen
    <3>1. commands' = commands \o <<l>> /\ <<l>> \in Seq(Command)
      BY <1>4, <2>2
    <3>2. QED
      BY <1>4, <1>5, <2>2, <3>1, WritesAtEnd
  <2>3. ASSUME NEW l \in Command, NEW m \in Command, commands' = Append(Append(commands, l), m), UNCHANGED records
        PROVE  Seen
    <3>1. commands' = commands \o <<l, m>> /\ <<l, m>> \in Seq(Command)
      BY <1>4, <2>3
    <3>2. QED
      BY <1>4, <1>5, <2>3, <3>1, WritesAtEnd
  <2>4. QED
    BY <1>1, <2>1, <2>2, <2>3, TypedWire, ClientWire DEF Opens, Adds, AddsTwo
<1>7. QED
  BY <1>3, <1>6 DEF Promised!Outside

\* A lost engine.
LEMMA LoseImplements ==
  ASSUME Restart
  PROVE  Promised!Lose /\ UNCHANGED sent
<1>1. Stage' = "none"
  BY StageBecomes DEF Restart
<1>2. QED
  BY <1>1 DEF Restart, Promised!Lose

\* The stages and the places of the task correspond.
LEMMA StageTells ==
  ASSUME TypeOK, Answering
  PROVE  (Stage = "none" <=> pc = "none") /\ (Stage = "task" <=> AtTask) /\ (Stage = "over" <=> pc = "settle")
  BY DEF TypeOK, Answering, Stage, AtTask, Places

LEMMA StageTellsNext ==
  ASSUME TypeOK', Answering'
  PROVE  (Stage' = "none" <=> pc' = "none") /\ (Stage' = "task" <=> AtTask') /\ (Stage' = "over" <=> pc' = "settle")
  BY DEF TypeOK, Answering, Stage, AtTask, Places

\* A task knows whom to answer and where to return to.
LEMMA AnsweringLoop ==
  ASSUME TypeOK, Answering, Loop
  PROVE  Answering'
<1>1. CASE Abort
  BY <1>1 DEF Answering, AtTask, Abort, task
<1>2. CASE ClearQueue
  BY <1>2 DEF Answering, AtTask, ClearQueue, task
<1>3. CASE RefusePrompt
  BY <1>3 DEF Answering, AtTask, RefusePrompt, task
<1>4. CASE QueuePrompt
  BY <1>4 DEF Answering, AtTask, QueuePrompt, task
<1>5. CASE StartPrompt
  BY <1>5 DEF Answering, AtTask, StartPrompt, task, Spawn
<1>6. CASE StartCompact
  BY <1>6 DEF Answering, AtTask, StartCompact, task, Spawn
<1>7. CASE StartExtension
  BY <1>7 DEF Answering, AtTask, StartExtension, task, Spawn
<1>8. CASE NewSession
  BY <1>8 DEF Answering, AtTask, NewSession, task
<1>9. CASE SwitchSession
  BY <1>9 DEF Answering, AtTask, SwitchSession, task
<1>10. CASE SetModel
  BY <1>10 DEF Answering, AtTask, SetModel, task
<1>11. CASE RefuseCommand
  BY <1>11 DEF Answering, AtTask, RefuseCommand, task
<1>12. CASE GetState
  BY <1>12 DEF Answering, AtTask, GetState, task
<1>13. QED
  BY <1>1, <1>2, <1>3, <1>4, <1>5, <1>6, <1>7, <1>8, <1>9, <1>10, <1>11, <1>12 DEF Loop

LEMMA AnsweringTask ==
  ASSUME TypeOK, Answering, Task
  PROVE  Answering'
<1> USE DEF Answering, AtTask
<1>1. pc = "summary" => resume \in {"push", "steer", "recheck", "reply"}
  BY DEF TypeOK
<1>2. CASE Begin
  BY <1>1, <1>2 DEF Begin
<1>3. CASE StartSummary
  BY <1>1, <1>3 DEF StartSummary
<1>4. CASE PushPrompt
  BY <1>1, <1>4 DEF PushPrompt, RunFails
<1>5. CASE LeaveSteps
  BY <1>1, <1>5 DEF LeaveSteps
<1>6. CASE TakeSteering
  BY <1>1, <1>6 DEF TakeSteering, RunFails, AtSteer
<1>7. CASE NoSteering
  BY <1>1, <1>7 DEF NoSteering, AtSteer
<1>8. CASE Pressure
  BY <1>1, <1>8 DEF Pressure, RunFails
<1>9. CASE StillTooLarge
  BY <1>1, <1>9 DEF StillTooLarge, RunFails
<1>10. CASE CallModel
  BY <1>1, <1>10 DEF CallModel
<1>11. CASE Reply
  BY <1>1, <1>11 DEF Reply, RunFails
<1>12. CASE ModelFails
  BY <1>1, <1>12 DEF ModelFails, RunFails
<1>13. CASE ModelCancelled
  BY <1>1, <1>13 DEF ModelCancelled
<1>14. CASE StartTool
  BY <1>1, <1>14 DEF StartTool
<1>15. CASE SkipTool
  BY <1>1, <1>15 DEF SkipTool, RecordResult, RunFails
<1>16. CASE ToolReturns
  BY <1>1, <1>16 DEF ToolReturns, RecordResult, RunFails
<1>17. CASE OutOfSteps
  BY <1>1, <1>17 DEF OutOfSteps, RunFails
<1>18. CASE StopCancelled
  BY <1>1, <1>18 DEF StopCancelled
<1>19. CASE NextTurn
  BY <1>1, <1>19 DEF NextTurn
<1>20. CASE LastTurn
  BY <1>1, <1>20 DEF LastTurn
<1>21. CASE Settle
  BY <1>1, <1>21 DEF Settle, Drop
<1>22. CASE ManualSummary
  BY <1>1, <1>22 DEF ManualSummary, EndTask, Drop
<1>23. CASE SummaryArrives
  BY <1>1, <1>23 DEF SummaryArrives, SummaryContinues, SummaryEnds, EndTask, Drop, RunFails
<1>24. CASE SummaryFails
  BY <1>1, <1>24 DEF SummaryFails, SummaryEnds, EndTask, Drop, RunFails
<1>25. CASE ExtensionReturns
  BY <1>1, <1>25 DEF ExtensionReturns, EndTask, Drop
<1>26. QED
  BY <1>2, <1>3, <1>4, <1>5, <1>6, <1>7, <1>8, <1>9, <1>10, <1>11, <1>12, <1>13, <1>14, <1>15, <1>16, <1>17, <1>18, <1>19, <1>20, <1>21, <1>22, <1>23, <1>24, <1>25 DEF Task

\* Only a failing run hands anything back.
LEMMA FailsBy ==
  ASSUME Answering, Task, pc' = "settle"
  PROVE  \/ UNCHANGED records
         \/ Emit(<<QueueUpdate(<<>>)>>)
         \/ RunFails(items) /\ pc \notin {"step", "steer"}
         \/ TakeSteering /\ RunFails(Tail(items))
<1>1. CASE Begin
  BY <1>1 DEF Begin
<1>2. CASE StartSummary
  BY <1>2 DEF StartSummary, wire
<1>3. CASE PushPrompt
  BY <1>3 DEF PushPrompt
<1>4. CASE LeaveSteps
  BY <1>4 DEF LeaveSteps, wire
<1>5. CASE TakeSteering
  BY <1>5 DEF TakeSteering, AtSteer
<1>6. CASE NoSteering
  BY <1>6 DEF NoSteering, AtSteer, wire
<1>7. CASE Pressure
  BY <1>7 DEF Pressure
<1>8. CASE StillTooLarge
  BY <1>8 DEF StillTooLarge
<1>9. CASE CallModel
  BY <1>9 DEF CallModel, wire
<1>10. CASE Reply
  BY <1>10 DEF Reply
<1>11. CASE ModelFails
  BY <1>11 DEF ModelFails
<1>12. CASE ModelCancelled
  BY <1>12 DEF ModelCancelled, wire
<1>13. CASE StartTool
  BY <1>13 DEF StartTool, wire
<1>14. CASE SkipTool
  BY <1>14 DEF SkipTool, RecordResult
<1>15. CASE ToolReturns
  BY <1>15 DEF ToolReturns, RecordResult
<1>16. CASE OutOfSteps
  BY <1>16 DEF OutOfSteps
<1>17. CASE StopCancelled
  BY <1>17 DEF StopCancelled, wire
<1>18. CASE NextTurn
  BY <1>18 DEF NextTurn
<1>19. CASE LastTurn
  BY <1>19 DEF LastTurn
<1>20. CASE Settle
  BY <1>20 DEF Settle, Drop
<1>21. CASE ManualSummary
  BY <1>21 DEF ManualSummary, EndTask, Drop
<1>22. CASE SummaryArrives
  BY <1>22 DEF SummaryArrives, SummaryContinues, SummaryEnds, EndTask, Drop, Answering
<1>23. CASE SummaryFails
  BY <1>23 DEF SummaryFails, SummaryEnds, EndTask, Drop, Answering
<1>24. CASE ExtensionReturns
  BY <1>24 DEF ExtensionReturns, EndTask, Drop
<1>25. QED
  BY <1>1, <1>2, <1>3, <1>4, <1>5, <1>6, <1>7, <1>8, <1>9, <1>10, <1>11, <1>12, <1>13, <1>14, <1>15, <1>16, <1>17, <1>18, <1>19, <1>20, <1>21, <1>22, <1>23, <1>24 DEF Task

-----------------------------------------------------------------------------
(* The engine: what it takes and tells.                                    *)

\* One record, or two.
Tells(a, b) == Emit(<<a>>) \/ Emit(<<a, b>>)

\* A command is answered at once, and the work goes on as it was.
AnswersNow(c) ==
  /\ UNCHANGED <<running, pc, resume, caller>>
  /\ \E ok \in BOOLEAN, b \in Record :
       /\ Tells(Response(c.id, ok), b) /\ b.type = "queue_update"
       /\ c.kind = "prompt" /\ ~ok => RefusePrompt

\* A prompt begins a run.
Begins(c) ==
  /\ c.kind = "prompt" /\ ~running /\ pc = "none" /\ pc' = "begin"
  /\ UNCHANGED caller /\ Emit(<<Response(c.id, TRUE)>>)

\* A task begins that answers later.
BeginsTask(c) ==
  /\ c.kind \in {"compact", "extension_command"} /\ ~running /\ pc = "none"
  /\ pc' \in {"compact", "extension"} /\ caller' = c.id /\ UNCHANGED records

LEMMA LoopTells ==
  ASSUME IInv, Loop
  PROVE  /\ commands # <<>> /\ commands' = Tail(commands) /\ UNCHANGED sent /\ Head(commands) \in Command
         /\ AnswersNow(Head(commands)) \/ Begins(Head(commands)) \/ BeginsTask(Head(commands))
<1>1. TypeOK /\ Arriving
  BY DEF IInv
<1> DEFINE c == Head(commands)
<1>2. \A q \in Seq(Queued) : QueueUpdate(q) \in Record /\ QueueUpdate(q).type = "queue_update"
  BY RecordTypes DEF QueueUpdate
<1>3. <<>> \in Seq(Queued) /\ commands \in Seq(Command)
  BY <1>1 DEF TypeOK
<1> DEFINE b == QueueUpdate(<<>>)
<1>4. b \in Record /\ b.type = "queue_update"
  BY <1>2, <1>3
<1> DEFINE Taken == /\ commands # <<>> /\ commands' = Tail(commands) /\ UNCHANGED sent
<1>5. commands # <<>> => c \in Command
  BY <1>3
<1> HIDE DEF c, b
<1>6. ASSUME NEW k, Take(k)
      PROVE  commands # <<>> /\ commands' = Tail(commands) /\ c.kind = k
  BY <1>6 DEF Take, c
<1>7. ASSUME NEW k, Take(k), NEW ok \in BOOLEAN, Answer(ok), k = "prompt" /\ ~ok => RefusePrompt,
             UNCHANGED <<running, pc, resume, caller, sent>>
      PROVE  Taken /\ AnswersNow(c)
  <2>1. c.kind = k /\ Taken
    BY <1>6, <1>7
  <2>2. Emit(<<Response(c.id, ok)>>)
    BY <1>7 DEF Answer, c
  <2>3. Tells(Response(c.id, ok), b)
    BY <2>2 DEF Tells
  <2>4. QED
    BY <1>4, <1>7, <2>1, <2>3 DEF AnswersNow
<1>8. ASSUME NEW k, Take(k), NEW e \in Record, e.type = "queue_update", Emit(<<Response(c.id, TRUE), e>>),
             UNCHANGED <<running, pc, resume, caller, sent>>
      PROVE  Taken /\ AnswersNow(c)
  <2>1. Taken
    BY <1>6, <1>8
  <2>2. Tells(Response(c.id, TRUE), e)
    BY <1>8 DEF Tells
  <2>3. QED
    BY <1>8, <2>1, <2>2 DEF AnswersNow
<1>9. SUFFICES Taken /\ (AnswersNow(c) \/ Begins(c) \/ BeginsTask(c))
  BY <1>5 DEF c
<1>10. CASE Abort
  <2>1. Take("abort") /\ Answer(TRUE) /\ UNCHANGED <<running, pc, resume, caller, sent>>
    BY <1>10 DEF Abort, queue, task
  <2>2. QED
    BY <1>7, <2>1
<1>11. CASE ClearQueue
  <2>1. Take("clear_queue") /\ UNCHANGED <<running, pc, resume, caller, sent>>
    BY <1>11 DEF ClearQueue, task
  <2>2. Emit(<<Response(c.id, TRUE), b>>)
    BY <1>11 DEF ClearQueue, c, b
  <2>3. QED
    BY <1>4, <1>8, <2>1, <2>2
<1>12. CASE RefusePrompt
  <2>1. Take("prompt") /\ Answer(FALSE) /\ UNCHANGED <<running, pc, resume, caller, sent>>
    BY <1>12 DEF RefusePrompt, queue, task
  <2>2. QED
    BY <1>7, <1>12, <2>1
<1>13. CASE QueuePrompt
  <2> DEFINE q == Insert(items, Submission(Head(commands)))
             e == QueueUpdate(q)
  <2>1. Take("prompt") /\ UNCHANGED <<running, pc, resume, caller, sent>>
    BY <1>13 DEF QueuePrompt, task
  <2>2. e.type = "queue_update"
    BY DEF QueueUpdate
  <2>3. Emit(<<Response(c.id, TRUE), e>>)
    BY <1>13 DEF QueuePrompt, c
  <2>4. Submission(Head(commands)) \in Queued
    BY <1>1, <2>1, ArrivesQueued
  <2>5. e \in Record
    BY <1>1, <1>2, <2>4, InsertAtPlace DEF TypeOK
  <2> HIDE DEF e
  <2>6. QED
    BY <1>8, <2>1, <2>2, <2>3, <2>5
<1>14. CASE StartPrompt
  <2>1. Take("prompt") /\ ~running /\ pc = "none" /\ pc' = "begin" /\ UNCHANGED <<caller, sent>> /\ Answer(TRUE)
    BY <1>14 DEF StartPrompt, Spawn
  <2>2. Taken /\ c.kind = "prompt"
    BY <1>6, <2>1
  <2>3. QED
    BY <2>1, <2>2 DEF Begins, Answer, c
<1>15. CASE StartCompact
  <2>1. Take("compact") /\ ~running /\ pc = "none" /\ pc' = "compact" /\ UNCHANGED <<records, sent>> /\ caller' = c.id
    BY <1>15 DEF StartCompact, Spawn, c
  <2>2. Taken /\ c.kind = "compact"
    BY <1>6, <2>1
  <2>3. QED
    BY <2>1, <2>2 DEF BeginsTask
<1>16. CASE StartExtension
  <2>1. Take("extension_command") /\ ~running /\ pc = "none" /\ pc' = "extension" /\ UNCHANGED <<records, sent>> /\ caller' = c.id
    BY <1>16 DEF StartExtension, Spawn, c
  <2>2. Taken /\ c.kind = "extension_command"
    BY <1>6, <2>1
  <2>3. QED
    BY <2>1, <2>2 DEF BeginsTask
<1>17. CASE NewSession
  <2>1. Take("new_session") /\ Answer(TRUE) /\ UNCHANGED <<running, pc, resume, caller, sent>>
    BY <1>17 DEF NewSession, queue, task
  <2>2. QED
    BY <1>7, <2>1
<1>18. CASE SwitchSession
  <2>1. Take("switch_session") /\ Answer(TRUE) /\ UNCHANGED <<running, pc, resume, caller, sent>>
    BY <1>18 DEF SwitchSession, queue, task
  <2>2. QED
    BY <1>7, <2>1
<1>19. CASE SetModel
  <2>1. Take("set_model") /\ (Answer(TRUE) \/ Answer(FALSE)) /\ UNCHANGED <<running, pc, resume, caller, sent>>
    BY <1>19 DEF SetModel, queue, task
  <2>2. CASE Answer(TRUE)
    BY <1>7, <2>1, <2>2
  <2>3. CASE Answer(FALSE)
    <3>1. "set_model" = "prompt" /\ ~FALSE => RefusePrompt
      OBVIOUS
    <3>2. QED
      BY <1>7, <2>1, <2>3, <3>1
  <2>4. QED
    BY <2>1, <2>2, <2>3
<1>20. CASE RefuseCommand
  <2>1. PICK k \in {"compact", "extension_command", "new_session", "switch_session", "set_model"} : Take(k)
    BY <1>20 DEF RefuseCommand
  <2>2. Answer(FALSE) /\ UNCHANGED <<running, pc, resume, caller, sent>>
    BY <1>20 DEF RefuseCommand, queue, task
  <2>3. QED
    BY <1>7, <2>1, <2>2
<1>21. CASE GetState
  <2>1. Take("get_state") /\ Answer(TRUE) /\ UNCHANGED <<running, pc, resume, caller, sent>>
    BY <1>21 DEF GetState, queue, task
  <2>2. QED
    BY <1>7, <2>1
<1>22. QED
  BY <1>10, <1>11, <1>12, <1>13, <1>14, <1>15, <1>16, <1>17, <1>18, <1>19, <1>20, <1>21 DEF Loop

\* A task of its own answers and is over.
Ends ==
  /\ AtTask /\ pc' = "none" /\ ~running'
  /\ \E ok \in BOOLEAN : Emit(<<Response(caller, ok)>>)

\* A run settles.
Closes ==
  /\ ~AtTask /\ pc = "settle" /\ pc' = "none" /\ ~running'
  /\ Emit(<<QueueUpdate(<<>>), Settled>>)

\* The work goes on; nothing is answered, and no run settles.
GoesOn ==
  /\ pc # "none" /\ pc' # "none" /\ UNCHANGED caller /\ (AtTask' <=> AtTask)
  /\ \/ UNCHANGED records
     \/ \E a, b \in Record :
          /\ Tells(a, b) /\ a.type \notin {"response", "agent_settled"} /\ b.type \notin {"response", "agent_settled"}
          /\ pc' # "settle" => a.type # "queue_rejected" /\ b.type # "queue_rejected"

\* Two sequences of one record make one of two.
LEMMA TwoRecords ==
  ASSUME NEW a \in Record, NEW b \in Record
  PROVE  <<a>> \o <<b>> = <<a, b>>
<1> DEFINE g == <<a>> \o <<b>>
           h == <<a, b>>
<1>1. g \in Seq(Record) /\ Len(g) = 2 /\ g[1] = a /\ g[2] = b
  OBVIOUS
<1>2. h \in Seq(Record) /\ Len(h) = 2 /\ h[1] = a /\ h[2] = b
  OBVIOUS
<1> HIDE DEF g, h
<1>3. \A i \in 1 .. Len(g) : g[i] = h[i]
  BY <1>1, <1>2
<1>4. g = h
  BY <1>1, <1>2, <1>3, SeqEqual
<1>5. QED
  BY <1>4 DEF g, h

LEMMA TaskTells ==
  ASSUME IInv, TypeOK', Answering, Task
  PROVE  UNCHANGED <<commands, sent>> /\ (Ends \/ Closes \/ GoesOn)
<1>1. TypeOK /\ Control
  BY DEF IInv
<1>2. Answering'
  BY <1>1, AnsweringTask
<1>3. (Stage = "none" <=> pc = "none") /\ (Stage = "task" <=> AtTask) /\ (Stage = "over" <=> pc = "settle")
  BY <1>1, StageTells
<1>4. (Stage' = "none" <=> pc' = "none") /\ (Stage' = "task" <=> AtTask') /\ (Stage' = "over" <=> pc' = "settle")
  BY <1>2, StageTellsNext
<1>5. UNCHANGED <<commands, sent>> /\ (Promised!Working \/ UNCHANGED <<records, Promised!work>>)
  BY <1>1, TaskImplements
<1>6. pc # "none"
  BY DEF Task, Begin, StartSummary, PushPrompt, LeaveSteps, TakeSteering, NoSteering, AtSteer, Pressure,
    StillTooLarge, CallModel, Reply, ModelFails, ModelCancelled, StartTool, SkipTool, ToolReturns, RecordResult,
    OutOfSteps, StopCancelled, NextTurn, LastTurn, Settle, ManualSummary, SummaryArrives, SummaryFails,
    ExtensionReturns
<1> DEFINE Plain(r) == r \in Record /\ r.type \notin {"response", "agent_settled"}
<1>7. items \in Seq(Queued) /\ (items # <<>> => Head(items) \in Queued /\ Tail(items) \in Seq(Queued))
  <2>1. items \in Seq(Queued)
    BY <1>1 DEF TypeOK
  <2>2. QED
    BY <2>1
<1>8. ASSUME NEW q \in Seq(Queued)
      PROVE  Plain(QueueUpdate(q)) /\ QueueUpdate(q).type # "queue_rejected"
  BY RecordTypes DEF QueueUpdate
<1>9. ASSUME NEW p \in Prompts
      PROVE  /\ Plain(MessageStart(p)) /\ MessageStart(p).type # "queue_rejected"
             /\ Plain(QueueRejected(p))
  BY RecordTypes DEF MessageStart, QueueRejected
<1>10. /\ Plain(AgentStart) /\ AgentStart.type # "queue_rejected"
       /\ Plain(Failed) /\ Failed.type # "queue_rejected"
  BY RecordTypes DEF AgentStart, Failed
<1> HIDE DEF Plain
<1>11. ASSUME NEW a, NEW b, Plain(a), Plain(b), Tells(a, b), Stage \notin {"none", "task"}, Stage' \notin {"none", "task"},
              UNCHANGED caller, a.type # "queue_rejected",
              b.type # "queue_rejected" \/ Stage' = "over"
       PROVE  GoesOn
  <2>1. a \in Record /\ b \in Record /\ a.type \notin {"response", "agent_settled"} /\ b.type \notin {"response", "agent_settled"}
    BY <1>11 DEF Plain
  <2>2. pc # "none" /\ pc' # "none" /\ ~AtTask /\ ~AtTask'
    BY <1>3, <1>4, <1>11
  <2>3. b.type # "queue_rejected" \/ pc' = "settle"
    BY <1>4, <1>11
  <2>4. QED
    BY <1>11, <2>1, <2>2, <2>3 DEF GoesOn
<1>12. CASE UNCHANGED <<records, Promised!work>>
  <2>1. UNCHANGED <<records, Stage, caller>>
    BY <1>12 DEF Promised!work
  <2>2. QED
    BY <1>3, <1>4, <1>5, <1>6, <2>1 DEF GoesOn
<1>13. CASE Promised!Announce
  <2>1. Tells(AgentStart, Failed) /\ Stage = "begins" /\ Stage' = "turn" /\ UNCHANGED caller
    BY <1>13, SameWire DEF Promised!Announce, Tells
  <2>2. QED
    BY <1>5, <1>10, <1>11, <2>1
<1>14. CASE Promised!DeliverLead
  <2>1. Stage = "turn" /\ Stage' = "works" /\ UNCHANGED caller
        /\ Emit(<<MessageStart(IF Stage \in {"begins", "turn"} THEN turn ELSE 0)>>)
    BY <1>14, SameWire DEF Promised!DeliverLead
  <2>2. Tells(MessageStart(turn), Failed)
    BY <2>1 DEF Tells
  <2>3. turn \in Prompts
    <3>1. turn \in Undelivered
      BY <1>1, <2>1 DEF Stage, Undelivered, TypeOK, Places
    <3>2. QED
      BY <1>1, <3>1 DEF Control
  <2>4. QED
    BY <1>5, <1>9, <1>10, <1>11, <2>1, <2>2, <2>3
<1>15. CASE Promised!DeliverSteering
  <2>1. Stage = "works" /\ Stage' = "works" /\ UNCHANGED caller /\ items # <<>>
        /\ Emit(<<MessageStart(Head(items).id), QueueUpdate(Tail(items))>>)
    BY <1>15, SameWire DEF Promised!DeliverSteering
  <2>2. Head(items).id \in Prompts /\ Tail(items) \in Seq(Queued)
    BY <1>7, <2>1 DEF Queued
  <2> DEFINE a == MessageStart(Head(items).id)
             b == QueueUpdate(Tail(items))
  <2>3. Plain(a) /\ a.type # "queue_rejected" /\ Plain(b) /\ b.type # "queue_rejected" /\ Tells(a, b)
    BY <1>8, <1>9, <2>1, <2>2 DEF Tells
  <2> HIDE DEF a, b
  <2>4. QED
    BY <1>5, <1>11, <2>1, <2>3
<1>16. CASE Promised!TakeNext
  <2>1. Stage = "works" /\ Stage' = "turn" /\ UNCHANGED caller /\ items # <<>> /\ Emit(<<QueueUpdate(Tail(items))>>)
    BY <1>16, SameWire DEF Promised!TakeNext
  <2> DEFINE a == QueueUpdate(Tail(items))
  <2>2. Plain(a) /\ a.type # "queue_rejected" /\ Tells(a, Failed)
    BY <1>7, <1>8, <2>1 DEF Tells
  <2> HIDE DEF a
  <2>3. QED
    BY <1>5, <1>10, <1>11, <2>1, <2>2
<1>17. CASE Promised!LeaveIdle
  <2>1. Stage = "works" /\ Stage' = "over" /\ UNCHANGED caller /\ Emit(<<QueueUpdate(<<>>)>>)
    BY <1>17, SameWire DEF Promised!LeaveIdle
  <2> DEFINE a == QueueUpdate(<<>>)
  <2>2. Plain(a) /\ a.type # "queue_rejected" /\ Tells(a, Failed)
    BY <1>8, <2>1, EmptySeq DEF Tells
  <2> HIDE DEF a
  <2>3. QED
    BY <1>5, <1>10, <1>11, <2>1, <2>2
<1>18. CASE Promised!LeaveCancelled
  <2>1. Stage = "works" /\ Stage' = "over" /\ UNCHANGED <<caller, records>>
    BY <1>18 DEF Promised!LeaveCancelled
  <2>2. QED
    BY <1>3, <1>4, <1>5, <2>1 DEF GoesOn
<1>19. CASE Promised!LeaveFailed
  <2>1. Stage \in {"turn", "works"} /\ Stage' = "over" /\ UNCHANGED caller
    BY <1>19 DEF Promised!LeaveFailed
  <2>2. PICK q \in {items} \cup (IF items = <<>> THEN {} ELSE {Tail(items)}) :
          Emit(<<Failed>> \o IF q = <<>> THEN <<>> ELSE <<QueueRejected(Last(q).id)>>)
    BY <1>19, SameWire DEF Promised!LeaveFailed
  <2>3. q \in Seq(Queued)
    BY <1>7, <2>2
  <2>4. CASE q = <<>>
    <3>1. <<Failed>> \o <<>> = <<Failed>>
      OBVIOUS
    <3>2. Tells(Failed, Failed)
      BY <2>2, <2>4, <3>1 DEF Tells
    <3>3. QED
      BY <1>5, <1>10, <1>11, <2>1, <3>2
  <2>5. CASE q # <<>>
    <3>1. Last(q) \in Queued
      BY <2>3, <2>5 DEF Last
    <3> DEFINE b == QueueRejected(Last(q).id)
    <3>2. Plain(b)
      BY <1>9, <3>1 DEF Queued
    <3> HIDE DEF b
    <3>3. <<Failed>> \o <<b>> = <<Failed, b>>
      BY <1>10, <3>2, TwoRecords DEF Plain
    <3>4. Tells(Failed, b)
      BY <2>2, <2>5, <3>3 DEF Tells, b
    <3>5. QED
      BY <1>5, <1>10, <1>11, <2>1, <3>2, <3>4
  <2>6. QED
    BY <2>4, <2>5
<1>20. CASE Promised!Close
  <2>1. Stage = "over" /\ Stage' = "none" /\ running' = FALSE /\ Emit(<<QueueUpdate(<<>>), Settled>>)
    BY <1>20, SameWire DEF Promised!Close
  <2>2. QED
    BY <1>3, <1>4, <1>5, <2>1 DEF Closes
<1>21. CASE Promised!EndOfTask
  <2>1. Stage = "task" /\ Stage' = "none" /\ running' = FALSE /\ \E ok \in BOOLEAN : Emit(<<Response(caller, ok)>>)
    BY <1>21, SameWire DEF Promised!EndOfTask
  <2>2. QED
    BY <1>3, <1>4, <1>5, <2>1 DEF Ends
<1>22. QED
  BY <1>5, <1>12, <1>13, <1>14, <1>15, <1>16, <1>17, <1>18, <1>19, <1>20, <1>21 DEF Promised!Working

-----------------------------------------------------------------------------
(* What is on its way is what the client waits for.                        *)

\* The engine answers each command once, at once or at the end of its task.
LEMMA TrafficLoop ==
  ASSUME IInv, TypeOK', Answering, Traffic, Loop, UNCHANGED client
  PROVE  Traffic'
<1> DEFINE c == Head(commands)
<1>1. /\ commands # <<>> /\ commands' = Tail(commands) /\ c \in Command
      /\ AnswersNow(c) \/ Begins(c) \/ BeginsTask(c)
  BY LoopTells
<1>2. commands \in Seq(Command) /\ records \in Seq(Record) /\ caller \in Ids
  BY DEF IInv, TypeOK
<1>3. /\ \A id \in Asked(commands) \cup Answered(records) \cup Owed : Expects(id)
      /\ AskedOnce(commands) /\ AnsweredOnce(records) /\ Asked(commands) \cap Answered(records) = {}
      /\ Asked(commands) \cap Owed = {} /\ Answered(records) \cap Owed = {}
  BY DEF Traffic, OnTheWay
<1>4. Asked(commands') = Asked(commands) \ {c.id} /\ c.id \in Asked(commands) /\ AskedOnce(commands')
  BY <1>1, <1>2, <1>3, AskedLess
<1>5. c.id \in Ids
  BY <1>1 DEF Command
<1> HIDE DEF c
<1>6. ASSUME NEW ok \in BOOLEAN, NEW b \in Record, Tells(Response(c.id, ok), b), b.type = "queue_update"
      PROVE  Answered(records') \subseteq Answered(records) \cup {c.id} /\ AnsweredOnce(records')
  <2> DEFINE a == Response(c.id, ok)
  <2>1. a \in Record /\ a.id = c.id /\ a.type = "response"
    BY <1>5, RecordTypes DEF Response
  <2>2. Emit(<<a>>) \/ Emit(<<a, b>>)
    BY <1>6 DEF Tells
  <2> HIDE DEF a
  <2>3. b.type # "response" /\ a.type # "agent_settled"
    BY <1>6, <2>1
  <2>4. a.id \notin Answered(records)
    BY <1>3, <1>4, <2>1
  <2>5. QED
    BY <1>2, <1>3, <2>1, <2>2, <2>3, <2>4, EmitTells
<1>7. CASE AnswersNow(c)
  <2>1. UNCHANGED Owed
    BY <1>7 DEF AnswersNow, Owed, AtTask
  <2>2. Answered(records') \subseteq Answered(records) \cup {c.id} /\ AnsweredOnce(records')
    BY <1>6, <1>7 DEF AnswersNow
  <2>3. QED
    BY <1>3, <1>4, <2>1, <2>2, ExpectsSame DEF Traffic, OnTheWay
<1>8. CASE Begins(c)
  <2>1. Owed = {} /\ Owed' = {}
    BY <1>8 DEF Begins, Owed, AtTask
  <2> DEFINE b == QueueUpdate(<<>>)
  <2>2. b \in Record /\ b.type = "queue_update" /\ Tells(Response(c.id, TRUE), b)
    BY <1>8, RecordTypes, EmptySeq DEF Begins, Tells, QueueUpdate
  <2> HIDE DEF b
  <2>3. Answered(records') \subseteq Answered(records) \cup {c.id} /\ AnsweredOnce(records')
    BY <1>6, <2>2
  <2>4. QED
    BY <1>3, <1>4, <2>1, <2>3, ExpectsSame DEF Traffic, OnTheWay
<1>9. CASE BeginsTask(c)
  <2>1. Owed = {} /\ Owed' = {c.id} /\ UNCHANGED records
    BY <1>9 DEF BeginsTask, Owed, AtTask
  <2>2. QED
    BY <1>3, <1>4, <2>1, ExpectsSame DEF Traffic, OnTheWay
<1>10. QED
  BY <1>1, <1>7, <1>8, <1>9

LEMMA TrafficTask ==
  ASSUME IInv, TypeOK', Answering, Traffic, Task, UNCHANGED client
  PROVE  Traffic'
<1>1. UNCHANGED commands /\ (Ends \/ Closes \/ GoesOn)
  BY TaskTells
<1>2. commands \in Seq(Command) /\ records \in Seq(Record) /\ caller \in Ids
  BY DEF IInv, TypeOK
<1>3. /\ \A id \in Asked(commands) \cup Answered(records) \cup Owed : Expects(id)
      /\ AskedOnce(commands) /\ AnsweredOnce(records) /\ Asked(commands) \cap Answered(records) = {}
      /\ Asked(commands) \cap Owed = {} /\ Answered(records) \cap Owed = {}
  BY DEF Traffic, OnTheWay
<1>4. CASE Ends
  <2>1. Owed = {caller} /\ Owed' = {}
    BY <1>4 DEF Ends, Owed, AtTask
  <2>2. PICK ok \in BOOLEAN : Emit(<<Response(caller, ok)>>)
    BY <1>4 DEF Ends
  <2> DEFINE a == Response(caller, ok)
  <2>3. a \in Record /\ a.id = caller /\ a.type = "response" /\ Emit(<<a>>)
    BY <1>2, <2>2, RecordTypes DEF Response
  <2>4. Failed \in Record /\ Failed.type # "response"
    BY RecordTypes DEF Failed
  <2> HIDE DEF a
  <2>5. Emit(<<a>>) \/ Emit(<<a, Failed>>)
    BY <2>3
  <2>6. a.id \notin Answered(records) /\ a.type # "agent_settled"
    BY <1>3, <2>1, <2>3
  <2>7. Answered(records') \subseteq Answered(records) \cup {caller} /\ AnsweredOnce(records')
    BY <1>2, <1>3, <2>3, <2>4, <2>5, <2>6, EmitTells
  <2>8. QED
    BY <1>1, <1>3, <2>1, <2>7, ExpectsSame DEF Traffic, OnTheWay
<1>5. ASSUME NEW a \in Record, NEW b \in Record, Tells(a, b), a.type \notin {"response", "agent_settled"}, b.type # "response"
      PROVE  Answered(records') \subseteq Answered(records) /\ AnsweredOnce(records')
  <2>1. Emit(<<a>>) \/ Emit(<<a, b>>)
    BY <1>5 DEF Tells
  <2>2. QED
    BY <1>2, <1>3, <1>5, <2>1, EmitTells
<1>6. CASE Closes
  <2>1. Owed = {} /\ Owed' = {}
    BY <1>6 DEF Closes, Owed, AtTask
  <2> DEFINE a == QueueUpdate(<<>>)
  <2>2. a \in Record /\ a.type = "queue_update" /\ Tells(a, Settled) /\ Settled \in Record /\ Settled.type = "agent_settled"
    BY <1>6, RecordTypes, EmptySeq DEF Closes, QueueUpdate, Settled, Tells
  <2> HIDE DEF a
  <2>3. Answered(records') \subseteq Answered(records) /\ AnsweredOnce(records')
    BY <1>5, <2>2
  <2>4. QED
    BY <1>1, <1>3, <2>1, <2>3, ExpectsSame DEF Traffic, OnTheWay
<1>7. CASE GoesOn
  <2>1. UNCHANGED Owed
    BY <1>7 DEF GoesOn, Owed
  <2>2. Answered(records') \subseteq Answered(records) /\ AnsweredOnce(records')
    BY <1>3, <1>5, <1>7 DEF GoesOn
  <2>3. QED
    BY <1>1, <1>3, <2>1, <2>2, ExpectsSame DEF Traffic, OnTheWay
<1>8. QED
  BY <1>1, <1>4, <1>6, <1>7

\* Nothing is on its way to or from a new engine.
LEMMA TrafficLost ==
  ASSUME Restart
  PROVE  Traffic'
<1>1. commands' = <<>> /\ records' = <<>> /\ ~AtTask'
  BY DEF Restart, AtTask
<1>2. QED
  BY <1>1 DEF Traffic, OnTheWay, Asked, AskedOnce, Responses, Answered, AnsweredOnce, Owed

-----------------------------------------------------------------------------
(* The client's own state.                                                 *)

\* The client starts over.
LEMMA ExchangeLost ==
  ASSUME TypeOK, Exchange, Reconnect
  PROVE  Exchange'
<1>1. commands' = <<>> /\ UNCHANGED <<sent, exchange_id>> /\ kind' = "none" /\ FreshLocals
  BY DEF Reconnect, Restart, ForgetExchange
<1>2. fate' \in [Prompts -> Fates]
  BY DEF Reconnect, ForgetExchange, Exchange, Locals, Fates
<1>3. exchange_id \in 0 .. sent /\ {} \subseteq (exchange_id + 1) .. sent
  BY DEF Exchange, Locals
<1>4. Locals'
  BY <1>1, <1>2, <1>3 DEF Locals, FreshLocals
<1>5. Commanded'
  BY <1>1 DEF Commanded
<1>6. QED
  BY <1>4, <1>5 DEF Exchange

-----------------------------------------------------------------------------
(* What is handed back is gone.                                            *)

LEMMA HandedBackNext ==
  HandedBack' <=>
    /\ \A p \in Prompts : fate'[p] = "returned" => GoneNext(p)
    /\ \A i \in DOMAIN records' :
         /\ records'[i].type = "queue_rejected" => GoneNext(records'[i].prompt)
         /\ records'[i].type = "response" /\ records'[i].id[2] = "main" /\ ~records'[i].ok => GoneNext(records'[i].id[1])
    /\ \A i \in DOMAIN commands' :
         commands'[i].kind # "prompt" /\ commands'[i].id[2] = "main" => GoneNext(commands'[i].id[1])
    /\ AtTask' /\ caller'[2] = "main" => GoneNext(caller'[1])
  BY DEF HandedBack, Gone, GoneNext

\* A prompt that is gone stays away, whatever the engine does.
LEMMA GoneEngine ==
  ASSUME IInv, Loop \/ Task \/ Restart, NEW p, Gone(p)
  PROVE  GoneNext(p)
<1>1. /\ TypeOK /\ Control /\ Arriving /\ OnePlace /\ InOrder(items) /\ Requested /\ Next /\ commands \in Seq(Command)
  BY DEF IInv, Next, TypeOK
<1>2. Known' \subseteq Known \/ (Take("prompt") /\ Known' \subseteq Known \cup {Head(commands).id[1]})
  BY <1>1, OnePlaceStep
<1>3. /\ UNCHANGED sent
      /\ UNCHANGED commands \/ commands' = <<>> \/ (commands # <<>> /\ commands' = Tail(commands))
  BY LoopTells, TaskWire DEF Restart
<1>4. Take("prompt") => Head(commands).id[1] # p
  <2>1. Take("prompt") => 1 \in DOMAIN commands /\ commands[1] = Head(commands) /\ Head(commands).kind = "prompt"
    BY <1>1 DEF Take
  <2>2. QED
    BY <2>1 DEF Gone
<1>5. \A i \in DOMAIN commands' : commands'[i].kind = "prompt" => commands'[i].id[1] # p
  <2>1. CASE UNCHANGED commands
    BY <2>1 DEF Gone
  <2>2. CASE commands' = <<>>
    BY <2>2
  <2>3. CASE commands # <<>> /\ commands' = Tail(commands)
    <3>1. \A i \in DOMAIN commands' : i + 1 \in DOMAIN commands /\ commands'[i] = commands[i + 1]
      BY <1>1, <2>3, TailElements
    <3>2. QED
      BY <3>1 DEF Gone
  <2>4. QED
    BY <1>3, <2>1, <2>2, <2>3
<1>6. QED
  BY <1>2, <1>3, <1>4, <1>5 DEF Gone, GoneNext

\* Whatever the client writes, the numbers it uses are new.
LEMMA GoneUser ==
  ASSUME IInv, exchange_id \in 0 .. sent, UserStep
  PROVE  /\ \A p : Gone(p) => GoneNext(p)
         /\ \A l : Opens(l) /\ l \in Command /\ l.kind # "prompt" => GoneNext(l.id[1])
<1>1. /\ ClientStep /\ TypeOK /\ Arriving /\ commands \in Seq(Command) /\ sent \in Nat
  BY WireAssumption DEF IInv, TypeOK, UserStep
<1>2. UNCHANGED Known
  <2>1. UNCHANGED <<items, mem, files, pc, resume, turn>>
    BY DEF UserStep, engine, queue, session, task
  <2>2. QED
    BY <2>1 DEF Known, Told, Undelivered
<1>3. Known \subseteq 1 .. sent /\ \A i \in DOMAIN commands : commands[i].kind = "prompt" => commands[i].id[1] \in 1 .. sent
  BY <1>1 DEF Arriving
<1>4. ASSUME NEW p, Gone(p) PROVE GoneNext(p)
  <2>1. p \in 0 .. sent /\ p \notin Known /\ \A i \in DOMAIN commands : commands[i].kind = "prompt" => commands[i].id[1] # p
    BY <1>4 DEF Gone
  <2>2. CASE Reads
    BY <1>2, <2>1, <2>2 DEF Reads, Gone, GoneNext
  <2>3. ASSUME NEW l \in Command, Opens(l) PROVE GoneNext(p)
    <3>1. sent' = sent + 1 /\ commands' = Append(commands, l) /\ l.id[1] = sent + 1
      BY <2>3 DEF Opens
    <3>2. p \in 0 .. sent' /\ l.id[1] # p
      BY <1>1, <2>1, <3>1
    <3>3. \A i \in DOMAIN commands' : (i \in DOMAIN commands /\ commands'[i] = commands[i]) \/ commands'[i] = l
      BY <1>1, <3>1, CommandedMore
    <3>4. QED
      BY <1>2, <2>1, <3>2, <3>3 DEF Gone, GoneNext
  <2>4. ASSUME NEW l \in Command, Adds(l) PROVE GoneNext(p)
    <3>1. UNCHANGED sent /\ commands' = Append(commands, l) /\ l.kind # "prompt"
      BY <2>4 DEF Adds
    <3>2. \A i \in DOMAIN commands' : (i \in DOMAIN commands /\ commands'[i] = commands[i]) \/ commands'[i] = l
      BY <1>1, <3>1, CommandedMore
    <3>3. QED
      BY <1>2, <2>1, <3>1, <3>2 DEF Gone, GoneNext
  <2>5. ASSUME NEW l \in Command, NEW m \in Command, AddsTwo(l, m) PROVE GoneNext(p)
    <3>1. UNCHANGED sent /\ commands' = Append(Append(commands, l), m) /\ l.kind # "prompt" /\ m.kind # "prompt"
      BY <2>5 DEF AddsTwo
    <3>2. \A i \in DOMAIN commands' : (i \in DOMAIN commands /\ commands'[i] = commands[i]) \/ commands'[i] = l \/ commands'[i] = m
      BY <1>1, <3>1
    <3>3. QED
      BY <1>2, <2>1, <3>1, <3>2 DEF Gone, GoneNext
  <2>6. QED
    BY <1>1, <2>2, <2>3, <2>4, <2>5, TypedWire, ClientWire
<1>5. ASSUME NEW l \in Command, Opens(l), l.kind # "prompt" PROVE GoneNext(l.id[1])
  <2>1. sent' = sent + 1 /\ commands' = Append(commands, l) /\ l.id[1] = sent + 1
    BY <1>5 DEF Opens
  <2>2. sent + 1 \in 0 .. sent' /\ sent + 1 \notin 1 .. sent
    BY <1>1, <2>1
  <2>3. \A i \in DOMAIN commands' : (i \in DOMAIN commands /\ commands'[i] = commands[i]) \/ commands'[i] = l
    BY <1>1, <2>1, CommandedMore
  <2>4. QED
    BY <1>2, <1>3, <1>5, <2>1, <2>2, <2>3 DEF GoneNext
<1>6. QED
  BY <1>4, <1>5

\* A prompt that is refused is gone: the engine has none of its number, and later
\* ones have later numbers.
LEMMA RefusedGone ==
  ASSUME IInv, RefusePrompt, NEW p, p = Head(commands).id[1]
  PROVE  GoneNext(p)
<1>1. TypeOK /\ Arriving /\ commands \in Seq(Command) /\ commands # <<>> /\ commands' = Tail(commands)
      /\ Head(commands).kind = "prompt" /\ UNCHANGED sent /\ sent \in Nat
  BY WireAssumption DEF IInv, TypeOK, RefusePrompt, Take
<1>2. UNCHANGED Known
  BY DEF RefusePrompt, queue, session, task, Known, Told, Undelivered
<1>3. 1 \in DOMAIN commands /\ commands[1] = Head(commands)
  BY <1>1
<1>4. p \in 1 .. sent /\ \A k \in Known : k < p
  BY <1>1, <1>3 DEF Arriving
<1>5. \A i \in DOMAIN commands' : i + 1 \in DOMAIN commands /\ commands'[i] = commands[i + 1] /\ 1 \in 1 .. ((i + 1) - 1)
  BY <1>1
<1>6. ASSUME NEW i \in DOMAIN commands', commands'[i].kind = "prompt"
      PROVE  commands'[i].id[1] # p
  <2>1. commands[i + 1].kind = "prompt" /\ i + 1 \in DOMAIN commands
    BY <1>5, <1>6
  <2>2. commands[1].id[1] < commands[i + 1].id[1] /\ commands[i + 1].id[1] \in 1 .. sent
    BY <1>1, <1>3, <1>5, <2>1 DEF Arriving
  <2>3. QED
    BY <1>3, <1>4, <1>5, <2>2
<1>7. p \in 0 .. sent /\ p \notin Known
  BY <1>1, <1>2, <1>4 DEF Arriving
<1>8. QED
  BY <1>1, <1>2, <1>6, <1>7 DEF Gone, GoneNext

\* A submission that a failing run hands back is gone: the queue is dropped and what
\* was delivered, or was about to be, is another one.
LEMMA RejectedGone ==
  ASSUME IInv, Task, pc' = "settle", NEW q \in Seq(Queued), q # <<>>, RunFails(q),
         (q = items /\ pc \notin {"step", "steer"}) \/ (TakeSteering /\ q = Tail(items)),
         NEW p, p = Last(q).id
  PROVE  GoneNext(p)
<1>1. /\ TypeOK /\ Control /\ Arriving /\ OnePlace /\ Requested /\ Next
      /\ commands \in Seq(Command) /\ items \in Seq(Queued) /\ Distinct(items)
      /\ Waiting(items) \cap Told = {} /\ Waiting(items) \cap Undelivered = {}
      /\ Told \cap Undelivered = {} /\ Undelivered \subseteq Prompts
  BY DEF IInv, TypeOK, Next, OnePlace, Control
<1>2. UNCHANGED <<commands, sent>>
  BY TaskWire
<1>3. Last(q) \in Queued /\ \E i \in DOMAIN q : q[i] = Last(q)
  BY DEF Last
<1>4. p \in Prompts /\ p \in Waiting(q)
  BY <1>3 DEF Queued, Waiting
<1>5. p \in Waiting(items) /\ (TakeSteering /\ q = Tail(items) => p # Head(items).id)
  <2>1. CASE q = items /\ pc \notin {"step", "steer"}
    BY <1>4, <2>1 DEF TakeSteering, AtSteer
  <2>2. CASE TakeSteering /\ q = Tail(items)
    <3>1. items # <<>>
      BY <2>2 DEF TakeSteering
    <3>2. QED
      BY <1>1, <1>4, <2>2, <3>1, TailWaits DEF TakeSteering, AtSteer
  <2>3. QED
    BY <2>1, <2>2
<1>6. Waiting(items') = {} /\ Undelivered' = {}
  BY DEF RunFails, Waiting, Undelivered
<1>7. Told' \subseteq Told \cup Undelivered \/ (TakeSteering /\ q = Tail(items) /\ Told' \subseteq Told \cup {Head(items).id})
  <2>1. Keeps \/ QueuePrompt \/ StartPrompt \/ PushPrompt \/ TakeSteering \/ NextTurn
    BY <1>1, Moves
  <2>2. ~QueuePrompt /\ ~StartPrompt /\ ~NextTurn
    <3>1. ~QueuePrompt
      BY <1>1, <1>2 DEF QueuePrompt, Take
    <3>2. QED
      BY <3>1 DEF StartPrompt, Spawn, NextTurn
  <2>3. CASE Keeps
    <3>1. HistoryStep(Silent) /\ Silent \in SUBSET Message /\ \A x \in Prompts : User(x) \notin Silent
      BY <2>3 DEF Keeps, Silent, User
    <3>2. Told' \subseteq Told \cup {x \in Prompts : User(x) \in Silent}
      BY <1>1, <3>1, HistoryMoves
    <3>3. QED
      BY <3>1, <3>2
  <2>4. CASE PushPrompt
    <3>1. turn \in Undelivered /\ turn \in Prompts
      BY <1>1, <2>4 DEF PushPrompt, Undelivered
    <3>2. HistoryStep({User(turn)}) /\ {User(turn)} \in SUBSET Message
      BY <2>4, <3>1, MessageTypes DEF PushPrompt, HistoryStep, Prompts
    <3>3. \A x \in Prompts : User(x) \in {User(turn)} => x = turn
      BY DEF User
    <3>4. \A x \in Prompts : User(x) \in {User(turn)} => x \notin Told
      BY <1>1, <3>1, <3>3
    <3>5. Told' \subseteq Told \cup {x \in Prompts : User(x) \in {User(turn)}}
      BY <1>1, <3>2, <3>4, HistoryMoves
    <3>6. QED
      BY <3>1, <3>3, <3>5
  <2>5. CASE TakeSteering
    <3>1. items # <<>> /\ Head(items).id \in Prompts /\ Head(items).id \in Waiting(items) /\ q = Tail(items)
      BY <1>1, <2>5, PromptTyped, TailWaits DEF TakeSteering, AtSteer
    <3> DEFINE h == Head(items).id
    <3>2. HistoryStep({User(h)}) /\ {User(h)} \in SUBSET Message
      BY <2>5, <3>1, MessageTypes DEF TakeSteering, HistoryStep, Prompts
    <3> HIDE DEF h
    <3>3. \A x \in Prompts : User(x) \in {User(h)} => x = h
      BY DEF User
    <3>4. \A x \in Prompts : User(x) \in {User(h)} => x \notin Told
      BY <1>1, <3>1, <3>3 DEF h
    <3>5. Told' \subseteq Told \cup {x \in Prompts : User(x) \in {User(h)}}
      BY <1>1, <3>2, <3>4, HistoryMoves
    <3>6. QED
      BY <2>5, <3>1, <3>3, <3>5 DEF h
  <2>6. QED
    BY <2>1, <2>2, <2>3, <2>4, <2>5
<1>8. p \notin Known'
  BY <1>1, <1>5, <1>6, <1>7 DEF Known
<1>9. p \in 1 .. sent /\ \A i \in DOMAIN commands : commands[i].kind = "prompt" => p < commands[i].id[1] /\ commands[i].id[1] \in 1 .. sent
  BY <1>1, <1>5 DEF Arriving, Known
<1>10. \A i \in DOMAIN commands : commands[i].kind = "prompt" => commands[i].id[1] # p
  BY <1>9
<1>11. p \in 0 .. sent
  BY <1>9
<1>12. QED
  BY <1>2, <1>8, <1>10, <1>11 DEF Gone, GoneNext

\* What a failing run hands back is gone.
LEMMA HandsBack ==
  ASSUME IInv, TypeOK', Answering, Task
  PROVE  \A i \in DOMAIN records' : records'[i].type = "queue_rejected" =>
           \/ i \in DOMAIN records /\ records'[i] = records[i]
           \/ GoneNext(records'[i].prompt)
<1>1. TypeOK /\ records \in Seq(Record) /\ items \in Seq(Queued) /\ (items # <<>> => Tail(items) \in Seq(Queued))
  <2>1. TypeOK /\ records \in Seq(Record) /\ items \in Seq(Queued)
    BY DEF IInv, TypeOK
  <2>2. QED
    BY <2>1
<1>2. ASSUME NEW a \in Record, NEW b \in Record, Tells(a, b), a.type # "queue_rejected",
             b.type = "queue_rejected" => GoneNext(b.prompt),
             NEW i \in DOMAIN records', records'[i].type = "queue_rejected"
      PROVE  (i \in DOMAIN records /\ records'[i] = records[i]) \/ GoneNext(records'[i].prompt)
  <2>1. \/ i \in DOMAIN records /\ records'[i] = records[i]
        \/ i = Len(records) + 1 /\ records'[i] = a
        \/ i = Len(records) + 2 /\ records'[i] = b
    BY <1>1, <1>2, EmitAdds DEF Tells
  <2>2. CASE records'[i] = b
    BY <1>2, <2>2
  <2>3. QED
    BY <1>2, <2>1, <2>2
<1>3. QueueUpdate(<<>>) \in Record /\ Failed \in Record /\ QueueUpdate(<<>>).type # "queue_rejected" /\ Failed.type # "queue_rejected"
  BY RecordTypes, EmptySeq DEF QueueUpdate, Failed
<1>4. CASE UNCHANGED records
  BY <1>4
<1>5. CASE pc' # "settle"
  <2>1. Ends \/ Closes \/ GoesOn
    BY TaskTells
  <2>2. CASE Ends
    <3>1. PICK ok \in BOOLEAN : Emit(<<Response(caller, ok)>>)
      BY <2>2 DEF Ends
    <3>2. Response(caller, ok) \in Record /\ Response(caller, ok).type # "queue_rejected"
      BY <1>1, RecordTypes DEF TypeOK, Response
    <3>3. Tells(Response(caller, ok), Failed)
      BY <3>1 DEF Tells
    <3>4. QED
      BY <1>2, <1>3, <3>2, <3>3
  <2>3. CASE Closes
    <3>1. Tells(QueueUpdate(<<>>), Settled) /\ Settled \in Record /\ Settled.type # "queue_rejected"
      BY <2>3, RecordTypes DEF Closes, Tells, Settled
    <3>2. QED
      BY <1>2, <1>3, <3>1
  <2>4. CASE GoesOn
    BY <1>2, <1>4, <1>5, <2>4 DEF GoesOn
  <2>5. QED
    BY <2>1, <2>2, <2>3, <2>4
<1>6. CASE pc' = "settle" /\ Emit(<<QueueUpdate(<<>>)>>)
  <2>1. Tells(QueueUpdate(<<>>), Failed)
    BY <1>6 DEF Tells
  <2>2. QED
    BY <1>2, <1>3, <2>1
<1>7. ASSUME NEW q \in Seq(Queued), pc' = "settle", RunFails(q),
             (q = items /\ pc \notin {"step", "steer"}) \/ (TakeSteering /\ q = Tail(items))
      PROVE  \A i \in DOMAIN records' : records'[i].type = "queue_rejected" =>
               \/ i \in DOMAIN records /\ records'[i] = records[i]
               \/ GoneNext(records'[i].prompt)
  <2>1. CASE q = <<>>
    <3>1. <<Failed>> \o <<>> = <<Failed>>
      OBVIOUS
    <3>2. Tells(Failed, Failed)
      BY <1>7, <2>1, <3>1 DEF RunFails, Tells
    <3>3. QED
      BY <1>2, <1>3, <3>2
  <2>2. CASE q # <<>>
    <3>1. Last(q) \in Queued
      BY <1>7, <2>2 DEF Last
    <3>2. PICK n : n = Last(q).id
      OBVIOUS
    <3>3. n \in Prompts
      BY <3>1, <3>2 DEF Queued
    <3>4. PICK b : b = QueueRejected(n)
      OBVIOUS
    <3>5. b \in Record /\ b.prompt = n
      BY <3>3, <3>4, RecordTypes DEF QueueRejected
    <3>6. <<Failed>> \o <<b>> = <<Failed, b>>
      BY <1>3, <3>5, TwoRecords
    <3>7. Tells(Failed, b)
      BY <1>7, <2>2, <3>2, <3>4, <3>6 DEF RunFails, Tells
    <3>8. GoneNext(n)
      BY <1>7, <2>2, <3>2, RejectedGone
    <3>9. GoneNext(b.prompt)
      BY <3>5, <3>8
    <3>10. QED
      BY <1>2, <1>3, <3>5, <3>7, <3>9
  <2>3. QED
    BY <2>1, <2>2
<1>8. CASE pc' = "settle" /\ RunFails(items) /\ pc \notin {"step", "steer"}
  BY <1>1, <1>7, <1>8
<1>9. CASE pc' = "settle" /\ TakeSteering /\ RunFails(Tail(items))
  <2>1. items # <<>>
    BY <1>9 DEF TakeSteering
  <2>2. QED
    BY <1>1, <1>7, <1>9, <2>1
<1>10. QED
  BY <1>4, <1>5, <1>6, <1>8, <1>9, FailsBy

\* What the engine's steps say of the responses: those it writes now are the ones to
\* the command it takes and to the command its task answers.
LEMMA HandedBackLoop ==
  ASSUME IInv, HandedBack, Loop, UNCHANGED client
  PROVE  HandedBack'
<1>1. \A p : Gone(p) => GoneNext(p)
  BY GoneEngine
<1>2. /\ \A p \in Prompts : fate[p] = "returned" => Gone(p)
      /\ \A i \in DOMAIN records :
           /\ records[i].type = "queue_rejected" => Gone(records[i].prompt)
           /\ records[i].type = "response" /\ records[i].id[2] = "main" /\ ~records[i].ok => Gone(records[i].id[1])
      /\ \A i \in DOMAIN commands : commands[i].kind # "prompt" /\ commands[i].id[2] = "main" => Gone(commands[i].id[1])
      /\ AtTask /\ caller[2] = "main" => Gone(caller[1])
  BY DEF HandedBack
<1>3. commands \in Seq(Command) /\ records \in Seq(Record) /\ caller \in Ids
  BY DEF IInv, TypeOK
<1>4. PICK c : c = Head(commands)
  OBVIOUS
<1>5. /\ commands # <<>> /\ commands' = Tail(commands) /\ c \in Command
      /\ AnswersNow(c) \/ Begins(c) \/ BeginsTask(c)
  BY <1>4, LoopTells
<1>6. c.kind # "prompt" /\ c.id[2] = "main" => GoneNext(c.id[1])
  <2>1. 1 \in DOMAIN commands /\ commands[1] = c
    BY <1>3, <1>4, <1>5
  <2>2. QED
    BY <1>1, <1>2, <2>1
<1>7. c.id \in Ids
  BY <1>5 DEF Command
<1>8. \A p \in Prompts : fate'[p] = "returned" => GoneNext(p)
  BY <1>1, <1>2 DEF client
<1>9. \A i \in DOMAIN commands' : commands'[i].kind # "prompt" /\ commands'[i].id[2] = "main" => GoneNext(commands'[i].id[1])
  <2>1. \A i \in DOMAIN commands' : i + 1 \in DOMAIN commands /\ commands'[i] = commands[i + 1]
    BY <1>3, <1>5, TailElements
  <2> TAKE i \in DOMAIN commands'
  <2> HAVE commands'[i].kind # "prompt" /\ commands'[i].id[2] = "main"
  <2>2. QED
    BY <1>1, <1>2, <2>1
<1>10. ASSUME NEW ok \in BOOLEAN, NEW b \in Record, Tells(Response(c.id, ok), b), b.type = "queue_update",
              ~ok /\ c.id[2] = "main" => GoneNext(c.id[1]), NEW i \in DOMAIN records'
       PROVE  /\ records'[i].type = "queue_rejected" => GoneNext(records'[i].prompt)
              /\ records'[i].type = "response" /\ records'[i].id[2] = "main" /\ ~records'[i].ok => GoneNext(records'[i].id[1])
  <2>1. PICK a : a = Response(c.id, ok)
    OBVIOUS
  <2>2. a \in Record /\ a.type = "response" /\ a.id = c.id /\ a.ok = ok
    BY <1>7, <2>1, RecordTypes DEF Response
  <2>3. \/ i \in DOMAIN records /\ records'[i] = records[i]
        \/ i = Len(records) + 1 /\ records'[i] = a
        \/ i = Len(records) + 2 /\ records'[i] = b
    BY <1>3, <1>10, <2>1, <2>2, EmitAdds DEF Tells
  <2>4. QED
    BY <1>1, <1>2, <1>10, <2>2, <2>3
<1>11. CASE AnswersNow(c)
  <2>1. PICK ok \in BOOLEAN, b \in Record : /\ Tells(Response(c.id, ok), b) /\ b.type = "queue_update"
                                            /\ c.kind = "prompt" /\ ~ok => RefusePrompt
    BY <1>11 DEF AnswersNow
  <2>2. ~ok /\ c.id[2] = "main" => GoneNext(c.id[1])
    <3>1. ASSUME c.kind = "prompt", ~ok PROVE GoneNext(c.id[1])
      <4>1. RefusePrompt
        BY <2>1, <3>1
      <4>2. GoneNext(Head(commands).id[1])
        BY <4>1, RefusedGone
      <4>3. QED
        BY <1>4, <4>2
    <3>2. QED
      BY <1>6, <3>1
  <2>3. UNCHANGED <<AtTask, caller>>
    BY <1>11 DEF AnswersNow, AtTask
  <2>4. AtTask' /\ caller'[2] = "main" => GoneNext(caller'[1])
    BY <1>1, <1>2, <2>3
  <2>5. QED
    <3>1. \A i \in DOMAIN records' :
            /\ records'[i].type = "queue_rejected" => GoneNext(records'[i].prompt)
            /\ records'[i].type = "response" /\ records'[i].id[2] = "main" /\ ~records'[i].ok => GoneNext(records'[i].id[1])
      BY <1>10, <2>1, <2>2
    <3>2. QED
      BY <1>8, <1>9, <2>4, <3>1, HandedBackNext
<1>12. CASE Begins(c)
  <2>1. QueueUpdate(<<>>) \in Record /\ QueueUpdate(<<>>).type = "queue_update"
    BY RecordTypes, EmptySeq DEF QueueUpdate
  <2>2. Tells(Response(c.id, TRUE), QueueUpdate(<<>>)) /\ ~AtTask'
    BY <1>12 DEF Begins, Tells, AtTask
  <2>3. QED
    BY <1>8, <1>9, <1>10, <2>1, <2>2, HandedBackNext
<1>13. CASE BeginsTask(c)
  <2>1. caller' = c.id /\ UNCHANGED records /\ c.kind # "prompt"
    BY <1>13 DEF BeginsTask
  <2>2. caller'[2] = "main" => GoneNext(caller'[1])
    BY <1>6, <2>1
  <2>3. \A i \in DOMAIN records' :
           /\ records'[i].type = "queue_rejected" => GoneNext(records'[i].prompt)
           /\ records'[i].type = "response" /\ records'[i].id[2] = "main" /\ ~records'[i].ok => GoneNext(records'[i].id[1])
    BY <1>1, <1>2, <2>1
  <2>4. QED
    BY <1>8, <1>9, <2>2, <2>3, HandedBackNext
<1>14. QED
  BY <1>5, <1>11, <1>12, <1>13

LEMMA HandedBackTask ==
  ASSUME IInv, TypeOK', Answering, HandedBack, Task, UNCHANGED client
  PROVE  HandedBack'
<1>1. \A p : Gone(p) => GoneNext(p)
  BY GoneEngine
<1>2. /\ \A p \in Prompts : fate[p] = "returned" => Gone(p)
      /\ \A i \in DOMAIN records :
           /\ records[i].type = "queue_rejected" => Gone(records[i].prompt)
           /\ records[i].type = "response" /\ records[i].id[2] = "main" /\ ~records[i].ok => Gone(records[i].id[1])
      /\ \A i \in DOMAIN commands : commands[i].kind # "prompt" /\ commands[i].id[2] = "main" => Gone(commands[i].id[1])
      /\ AtTask /\ caller[2] = "main" => Gone(caller[1])
  BY DEF HandedBack
<1>3. records \in Seq(Record) /\ caller \in Ids /\ UNCHANGED commands /\ (Ends \/ Closes \/ GoesOn)
  BY TaskTells DEF IInv, TypeOK
<1>4. \A p \in Prompts : fate'[p] = "returned" => GoneNext(p)
  BY <1>1, <1>2 DEF client
<1>5. \A i \in DOMAIN commands' : commands'[i].kind # "prompt" /\ commands'[i].id[2] = "main" => GoneNext(commands'[i].id[1])
  BY <1>1, <1>2, <1>3
<1>6. AtTask' /\ caller'[2] = "main" => GoneNext(caller'[1])
  <2>1. CASE Ends \/ Closes
    BY <2>1 DEF Ends, Closes, AtTask
  <2>2. CASE GoesOn
    BY <1>1, <1>2, <2>2 DEF GoesOn
  <2>3. QED
    BY <1>3, <2>1, <2>2
<1>7. \A i \in DOMAIN records' : records'[i].type = "queue_rejected" => GoneNext(records'[i].prompt)
  BY <1>1, <1>2, HandsBack
<1>8. ASSUME NEW i \in DOMAIN records', records'[i].type = "response", records'[i].id[2] = "main", ~records'[i].ok
      PROVE  GoneNext(records'[i].id[1])
  <2>1. ASSUME i \in DOMAIN records, records'[i] = records[i]
        PROVE  GoneNext(records'[i].id[1])
    BY <1>1, <1>2, <1>8, <2>1
  <2>2. ASSUME NEW a \in Record, NEW b \in Record, Tells(a, b), b.type # "response",
               a.type = "response" => a.id = caller /\ AtTask
        PROVE  GoneNext(records'[i].id[1])
    <3>1. \/ i \in DOMAIN records /\ records'[i] = records[i]
          \/ i = Len(records) + 1 /\ records'[i] = a
          \/ i = Len(records) + 2 /\ records'[i] = b
      BY <1>3, <2>2, EmitAdds DEF Tells
    <3>2. CASE records'[i] = a
      <4>1. AtTask /\ records'[i].id = caller
        BY <1>8, <2>2, <3>2
      <4>2. Gone(caller[1])
        BY <1>2, <1>8, <4>1
      <4>3. QED
        BY <1>1, <4>1, <4>2
    <3>3. QED
      BY <1>8, <2>1, <2>2, <3>1, <3>2
  <2>3. CASE Ends
    <3>1. PICK ok \in BOOLEAN : Emit(<<Response(caller, ok)>>)
      BY <2>3 DEF Ends
    <3>2. PICK a : a = Response(caller, ok)
      OBVIOUS
    <3>3. a \in Record /\ a.id = caller /\ AtTask
      BY <1>3, <2>3, <3>2, RecordTypes DEF Response, Ends
    <3>4. Tells(a, Failed)
      BY <3>1, <3>2 DEF Tells
    <3>5. Failed \in Record /\ Failed.type # "response"
      BY RecordTypes DEF Failed
    <3>6. QED
      BY <2>2, <3>3, <3>4, <3>5
  <2>4. CASE Closes
    <3>1. QueueUpdate(<<>>) \in Record /\ QueueUpdate(<<>>).type # "response" /\ Settled \in Record /\ Settled.type # "response"
          /\ Tells(QueueUpdate(<<>>), Settled)
      BY <2>4, RecordTypes, EmptySeq DEF QueueUpdate, Settled, Closes, Tells
    <3>2. QED
      BY <2>2, <3>1
  <2>5. CASE GoesOn
    <3>1. CASE UNCHANGED records
      BY <1>8, <2>1, <3>1
    <3>2. CASE ~(UNCHANGED records)
      <4>1. PICK a \in Record, b \in Record : Tells(a, b) /\ a.type # "response" /\ b.type # "response"
        BY <2>5, <3>2 DEF GoesOn
      <4>2. QED
        BY <2>2, <4>1
    <3>3. QED
      BY <3>1, <3>2
  <2>6. QED
    BY <1>3, <2>3, <2>4, <2>5
<1>9. QED
  BY <1>4, <1>5, <1>6, <1>7, <1>8, HandedBackNext

\* A record hands back the submission it names, and no other.
LEMMA ProceedReturns ==
  ASSUME NEW f, Proceed(f), NEW p \in Prompts, fate'[p] = "returned"
  PROVE  f[p] = "returned"
  BY DEF Proceed, Forget

LEMMA ReadReturns ==
  ASSUME ReadStep, fate \in [Prompts -> Fates], NEW p \in Prompts, fate'[p] = "returned", fate[p] # "returned"
  PROVE  \/ Head(records).type = "queue_rejected" /\ Head(records).prompt = p
         \/ /\ Head(records).type = "response" /\ Head(records).id[2] = "main" /\ ~Head(records).ok
            /\ Head(records).id[1] = p
<1> DEFINE r == Head(records)
<1>1. CASE AcknowledgeQueued
  <2>1. PICK q, x : q = r.id[1] /\ x = CASE ~r.ok -> "returned"
                                        [] r.ok /\ interrupted -> "uncertain"
                                        [] r.ok /\ ~interrupted /\ fate[q] = "delivered" -> fate[q]
                                        [] OTHER -> "waiting"
    OBVIOUS
  <2>2. PICK f : f = [fate EXCEPT ![q] = x]
    OBVIOUS
  <2>3. Proceed(f) /\ r.type = "response" /\ r.id[2] = "main"
    BY <1>1, <2>1, <2>2 DEF AcknowledgeQueued, InPrompt, Read
  <2>4. f[p] = "returned"
    BY <2>3, ProceedReturns
  <2>5. p = q /\ x = "returned"
    BY <2>2, <2>4
  <2>6. r.ok => x # "returned"
    BY <2>1, <2>5
  <2>7. QED
    BY <2>1, <2>3, <2>5, <2>6
<1>2. CASE AcknowledgeClear
  <2>1. PICK f : f = [q \in Prompts |-> IF fate[q] = "waiting" THEN "cleared" ELSE fate[q]]
    OBVIOUS
  <2>2. Proceed(f)
    BY <1>2, <2>1 DEF AcknowledgeClear
  <2>3. f[p] = "returned"
    BY <2>2, ProceedReturns
  <2>4. QED
    BY <2>1, <2>3
<1>3. CASE AcknowledgePrompt
  <2>1. PICK f : f = IF r.ok THEN fate ELSE [fate EXCEPT ![exchange_id] = "returned"]
    OBVIOUS
  <2>2. Proceed(f) /\ r.type = "response" /\ r.id = <<exchange_id, "main">>
    BY <1>3, <2>1 DEF AcknowledgePrompt, InPrompt, Read
  <2>3. f[p] = "returned"
    BY <2>2, ProceedReturns
  <2>4. ~r.ok /\ p = exchange_id
    BY <2>1, <2>3
  <2>5. QED
    BY <2>2, <2>4
<1>4. CASE ObserveDelivery
  <2>1. PICK q, x : q = r.prompt /\ x = IF fate[q] \in {"pending", "waiting"} THEN "delivered" ELSE fate[q]
    OBVIOUS
  <2>2. PICK f : f = [fate EXCEPT ![q] = x]
    OBVIOUS
  <2>3. Proceed(f)
    BY <1>4, <2>1, <2>2 DEF ObserveDelivery
  <2>4. f[p] = "returned"
    BY <2>3, ProceedReturns
  <2>5. QED
    BY <2>1, <2>2, <2>4
<1>5. CASE ObserveRejected
  <2>1. PICK g, q : g = Forget(fate) /\ q = r.prompt
    OBVIOUS
  <2>2. PICK f : f = [g EXCEPT ![q] = "returned"]
    OBVIOUS
  <2>3. Proceed(f) /\ r.type = "queue_rejected"
    BY <1>5, <2>1, <2>2 DEF ObserveRejected, InPrompt, Read
  <2>4. f[p] = "returned"
    BY <2>3, ProceedReturns
  <2>5. g[p] # "returned"
    BY <2>1 DEF Forget
  <2>6. p = q
    BY <2>2, <2>4, <2>5
  <2>7. QED
    BY <2>1, <2>3, <2>6
<1>6. ASSUME Proceed(fate)
      PROVE  FALSE
  BY <1>6, ProceedReturns
<1>7. ~(UNCHANGED fate)
  OBVIOUS
<1>8. QED
  BY <1>1, <1>2, <1>3, <1>4, <1>5, <1>6, <1>7 DEF ReadStep, ReadPrompt, ReadCompact, ReadRequest, AcknowledgeAbort,
    ObserveStart, ObserveSettled, ObserveQueue, ObserveOther

\* What the client writes hands nothing back.
LEMMA WritesReturnNothing ==
  ASSUME ClientStep, ~ReadStep, fate \in [Prompts -> Fates], NEW p \in Prompts, fate'[p] = "returned"
  PROVE  fate[p] = "returned"
<1>1. CASE SubmitPrompt
  BY <1>1 DEF SubmitPrompt
<1>2. CASE QueueSubmission
  BY <1>2 DEF QueueSubmission
<1>3. QED
  BY <1>1, <1>2 DEF ClientStep, SubmitCompact, AskStatus, AskRequest, Ask, Escape, EscapeCompact

LEMMA HandedBackUser ==
  ASSUME IInv, Exchange, HandedBack, UserStep
  PROVE  HandedBack'
<1>1. /\ TypeOK /\ commands \in Seq(Command) /\ records \in Seq(Record) /\ exchange_id \in 0 .. sent
      /\ fate \in [Prompts -> Fates] /\ ClientStep /\ UNCHANGED <<AtTask, caller>>
  BY DEF IInv, TypeOK, Exchange, Locals, UserStep, engine, task, AtTask
<1>2. /\ \A p : Gone(p) => GoneNext(p)
      /\ \A l : Opens(l) /\ l \in Command /\ l.kind # "prompt" => GoneNext(l.id[1])
  BY <1>1, GoneUser
<1>3. /\ \A p \in Prompts : fate[p] = "returned" => Gone(p)
      /\ \A i \in DOMAIN records :
           /\ records[i].type = "queue_rejected" => Gone(records[i].prompt)
           /\ records[i].type = "response" /\ records[i].id[2] = "main" /\ ~records[i].ok => Gone(records[i].id[1])
      /\ \A i \in DOMAIN commands : commands[i].kind # "prompt" /\ commands[i].id[2] = "main" => Gone(commands[i].id[1])
      /\ AtTask /\ caller[2] = "main" => Gone(caller[1])
  BY DEF HandedBack
<1>4. AtTask' /\ caller'[2] = "main" => GoneNext(caller'[1])
  BY <1>1, <1>2, <1>3
<1>5. \/ Reads
      \/ /\ UNCHANGED records
         /\ (\E l \in Command : Opens(l)) \/ (\E l \in Command : Adds(l)) \/ (\E l, m \in Command : AddsTwo(l, m))
  BY <1>1, TypedWire, ClientWire DEF Opens, Adds, AddsTwo
<1>6. ASSUME NEW p \in Prompts, fate'[p] = "returned"
      PROVE  GoneNext(p)
  <2>1. CASE fate[p] = "returned"
    BY <1>2, <1>3, <2>1
  <2>2. CASE fate[p] # "returned"
    <3>1. ReadStep
      BY <1>1, <1>6, <2>2, WritesReturnNothing
    <3>2. records # <<>>
      BY <3>1 DEF ReadStep, ReadPrompt, AcknowledgeQueued, AcknowledgeClear, AcknowledgeAbort, AcknowledgePrompt,
        ObserveStart, ObserveSettled, ObserveQueue, ObserveDelivery, ObserveRejected, ObserveOther, InPrompt,
        Read, ReadCompact, ReadRequest
    <3>3. 1 \in DOMAIN records /\ records[1] = Head(records)
      BY <1>1, <3>2
    <3>4. Gone(p)
      BY <1>1, <1>3, <1>6, <2>2, <3>1, <3>3, ReadReturns
    <3>5. QED
      BY <1>2, <3>4
  <2>3. QED
    BY <2>1, <2>2
<1>7. ASSUME NEW i \in DOMAIN records'
      PROVE  /\ records'[i].type = "queue_rejected" => GoneNext(records'[i].prompt)
             /\ records'[i].type = "response" /\ records'[i].id[2] = "main" /\ ~records'[i].ok => GoneNext(records'[i].id[1])
  <2>1. \E j \in DOMAIN records : records'[i] = records[j]
    <3>1. CASE Reads
      BY <1>1, <1>7, <3>1, TailElements DEF Reads
    <3>2. CASE UNCHANGED records
      BY <1>7, <3>2
    <3>3. QED
      BY <1>5, <3>1, <3>2
  <2>2. QED
    BY <1>2, <1>3, <2>1
<1>8. ASSUME NEW i \in DOMAIN commands', commands'[i].kind # "prompt", commands'[i].id[2] = "main"
      PROVE  GoneNext(commands'[i].id[1])
  <2>1. PICK n : n = commands'[i].id[1]
    OBVIOUS
  <2>2. ASSUME i \in DOMAIN commands, commands'[i] = commands[i] PROVE GoneNext(n)
    BY <1>2, <1>3, <1>8, <2>1, <2>2
  <2>3. ASSUME UNCHANGED commands PROVE GoneNext(n)
    BY <1>8, <2>2, <2>3
  <2>4. ASSUME NEW l \in Command, Opens(l) PROVE GoneNext(n)
    <3>1. (i \in DOMAIN commands /\ commands'[i] = commands[i]) \/ commands'[i] = l
      BY <1>1, <1>8, <2>4, CommandedMore DEF Opens
    <3>2. CASE commands'[i] = l
      BY <1>2, <1>8, <2>1, <2>4, <3>2
    <3>3. QED
      BY <2>2, <3>1, <3>2
  <2>5. ASSUME NEW l \in Command, Adds(l) PROVE GoneNext(n)
    <3>1. commands' = Append(commands, l) /\ l.id[2] # "main"
      BY <2>5 DEF Adds
    <3>2. (i \in DOMAIN commands /\ commands'[i] = commands[i]) \/ commands'[i] = l
      BY <1>1, <1>8, <3>1, CommandedMore
    <3>3. QED
      BY <1>8, <2>2, <3>1, <3>2
  <2>6. ASSUME NEW l \in Command, NEW m \in Command, AddsTwo(l, m) PROVE GoneNext(n)
    <3>1. commands' = Append(Append(commands, l), m) /\ l.id[2] # "main" /\ m.id[2] # "main"
      BY <2>6 DEF AddsTwo
    <3>2. (i \in DOMAIN commands /\ commands'[i] = commands[i]) \/ commands'[i] = l \/ commands'[i] = m
      BY <1>1, <1>8, <3>1
    <3>3. QED
      BY <1>8, <2>2, <3>1, <3>2
  <2>7. GoneNext(n)
    BY <1>5, <2>3, <2>4, <2>5, <2>6 DEF Reads
  <2>8. QED
    BY <2>1, <2>7
<1>9. QED
  BY <1>4, <1>6, <1>7, <1>8, HandedBackNext

LEMMA HandedBackLost ==
  ASSUME IInv, Exchange, HandedBack, Reconnect
  PROVE  HandedBack'
<1>1. \A p : Gone(p) => GoneNext(p)
  BY GoneEngine DEF Reconnect
<1>2. commands' = <<>> /\ records' = <<>> /\ ~AtTask'
  BY DEF Reconnect, Restart, AtTask
<1>3. \A p \in Prompts : fate'[p] = "returned" => fate[p] = "returned"
  BY DEF Reconnect, ForgetExchange
<1>4. \A p \in Prompts : fate'[p] = "returned" => GoneNext(p)
  BY <1>1, <1>3 DEF HandedBack
<1>5. QED
  BY <1>2, <1>4, HandedBackNext

-----------------------------------------------------------------------------
(* A run is that of the prompt's exchange.                                 *)

\* The prompt of the exchange is still to be taken, or was refused.
Unbegun == <<exchange_id, "main">> \in Asked(commands) \/ Refused

\* The parts of Phases, with the end of a run among the records or not.
LEMMA PhasesSay ==
  /\ Phases <=> (~stray =>
       /\ kind # "prompt" => Settlements(records) = {} /\ (Busy => AtTask)
       /\ kind = "prompt" =>
            /\ Busy => ~settled /\ Settlements(records) = {}
            /\ Unbegun => ~Busy /\ ~settled /\ Settlements(records) = {}
            /\ settled => Settlements(records) = {}
            /\ \A i, j \in Settlements(records) : i = j)
  /\ Phases' <=> (~stray' =>
       /\ kind' # "prompt" => Settlements(records') = {} /\ (Busy' => AtTask')
       /\ kind' = "prompt" =>
            /\ Busy' => ~settled' /\ Settlements(records') = {}
            /\ Unbegun' => ~Busy' /\ ~settled' /\ Settlements(records') = {}
            /\ settled' => Settlements(records') = {}
            /\ \A i, j \in Settlements(records') : i = j)
  BY DEF Phases, Unbegun, Settlements

\* Records that are no answer to the prompt of the exchange refuse nothing.
LEMMA RefusedTells ==
  ASSUME records \in Seq(Record), UNCHANGED <<rejection, exchange_id>>, Refused',
         NEW a \in Record, NEW b \in Record, Tells(a, b), b.type # "response"
  PROVE  Refused \/ (a.type = "response" /\ a.id = <<exchange_id, "main">> /\ ~a.ok)
<1>1. CASE rejection'
  BY <1>1 DEF Refused
<1>2. ASSUME NEW i \in Responses(records'), records'[i].id = <<exchange_id, "main">>, ~records'[i].ok
      PROVE  Refused \/ (a.type = "response" /\ a.id = <<exchange_id, "main">> /\ ~a.ok)
  <2>1. i \in DOMAIN records' /\ records'[i].type = "response"
    BY <1>2 DEF Responses
  <2>2. \/ i \in DOMAIN records /\ records'[i] = records[i]
        \/ i = Len(records) + 1 /\ records'[i] = a
        \/ i = Len(records) + 2 /\ records'[i] = b
    BY <2>1, EmitAdds DEF Tells
  <2>3. QED
    BY <1>2, <2>1, <2>2 DEF Refused, Responses
<1>3. QED
  BY <1>1, <1>2 DEF Refused, Responses

LEMMA PhasesLoop ==
  ASSUME IInv, TypeOK', Answering, Exchange, Traffic, Phases, LoopStep
  PROVE  Phases'
<1>1. /\ Loop /\ UNCHANGED <<kind, exchange_id, settled, rejection>>
      /\ ~stray' => ~stray /\ ~(pc = "none" /\ pc' = "begin" /\ Head(commands).mode # "none")
      /\ commands \in Seq(Command) /\ records \in Seq(Record)
  BY DEF LoopStep, client, flags, IInv, TypeOK
<1>2. PICK c : c = Head(commands)
  OBVIOUS
<1>3. /\ commands # <<>> /\ commands' = Tail(commands) /\ c \in Command
      /\ AnswersNow(c) \/ Begins(c) \/ BeginsTask(c)
  BY <1>1, <1>2, LoopTells
<1>4. /\ Asked(commands') = Asked(commands) \ {c.id} /\ c.id \in Asked(commands)
      /\ Asked(commands) \cap Answered(records) = {}
  BY <1>1, <1>2, <1>3, AskedLess DEF Traffic, OnTheWay
<1>5. /\ kind = "prompt" => c.kind \in {"prompt", "clear_queue", "abort"}
      /\ kind # "prompt" => c.kind # "prompt"
      /\ c.kind = "prompt" /\ c.mode = "none" => c.id = <<exchange_id, "main">>
  <2>1. 1 \in DOMAIN commands /\ commands[1] = c
    BY <1>1, <1>2, <1>3
  <2>2. QED
    BY <2>1 DEF Exchange, Commanded
<1>6. ASSUME NEW ok \in BOOLEAN, NEW b \in Record, Tells(Response(c.id, ok), b), b.type = "queue_update"
      PROVE  /\ Settlements(records') \subseteq Settlements(records)
             /\ Refused' => Refused \/ (~ok /\ c.id = <<exchange_id, "main">>)
  <2>1. PICK a : a = Response(c.id, ok)
    OBVIOUS
  <2>2. a \in Record /\ a.type = "response" /\ a.id = c.id /\ a.ok = ok
    BY <1>3, <2>1, RecordTypes DEF Response, Command
  <2>3. Settlements(records') \subseteq Settlements(records)
    BY <1>1, <1>6, <2>1, <2>2, EmitTells DEF Tells
  <2>4. Refused' => Refused \/ (~ok /\ c.id = <<exchange_id, "main">>)
    BY <1>1, <1>6, <2>1, <2>2, RefusedTells
  <2>5. QED
    BY <2>3, <2>4
<1>7. SUFFICES ASSUME ~stray' PROVE Phases'
  BY DEF Phases
<1>8. /\ kind # "prompt" => Settlements(records) = {} /\ (Busy => AtTask)
      /\ kind = "prompt" =>
           /\ Busy => ~settled /\ Settlements(records) = {}
           /\ Unbegun => ~Busy /\ ~settled /\ Settlements(records) = {}
           /\ settled => Settlements(records) = {}
           /\ \A i, j \in Settlements(records) : i = j
  BY <1>1, <1>7, PhasesSay
<1>9. CASE AnswersNow(c)
  <2>1. UNCHANGED <<Busy, AtTask>>
    BY <1>9 DEF AnswersNow, Busy, AtTask
  <2>2. Settlements(records') \subseteq Settlements(records) /\ (Refused' => Refused \/ c.id = <<exchange_id, "main">>)
    BY <1>6, <1>9 DEF AnswersNow
  <2>3. Unbegun' => Unbegun
    BY <1>1, <1>4, <2>2 DEF Unbegun
  <2>4. QED
    BY <1>1, <1>8, <2>1, <2>2, <2>3, PhasesSay
<1>10. CASE Begins(c)
  <2>1. c.kind = "prompt" /\ c.mode \in Modes /\ c.mode = "none" /\ kind = "prompt"
    BY <1>1, <1>2, <1>3, <1>5, <1>7, <1>10 DEF Begins, Command
  <2>2. c.id = <<exchange_id, "main">>
    BY <1>5, <2>1
  <2>3. ~settled /\ Settlements(records) = {} /\ ~Refused
    <3>1. Unbegun /\ ~settled /\ Settlements(records) = {}
      BY <1>4, <1>8, <2>1, <2>2 DEF Unbegun
    <3>2. ~rejection
      <4>1. Expects(<<exchange_id, "main">>)
        BY <1>4, <2>2 DEF Traffic, OnTheWay
      <4>2. QED
        BY <4>1, ExpectedIs
    <3>3. \A i \in Responses(records) : records[i].id # <<exchange_id, "main">>
      BY <1>4, <2>2 DEF Answered
    <3>4. QED
      BY <3>1, <3>2, <3>3 DEF Refused
  <2>4. QueueUpdate(<<>>) \in Record /\ QueueUpdate(<<>>).type = "queue_update"
    BY RecordTypes, EmptySeq DEF QueueUpdate
  <2>5. Tells(Response(c.id, TRUE), QueueUpdate(<<>>))
    BY <1>10 DEF Begins, Tells
  <2>6. Settlements(records') \subseteq Settlements(records) /\ (Refused' => Refused)
    BY <1>6, <2>4, <2>5
  <2>7. ~Unbegun'
    BY <1>1, <1>4, <2>2, <2>3, <2>6 DEF Unbegun
  <2>8. Settlements(records') = {}
    BY <2>3, <2>6
  <2>9. QED
    BY <1>1, <2>1, <2>3, <2>7, <2>8, PhasesSay
<1>11. CASE BeginsTask(c)
  <2>1. kind # "prompt" /\ AtTask' /\ UNCHANGED records
    BY <1>5, <1>11 DEF BeginsTask, AtTask
  <2>2. QED
    BY <1>1, <1>8, <2>1, PhasesSay
<1>12. QED
  BY <1>3, <1>9, <1>10, <1>11

LEMMA PhasesTask ==
  ASSUME IInv, TypeOK', Answering, Phases, TaskStep
  PROVE  Phases'
<1>1. /\ Task /\ UNCHANGED <<kind, exchange_id, settled, rejection, stray>> /\ records \in Seq(Record)
  BY DEF TaskStep, client, flags, IInv, TypeOK
<1>2. UNCHANGED commands /\ (Ends \/ Closes \/ GoesOn)
  BY <1>1, TaskTells
<1>3. SUFFICES ASSUME ~stray' PROVE Phases'
  BY DEF Phases
<1>4. /\ kind # "prompt" => Settlements(records) = {} /\ (Busy => AtTask)
      /\ kind = "prompt" =>
           /\ Busy => ~settled /\ Settlements(records) = {}
           /\ Unbegun => ~Busy /\ ~settled /\ Settlements(records) = {}
           /\ settled => Settlements(records) = {}
           /\ \A i, j \in Settlements(records) : i = j
  BY <1>1, <1>3, PhasesSay
<1>5. CASE Ends
  <2>1. Busy /\ ~Busy'
    BY <1>5 DEF Ends, AtTask, Busy
  <2>2. PICK ok \in BOOLEAN : Emit(<<Response(caller, ok)>>)
    BY <1>5 DEF Ends
  <2>3. PICK a : a = Response(caller, ok)
    OBVIOUS
  <2>4. a \in Record /\ a.type = "response" /\ Failed \in Record /\ Failed.type = "failed"
    BY <2>3, RecordTypes DEF Response, Failed, IInv, TypeOK
  <2>5. Settlements(records') \subseteq Settlements(records)
    BY <1>1, <2>2, <2>3, <2>4, EmitTells
  <2>6. Settlements(records') = {} /\ (kind = "prompt" => ~settled)
    BY <1>4, <2>1, <2>5
  <2>7. QED
    BY <1>1, <2>1, <2>6, PhasesSay
<1>6. CASE Closes
  <2>1. Busy /\ ~AtTask /\ ~Busy'
    BY <1>6 DEF Closes, Busy
  <2>2. kind = "prompt" /\ ~settled /\ Settlements(records) = {} /\ ~Unbegun
    BY <1>4, <2>1
  <2>3. PICK a : a = QueueUpdate(<<>>)
    OBVIOUS
  <2>4. a \in Record /\ a.type = "queue_update" /\ Settled \in Record /\ Settled.type = "agent_settled"
    BY <2>3, RecordTypes, EmptySeq DEF QueueUpdate, Settled
  <2>5. Emit(<<a, Settled>>) /\ Tells(a, Settled)
    BY <1>6, <2>3 DEF Closes, Tells
  <2>6. \A i, j \in Settlements(records') : i = j
    BY <1>1, <2>2, <2>4, <2>5, EmitTells
  <2>7. Refused' => Refused
    BY <1>1, <2>4, <2>5, RefusedTells
  <2>8. ~Unbegun'
    BY <1>1, <1>2, <2>2, <2>7 DEF Unbegun
  <2>9. QED
    BY <1>1, <2>1, <2>2, <2>6, <2>8, PhasesSay
<1>7. CASE GoesOn
  <2>1. Busy /\ (AtTask' <=> AtTask)
    BY <1>7 DEF GoesOn, Busy
  <2>2. Settlements(records') \subseteq Settlements(records) /\ (Refused' => Refused)
    <3>1. CASE UNCHANGED records
      BY <1>1, <3>1 DEF Refused
    <3>2. CASE ~(UNCHANGED records)
      <4>1. PICK a \in Record, b \in Record :
              Tells(a, b) /\ a.type \notin {"response", "agent_settled"} /\ b.type \notin {"response", "agent_settled"}
        BY <1>7, <3>2 DEF GoesOn
      <4>2. Settlements(records') \subseteq Settlements(records)
        BY <1>1, <4>1, EmitTells DEF Tells
      <4>3. QED
        BY <1>1, <4>1, <4>2, RefusedTells
    <3>3. QED
      BY <3>1, <3>2
  <2>3. Unbegun' => Unbegun
    BY <1>1, <1>2, <2>2 DEF Unbegun
  <2>4. QED
    BY <1>1, <1>4, <2>1, <2>2, <2>3, PhasesSay
<1>8. QED
  BY <1>2, <1>5, <1>6, <1>7

\* What a prompt's exchange learns from a record.
LEMMA ReadPromptSays ==
  ASSUME ReadPrompt
  PROVE  /\ kind = "prompt" /\ records # <<>> /\ records' = Tail(records) /\ UNCHANGED <<commands, exchange_id>>
         /\ settled' => settled \/ Head(records).type = "agent_settled"
         /\ rejection' => rejection \/ (/\ Head(records).type = "response"
                                        /\ Head(records).id = <<exchange_id, "main">> /\ ~Head(records).ok)
         /\ kind' = "prompt" \/ (kind' = "left" /\ (settled' \/ rejection'))
<1>1. ASSUME NEW f, Proceed(f), kind = "prompt"
      PROVE  UNCHANGED <<commands, exchange_id>> /\ (kind' = "prompt" \/ (kind' = "left" /\ (settled' \/ rejection')))
  BY <1>1 DEF Proceed, Complete, RejectionDue
<1>2. CASE AcknowledgeQueued
  BY <1>1, <1>2 DEF AcknowledgeQueued, InPrompt, Read
<1>3. CASE AcknowledgeClear
  BY <1>1, <1>3 DEF AcknowledgeClear, InPrompt, Read
<1>4. CASE AcknowledgeAbort
  BY <1>1, <1>4 DEF AcknowledgeAbort, InPrompt, Read
<1>5. CASE AcknowledgePrompt
  BY <1>1, <1>5 DEF AcknowledgePrompt, InPrompt, Read
<1>6. CASE ObserveStart
  BY <1>1, <1>6 DEF ObserveStart, InPrompt, Read
<1>7. CASE ObserveSettled
  BY <1>1, <1>7 DEF ObserveSettled, InPrompt, Read
<1>8. CASE ObserveQueue
  BY <1>1, <1>8 DEF ObserveQueue, InPrompt, Read
<1>9. CASE ObserveDelivery
  BY <1>1, <1>9 DEF ObserveDelivery, InPrompt, Read
<1>10. CASE ObserveRejected
  BY <1>1, <1>10 DEF ObserveRejected, InPrompt, Read
<1>11. CASE ObserveOther
  BY <1>1, <1>11 DEF ObserveOther
<1>12. QED
  BY <1>2, <1>3, <1>4, <1>5, <1>6, <1>7, <1>8, <1>9, <1>10, <1>11 DEF ReadPrompt

\* A response in the rest was one before.
LEMMA RefusedLess ==
  ASSUME records \in Seq(Record), ReadPrompt, Refused'
  PROVE  Refused
<1>1. /\ records # <<>> /\ records' = Tail(records) /\ UNCHANGED exchange_id
      /\ rejection' => rejection \/ (/\ Head(records).type = "response"
                                     /\ Head(records).id = <<exchange_id, "main">> /\ ~Head(records).ok)
  BY ReadPromptSays
<1>2. /\ 1 \in DOMAIN records /\ records[1] = Head(records)
      /\ \A i \in DOMAIN records' : i + 1 \in DOMAIN records /\ records'[i] = records[i + 1]
  BY <1>1, TailElements
<1>3. CASE rejection'
  BY <1>1, <1>2, <1>3 DEF Refused, Responses
<1>4. CASE \E i \in Responses(records') : records'[i].id = <<exchange_id, "main">> /\ ~records'[i].ok
  BY <1>2, <1>4 DEF Refused, Responses
<1>5. QED
  BY <1>1, <1>3, <1>4 DEF Refused, Responses

LEMMA PhasesUser ==
  ASSUME TypeOK, Exchange, Traffic, Phases, UserStep
  PROVE  Phases'
<1>1. /\ ClientStep /\ UNCHANGED <<Busy, AtTask, stray>> /\ records \in Seq(Record) /\ commands \in Seq(Command)
  BY DEF UserStep, engine, queue, task, Busy, AtTask, TypeOK
<1>2. SUFFICES ASSUME ~stray' PROVE Phases'
  BY DEF Phases
<1>3. /\ kind # "prompt" => Settlements(records) = {} /\ (Busy => AtTask)
      /\ kind = "prompt" =>
           /\ Busy => ~settled /\ Settlements(records) = {}
           /\ Unbegun => ~Busy /\ ~settled /\ Settlements(records) = {}
           /\ settled => Settlements(records) = {}
           /\ \A i, j \in Settlements(records) : i = j
  BY <1>1, <1>2, PhasesSay
<1>4. CASE ReadPrompt
  <2>1. /\ kind = "prompt" /\ records # <<>> /\ records' = Tail(records) /\ UNCHANGED <<commands, exchange_id>>
        /\ settled' => settled \/ Head(records).type = "agent_settled"
        /\ kind' = "prompt" \/ (kind' = "left" /\ (settled' \/ rejection'))
    BY <1>4, ReadPromptSays
  <2>2. /\ Settlements(records) = {} => Settlements(records') = {}
        /\ \A i, j \in Settlements(records') : i = j
        /\ Head(records).type = "agent_settled" => Settlements(records') = {} /\ Settlements(records) # {}
    BY <1>1, <1>3, <2>1, SettledLess
  <2>3. Unbegun' => Unbegun
    BY <1>1, <1>4, <2>1, RefusedLess DEF Unbegun
  <2>4. settled' => ~Busy' /\ Settlements(records') = {} /\ ~Unbegun
    BY <1>1, <1>3, <2>1, <2>2
  <2>5. Unbegun' => ~Busy' /\ Settlements(records') = {}
    BY <1>1, <1>3, <2>1, <2>2, <2>3
  <2>6. Busy' => Settlements(records') = {}
    BY <1>1, <1>3, <2>1, <2>2
  <2>7. rejection' => Unbegun'
    BY DEF Unbegun, Refused
  <2>8. kind' # "prompt" => Settlements(records') = {} /\ ~Busy'
    BY <2>1, <2>4, <2>5, <2>7
  <2>9. QED
    BY <2>2, <2>3, <2>4, <2>5, <2>6, <2>8, PhasesSay
<1>5. CASE ReadCompact \/ ReadRequest
  <2>1. kind # "prompt" /\ kind' # "prompt" /\ records # <<>> /\ records' = Tail(records)
    BY <1>5 DEF ReadCompact, ReadRequest
  <2>2. Settlements(records') = {}
    BY <1>1, <1>3, <2>1, SettledLess
  <2>3. QED
    BY <1>1, <1>3, <2>1, <2>2, PhasesSay
<1>6. CASE SubmitPrompt
  <2>1. kind = "none" /\ UNCHANGED records /\ ~settled'
    BY <1>6 DEF SubmitPrompt, Open, FreshLocals
  <2>2. ~AtTask
    BY <2>1, NothingComes DEF Traffic, Owed
  <2>3. ~Busy' /\ Settlements(records') = {}
    BY <1>1, <1>3, <2>1, <2>2
  <2>4. QED
    BY <2>1, <2>3, PhasesSay
<1>7. CASE SubmitCompact \/ AskStatus \/ AskRequest \/ EscapeCompact
  <2>1. kind # "prompt" /\ kind' # "prompt" /\ UNCHANGED records
    BY <1>7 DEF SubmitCompact, AskStatus, AskRequest, EscapeCompact, Open, Ask
  <2>2. QED
    BY <1>1, <1>3, <2>1, PhasesSay
<1>8. ASSUME kind = "prompt", UNCHANGED <<kind, exchange_id, settled, rejection, records>>,
             <<exchange_id, "main">> \in Asked(commands') => <<exchange_id, "main">> \in Asked(commands)
      PROVE  Phases'
  <2>1. Refused' => Refused
    BY <1>8 DEF Refused
  <2>2. Unbegun' => Unbegun
    BY <1>8, <2>1 DEF Unbegun
  <2>3. QED
    BY <1>1, <1>3, <1>8, <2>2, PhasesSay
<1>9. sent \in Nat /\ sent + 1 \in Nat /\ exchange_id \in Nat /\ exchange_id # sent + 1
  BY WireAssumption DEF TypeOK, Exchange, Locals
<1>10. \A k \in Kinds, n \in Nat, part \in {"main", "clear", "abort", "request"}, m \in Modes :
         Line(k, <<n, part>>, m) \in Command
  BY DEF Line, Command, Ids
<1>11. CASE QueueSubmission
  <2>1. PICK mode \in {"steer", "followUp"} : Write(<<Line("prompt", <<sent + 1, "main">>, mode)>>)
    BY <1>11 DEF QueueSubmission
  <2>2. PICK l : l = Line("prompt", <<sent + 1, "main">>, mode)
    OBVIOUS
  <2>3. l \in Command
    BY <1>9, <1>10, <2>2 DEF Kinds, Modes
  <2>4. l.id = <<sent + 1, "main">>
    BY <2>2 DEF Line
  <2>5. commands' = Append(commands, l)
    BY <1>1, <2>1, <2>2 DEF Write
  <2>6. Asked(commands') = Asked(commands) \cup {l.id}
    BY <1>1, <2>3, <2>5, AskedMore
  <2>7. kind = "prompt" /\ UNCHANGED <<kind, exchange_id, settled, rejection, records>>
    BY <1>11 DEF QueueSubmission, ReadsKeys, flags
  <2>8. l.id # <<exchange_id, "main">>
    BY <1>9, <2>4
  <2>9. QED
    BY <1>8, <2>6, <2>7, <2>8
<1>12. CASE Escape
  <2>1. PICK l, m : l = Line("clear_queue", <<exchange_id, "clear">>, "none") /\ m = Line("abort", <<exchange_id, "abort">>, "none")
    OBVIOUS
  <2>2. l \in Command
    BY <1>9, <1>10, <2>1 DEF Kinds, Modes
  <2>3. m \in Command
    BY <1>9, <1>10, <2>1 DEF Kinds, Modes
  <2>4. l.id = <<exchange_id, "clear">> /\ m.id = <<exchange_id, "abort">>
    BY <2>1 DEF Line
  <2>5. commands' = Append(Append(commands, l), m)
    <3>1. commands' = commands \o <<l, m>>
      BY <1>12, <2>1 DEF Escape, Write
    <3>2. commands \o <<l, m>> = Append(Append(commands, l), m)
      BY <1>1, <2>2, <2>3
    <3>3. QED
      BY <3>1, <3>2
  <2>6. PICK g : g = Append(commands, l)
    OBVIOUS
  <2>7. g \in Seq(Command) /\ Asked(g) = Asked(commands) \cup {l.id}
    BY <1>1, <2>2, <2>6, AskedMore
  <2>8. Asked(commands') = Asked(g) \cup {m.id}
    BY <2>3, <2>5, <2>6, <2>7, AskedMore
  <2>9. kind = "prompt" /\ UNCHANGED <<kind, exchange_id, settled, rejection, records>>
    BY <1>12 DEF Escape, ReadsKeys
  <2>10. l.id # <<exchange_id, "main">> /\ m.id # <<exchange_id, "main">>
    BY <2>4
  <2>11. QED
    BY <1>8, <2>7, <2>8, <2>9, <2>10
<1>13. QED
  BY <1>1, <1>4, <1>5, <1>6, <1>7, <1>11, <1>12 DEF ClientStep, ReadStep

LEMMA PhasesLost ==
  ASSUME Reconnect
  PROVE  Phases'
<1>1. kind' = "none" /\ records' = <<>> /\ ~Busy'
  BY DEF Reconnect, Restart, ForgetExchange, Busy
<1>2. Settlements(records') = {}
  BY <1>1 DEF Settlements
<1>3. QED
  BY <1>1, <1>2, PhasesSay

-----------------------------------------------------------------------------
(* The invariant is inductive.                                             *)

LEMMA AgreementBegins ==
  ASSUME ConversationInit
  PROVE  Agreement
<1>1. Init /\ ClientInit /\ commands = <<>> /\ records = <<>> /\ sent = 0 /\ pc = "none" /\ caller = <<0, "main">>
      /\ running = FALSE
  BY DEF ConversationInit, Init, WireInit
<1>2. IInv
  BY <1>1, InitInductive
<1>3. Answering /\ ~AtTask /\ ~Busy
  BY <1>1 DEF Answering, AtTask, Busy
<1>4. Locals
  <2>1. fate \in [Prompts -> Fates]
    BY <1>1 DEF ClientInit, Fates
  <2>2. 0 \in 0 .. sent /\ {} \subseteq (0 + 1) .. sent
    BY <1>1
  <2>3. QED
    BY <1>1, <2>1, <2>2 DEF ClientInit, Locals
<1>5. Exchange
  BY <1>1, <1>4 DEF Exchange, Commanded
<1>6. Traffic
  BY <1>1, <1>3 DEF Traffic, OnTheWay, Asked, AskedOnce, Responses, Answered, AnsweredOnce, Owed
<1>7. HandedBack
  BY <1>1, <1>3 DEF HandedBack, ClientInit
<1>8. Phases
  <2>1. kind = "none" /\ Settlements(records) = {}
    BY <1>1 DEF ClientInit, Settlements
  <2>2. QED
    BY <1>3, <2>1 DEF Phases
<1>9. QED
  BY <1>2, <1>3, <1>5, <1>6, <1>7, <1>8 DEF Agreement

LEMMA AgreementUser ==
  ASSUME Agreement, UserStep
  PROVE  Agreement'
<1>1. /\ IInv /\ TypeOK /\ Answering /\ Exchange /\ Traffic /\ HandedBack /\ Phases /\ ClientStep
      /\ exchange_id \in 0 .. sent
  BY DEF Agreement, IInv, UserStep, Exchange, Locals
<1>2. IInv'
  BY <1>1, UserKeeps
<1>3. Answering'
  BY <1>1 DEF UserStep, engine, task, Answering, AtTask
<1>4. PICK owed : owed = Owed
  OBVIOUS
<1>5. WireTyped /\ OnTheWay(owed)
  BY <1>1, <1>4, TypedWire DEF Traffic
<1>6. OnTheWay(owed)' /\ Owed' = owed
  <2>1. Owed' = owed
    BY <1>1, <1>4 DEF UserStep, engine, task, AtTask, Owed
  <2>2. QED
    BY <1>1, <1>5, <2>1, TrafficUser
<1>7. Traffic'
  BY <1>6 DEF Traffic
<1>8. Exchange'
  BY <1>1, <1>5, <1>6, LocalsUser, CommandedUser DEF Exchange
<1>9. HandedBack'
  BY <1>1, HandedBackUser
<1>10. Phases'
  BY <1>1, PhasesUser
<1>11. QED
  BY <1>2, <1>3, <1>7, <1>8, <1>9, <1>10 DEF Agreement

LEMMA AgreementLoop ==
  ASSUME Agreement, LoopStep
  PROVE  Agreement'
<1>1. /\ IInv /\ TypeOK /\ Answering /\ Exchange /\ Traffic /\ HandedBack /\ Phases /\ Loop /\ UNCHANGED client
  BY DEF Agreement, IInv, LoopStep
<1>2. IInv'
  BY <1>1, StepInductive DEF Next
<1>3. TypeOK'
  BY <1>2 DEF IInv
<1>4. Answering'
  BY <1>1, AnsweringLoop
<1>5. UNCHANGED sent /\ commands # <<>> /\ commands' = Tail(commands)
  BY <1>1, LoopTells
<1>6. Exchange'
  BY <1>1, <1>5, TypedWire, ExchangeEngine
<1>7. Traffic'
  BY <1>1, <1>3, TrafficLoop
<1>8. HandedBack'
  BY <1>1, HandedBackLoop
<1>9. Phases'
  BY <1>1, <1>3, PhasesLoop
<1>10. QED
  BY <1>2, <1>4, <1>6, <1>7, <1>8, <1>9 DEF Agreement

LEMMA AgreementTask ==
  ASSUME Agreement, TaskStep
  PROVE  Agreement'
<1>1. /\ IInv /\ TypeOK /\ Answering /\ Exchange /\ Traffic /\ HandedBack /\ Phases /\ Task /\ UNCHANGED client
  BY DEF Agreement, IInv, TaskStep
<1>2. IInv'
  BY <1>1, StepInductive DEF Next
<1>3. TypeOK'
  BY <1>2 DEF IInv
<1>4. Answering'
  BY <1>1, AnsweringTask
<1>5. UNCHANGED <<commands, sent>>
  BY <1>1, TaskWire
<1>6. Exchange'
  BY <1>1, <1>5, TypedWire, ExchangeEngine
<1>7. Traffic'
  BY <1>1, <1>3, TrafficTask
<1>8. HandedBack'
  BY <1>1, <1>3, HandedBackTask
<1>9. Phases'
  BY <1>1, <1>3, PhasesTask
<1>10. QED
  BY <1>2, <1>4, <1>6, <1>7, <1>8, <1>9 DEF Agreement

LEMMA AgreementLost ==
  ASSUME Agreement, Reconnect
  PROVE  Agreement'
<1>1. /\ IInv /\ TypeOK /\ Exchange /\ HandedBack /\ Restart
  BY DEF Agreement, IInv, Reconnect
<1>2. IInv'
  BY <1>1, StepInductive DEF Next
<1>3. Answering'
  BY <1>1 DEF Restart, Answering
<1>4. QED
  BY <1>1, <1>2, <1>3, ExchangeLost, TrafficLost, HandedBackLost, PhasesLost DEF Agreement

LEMMA AgreementStays ==
  ASSUME Agreement, UNCHANGED cvars
  PROVE  Agreement'
<1>1. IInv /\ Answering /\ Exchange /\ Traffic /\ HandedBack /\ Phases
  BY DEF Agreement
<1>2. UNCHANGED vars /\ UNCHANGED <<commands, records, queue, signal, session, task, sent, client, stray>>
  BY DEF cvars, vars, wire
<1>3. IInv'
  BY <1>1, <1>2, StepInductive
<1>4. UNCHANGED <<AtTask, Owed, Known, Busy>>
  BY <1>2 DEF AtTask, Owed, Known, Told, Undelivered, Busy, queue, session, task
<1>5. Answering'
  BY <1>1, <1>2 DEF Answering, AtTask, task
<1>6. Locals' /\ Commanded'
  BY <1>1, <1>2 DEF Exchange, Locals, Commanded, client, flags
<1>7. Traffic'
  BY <1>1, <1>2, <1>4, ExpectsSame DEF Traffic, OnTheWay
<1>8. \A p : Gone(p) => GoneNext(p)
  BY <1>2, <1>4 DEF Gone, GoneNext
<1>9. HandedBack'
  <2>1. UNCHANGED <<fate, records, commands, AtTask, caller>>
    BY <1>2, <1>4 DEF client, task
  <2>2. QED
    BY <1>1, <1>8, <2>1, HandedBackNext DEF HandedBack
<1>10. Phases'
  <2>1. UNCHANGED <<stray, kind, settled, rejection, exchange_id, records, commands, AtTask, Busy>>
    BY <1>2, <1>4 DEF client, flags
  <2>2. UNCHANGED Refused
    BY <2>1 DEF Refused
  <2>3. QED
    BY <1>1, <2>1, <2>2 DEF Phases
<1>11. QED
  BY <1>3, <1>5, <1>6, <1>7, <1>9, <1>10 DEF Agreement, Exchange

LEMMA AgreementStep ==
  ASSUME Agreement, [ConversationNext]_cvars
  PROVE  Agreement'
  BY AgreementUser, AgreementLoop, AgreementTask, AgreementLost, AgreementStays DEF ConversationNext

\* Agreement: whatever a client and an engine do together, the engine's own invariant
\* holds behind the real client, and all that is on its way is what the client waits for.
THEOREM AlwaysAgree == ConversationSpec => []Agreement
<1>1. ConversationInit => Agreement
  BY AgreementBegins
<1>2. Agreement /\ [ConversationNext]_cvars => Agreement'
  BY AgreementStep
<1>3. QED
  BY <1>1, <1>2, PTL DEF ConversationSpec

\* ImplementsSubmissions: whatever provider, tools, sessions and summaries do behind it,
\* what the engine does on the socket is what Submissions promises.
THEOREM EngineImplementsSubmissions == ConversationSpec => ImplementsSubmissions
<1>1. ConversationInit => Promised!WireInit /\ Promised!SubmissionsInit
  <2> SUFFICES ASSUME ConversationInit PROVE Promised!WireInit /\ Promised!SubmissionsInit
    OBVIOUS
  <2>1. Init /\ pc = "none"
    BY DEF ConversationInit, Init
  <2>2. Stage = "none"
    BY <2>1, StageIs
  <2>3. QED
    BY <2>1, <2>2 DEF Init, WireInit, Promised!WireInit, Promised!SubmissionsInit
<1>2. ASSUME Agreement, [ConversationNext]_cvars
      PROVE  [\/ Promised!Serve /\ UNCHANGED sent
              \/ Promised!Lose /\ UNCHANGED sent
              \/ Promised!Outside]_<<Promised!wire, sent, Promised!work>>
  <2>1. TypeOK /\ Answering /\ exchange_id \in 0 .. sent
    BY <1>2 DEF Agreement, IInv, Exchange, Locals
  <2>2. CASE UserStep
    BY <2>1, <2>2, UserImplements
  <2>3. CASE LoopStep
    BY <2>3, LoopImplements DEF LoopStep, Promised!Serve
  <2>4. CASE TaskStep
    BY <2>1, <2>4, TaskImplements DEF TaskStep, Promised!Serve, Promised!wire
  <2>5. CASE Reconnect
    BY <2>5, LoseImplements DEF Reconnect
  <2>6. CASE UNCHANGED cvars
    <3>1. UNCHANGED <<commands, records, sent, running, items, turn, caller, pc, resume>>
      BY <2>6 DEF cvars, vars, wire, queue, task
    <3>2. UNCHANGED Promised!work
      BY <3>1, StageStays, StageKept
    <3>3. QED
      BY <3>1, <3>2 DEF Promised!wire
  <2>7. QED
    BY <1>2, <2>2, <2>3, <2>4, <2>5, <2>6 DEF ConversationNext
<1>3. Agreement /\ [ConversationNext]_cvars =>
        [\/ Promised!Serve /\ UNCHANGED sent
         \/ Promised!Lose /\ UNCHANGED sent
         \/ Promised!Outside]_<<Promised!wire, sent, Promised!work>>
  BY <1>2
<1>4. QED
  BY <1>1, <1>3, AlwaysAgree, PTL DEF ConversationSpec, ImplementsSubmissions, Promised!SubmissionsSpec

\* LeftAtRest: when the composer is back nothing of its exchange is on its way any
\* more, and no run is active unless a submission was too late and began its own.
THEOREM AlwaysLeftAtRest == ConversationSpec => []LeftAtRest
<1>1. ASSUME Agreement PROVE LeftAtRest
  <2>1. commands \in Seq(Command) /\ Traffic /\ Phases
    BY <1>1 DEF Agreement, IInv, TypeOK
  <2>2. ASSUME kind \in {"left", "none"}
        PROVE  commands = <<>> /\ \A i \in DOMAIN records : records[i].type # "response"
    <3>1. DOMAIN commands = {} /\ Responses(records) = {}
      BY <2>1, <2>2, NothingComes DEF Traffic
    <3>2. QED
      BY <2>1, <3>1 DEF Responses
  <2>3. ASSUME kind = "none", ~stray PROVE ~running
    <3>1. ~AtTask
      BY <2>1, <2>3, NothingComes DEF Traffic, Owed
    <3>2. QED
      BY <2>1, <2>3, <3>1 DEF Phases, Busy
  <2>4. QED
    BY <2>2, <2>3 DEF LeftAtRest
<1>2. Agreement => LeftAtRest
  BY <1>1
<1>3. QED
  BY <1>2, AlwaysAgree, PTL

\* ReturnedNotRun: a submission shown as handed back is in no history, in no queue and
\* in no run, nor will it be: the user may send it again.
THEOREM AlwaysReturnedNotRun == ConversationSpec => []ReturnedNotRun
<1>1. ASSUME Agreement PROVE ReturnedNotRun
  <2> SUFFICES ASSUME NEW p \in Prompts, fate[p] = "returned"
               PROVE  /\ \A i \in DOMAIN mem : mem[i] # User(p)
                      /\ \A i \in DOMAIN items : items[i].id # p
                      /\ p \notin Undelivered
    BY DEF ReturnedNotRun
  <2>1. p \notin Known
    BY <1>1 DEF Agreement, HandedBack, Gone
  <2>2. ~Holds(mem, p) /\ p \notin Waiting(items) /\ p \notin Undelivered
    BY <2>1 DEF Known, Told
  <2>3. QED
    BY <2>2 DEF Holds, Waiting
<1>2. Agreement => ReturnedNotRun
  BY <1>1
<1>3. QED
  BY <1>2, AlwaysAgree, PTL
=============================================================================
