----------------------------- MODULE Submissions -----------------------------
(***************************************************************************)
(* What the engine promises a client about submissions: which of them it   *)
(* holds, in which order it takes them, and which records it sends about   *)
(* each.  The run, the session and the provider behind it are left out.    *)
(* Conversation checks that the engine implements this specification;      *)
(* Composer puts it behind the client and its display.                     *)
(***************************************************************************)
EXTENDS Wire

VARIABLES
  active,   \* a run, a compaction or an extension command is in progress
  waiting,  \* accepted submissions that no run has taken
  stage,    \* where the work is; "none": there is none
  lead,     \* the submission the run's turn begins with
  caller    \* the id a compaction or an extension command answers at its end

work == <<active, waiting, stage, lead, caller>>

Stages == {"none", "begins", "turn", "works", "over", "task"}

SubmissionsInit ==
  /\ active = FALSE /\ waiting = <<>>
  /\ stage = "none" /\ lead = 0 /\ caller = <<0, "main">>

-----------------------------------------------------------------------------
(* Commands.                                                               *)

BeginRun ==
  /\ Take("prompt")
  /\ ~active /\ stage = "none"
  /\ active' = TRUE /\ stage' = "begins"
  /\ lead' = Head(commands).id[1]
  /\ Answer(TRUE)
  /\ UNCHANGED <<waiting, caller>>

Wait ==
  LET q == Insert(waiting, Submission(Head(commands)))
  IN  /\ Take("prompt")
      /\ active /\ Head(commands).mode # "none" /\ Len(waiting) < QueueLimit
      /\ waiting' = q
      /\ Emit(<<Response(Head(commands).id, TRUE), QueueUpdate(q)>>)
      /\ UNCHANGED <<active, stage, lead, caller>>

ClearWaiting ==
  /\ Take("clear_queue")
  /\ waiting' = <<>>
  /\ Emit(<<Response(Head(commands).id, TRUE), QueueUpdate(<<>>)>>)
  /\ UNCHANGED <<active, stage, lead, caller>>

\* An answer that says nothing of a submission, or refuses one.
AnswerOnly ==
  /\ \E what \in Kinds \ {"clear_queue"} :
       Take(what) /\ \E ok \in (IF what = "prompt" THEN {FALSE} ELSE BOOLEAN) : Answer(ok)
  /\ UNCHANGED work

BeginTask ==
  /\ Take("compact") \/ Take("extension_command")
  /\ ~active /\ stage = "none"
  /\ active' = TRUE /\ stage' = "task"
  /\ caller' = Head(commands).id
  /\ UNCHANGED <<records, waiting, lead>>

-----------------------------------------------------------------------------
(* The run.                                                                *)

Announce ==
  /\ stage = "begins"
  /\ stage' = "turn"
  /\ Emit(<<AgentStart>>)
  /\ UNCHANGED <<active, waiting, lead, caller>>

DeliverLead ==
  /\ stage = "turn"
  /\ stage' = "works" /\ lead' = 0
  /\ Emit(<<MessageStart(lead)>>)
  /\ UNCHANGED <<active, waiting, caller>>

DeliverSteering ==
  /\ stage = "works" /\ waiting # <<>> /\ Head(waiting).steer
  /\ waiting' = Tail(waiting)
  /\ Emit(<<MessageStart(Head(waiting).id), QueueUpdate(Tail(waiting))>>)
  /\ UNCHANGED <<active, stage, lead, caller>>

TakeNext ==
  /\ stage = "works" /\ waiting # <<>>
  /\ stage' = "turn" /\ lead' = Head(waiting).id
  /\ waiting' = Tail(waiting)
  /\ Emit(<<QueueUpdate(Tail(waiting))>>)
  /\ UNCHANGED <<active, caller>>

\* Nothing waits: from here on a submission begins a run of its own.
LeaveIdle ==
  /\ stage = "works" /\ waiting = <<>>
  /\ stage' = "over" /\ active' = FALSE
  /\ Emit(<<QueueUpdate(<<>>)>>)
  /\ UNCHANGED <<waiting, lead, caller>>

LeaveCancelled ==
  /\ stage = "works"
  /\ stage' = "over" /\ waiting' = <<>>
  /\ UNCHANGED <<records, active, lead, caller>>

\* A failing run hands back the last of the submissions q that wait.
LeaveFailed ==
  \E q \in {waiting} \cup (IF waiting = <<>> THEN {} ELSE {Tail(waiting)}) :
    /\ stage \in {"turn", "works"}
    /\ stage' = "over" /\ active' = FALSE /\ waiting' = <<>> /\ lead' = 0
    /\ Emit(<<Failed>> \o IF q = <<>> THEN <<>> ELSE <<QueueRejected(Last(q).id)>>)
    /\ UNCHANGED caller

Close ==
  /\ stage = "over"
  /\ stage' = "none" /\ active' = FALSE /\ waiting' = <<>>
  /\ Emit(<<QueueUpdate(<<>>), Settled>>)
  /\ UNCHANGED <<lead, caller>>

EndOfTask ==
  /\ stage = "task"
  /\ stage' = "none" /\ active' = FALSE /\ caller' = <<0, "main">>
  /\ \E ok \in BOOLEAN : Emit(<<Response(caller, ok)>>)
  /\ UNCHANGED <<waiting, lead>>

Working == \/ Announce \/ DeliverLead \/ DeliverSteering \/ TakeNext \/ LeaveIdle
           \/ LeaveCancelled \/ LeaveFailed \/ Close \/ EndOfTask

Serve == (BeginRun \/ Wait \/ ClearWaiting \/ AnswerOnly \/ BeginTask)
         \/ (Working /\ UNCHANGED commands)

\* The engine is lost with what it held and all that is on the wire.
Lose == /\ commands' = <<>> /\ records' = <<>>
        /\ active' = FALSE /\ waiting' = <<>> /\ stage' = "none" /\ lead' = 0
        /\ caller' = <<0, "main">>

\* Whoever is at the other end writes commands and reads records in order.
Outside == /\ IsPrefix(commands, commands') /\ IsSuffix(records', records)
           /\ UNCHANGED work

SubmissionsSpec ==
  /\ WireInit /\ SubmissionsInit
  /\ [][\/ Serve /\ UNCHANGED sent
        \/ Lose /\ UNCHANGED sent
        \/ Outside]_<<wire, sent, work>>
=============================================================================
