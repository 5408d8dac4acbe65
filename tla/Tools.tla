------------------------------- MODULE Tools -------------------------------
(***************************************************************************)
(* The calls of a run that start programs, one after the other: shell      *)
(* commands (src/runtime/tools.rs) and extension programs                  *)
(* (src/extensions/process.rs), both in a process group of their own       *)
(* (src/process.rs), with the cancellation of the run; and the checklist   *)
(* that goal calls keep between them.  A program does what it likes: it    *)
(* starts a descendant, writes, closes its pipes, exits, or hangs.         *)
(***************************************************************************)
EXTENDS Naturals, SequencesExt, FiniteSetsExt

CONSTANTS
  OutputLimit,   \* OUTPUT_LIMIT: bytes of a stream (64 KiB in the code)
  Label,         \* labels of steps
  MaxSteps,      \* steps of a checklist (50 in the code)
  MaxCalls       \* bound: calls of the run

VARIABLES
  calls,     \* how many calls the run has made
  answer,    \* what the engine got for the latest
  tool,      \* the call in progress: "shell", "extension" or "none"
  stage,     \* where run() is
  alive,     \* the members of the group that run
  zombie,    \* the child has exited and nobody has waited for it
  pipes,     \* who holds which pipe
  written,   \* bytes written to each output, while somebody reads
  input,     \* the request for an extension: "none", "writing" or "written"
  code,      \* the exit of the child
  outcome,   \* what run() will return
  stopped,   \* the watch channel of the run: a cancellation
  noticed,   \* the receiver has seen it
  steps      \* the checklist

group == <<alive, zombie, pipes, written, input, code>>
tvars == <<calls, answer, tool, stage, group, outcome, stopped, noticed, steps>>

Member == {"child", "descendant"}
Stream == {"stdin", "stdout", "stderr"}
Outputs == {"stdout", "stderr"}
NoOutput == [s \in Outputs |-> 0]
Nobodys == [s \in Stream |-> {}]

ToolsInit ==
  /\ calls = 0 /\ answer = "none" /\ tool = "none" /\ stage = "idle"
  /\ alive = {} /\ zombie = FALSE /\ pipes = Nobodys /\ written = NoOutput
  /\ input = "none" /\ code = "none" /\ outcome = "none"
  /\ stopped = FALSE /\ noticed = FALSE /\ steps = <<>>

\* The user stops the run, at any time.
Stop == /\ ~stopped /\ stopped' = TRUE
        /\ UNCHANGED <<calls, answer, tool, stage, group, outcome, noticed, steps>>

Answers(a) == calls' = calls + 1 /\ answer' = a

-----------------------------------------------------------------------------
(* process::run().                                                         *)

\* A cancelled run starts no program.
Refuse ==
  /\ stage = "idle" /\ stopped /\ calls < MaxCalls
  /\ Answers("cancelled")
  /\ UNCHANGED <<tool, stage, group, outcome, stopped, noticed, steps>>

\* spawn(): the cancellation may come at once behind the look at it.
Spawn ==
  /\ stage = "idle" /\ ~stopped /\ calls < MaxCalls
  /\ tool' \in {"shell", "extension"}
  /\ stage' = "running" /\ alive' = {"child"} /\ zombie' = FALSE
  /\ input' = IF tool' = "extension" THEN "writing" ELSE "none"
  /\ pipes' = [s \in Stream |-> IF s = "stdin" /\ tool' = "shell" THEN {} ELSE {"child"}]
  /\ written' = NoOutput /\ code' = "running" /\ outcome' = "none"
  /\ answer' = "none"
  /\ UNCHANGED <<calls, stopped, noticed, steps>>

\* The programs.  A pipe without a reader takes nothing more.
Fork ==
  /\ "child" \in alive /\ "descendant" \notin alive
  /\ alive' = alive \cup {"descendant"}
  /\ pipes' = [s \in Stream |-> pipes[s] \cup (IF "child" \in pipes[s] THEN {"descendant"} ELSE {})]
  /\ UNCHANGED <<calls, answer, tool, stage, zombie, written, input, code, outcome, stopped, noticed, steps>>

Writes(s, m) ==
  /\ stage = "running" /\ m \in alive /\ m \in pipes[s] /\ written[s] <= OutputLimit
  /\ written' = [written EXCEPT ![s] = @ + 1]
  /\ UNCHANGED <<calls, answer, tool, stage, alive, zombie, pipes, input, code, outcome, stopped, noticed, steps>>

ClosePipe(s, m) ==
  /\ m \in alive /\ m \in pipes[s]
  /\ pipes' = [pipes EXCEPT ![s] = @ \ {m}]
  /\ UNCHANGED <<calls, answer, tool, stage, alive, zombie, written, input, code, outcome, stopped, noticed, steps>>

Released(members) == [s \in Stream |-> pipes[s] \ members]

Exit(m) ==
  /\ m \in alive /\ alive' = alive \ {m} /\ pipes' = Released({m})
  /\ IF m = "child"
     THEN code' \in {"zero", "failed"} /\ zombie' = TRUE
     ELSE UNCHANGED <<code, zombie>>
  /\ UNCHANGED <<calls, answer, tool, stage, written, input, outcome, stopped, noticed, steps>>

\* write_all() and shutdown(): a pipe that nobody holds any more breaks.
WriteInput ==
  /\ stage = "running" /\ input = "writing" /\ pipes["stdin"] # {}
  /\ input' = "written"
  /\ UNCHANGED <<calls, answer, tool, stage, alive, zombie, pipes, written, code, outcome, stopped, noticed, steps>>

\* child.wait() reaps the child; its group lives on.
WaitChild ==
  /\ stage = "running" /\ zombie /\ zombie' = FALSE
  /\ UNCHANGED <<calls, answer, tool, stage, alive, pipes, written, input, code, outcome, stopped, noticed, steps>>

\* The select! and the try_join! in it: what ends them.
Ends(o) ==
  /\ stage = "running" /\ stage' = "ended" /\ outcome' = o
  /\ UNCHANGED <<calls, answer, tool, group, stopped, steps>>

Complete ==
  /\ code \in {"zero", "failed"} /\ ~zombie /\ input # "writing"
  /\ \A s \in Outputs : pipes[s] = {} /\ written[s] <= OutputLimit
  /\ Ends("output") /\ UNCHANGED noticed
OverLimit == (\E s \in Outputs : written[s] > OutputLimit) /\ Ends("limit") /\ UNCHANGED noticed
BrokenInput == input = "writing" /\ pipes["stdin"] = {} /\ Ends("io") /\ UNCHANGED noticed
TimeOut == Ends("timeout") /\ UNCHANGED noticed
\* changed() compares versions: it also sees what came before it was called.
Cancelled == stopped /\ ~noticed /\ Ends("cancelled") /\ noticed' = TRUE

\* Mutant: only the child is killed.
Killed_Child == {"child"}
\* drop(group): SIGKILL to the group, whatever ended the call.
Killed == Member
KillGroup ==
  /\ stage = "ended" /\ stage' = "killed"
  /\ alive' = alive \ Killed /\ pipes' = Released(alive \cap Killed)
  /\ IF "child" \in alive THEN zombie' = TRUE /\ code' = "signal" ELSE UNCHANGED <<zombie, code>>
  /\ UNCHANGED <<calls, answer, tool, written, input, outcome, stopped, noticed, steps>>

\* The runtime that polls the call is closed in the middle of it: dropped futures
\* kill as well, and wait for nothing.
Drop ==
  /\ stage \in {"running", "ended", "killed"} /\ stage' = "dropped"
  /\ alive' = alive \ Killed /\ pipes' = Released(alive \cap Killed)
  /\ UNCHANGED <<calls, answer, tool, zombie, written, input, code, outcome, stopped, noticed, steps>>

\* An extension's answer: one JSON reply with the identifier of this request; data
\* that its output schema refuses becomes an error.
ReplyOf(o, c) ==
  IF o # "output" THEN {o}
  ELSE IF c = "zero" THEN (IF tool = "shell" THEN {"done"} ELSE {"done", "logical error", "bad data", "bad reply"})
  ELSE {"failed"}

\* start_kill() and wait(): the child is gone; its answer goes to the engine.
Return ==
  /\ stage = "killed" /\ "child" \notin alive
  /\ stage' = "idle" /\ zombie' = FALSE /\ tool' = "none"
  /\ \E a \in ReplyOf(outcome, code) : Answers(a)
  /\ UNCHANGED <<alive, pipes, written, input, code, outcome, stopped, noticed, steps>>

ProgramSteps == \/ Fork
                \/ \E m \in Member : \/ Exit(m)
                                     \/ \E s \in Stream : ClosePipe(s, m)
                                     \/ \E s \in Outputs : Writes(s, m)
RunSteps == \/ Refuse \/ Spawn \/ WriteInput \/ WaitChild \/ Complete \/ OverLimit \/ BrokenInput
            \/ TimeOut \/ Cancelled \/ KillGroup \/ Drop \/ Return

-----------------------------------------------------------------------------
(* The goal tool.                                                          *)

\* A call the code refuses, or one of a cancelled run, changes nothing.
Goal(accepted, next) ==
  /\ stage = "idle" /\ calls < MaxCalls
  /\ steps' = IF accepted /\ ~stopped THEN next ELSE steps
  /\ Answers(IF stopped THEN "cancelled" ELSE IF accepted THEN "done" ELSE "failed")
  /\ UNCHANGED <<tool, stage, group, outcome, stopped, noticed>>

\* HashSet::insert() refuses a label that is named twice.
SetGoal ==
  \E labels \in UNION {[1 .. n -> Label] : n \in 0 .. (MaxSteps + 1)} :
    Goal(labels # <<>> /\ Len(labels) <= MaxSteps /\ IsInjective(labels),
         [i \in DOMAIN labels |-> [label |-> labels[i], done |-> FALSE]])
CompleteGoal ==
  \E id \in 0 .. (MaxSteps + 1) :
    LET open == id \in DOMAIN steps /\ ~steps[id].done
    IN  Goal(open, IF open THEN [steps EXCEPT ![id].done = TRUE] ELSE steps)
ClearGoal == Goal(TRUE, <<>>)

ToolsNext == Stop \/ ProgramSteps \/ RunSteps \/ SetGoal \/ CompleteGoal \/ ClearGoal

-----------------------------------------------------------------------------
(* Properties.                                                             *)

\* When a call has been answered, or given up, nothing of its program runs any
\* more, and the child has been waited for.
GroupGone ==
  /\ stage \in {"idle", "dropped"} => alive = {}
  /\ stage = "idle" => ~zombie

\* An output that a call answers with is the whole of it: the child has exited,
\* every writer is gone, nothing exceeded the limit and the request was written.
OutputIsWhole ==
  outcome = "output" =>
    /\ code \in {"zero", "failed"} /\ input # "writing"
    /\ \A s \in Outputs : pipes[s] = {} /\ written[s] <= OutputLimit

\* The checklist names each of its few steps once.
StepsAreDistinct ==
  /\ Len(steps) <= MaxSteps
  /\ \A i, j \in DOMAIN steps : steps[i].label = steps[j].label => i = j

\* What a tool call promises: nothing of it is left behind, and what it answers is
\* complete.
ToolsPromise == GroupGone /\ OutputIsWhole /\ StepsAreDistinct
=============================================================================
