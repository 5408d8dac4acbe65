----------------------------- MODULE Transport ------------------------------
(***************************************************************************)
(* The client's end of its connection to the engine:                       *)
(* src/runtime/transport.rs.  A reader thread moves records from the       *)
(* socket into a bounded mailbox and never waits for the client; the       *)
(* client thread takes them out, writes commands with a deadline, and      *)
(* sleeps on a generation that every source of work advances; another      *)
(* thread reads the terminal (src/ui/terminal.rs).                         *)
(***************************************************************************)
EXTENDS Integers, Sequences

CONSTANTS
  MaxBytes, MaxRecords, \* Limits
  Frame,                \* records: [size, ok], ok FALSE when one does not decode
  Chunks,               \* writes that a command takes
  Room,                 \* writes that the socket holds
  MaxFrames, MaxCommands, MaxKeys \* bounds on the environment

ASSUME TransportAssumption ==
  /\ MaxBytes \in Nat /\ MaxRecords \in Nat \ {0} /\ Frame \subseteq [size : Nat \ {0}, ok : BOOLEAN]
  /\ Chunks \in Nat \ {0} /\ Room \in Nat \ {0}
  /\ MaxFrames \in Nat /\ MaxCommands \in Nat /\ MaxKeys \in Nat

VARIABLES
  sent,      \* records the engine has written, those on the socket included
  open,      \* whether the socket is
  read,      \* how many of them the reader has taken off the socket
  reader,    \* the place of the reader
  frames,    \* State.frames: the numbers of the records that wait
  bytes,     \* State.bytes
  closed,    \* State.closed
  failure,   \* whether State.failure is set
  reported,  \* State.reported
  changed,   \* whether the generation is not the one the client captured
  woken,     \* whether Shared.ready was notified while the client waits on it
  client,    \* the place of the client
  holding,   \* the record it has taken and not decoded
  got, told, \* what it has been told: see Mailbox
  left,      \* writes left of the command it is sending
  late,      \* whether PipeWriter.deadline has passed
  commands,  \* commands begun; bounded by MaxCommands
  written,   \* writes made to the socket
  room,      \* writes the socket will take
  keyboard,  \* the place of the thread that reads the terminal
  keys,      \* bytes of the terminal that wait for the client
  fresh,     \* history: one came since the client captured the generation
  typed      \* keys pressed; bounded by MaxKeys

State    == <<frames, bytes, closed, failure, reported>>
socket   == <<sent, open, read, reader>>
wakeup   == <<changed, woken>>
seen     == <<holding, got, told>>
writer   == <<left, late, commands, written, room>>
terminal == <<keyboard, keys, fresh, typed>>
vars     == <<State, socket, wakeup, client, seen, writer, terminal>>

Init ==
  /\ sent = <<>> /\ open = TRUE /\ read = 0 /\ reader = "check"
  /\ frames = <<>> /\ bytes = 0 /\ closed = FALSE /\ failure = FALSE /\ reported = FALSE
  /\ changed = FALSE /\ woken = FALSE
  /\ client = "top" /\ holding = 0 /\ got = 0 /\ told = "open"
  /\ left = 0 /\ late = FALSE /\ commands = 0 /\ written = 0 /\ room = Room
  /\ keyboard = "read" /\ keys = 0 /\ fresh = FALSE /\ typed = 0

-----------------------------------------------------------------------------
(* The mailbox.                                                            *)

\* notify_all or notify_one on Shared.ready, and signal_activity: one client
\* waits, on one of the two.
Notify == changed' = TRUE /\ woken' = TRUE

\* Mutant: what is lost is not told.
SharedFail_Silent ==
  /\ closed' = TRUE /\ frames' = <<>> /\ bytes' = 0
  /\ Notify
  /\ UNCHANGED <<failure, reported>>

\* Shared::fail: what waits is dropped, the client will be told.
SharedFail ==
  /\ failure' = TRUE /\ closed' = TRUE /\ frames' = <<>> /\ bytes' = 0
  /\ Notify
  /\ UNCHANGED reported

HasRoom(n) == sent[n].size <= MaxBytes - bytes /\ Len(frames) < MaxRecords

-----------------------------------------------------------------------------
(* The reader thread: Inbox::start, read_frame and Shared::push.           *)

ReaderChecks ==
  /\ reader = "check"
  /\ reader' = IF closed THEN "done" ELSE "read"
  /\ UNCHANGED <<State, sent, open, read, wakeup, client, seen, writer, terminal>>

\* The size of a record is its capacity, at least its length: a record over the
\* limit is an error, like a failing read.
ReadFrame ==
  /\ reader = "read" /\ read < Len(sent)
  /\ read' = read + 1
  /\ reader' = IF sent[read + 1].size > MaxBytes THEN "fail" ELSE "push"
  /\ UNCHANGED <<State, sent, open, wakeup, client, seen, writer, terminal>>

ReadFails ==
  /\ reader = "read"
  /\ reader' = "fail"
  /\ UNCHANGED <<State, sent, open, read, wakeup, client, seen, writer, terminal>>

Push ==
  /\ reader = "push" /\ ~closed /\ HasRoom(read)
  /\ bytes' = bytes + sent[read].size /\ frames' = Append(frames, read)
  /\ Notify
  /\ reader' = "check"
  /\ UNCHANGED <<closed, failure, reported, sent, open, read, client, seen, writer, terminal>>

\* The lock is let go before the failure is set.
Overflow ==
  /\ reader = "push" /\ ~closed /\ ~HasRoom(read)
  /\ reader' = "fail"
  /\ UNCHANGED <<State, sent, open, read, wakeup, client, seen, writer, terminal>>

PushClosed ==
  /\ reader = "push" /\ closed
  /\ reader' = "done"
  /\ UNCHANGED <<State, sent, open, read, wakeup, client, seen, writer, terminal>>

ReaderFails ==
  /\ reader = "fail"
  /\ SharedFail
  /\ reader' = "done"
  /\ UNCHANGED <<sent, open, read, client, seen, writer, terminal>>

\* The end of the stream: closed under the lock, then the signals.
ReadEnd ==
  /\ reader = "read" /\ read = Len(sent) /\ ~open
  /\ closed' = TRUE
  /\ reader' = "signal"
  /\ UNCHANGED <<frames, bytes, failure, reported, sent, open, read, wakeup, client, seen, writer,
                 terminal>>

SignalEnd ==
  /\ reader = "signal"
  /\ Notify
  /\ reader' = "done"
  /\ UNCHANGED <<State, sent, open, read, client, seen, writer, terminal>>

Reader == \/ ReaderChecks \/ ReadFrame \/ Push \/ Overflow \/ PushClosed \/ ReaderFails
          \/ ReadEnd \/ SignalEnd

-----------------------------------------------------------------------------
(* The client thread: the loops of exchange and of receive_record.         *)

Goto(place) == client' = place

\* An exchange captures the generation before it polls anything.
Capture ==
  /\ client = "top"
  /\ changed' = FALSE /\ fresh' = FALSE
  /\ Goto("input")
  /\ UNCHANGED <<State, socket, woken, seen, writer, keyboard, keys, typed>>

TakeKey ==
  /\ client = "input" /\ keys > 0
  /\ keys' = keys - 1
  /\ UNCHANGED <<State, socket, wakeup, client, seen, writer, keyboard, fresh, typed>>

\* A command, a queued submission, or the answer to a key.
BeginCommand ==
  /\ client \in {"top", "input"} /\ commands < MaxCommands
  /\ commands' = commands + 1 /\ left' = Chunks
  /\ Goto("write")
  /\ UNCHANGED <<State, socket, wakeup, seen, late, written, room, terminal>>

\* A bounded number of keys is taken; the others wait for the next round.
PollOutput ==
  /\ client = "input"
  /\ Goto("poll")
  /\ UNCHANGED <<State, socket, wakeup, seen, writer, terminal>>

\* A request waits on the mailbox itself.
AwaitResponse ==
  /\ client = "top"
  /\ Goto("receive")
  /\ UNCHANGED <<State, socket, wakeup, seen, writer, terminal>>

Receiving == client \in {"poll", "receive"}

Unreported == failure /\ ~reported

ReceiveFailure ==
  /\ Receiving /\ Unreported
  /\ reported' = TRUE /\ told' = "failed"
  /\ Goto("leave")
  /\ UNCHANGED <<frames, bytes, closed, failure, socket, wakeup, holding, got, writer, terminal>>

TakeFrame ==
  /\ Receiving /\ ~Unreported /\ frames # <<>>
  /\ frames' = Tail(frames) /\ bytes' = bytes - sent[Head(frames)].size
  /\ holding' = Head(frames)
  /\ Goto("decode")
  /\ UNCHANGED <<closed, failure, reported, socket, wakeup, got, told, writer, terminal>>

\* The lock was let go; a record that does not decode fails the connection.
Decode ==
  /\ client = "decode" /\ sent[holding].ok
  /\ got' = holding /\ holding' = 0
  /\ Goto("top")
  /\ UNCHANGED <<State, socket, wakeup, told, writer, terminal>>

DecodeFails ==
  /\ client = "decode" /\ ~sent[holding].ok
  /\ SharedFail
  /\ told' = "failed" /\ holding' = 0
  /\ Goto("leave")
  /\ UNCHANGED <<socket, got, writer, terminal>>

ReceiveEnd ==
  /\ Receiving /\ ~Unreported /\ frames = <<>> /\ closed
  /\ told' = "ended"
  /\ Goto("leave")
  /\ UNCHANGED <<State, socket, wakeup, holding, got, writer, terminal>>

Nothing == ~Unreported /\ frames = <<>> /\ ~closed

\* Mutant: the generation is captured after the polls, not before them.
Sleep_Captures ==
  /\ Receiving /\ Nothing
  /\ IF client = "poll" THEN Goto("wait") /\ UNCHANGED woken /\ changed' = FALSE
                        ELSE Goto("asleep") /\ woken' = FALSE /\ UNCHANGED changed
  /\ UNCHANGED <<State, socket, seen, writer, terminal>>

\* A poll goes to sleep on the generation, a request on Shared.ready.
Sleep ==
  /\ Receiving /\ Nothing
  /\ IF client = "poll" THEN Goto("wait") /\ UNCHANGED woken
                        ELSE Goto("asleep") /\ woken' = FALSE
  /\ UNCHANGED <<State, socket, changed, seen, writer, terminal>>

Wake ==
  /\ \/ client = "wait" /\ changed /\ Goto("top")
     \/ client = "asleep" /\ woken /\ Goto("receive")
  /\ UNCHANGED <<State, socket, wakeup, seen, writer, terminal>>

\* Every wait has a limit too, after which the loop goes round.
WaitEnds ==
  /\ \/ client = "wait" /\ Goto("top")
     \/ client = "asleep" /\ Goto("receive")
  /\ UNCHANGED <<State, socket, wakeup, seen, writer, terminal>>

\* A response or the end of a cancelled run is overdue, or the user reconnects.
GiveUp ==
  /\ client \in {"top", "receive"}
  /\ Goto("leave")
  /\ UNCHANGED <<State, socket, wakeup, seen, writer, terminal>>

-----------------------------------------------------------------------------
(* Writing: PipeWriter::write_checked.                                     *)

Writing == client \in {"write", "locked"}

\* Mutant: the deadline never comes: each write sets a new one.
DeadlinePasses_Renewed ==
  /\ Writing /\ ~late
  /\ late' = FALSE
  /\ UNCHANGED <<State, socket, wakeup, client, seen, left, commands, written, room, terminal>>

\* The deadline runs from the first write to the flush.
DeadlinePasses ==
  /\ Writing /\ ~late
  /\ late' = TRUE
  /\ UNCHANGED <<State, socket, wakeup, client, seen, left, commands, written, room, terminal>>

WriteChecks ==
  /\ client = "write" /\ ~closed /\ ~late
  /\ Goto("locked")
  /\ UNCHANGED <<State, socket, wakeup, seen, writer, terminal>>

\* Mutant: the mailbox is looked at before the lock only.
MayWrite_Unchecked == open
MayWrite == ~closed /\ open

\* The socket takes some bytes, or would block.
Write ==
  /\ client = "locked" /\ MayWrite
  /\ IF room > 0
     THEN /\ written' = written + 1 /\ room' = room - 1 /\ left' = left - 1
          /\ late' = IF left = 1 THEN FALSE ELSE late
          /\ Goto(IF left = 1 THEN "top" ELSE "write")
     ELSE Goto("write") /\ UNCHANGED <<written, room, left, late>>
  /\ UNCHANGED <<State, socket, wakeup, seen, commands, terminal>>

\* The connection has failed, the deadline has passed or the peer is gone.  Such
\* an error is Transport's: the caller disconnects.
WriteFails ==
  /\ \/ client = "write" /\ (closed \/ late)
     \/ client = "locked" /\ ~MayWrite
  /\ Goto("leave")
  /\ UNCHANGED <<State, socket, wakeup, seen, writer, terminal>>

\* service_sending: keys are still read.  Stop cannot be sent after half a
\* command, so it fails the write.
ServiceKey ==
  /\ client = "write" /\ ~closed /\ ~late /\ keys > 0
  /\ keys' = keys - 1
  /\ client' \in {"write", "leave"}
  /\ UNCHANGED <<State, socket, wakeup, seen, writer, keyboard, fresh, typed>>

\* Mutant: the socket is let go, and the reader's clone keeps it open.
Leave_Lets ==
  /\ client = "leave"
  /\ Goto("drop")
  /\ UNCHANGED <<State, socket, wakeup, seen, writer, terminal>>

\* Client::disconnect shuts the socket down.
Leave ==
  /\ client = "leave"
  /\ open' = FALSE
  /\ Goto("drop")
  /\ UNCHANGED <<State, sent, read, reader, wakeup, seen, writer, terminal>>

\* Inbox::drop.
Drop ==
  /\ client = "drop"
  /\ closed' = TRUE /\ frames' = <<>> /\ bytes' = 0
  /\ woken' = TRUE
  /\ Goto("gone")
  /\ UNCHANGED <<failure, reported, socket, changed, seen, writer, terminal>>

Client == \/ Capture \/ TakeKey \/ BeginCommand \/ PollOutput \/ AwaitResponse
          \/ ReceiveFailure \/ TakeFrame \/ Decode \/ DecodeFails \/ ReceiveEnd \/ Sleep \/ Wake
          \/ WriteChecks \/ Write \/ WriteFails \/ ServiceKey \/ Leave \/ Drop

-----------------------------------------------------------------------------
(* The engine, and the thread that reads the terminal.                     *)

Send ==
  /\ open /\ Len(sent) < MaxFrames
  /\ \E f \in Frame : sent' = Append(sent, f)
  /\ UNCHANGED <<State, open, read, reader, wakeup, client, seen, writer, terminal>>

Drain ==
  /\ open /\ room < Room
  /\ room' = room + 1
  /\ UNCHANGED <<State, socket, wakeup, client, seen, left, late, commands, written, terminal>>

EngineEnds ==
  /\ open
  /\ open' = FALSE
  /\ UNCHANGED <<State, sent, read, reader, wakeup, client, seen, writer, terminal>>

PressKey ==
  /\ typed < MaxKeys
  /\ typed' = typed + 1 /\ keys' = keys + 1 /\ fresh' = TRUE
  /\ keyboard' = "signal"
  /\ UNCHANGED <<State, socket, wakeup, client, seen, writer>>

SignalKey ==
  /\ keyboard = "signal"
  /\ keyboard' = "read" /\ changed' = TRUE
  /\ UNCHANGED <<State, socket, woken, client, seen, writer, keys, fresh, typed>>

Next == \/ Reader \/ ReadFails \/ Client \/ WaitEnds \/ GiveUp \/ DeadlinePasses
        \/ Send \/ Drain \/ EngineEnds \/ PressKey \/ SignalKey

\* The threads are scheduled and deadlines pass; nobody presses keys, and the
\* engine may do nothing.
Fairness ==
  /\ WF_vars(Reader) /\ WF_vars(DeadlinePasses)
  /\ WF_vars(WriteChecks \/ Write \/ WriteFails \/ Leave \/ Drop)

Spec == Init /\ [][Next]_vars /\ Fairness

-----------------------------------------------------------------------------
(* Properties.                                                             *)

SizeOf(s) == LET upTo[i \in 0 .. Len(s)] == IF i = 0 THEN 0 ELSE upTo[i - 1] + sent[s[i]].size
             IN  upTo[Len(s)]

\* The mailbox counts the bytes that wait in it (Shared::push, recv_timeout).
BytesCounted == bytes = SizeOf(frames)

\* Every variable has its type, and the mailbox keeps to both limits.
TypeOK ==
  /\ sent \in Seq(Frame) /\ open \in BOOLEAN /\ read \in 0 .. Len(sent)
  /\ reader \in {"check", "read", "push", "fail", "signal", "done"}
  /\ frames \in Seq(1 .. read) /\ Len(frames) <= MaxRecords
  /\ bytes \in 0 .. MaxBytes
  /\ closed \in BOOLEAN /\ failure \in BOOLEAN /\ reported \in BOOLEAN
  /\ changed \in BOOLEAN /\ woken \in BOOLEAN
  /\ client \in {"top", "input", "poll", "receive", "decode", "wait", "asleep", "write", "locked",
                 "leave", "drop", "gone"}
  /\ holding \in 0 .. read /\ got \in 0 .. read /\ told \in {"open", "failed", "ended"}
  /\ left \in 0 .. Chunks /\ late \in BOOLEAN /\ commands \in 0 .. MaxCommands
  /\ written \in 0 .. MaxCommands * Chunks /\ room \in 0 .. Room
  /\ keyboard \in {"read", "signal"} /\ keys \in 0 .. MaxKeys /\ fresh \in BOOLEAN
  /\ typed \in 0 .. MaxKeys

\* The client is told of records once and in order, and of the end of the
\* connection without an error only when it has them all.
M == INSTANCE Mailbox
ImplementsMailbox == M!Spec

\* A client sleeps only while nothing waits for it that it has not looked at,
\* or the thread that brought it is about to wake it ("The generation prevents
\* a lost wake between try_recv and waiting").
NoLostWake ==
  /\ (client = "wait" /\ ~changed) \/ (client = "asleep" /\ ~woken) => Nothing \/ reader = "signal"
  /\ client = "wait" /\ ~changed => ~fresh \/ keyboard = "signal"

\* No byte follows a command that was cut short or a connection that failed:
\* the failure is seen under the lock that each write holds.
NoByteAfterFailure ==
  [][closed \/ client \in {"leave", "drop", "gone"} => written' = written]_vars

\* A write ends although the engine reads nothing.
WriteEnds == Writing ~> ~Writing

\* The reader thread ends after its client, whatever is on the socket.
ReaderEnds == client = "gone" ~> reader = "done"
=============================================================================
