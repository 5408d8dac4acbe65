---------------------------- MODULE ClientProofs ----------------------------
(***************************************************************************)
(* What holds of the client and its socket whatever engine is at the other *)
(* end: which answers it waits for, and that it waits for all that is on   *)
(* its way.  ConversationProofs and ComposerProofs build on it.            *)
(***************************************************************************)
EXTENDS Client, FiniteSetTheorems, TLAPS

\* The types of the socket.
WireTyped == commands \in Seq(Command) /\ records \in Seq(Record) /\ sent \in 0 .. MaxPrompts

\* The response that the client still waits for.
Expects(id) ==
  \/ kind \in {"prompt", "compact"} /\ id = <<exchange_id, "main">> /\ ~accepted /\ ~rejection
  \/ kind = "prompt" /\ \E p \in pending : id = <<p, "main">>
  \/ kind = "prompt" /\ interrupted /\ ~clear_done /\ id = <<exchange_id, "clear">>
  \/ kind \in {"prompt", "compact"} /\ interrupted /\ ~abort_done /\ id = <<exchange_id, "abort">>
  \/ kind = "request" /\ id = <<exchange_id, "request">>

\* Where what it waits for may be: a command, a task's answer to come, a response.
Asked(cs) == {cs[i].id : i \in DOMAIN cs}
AskedOnce(cs) == \A i, j \in DOMAIN cs : cs[i].id = cs[j].id => i = j
Responses(rs) == {i \in DOMAIN rs : rs[i].type = "response"}
Answered(rs) == {rs[i].id : i \in Responses(rs)}
AnsweredOnce(rs) == \A i, j \in Responses(rs) : rs[i].id = rs[j].id => i = j

\* All that is on its way is a response the client waits for, and each is there once;
\* owed are the answers a task of the engine still owes.
OnTheWay(owed) ==
  /\ \A id \in Asked(commands) \cup Answered(records) \cup owed : Expects(id)
  /\ AskedOnce(commands) /\ AnsweredOnce(records)
  /\ Asked(commands) \cap Answered(records) = {}
  /\ Asked(commands) \cap owed = {} /\ Answered(records) \cap owed = {}

\* The client's own state.
Locals ==
  /\ kind \in {"none", "prompt", "compact", "left", "request"}
  /\ accepted \in BOOLEAN /\ settled \in BOOLEAN /\ interrupted \in BOOLEAN
  /\ clear_done \in BOOLEAN /\ abort_done \in BOOLEAN /\ rejection \in BOOLEAN
  /\ exchange_id \in 0 .. sent /\ pending \subseteq (exchange_id + 1) .. sent
  /\ fate \in [Prompts -> Fates]
  /\ kind = "prompt" /\ ~accepted => pending = {}
  /\ kind = "prompt" /\ rejection => ~accepted
  /\ kind \in {"prompt", "compact"} /\ ~interrupted => ~clear_done /\ ~abort_done

\* Which commands are on their way in which exchange.
Commanded ==
  \A i \in DOMAIN commands :
    /\ kind = "prompt" => commands[i].kind \in {"prompt", "clear_queue", "abort"}
    /\ kind # "prompt" => commands[i].kind # "prompt"
    /\ commands[i].kind = "prompt" /\ commands[i].mode = "none" => commands[i].id = <<exchange_id, "main">>

Exchange == Locals /\ Commanded

Settlements(rs) == {i \in DOMAIN rs : rs[i].type = "agent_settled"}

-----------------------------------------------------------------------------
(* The socket.                                                             *)

\* Elements of sequences.
LEMMA TailElements ==
  ASSUME NEW R, NEW s \in Seq(R), s # <<>>
  PROVE  /\ Tail(s) \in Seq(R) /\ Head(s) \in R /\ 1 \in DOMAIN s /\ s[1] = Head(s)
         /\ \A i \in DOMAIN Tail(s) : i + 1 \in DOMAIN s /\ Tail(s)[i] = s[i + 1] /\ i + 1 # 1
         /\ \A i \in DOMAIN s : i = 1 \/ (i - 1 \in DOMAIN Tail(s) /\ Tail(s)[i - 1] = s[i])
  OBVIOUS

LEMMA AppendElements ==
  ASSUME NEW R, NEW s \in Seq(R), NEW e \in R
  PROVE  /\ Append(s, e) \in Seq(R) /\ Len(s) + 1 \in DOMAIN Append(s, e) /\ Append(s, e)[Len(s) + 1] = e
         /\ \A i \in DOMAIN s : i \in DOMAIN Append(s, e) /\ Append(s, e)[i] = s[i] /\ i # Len(s) + 1
         /\ \A i \in DOMAIN Append(s, e) : i \in DOMAIN s \/ i = Len(s) + 1
  OBVIOUS

\* A command is taken.
LEMMA AskedLess ==
  ASSUME NEW cs \in Seq(Command), cs # <<>>, AskedOnce(cs)
  PROVE  /\ Asked(Tail(cs)) = Asked(cs) \ {Head(cs).id} /\ Head(cs).id \in Asked(cs)
         /\ AskedOnce(Tail(cs))
<1> DEFINE t == Tail(cs)
           h == Head(cs)
<1>1. /\ 1 \in DOMAIN cs /\ cs[1] = h
      /\ \A i \in DOMAIN t : i + 1 \in DOMAIN cs /\ t[i] = cs[i + 1] /\ i + 1 # 1 /\ i \in Int
      /\ \A i \in DOMAIN cs : i = 1 \/ (i - 1 \in DOMAIN t /\ t[i - 1] = cs[i])
  BY TailElements
<1> HIDE DEF t, h
<1>2. \A i, j \in DOMAIN cs : cs[i].id = cs[j].id => i = j
  BY DEF AskedOnce
<1>3. \A i \in DOMAIN t : t[i].id # h.id
  BY <1>1, <1>2
<1>4. \A i, j \in DOMAIN t : t[i].id = t[j].id => i = j
  <2> TAKE i, j \in DOMAIN t
  <2> HAVE t[i].id = t[j].id
  <2>1. i + 1 \in DOMAIN cs /\ j + 1 \in DOMAIN cs /\ cs[i + 1].id = cs[j + 1].id /\ i \in Int /\ j \in Int
    BY <1>1
  <2>2. i + 1 = j + 1
    BY <1>2, <2>1
  <2>3. QED
    BY <2>1, <2>2
<1>5. {t[i].id : i \in DOMAIN t} = {cs[i].id : i \in DOMAIN cs} \ {h.id}
  BY <1>1, <1>3
<1>6. h.id \in {cs[i].id : i \in DOMAIN cs}
  BY <1>1
<1>7. QED
  BY <1>4, <1>5, <1>6 DEF Asked, AskedOnce, t, h

\* A command is written.
LEMMA AskedMore ==
  ASSUME NEW cs \in Seq(Command), NEW l \in Command
  PROVE  /\ Asked(Append(cs, l)) = Asked(cs) \cup {l.id}
         /\ AskedOnce(cs) /\ l.id \notin Asked(cs) => AskedOnce(Append(cs, l))
<1> DEFINE g == Append(cs, l)
           n == Len(cs) + 1
<1>1. /\ n \in DOMAIN g /\ g[n] = l
      /\ \A i \in DOMAIN cs : i \in DOMAIN g /\ g[i] = cs[i]
      /\ \A i \in DOMAIN g : i \in DOMAIN cs \/ i = n
  BY AppendElements
<1> HIDE DEF g, n
<1>2. QED
  BY <1>1 DEF Asked, AskedOnce, g

\* A record is read.
LEMMA AnsweredLess ==
  ASSUME NEW rs \in Seq(Record), rs # <<>>
  PROVE  /\ Answered(Tail(rs)) \subseteq Answered(rs)
         /\ Head(rs).type = "response" => Head(rs).id \in Answered(rs)
         /\ Head(rs).type = "response" /\ AnsweredOnce(rs) => Head(rs).id \notin Answered(Tail(rs))
         /\ AnsweredOnce(rs) => AnsweredOnce(Tail(rs))
<1> DEFINE t == Tail(rs)
           h == Head(rs)
<1>1. /\ 1 \in DOMAIN rs /\ rs[1] = h
      /\ \A i \in DOMAIN t : i + 1 \in DOMAIN rs /\ t[i] = rs[i + 1] /\ i + 1 # 1 /\ i \in Int
  BY TailElements
<1> HIDE DEF t, h
<1>2. \A i \in Responses(t) : i + 1 \in Responses(rs) /\ t[i] = rs[i + 1] /\ i + 1 # 1 /\ i \in Int
  BY <1>1 DEF Responses
<1>3. h.type = "response" => 1 \in Responses(rs)
  BY <1>1 DEF Responses
<1>4. Answered(t) \subseteq Answered(rs) /\ (h.type = "response" => h.id \in Answered(rs))
  BY <1>1, <1>2, <1>3 DEF Answered
<1>5. ASSUME AnsweredOnce(rs) PROVE AnsweredOnce(t)
  BY <1>2, <1>5 DEF AnsweredOnce
<1>6. ASSUME AnsweredOnce(rs), h.type = "response" PROVE h.id \notin Answered(t)
  BY <1>1, <1>2, <1>3, <1>6 DEF AnsweredOnce, Answered
<1>7. QED
  BY <1>4, <1>5, <1>6 DEF t, h

\* What is left to read is a suffix of it.
LEMMA SettledLess ==
  ASSUME NEW rs \in Seq(Record), rs # <<>>
  PROVE  /\ Settlements(rs) = {} => Settlements(Tail(rs)) = {}
         /\ (\A i, j \in Settlements(rs) : i = j) =>
              /\ \A i, j \in Settlements(Tail(rs)) : i = j
              /\ Head(rs).type = "agent_settled" => Settlements(Tail(rs)) = {}
         /\ Head(rs).type = "agent_settled" => Settlements(rs) # {}
<1> DEFINE t == Tail(rs)
           h == Head(rs)
<1>1. /\ 1 \in DOMAIN rs /\ rs[1] = h
      /\ \A i \in DOMAIN t : i + 1 \in DOMAIN rs /\ t[i] = rs[i + 1] /\ i + 1 # 1 /\ i \in Int
  BY TailElements
<1> HIDE DEF t, h
<1>2. \A i \in Settlements(t) : i + 1 \in Settlements(rs) /\ i + 1 # 1 /\ i \in Int
  BY <1>1 DEF Settlements
<1>3. h.type = "agent_settled" => 1 \in Settlements(rs)
  BY <1>1 DEF Settlements
<1>4. QED
  BY <1>2, <1>3 DEF t, h

\* At most two records are emitted in a step.
LEMMA EmitAdds ==
  ASSUME records \in Seq(Record), NEW a \in Record, NEW b \in Record, Emit(<<a>>) \/ Emit(<<a, b>>)
  PROVE  \A i \in DOMAIN records' :
           \/ i \in DOMAIN records /\ records'[i] = records[i]
           \/ i = Len(records) + 1 /\ records'[i] = a
           \/ i = Len(records) + 2 /\ records'[i] = b
<1>1. CASE records' = <<>>
  BY <1>1
<1>2. CASE records' = records \o <<a>>
  BY <1>2
<1>3. CASE records' = records \o <<a, b>>
  BY <1>3
<1>4. QED
  BY <1>1, <1>2, <1>3 DEF Emit

\* Only the first may be a response, only the second the end of a run.
LEMMA EmitTells ==
  ASSUME records \in Seq(Record), NEW a \in Record, NEW b \in Record, Emit(<<a>>) \/ Emit(<<a, b>>),
         b.type # "response", a.type # "agent_settled"
  PROVE  /\ Answered(records') \subseteq Answered(records) \cup {a.id}
         /\ a.type # "response" => Answered(records') \subseteq Answered(records)
         /\ AnsweredOnce(records) /\ (a.type = "response" => a.id \notin Answered(records)) => AnsweredOnce(records')
         /\ Settlements(records) = {} => \A i, j \in Settlements(records') : i = j
         /\ b.type # "agent_settled" => Settlements(records') \subseteq Settlements(records)
<1> DEFINE n == Len(records)
<1>1. \A i \in DOMAIN records' :
           \/ i \in DOMAIN records /\ records'[i] = records[i]
           \/ i = n + 1 /\ records'[i] = a
           \/ i = n + 2 /\ records'[i] = b
  BY EmitAdds
<1> HIDE DEF n
<1>2. \A i \in Responses(records') :
        \/ i \in Responses(records) /\ records'[i] = records[i]
        \/ i = n + 1 /\ records'[i] = a /\ a.type = "response"
  BY <1>1 DEF Responses
<1>3. \A i \in Settlements(records') : i \in Settlements(records) \/ (i = n + 2 /\ b.type = "agent_settled")
  BY <1>1 DEF Settlements
<1>4. /\ Answered(records') \subseteq Answered(records) \cup {a.id}
      /\ a.type # "response" => Answered(records') \subseteq Answered(records)
  BY <1>2 DEF Answered
<1>5. AnsweredOnce(records) /\ (a.type = "response" => a.id \notin Answered(records)) => AnsweredOnce(records')
  BY <1>2 DEF Answered, AnsweredOnce
<1>6. QED
  BY <1>3, <1>4, <1>5

-----------------------------------------------------------------------------
(* What the client writes and reads.                                       *)

\* A client step leaves the records and writes one or two commands, or reads a record.
Opens(l) ==
  /\ sent < MaxPrompts /\ sent' = sent + 1 /\ UNCHANGED records
  /\ commands' = Append(commands, l) /\ l.id = <<sent + 1, "main">> /\ l.kind \in {"prompt", "compact"}
Adds(l) ==
  /\ UNCHANGED <<records, sent>> /\ commands' = Append(commands, l)
  /\ l.kind # "prompt" /\ l.id[1] = exchange_id /\ l.id[2] # "main"
AddsTwo(l, m) ==
  /\ UNCHANGED <<records, sent>> /\ commands' = Append(Append(commands, l), m)
  /\ l.kind # "prompt" /\ m.kind # "prompt" /\ l.id = <<exchange_id, "clear">> /\ m.id = <<exchange_id, "abort">>
Reads == records # <<>> /\ records' = Tail(records) /\ UNCHANGED <<commands, sent>>

LEMMA ClientWire ==
  ASSUME WireTyped, exchange_id \in 0 .. sent, ClientStep
  PROVE  \/ ReadStep /\ Reads
         \/ \E l \in Command : Opens(l)
         \/ \E l \in Command : Adds(l)
         \/ \E l, m \in Command : AddsTwo(l, m)
<1>1. sent \in Nat /\ sent + 1 \in Nat /\ exchange_id \in Nat /\ commands \in Seq(Command)
  BY WireAssumption DEF WireTyped
<1>2. \A l : commands \o <<l>> = Append(commands, l)
  BY <1>1
<1>3. \A l, m : commands \o <<l, m>> = Append(Append(commands, l), m)
  BY <1>1
<1>4. \A k \in Kinds, n \in Nat, part \in {"main", "clear", "abort", "request"}, m \in Modes :
        Line(k, <<n, part>>, m) \in Command
  BY DEF Line, Command, Ids
<1>5. \A k, id, m : Line(k, id, m).id = id /\ Line(k, id, m).kind = k
  BY DEF Line
<1>6. CASE ReadStep
  <2>1. CASE ReadPrompt
    BY <1>6, <2>1 DEF ReadPrompt, AcknowledgeQueued, AcknowledgeClear, AcknowledgeAbort, AcknowledgePrompt,
      ObserveStart, ObserveSettled, ObserveQueue, ObserveDelivery, ObserveRejected, ObserveOther, InPrompt,
      Read, Proceed, Reads
  <2>2. CASE ReadCompact
    BY <1>6, <2>2 DEF ReadCompact, Reads
  <2>3. CASE ReadRequest
    BY <1>6, <2>3 DEF ReadRequest, Reads
  <2>4. QED
    BY <1>6, <2>1, <2>2, <2>3 DEF ReadStep
<1>7. ASSUME NEW what \in {"prompt", "compact"}, Open(what)
      PROVE  \E l \in Command : Opens(l)
  <2> DEFINE l == Line(what, <<sent + 1, "main">>, "none")
  <2>1. l \in Command /\ l.id = <<sent + 1, "main">> /\ l.kind = what
    BY <1>1, <1>4, <1>5 DEF Kinds, Modes
  <2> HIDE DEF l
  <2>2. commands' = Append(commands, l)
    BY <1>2, <1>7 DEF Open, Write, l
  <2>3. sent < MaxPrompts /\ sent' = sent + 1 /\ UNCHANGED records
    BY <1>7 DEF Open
  <2>4. QED
    BY <2>1, <2>2, <2>3 DEF Opens
<1>8. ASSUME NEW what \in Kinds \ {"prompt"}, Ask(what)
      PROVE  \E l \in Command : Adds(l)
  <2> DEFINE l == Line(what, <<exchange_id, "request">>, "none")
  <2>1. l \in Command /\ l.id = <<exchange_id, "request">> /\ l.kind = what
    BY <1>1, <1>4, <1>5 DEF Modes
  <2> HIDE DEF l
  <2>2. commands' = Append(commands, l)
    BY <1>2, <1>8 DEF Ask, Write, l
  <2>3. UNCHANGED <<records, sent>>
    BY <1>8 DEF Ask
  <2>4. QED
    BY <2>1, <2>2, <2>3 DEF Adds
<1>9. CASE QueueSubmission
  <2>1. PICK mode \in {"steer", "followUp"} : Write(<<Line("prompt", <<sent + 1, "main">>, mode)>>)
    BY <1>9 DEF QueueSubmission
  <2> DEFINE l == Line("prompt", <<sent + 1, "main">>, mode)
  <2>2. l \in Command /\ l.id = <<sent + 1, "main">> /\ l.kind = "prompt"
    BY <1>1, <1>4, <1>5 DEF Kinds, Modes
  <2> HIDE DEF l
  <2>3. commands' = Append(commands, l)
    BY <1>2, <2>1 DEF Write, l
  <2>4. sent < MaxPrompts /\ sent' = sent + 1 /\ UNCHANGED records
    BY <1>9 DEF QueueSubmission
  <2>5. QED
    BY <2>2, <2>3, <2>4 DEF Opens
<1>10. CASE Escape
  <2> DEFINE l == Line("clear_queue", <<exchange_id, "clear">>, "none")
             m == Line("abort", <<exchange_id, "abort">>, "none")
  <2>1. l \in Command /\ l.id = <<exchange_id, "clear">> /\ l.kind = "clear_queue"
    BY <1>1, <1>4, <1>5 DEF Kinds, Modes
  <2>2. m \in Command /\ m.id = <<exchange_id, "abort">> /\ m.kind = "abort"
    BY <1>1, <1>4, <1>5 DEF Kinds, Modes
  <2> HIDE DEF l, m
  <2>3. commands' = Append(Append(commands, l), m)
    BY <1>3, <1>10 DEF Escape, Write, l, m
  <2>4. UNCHANGED <<records, sent>>
    BY <1>10 DEF Escape
  <2>5. AddsTwo(l, m)
    BY <2>1, <2>2, <2>3, <2>4 DEF AddsTwo
  <2>6. QED
    BY <2>1, <2>2, <2>5
<1>11. CASE EscapeCompact
  <2> DEFINE l == Line("abort", <<exchange_id, "abort">>, "none")
  <2>1. l \in Command /\ l.id = <<exchange_id, "abort">> /\ l.kind = "abort"
    BY <1>1, <1>4, <1>5 DEF Kinds, Modes
  <2> HIDE DEF l
  <2>2. commands' = Append(commands, l)
    BY <1>2, <1>11 DEF EscapeCompact, Write, l
  <2>3. UNCHANGED <<records, sent>>
    BY <1>11 DEF EscapeCompact
  <2>4. QED
    BY <2>1, <2>2, <2>3 DEF Adds
<1>12. CASE SubmitPrompt
  BY <1>7, <1>12 DEF SubmitPrompt
<1>13. CASE SubmitCompact
  BY <1>7, <1>13 DEF SubmitCompact
<1>14. CASE AskStatus
  BY <1>8, <1>14 DEF AskStatus, Kinds
<1>15. CASE AskRequest
  BY <1>8, <1>15, ClientAssumption DEF AskRequest
<1>16. QED
  BY <1>6, <1>9, <1>10, <1>11, <1>12, <1>13, <1>14, <1>15 DEF ClientStep

-----------------------------------------------------------------------------
(* What is on its way is what the client waits for.                        *)

LEMMA ExpectsSame ==
  ASSUME UNCHANGED client
  PROVE  \A id : Expects(id)' <=> Expects(id)
  BY DEF Expects, client, flags

LEMMA NothingExpected ==
  /\ kind \notin {"prompt", "compact", "request"} => \A id : ~Expects(id)
  /\ kind' \notin {"prompt", "compact", "request"} => \A id : ~Expects(id)'
  BY DEF Expects

\* A prompt's exchange that goes on goes on waiting; one that ends waits for nothing.
LEMMA ProceedKeeps ==
  ASSUME kind = "prompt", NEW f, Proceed(f), rejection' => pending' = {}, NEW id,
         \/ id = <<exchange_id, "main">> /\ ~accepted' /\ ~rejection'
         \/ \E p \in pending' : id = <<p, "main">>
         \/ interrupted /\ ~clear_done' /\ id = <<exchange_id, "clear">>
         \/ interrupted /\ ~abort_done' /\ id = <<exchange_id, "abort">>
  PROVE  Expects(id)'
<1>1. ~Complete /\ ~RejectionDue
  BY DEF Complete, RejectionDue, Proceed
<1>2. kind' = "prompt" /\ UNCHANGED <<exchange_id, interrupted>>
  BY <1>1 DEF Proceed
<1>3. QED
  BY <1>2 DEF Expects

\* The first record.
LEMMA FirstRecord ==
  ASSUME NEW owed, WireTyped, OnTheWay(owed), records # <<>>
  PROVE  /\ Head(records) \in Record
         /\ Head(records).type = "response" => Expects(Head(records).id) /\ Head(records).id \in Ids
                                                 /\ Head(records).ok \in BOOLEAN
<1>1. records \in Seq(Record)
  BY DEF WireTyped
<1>2. Head(records) \in Record
  BY <1>1
<1>3. Head(records).type = "response" => Head(records).id \in Ids /\ Head(records).ok \in BOOLEAN
  BY <1>2 DEF Record
<1>4. Head(records).type = "response" => Head(records).id \in Answered(records)
  BY <1>1, AnsweredLess
<1>5. QED
  BY <1>2, <1>3, <1>4 DEF OnTheWay

\* A response that is expected is expected once.
LEMMA ExpectedIs ==
  ASSUME Exchange
  PROVE  /\ Expects(<<exchange_id, "main">>) => kind \in {"prompt", "compact"} /\ ~accepted /\ ~rejection
         /\ Expects(<<exchange_id, "clear">>) => kind = "prompt" /\ interrupted /\ ~clear_done
         /\ Expects(<<exchange_id, "abort">>) => kind \in {"prompt", "compact"} /\ interrupted /\ ~abort_done
         /\ \A p \in pending : p # exchange_id
<1>1. \A p \in pending : p # exchange_id
  BY DEF Exchange, Locals
<1>2. QED
  BY <1>1 DEF Expects

\* Reading a record, the client waits on for all but the response it has read.
LEMMA ReadExpects ==
  ASSUME NEW owed, WireTyped, Exchange, OnTheWay(owed), ReadStep, NEW id, Expects(id),
         Head(records).type = "response" => id # Head(records).id
  PROVE  Expects(id)'
<1> DEFINE r == Head(records)
<1>1. /\ kind = "prompt" /\ ~accepted => pending = {}
      /\ kind = "prompt" /\ rejection => ~accepted
  BY DEF Exchange, Locals
<1>2. records # <<>>
  BY DEF ReadStep, ReadPrompt, AcknowledgeQueued, AcknowledgeClear, AcknowledgeAbort, AcknowledgePrompt,
    ObserveStart, ObserveSettled, ObserveQueue, ObserveDelivery, ObserveRejected, ObserveOther, InPrompt,
    Read, ReadCompact, ReadRequest
<1>3. r.type = "response" => Expects(r.id) /\ r.id \in Ids /\ r.ok \in BOOLEAN /\ id # r.id
  BY <1>2, FirstRecord
<1> HIDE DEF r
<1>4. CASE kind = "prompt" /\ ReadPrompt
  <2>1. \/ id = <<exchange_id, "main">> /\ ~accepted /\ ~rejection
        \/ \E p \in pending : id = <<p, "main">>
        \/ interrupted /\ ~clear_done /\ id = <<exchange_id, "clear">>
        \/ interrupted /\ ~abort_done /\ id = <<exchange_id, "abort">>
    BY <1>4 DEF Expects
  <2>2. ASSUME NEW f, Proceed(f), UNCHANGED <<accepted, rejection, pending, clear_done, abort_done>>
        PROVE  Expects(id)'
    BY <1>1, <1>4, <2>1, <2>2, ProceedKeeps
  <2>3. CASE AcknowledgeQueued
    <3>1. PICK f : Proceed(f)
      BY <2>3 DEF AcknowledgeQueued
    <3>2. /\ r.type = "response" /\ r.id[2] = "main" /\ pending' = pending \ {r.id[1]}
          /\ UNCHANGED <<accepted, clear_done, abort_done, rejection>>
      BY <2>3 DEF AcknowledgeQueued, InPrompt, Read, r
    <3>3. r.id = <<r.id[1], "main">>
      BY <1>3, <3>2 DEF Ids
    <3>4. \A p \in pending : id = <<p, "main">> => p \in pending'
      BY <1>3, <3>2, <3>3
    <3>5. rejection' => pending' = {}
      BY <1>1, <1>4, <3>2
    <3>6. QED
      BY <1>4, <2>1, <3>1, <3>2, <3>4, <3>5, ProceedKeeps
  <2>4. CASE AcknowledgeClear
    <3>1. PICK f : Proceed(f)
      BY <2>4 DEF AcknowledgeClear
    <3>2. /\ r.type = "response" /\ r.id = <<exchange_id, "clear">>
          /\ UNCHANGED <<accepted, pending, abort_done, rejection>>
      BY <2>4 DEF AcknowledgeClear, InPrompt, Read, r
    <3>3. QED
      BY <1>1, <1>3, <1>4, <2>1, <3>1, <3>2, ProceedKeeps
  <2>5. CASE AcknowledgeAbort
    <3>1. PICK f : Proceed(f)
      BY <2>5 DEF AcknowledgeAbort
    <3>2. /\ r.type = "response" /\ r.id = <<exchange_id, "abort">>
          /\ UNCHANGED <<accepted, pending, clear_done, rejection>>
      BY <2>5 DEF AcknowledgeAbort, InPrompt, Read, r
    <3>3. QED
      BY <1>1, <1>3, <1>4, <2>1, <3>1, <3>2, ProceedKeeps
  <2>6. CASE AcknowledgePrompt
    <3>1. PICK f : Proceed(f)
      BY <2>6 DEF AcknowledgePrompt
    <3>2. /\ r.type = "response" /\ r.id = <<exchange_id, "main">>
          /\ UNCHANGED <<pending, clear_done, abort_done>>
      BY <2>6 DEF AcknowledgePrompt, InPrompt, Read, r
    <3>3. ~accepted
      BY <1>3, <3>2, ExpectedIs
    <3>4. pending = {}
      BY <1>1, <1>4, <3>3
    <3>5. QED
      BY <1>3, <1>4, <2>1, <3>1, <3>2, <3>4, ProceedKeeps
  <2>7. CASE ObserveStart
    BY <2>2, <2>7 DEF ObserveStart
  <2>8. CASE ObserveSettled
    BY <2>2, <2>8 DEF ObserveSettled
  <2>9. CASE ObserveQueue
    BY <2>2, <2>9 DEF ObserveQueue
  <2>10. CASE ObserveDelivery
    BY <2>2, <2>10 DEF ObserveDelivery
  <2>11. CASE ObserveRejected
    BY <2>2, <2>11 DEF ObserveRejected
  <2>12. CASE ObserveOther
    BY <2>2, <2>12 DEF ObserveOther
  <2>13. QED
    BY <1>4, <2>3, <2>4, <2>5, <2>6, <2>7, <2>8, <2>9, <2>10, <2>11, <2>12 DEF ReadPrompt
<1>5. CASE ReadCompact
  <2> DEFINE is(part) == r.type = "response" /\ r.id = <<exchange_id, part>>
  <2>1. /\ kind = "compact" /\ accepted' = (accepted \/ is("main")) /\ abort_done' = (abort_done \/ is("abort"))
        /\ kind' = IF accepted' /\ (interrupted => abort_done') THEN "left" ELSE kind
        /\ UNCHANGED <<exchange_id, interrupted, rejection>>
    BY <1>5 DEF ReadCompact, r
  <2>2. \/ id = <<exchange_id, "main">> /\ ~accepted /\ ~rejection
        \/ interrupted /\ ~abort_done /\ id = <<exchange_id, "abort">>
    BY <2>1 DEF Expects
  <2>3. \/ id = <<exchange_id, "main">> /\ ~accepted' /\ ~rejection'
        \/ interrupted /\ ~abort_done' /\ id = <<exchange_id, "abort">>
    BY <1>3, <2>1, <2>2
  <2>4. kind' = "compact"
    BY <2>1, <2>3
  <2>5. QED
    BY <2>1, <2>3, <2>4 DEF Expects
<1>6. CASE ReadRequest
  <2>1. kind = "request" /\ id = <<exchange_id, "request">>
    BY <1>6 DEF ReadRequest, Expects
  <2>2. kind' = "request" /\ UNCHANGED exchange_id
    BY <1>3, <1>6, <2>1 DEF ReadRequest, r
  <2>3. QED
    BY <2>1, <2>2 DEF Expects
<1>7. ReadPrompt => kind = "prompt"
  BY DEF ReadPrompt, AcknowledgeQueued, AcknowledgeClear, AcknowledgeAbort, AcknowledgePrompt,
    ObserveStart, ObserveSettled, ObserveQueue, ObserveDelivery, ObserveRejected, ObserveOther, InPrompt
<1>8. QED
  BY <1>4, <1>5, <1>6, <1>7 DEF ReadStep

LEMMA TrafficRead ==
  ASSUME NEW owed, WireTyped, Exchange, OnTheWay(owed), ReadStep, Reads
  PROVE  OnTheWay(owed)'
<1> DEFINE r == Head(records)
<1>1. /\ records # <<>> /\ records' = Tail(records) /\ UNCHANGED commands /\ records \in Seq(Record)
  BY DEF Reads, WireTyped
<1>2. /\ Answered(records') \subseteq Answered(records) /\ AnsweredOnce(records')
      /\ r.type = "response" => r.id \in Answered(records) /\ r.id \notin Answered(records')
  BY <1>1, AnsweredLess DEF OnTheWay
<1>3. /\ \A id \in Asked(commands) \cup Answered(records) \cup owed : Expects(id)
      /\ AskedOnce(commands) /\ Asked(commands) \cap Answered(records) = {}
      /\ Asked(commands) \cap owed = {} /\ Answered(records) \cap owed = {}
  BY DEF OnTheWay
<1>4. ASSUME NEW id \in Asked(commands') \cup Answered(records') \cup owed
      PROVE  Expects(id)'
  <2>1. Expects(id)
    BY <1>1, <1>2, <1>3
  <2>2. r.type = "response" => id # r.id
    BY <1>1, <1>2, <1>3
  <2>3. QED
    BY <2>1, <2>2, ReadExpects
<1>5. QED
  BY <1>1, <1>2, <1>3, <1>4 DEF OnTheWay

\* A command is written whose answer nobody waited for.
LEMMA TrafficWrite ==
  ASSUME NEW owed, WireTyped, OnTheWay(owed), UNCHANGED records, NEW l \in Command, commands' = Append(commands, l),
         \A id : Expects(id) => Expects(id)', Expects(l.id)', ~Expects(l.id)
  PROVE  OnTheWay(owed)'
<1>1. commands \in Seq(Command)
  BY DEF WireTyped
<1>2. /\ Asked(commands') = Asked(commands) \cup {l.id}
      /\ l.id \notin Asked(commands) => AskedOnce(commands')
  BY <1>1, AskedMore DEF OnTheWay
<1>3. l.id \notin Asked(commands) \cup Answered(records) \cup owed
  BY DEF OnTheWay
<1>4. \A id \in Asked(commands') \cup Answered(records') \cup owed : Expects(id)'
  BY <1>2 DEF OnTheWay
<1>5. QED
  BY <1>2, <1>3, <1>4 DEF OnTheWay

LEMMA TrafficWriteTwo ==
  ASSUME NEW owed, WireTyped, OnTheWay(owed), UNCHANGED records, NEW l \in Command, NEW m \in Command, l.id # m.id,
         commands' = Append(Append(commands, l), m),
         \A id : Expects(id) => Expects(id)', Expects(l.id)', Expects(m.id)', ~Expects(l.id), ~Expects(m.id)
  PROVE  OnTheWay(owed)'
<1> DEFINE g == Append(commands, l)
<1>1. commands \in Seq(Command)
  BY DEF WireTyped
<1>2. g \in Seq(Command)
  BY <1>1
<1>3. /\ Asked(g) = Asked(commands) \cup {l.id}
      /\ l.id \notin Asked(commands) => AskedOnce(g)
  BY <1>1, AskedMore DEF OnTheWay
<1> HIDE DEF g
<1>4. commands' = Append(g, m)
  BY DEF g
<1>5. {l.id, m.id} \cap (Asked(commands) \cup Answered(records) \cup owed) = {}
  BY DEF OnTheWay
<1>6. m.id \notin Asked(g)
  BY <1>3, <1>5
<1>7. Asked(commands') = Asked(commands) \cup {l.id, m.id} /\ AskedOnce(commands')
  BY <1>2, <1>3, <1>4, <1>5, <1>6, AskedMore
<1>8. \A id \in Asked(commands') \cup Answered(records') \cup owed : Expects(id)'
  BY <1>7 DEF OnTheWay
<1>9. QED
  BY <1>5, <1>7, <1>8 DEF OnTheWay

\* The client's steps keep it so.
LEMMA TrafficUser ==
  ASSUME NEW owed, WireTyped, Exchange, OnTheWay(owed), ClientStep
  PROVE  OnTheWay(owed)'
<1>1. sent \in Nat /\ sent + 1 \in Nat /\ exchange_id \in Nat /\ commands \in Seq(Command) /\ exchange_id \in 0 .. sent
  BY WireAssumption DEF WireTyped, Exchange, Locals
<1>2. \A l : commands \o <<l>> = Append(commands, l)
  BY <1>1
<1>3. \A l, m : commands \o <<l, m>> = Append(Append(commands, l), m)
  BY <1>1
<1>4. \A k \in Kinds, n \in Nat, part \in {"main", "clear", "abort", "request"}, m \in Modes :
        Line(k, <<n, part>>, m) \in Command
  BY DEF Line, Command, Ids
<1>5. \A k, id, m : Line(k, id, m).id = id /\ Line(k, id, m).kind = k
  BY DEF Line
<1>6. CASE ReadStep
  <2>1. Reads
    BY <1>6 DEF ReadStep, ReadPrompt, AcknowledgeQueued, AcknowledgeClear, AcknowledgeAbort, AcknowledgePrompt,
      ObserveStart, ObserveSettled, ObserveQueue, ObserveDelivery, ObserveRejected, ObserveOther, InPrompt,
      Read, Proceed, ReadCompact, ReadRequest, Reads
  <2>2. QED
    BY <1>6, <2>1, TrafficRead
<1>7. ASSUME NEW what \in {"prompt", "compact"}, Open(what)
      PROVE  OnTheWay(owed)'
  <2>1. PICK l : l = Line(what, <<sent + 1, "main">>, "none")
    OBVIOUS
  <2>2. l \in Command /\ l.id = <<sent + 1, "main">>
    BY <2>1, <1>1, <1>4, <1>5 DEF Kinds, Modes
  <2>3. commands' = Append(commands, l) /\ UNCHANGED records
    BY <2>1, <1>2, <1>7 DEF Open, Write
  <2>4. \A id : ~Expects(id)
    BY <1>7, NothingExpected DEF Open
  <2>5. Expects(l.id)'
    BY <1>7, <2>2 DEF Open, FreshLocals, Expects
  <2>6. QED
    BY <2>2, <2>3, <2>4, <2>5, TrafficWrite
<1>8. ASSUME NEW what \in Kinds \ {"prompt"}, Ask(what), kind \in {"left", "none"}
      PROVE  OnTheWay(owed)'
  <2>1. PICK l : l = Line(what, <<exchange_id, "request">>, "none")
    OBVIOUS
  <2>2. l \in Command /\ l.id = <<exchange_id, "request">>
    BY <2>1, <1>1, <1>4, <1>5 DEF Modes
  <2>3. commands' = Append(commands, l) /\ UNCHANGED records
    BY <2>1, <1>2, <1>8 DEF Ask, Write
  <2>4. \A id : ~Expects(id)
    BY <1>8, NothingExpected
  <2>5. Expects(l.id)'
    BY <1>8, <2>2 DEF Ask, Expects
  <2>6. QED
    BY <2>2, <2>3, <2>4, <2>5, TrafficWrite
<1>9. CASE QueueSubmission
  <2>1. PICK mode \in {"steer", "followUp"} : Write(<<Line("prompt", <<sent + 1, "main">>, mode)>>)
    BY <1>9 DEF QueueSubmission
  <2>2. PICK l : l = Line("prompt", <<sent + 1, "main">>, mode)
    OBVIOUS
  <2>3. l \in Command /\ l.id = <<sent + 1, "main">>
    BY <2>2, <1>1, <1>4, <1>5 DEF Kinds, Modes
  <2>4. commands' = Append(commands, l) /\ UNCHANGED records
    BY <2>2, <1>2, <1>9, <2>1 DEF QueueSubmission, Write
  <2>5. /\ kind = "prompt" /\ pending' = pending \cup {sent + 1}
        /\ UNCHANGED <<kind, exchange_id, accepted, rejection, interrupted, clear_done, abort_done>>
    BY <1>9 DEF QueueSubmission, ReadsKeys, flags
  <2>6. (\A id : Expects(id) => Expects(id)') /\ Expects(l.id)'
    BY <2>3, <2>5 DEF Expects
  <2>7. ~Expects(l.id)
    <3>1. \A p \in pending : p # sent + 1
      BY <1>1 DEF Exchange, Locals
    <3>2. exchange_id # sent + 1
      BY <1>1
    <3>3. QED
      BY <2>3, <2>5, <3>1, <3>2 DEF Expects
  <2>8. QED
    BY <2>3, <2>4, <2>6, <2>7, TrafficWrite
<1>10. CASE Escape
  <2>1. PICK l, m : l = Line("clear_queue", <<exchange_id, "clear">>, "none") /\ m = Line("abort", <<exchange_id, "abort">>, "none")
    OBVIOUS
  <2>2. l \in Command /\ l.id = <<exchange_id, "clear">>
    BY <2>1, <1>1, <1>4, <1>5 DEF Kinds, Modes
  <2>3. m \in Command /\ m.id = <<exchange_id, "abort">>
    BY <2>1, <1>1, <1>4, <1>5 DEF Kinds, Modes
  <2>4. commands' = Append(Append(commands, l), m) /\ UNCHANGED records
    BY <2>1, <1>3, <1>10 DEF Escape, Write
  <2>5. /\ kind = "prompt" /\ ~interrupted /\ interrupted'
        /\ UNCHANGED <<kind, exchange_id, accepted, rejection, clear_done, abort_done, pending>>
    BY <1>10 DEF Escape, ReadsKeys
  <2>6. ~Expects(l.id) /\ ~Expects(m.id)
    BY <2>2, <2>3, <2>5, ExpectedIs
  <2>7. \A id : Expects(id) => Expects(id)'
    BY <2>5 DEF Expects
  <2>8. ~clear_done' /\ ~abort_done'
    BY <2>5 DEF Exchange, Locals
  <2>9. Expects(l.id)' /\ Expects(m.id)'
    BY <2>2, <2>3, <2>5, <2>8 DEF Expects
  <2>10. l.id # m.id
    BY <2>2, <2>3
  <2>11. QED
    BY <2>2, <2>3, <2>4, <2>6, <2>7, <2>9, <2>10, TrafficWriteTwo
<1>11. CASE EscapeCompact
  <2>1. PICK l : l = Line("abort", <<exchange_id, "abort">>, "none")
    OBVIOUS
  <2>2. l \in Command /\ l.id = <<exchange_id, "abort">>
    BY <2>1, <1>1, <1>4, <1>5 DEF Kinds, Modes
  <2>3. commands' = Append(commands, l) /\ UNCHANGED records
    BY <2>1, <1>2, <1>11 DEF EscapeCompact, Write
  <2>4. /\ kind = "compact" /\ ~interrupted /\ interrupted'
        /\ UNCHANGED <<kind, exchange_id, accepted, rejection, clear_done, abort_done, pending>>
    BY <1>11 DEF EscapeCompact
  <2>5. ~Expects(l.id)
    BY <2>2, <2>4, ExpectedIs
  <2>6. \A id : Expects(id) => Expects(id)'
    BY <2>4 DEF Expects
  <2>7. ~abort_done'
    BY <2>4 DEF Exchange, Locals
  <2>8. Expects(l.id)'
    BY <2>2, <2>4, <2>7 DEF Expects
  <2>9. QED
    BY <2>2, <2>3, <2>5, <2>6, <2>8, TrafficWrite
<1>12. CASE SubmitPrompt
  BY <1>7, <1>12 DEF SubmitPrompt
<1>13. CASE SubmitCompact
  BY <1>7, <1>13 DEF SubmitCompact
<1>14. CASE AskStatus
  BY <1>8, <1>14 DEF AskStatus, Kinds
<1>15. CASE AskRequest
  BY <1>8, <1>15, ClientAssumption DEF AskRequest
<1>16. QED
  BY <1>6, <1>9, <1>10, <1>11, <1>12, <1>13, <1>14, <1>15 DEF ClientStep

-----------------------------------------------------------------------------
(* The client's own state.                                                 *)

LEMMA FatesTyped ==
  ASSUME NEW f \in [Prompts -> Fates]
  PROVE  /\ Forget(f) \in [Prompts -> Fates]
         /\ \A p \in Prompts, x \in Fates : [f EXCEPT ![p] = x] \in [Prompts -> Fates]
         /\ \A p : p \notin Prompts => \A x : [f EXCEPT ![p] = x] = f
  BY DEF Forget, Fates

\* Going on with a prompt's exchange, or leaving it.
LEMMA ProceedLocals ==
  ASSUME Locals, kind = "prompt", NEW f \in [Prompts -> Fates], Proceed(f),
         accepted' \in BOOLEAN, settled' \in BOOLEAN, clear_done' \in BOOLEAN, abort_done' \in BOOLEAN,
         rejection' \in BOOLEAN, pending' \subseteq pending, ~accepted' => pending' = {}, rejection' => ~accepted',
         ~interrupted => ~clear_done' /\ ~abort_done'
  PROVE  Locals'
<1>1. kind' \in {"left", "prompt"} /\ UNCHANGED <<sent, exchange_id, interrupted>>
  BY DEF Proceed
<1>2. fate' \in [Prompts -> Fates]
  BY FatesTyped DEF Proceed
<1>3. pending \subseteq (exchange_id + 1) .. sent
  BY DEF Locals
<1>4. pending' \subseteq (exchange_id + 1) .. sent
  BY <1>3
<1>5. QED
  BY <1>1, <1>2, <1>4 DEF Locals

\* The records of a prompt's exchange.
LEMMA ReadPromptLocals ==
  ASSUME NEW owed, WireTyped, Exchange, OnTheWay(owed), ReadPrompt
  PROVE  Locals'
<1> DEFINE r == Head(records)
<1>1. /\ kind = "prompt" => (~accepted => pending = {}) /\ (rejection => ~accepted) /\ (~interrupted => ~clear_done /\ ~abort_done)
      /\ accepted \in BOOLEAN /\ settled \in BOOLEAN /\ clear_done \in BOOLEAN /\ abort_done \in BOOLEAN
      /\ rejection \in BOOLEAN /\ fate \in [Prompts -> Fates]
  BY DEF Exchange, Locals
<1>2. Locals
  BY DEF Exchange
<1>3. records # <<>> /\ kind = "prompt"
  BY DEF ReadPrompt, AcknowledgeQueued, AcknowledgeClear, AcknowledgeAbort, AcknowledgePrompt,
    ObserveStart, ObserveSettled, ObserveQueue, ObserveDelivery, ObserveRejected, ObserveOther, InPrompt, Read
<1>4. r \in Record /\ (r.type = "response" => Expects(r.id) /\ r.id \in Ids /\ r.ok \in BOOLEAN)
  BY <1>3, FirstRecord
<1> HIDE DEF r
<1>5. ASSUME NEW f \in [Prompts -> Fates], Proceed(f), UNCHANGED <<accepted, pending, clear_done, abort_done, rejection>>,
             settled' \in BOOLEAN
      PROVE  Locals'
  BY <1>1, <1>2, <1>3, <1>5, ProceedLocals
<1>6. CASE AcknowledgeQueued
  <2> DEFINE p == r.id[1]
  <2>1. /\ p \in pending /\ pending' = pending \ {p}
        /\ UNCHANGED <<accepted, settled, clear_done, abort_done, rejection>>
    BY <1>6 DEF AcknowledgeQueued, r
  <2>2. PICK x \in {"returned", "uncertain", "waiting", fate[p]} : Proceed([fate EXCEPT ![p] = x])
    BY <1>6 DEF AcknowledgeQueued, r
  <2>3. p \in Prompts
    <3>1. pending \subseteq Prompts
      BY WireAssumption DEF Exchange, Locals, WireTyped, Prompts
    <3>2. QED
      BY <2>1, <3>1
  <2>4. x \in Fates
    BY <1>1, <2>3 DEF Fates
  <2>5. [fate EXCEPT ![p] = x] \in [Prompts -> Fates]
    BY <1>1, <2>3, <2>4, FatesTyped
  <2> HIDE DEF p
  <2> DEFINE f == [fate EXCEPT ![p] = x]
  <2> HIDE DEF f
  <2>6. f \in [Prompts -> Fates] /\ Proceed(f)
    BY <2>2, <2>5 DEF f
  <2>7. pending' \subseteq pending /\ (~accepted' => pending' = {})
    BY <1>1, <1>3, <2>1
  <2>8. QED
    BY <1>1, <1>2, <1>3, <2>1, <2>6, <2>7, ProceedLocals
<1>7. CASE AcknowledgeClear
  <2> DEFINE f == [p \in Prompts |-> IF fate[p] = "waiting" THEN "cleared" ELSE fate[p]]
  <2>1. f \in [Prompts -> Fates]
    BY <1>1 DEF Fates
  <2>2. Proceed(f)
    BY <1>7 DEF AcknowledgeClear
  <2>3. r.type = "response" /\ r.id = <<exchange_id, "clear">>
    BY <1>7 DEF AcknowledgeClear, InPrompt, Read, r
  <2>4. interrupted
    BY <1>4, <2>3, ExpectedIs
  <2>5. clear_done' = TRUE /\ UNCHANGED <<accepted, settled, abort_done, rejection, pending>>
    BY <1>7 DEF AcknowledgeClear
  <2> HIDE DEF f
  <2>6. QED
    BY <1>1, <1>2, <1>3, <2>1, <2>2, <2>4, <2>5, ProceedLocals
<1>8. CASE AcknowledgeAbort
  <2>1. r.type = "response" /\ r.id = <<exchange_id, "abort">>
    BY <1>8 DEF AcknowledgeAbort, InPrompt, Read, r
  <2>2. interrupted
    BY <1>4, <2>1, ExpectedIs
  <2>3. abort_done' = TRUE /\ UNCHANGED <<accepted, settled, clear_done, rejection, pending>> /\ Proceed(fate)
    BY <1>8 DEF AcknowledgeAbort
  <2>4. QED
    BY <1>1, <1>2, <1>3, <2>2, <2>3, ProceedLocals
<1>9. CASE AcknowledgePrompt
  <2> DEFINE f == IF r.ok THEN fate ELSE [fate EXCEPT ![exchange_id] = "returned"]
  <2>1. r.type = "response" /\ r.id = <<exchange_id, "main">> /\ accepted' = r.ok /\ rejection' = ~r.ok
        /\ UNCHANGED <<settled, clear_done, abort_done, pending>>
    BY <1>9 DEF AcknowledgePrompt, InPrompt, Read, r
  <2>2. Proceed(f)
    BY <1>9 DEF AcknowledgePrompt, r
  <2>3. ~accepted
    BY <1>4, <2>1, ExpectedIs
  <2>4. "returned" \in Fates
    BY DEF Fates
  <2>5. f \in [Prompts -> Fates]
    <3>1. [fate EXCEPT ![exchange_id] = "returned"] \in [Prompts -> Fates]
      <4>1. CASE exchange_id \in Prompts
        BY <1>1, <2>4, <4>1, FatesTyped
      <4>2. CASE exchange_id \notin Prompts
        BY <1>1, <4>2, FatesTyped
      <4>3. QED
        BY <4>1, <4>2
    <3>2. QED
      BY <1>1, <3>1
  <2> HIDE DEF f
  <2>6. pending' = {} /\ pending' \subseteq pending /\ accepted' \in BOOLEAN /\ rejection' \in BOOLEAN /\ (rejection' => ~accepted')
    BY <1>1, <1>3, <1>4, <2>1, <2>3
  <2>7. QED
    BY <1>1, <1>2, <1>3, <2>1, <2>2, <2>5, <2>6, ProceedLocals
<1>10. CASE ObserveStart
  BY <1>1, <1>5, <1>10 DEF ObserveStart
<1>11. CASE ObserveSettled
  BY <1>1, <1>5, <1>11 DEF ObserveSettled
<1>12. CASE ObserveQueue
  BY <1>1, <1>5, <1>12 DEF ObserveQueue
<1>13. CASE ObserveDelivery
  <2> DEFINE p == r.prompt
             x == IF fate[p] \in {"pending", "waiting"} THEN "delivered" ELSE fate[p]
             f == [fate EXCEPT ![p] = x]
  <2>1. Proceed(f)
    BY <1>13 DEF ObserveDelivery, r
  <2>2. f \in [Prompts -> Fates]
    <3>1. p \in Prompts => x \in Fates
      BY <1>1 DEF Fates
    <3> HIDE DEF p, x
    <3>2. CASE p \in Prompts
      BY <1>1, <3>1, <3>2, FatesTyped
    <3>3. CASE p \notin Prompts
      BY <1>1, <3>3, FatesTyped
    <3>4. QED
      BY <3>2, <3>3
  <2>3. UNCHANGED <<accepted, settled, pending, clear_done, abort_done, rejection>>
    BY <1>13 DEF ObserveDelivery
  <2> HIDE DEF f
  <2>4. QED
    BY <1>1, <1>5, <2>1, <2>2, <2>3
<1>14. CASE ObserveRejected
  <2> DEFINE p == r.prompt
             g == Forget(fate)
             f == [g EXCEPT ![p] = "returned"]
  <2>1. Proceed(f)
    BY <1>14 DEF ObserveRejected, r
  <2>2. f \in [Prompts -> Fates]
    <3>1. g \in [Prompts -> Fates]
      BY <1>1, FatesTyped
    <3>2. "returned" \in Fates
      BY DEF Fates
    <3> HIDE DEF p, g
    <3>3. CASE p \in Prompts
      BY <3>1, <3>2, <3>3, FatesTyped
    <3>4. CASE p \notin Prompts
      BY <3>1, <3>4, FatesTyped
    <3>5. QED
      BY <3>3, <3>4
  <2>3. UNCHANGED <<accepted, settled, pending, clear_done, abort_done, rejection>>
    BY <1>14 DEF ObserveRejected
  <2> HIDE DEF f
  <2>4. QED
    BY <1>1, <1>5, <2>1, <2>2, <2>3
<1>15. CASE ObserveOther
  BY <1>1, <1>5, <1>15 DEF ObserveOther
<1>16. QED
  BY <1>6, <1>7, <1>8, <1>9, <1>10, <1>11, <1>12, <1>13, <1>14, <1>15 DEF ReadPrompt

\* Any client step.
LEMMA LocalsUser ==
  ASSUME NEW owed, WireTyped, Exchange, OnTheWay(owed), ClientStep
  PROVE  Locals'
<1>1. sent \in Nat /\ exchange_id \in 0 .. sent /\ 1 .. sent \subseteq Prompts /\ MaxPrompts \in Nat
  BY WireAssumption DEF WireTyped, Exchange, Locals, Prompts
<1>2. pending \subseteq (exchange_id + 1) .. sent /\ fate \in [Prompts -> Fates]
  BY DEF Exchange, Locals
<1>3. ASSUME NEW what \in {"prompt", "compact"}, Open(what), fate' \in [Prompts -> Fates]
      PROVE  Locals'
  <2>1. sent' = sent + 1 /\ exchange_id' = sent + 1 /\ kind' = what /\ FreshLocals
    BY <1>3 DEF Open
  <2>2. exchange_id' \in 0 .. sent'
    BY <1>1, <2>1
  <2>3. QED
    BY <1>3, <2>1, <2>2 DEF Locals, FreshLocals
<1>4. CASE SubmitPrompt
  <2>1. sent + 1 \in Prompts /\ "pending" \in Fates
    BY <1>1, <1>4 DEF SubmitPrompt, Open, Prompts, Fates
  <2>2. fate' \in [Prompts -> Fates]
    BY <1>2, <1>4, <2>1, FatesTyped DEF SubmitPrompt
  <2>3. QED
    BY <1>3, <1>4, <2>2 DEF SubmitPrompt
<1>5. CASE SubmitCompact
  BY <1>2, <1>3, <1>5 DEF SubmitCompact
<1>6. CASE AskStatus \/ AskRequest
  <2>1. kind' = "request" /\ UNCHANGED <<sent, exchange_id, flags, pending, fate>>
    BY <1>6 DEF AskStatus, AskRequest, Ask
  <2>2. QED
    BY <2>1 DEF Exchange, Locals, flags
<1>7. CASE QueueSubmission
  <2>1. /\ kind = "prompt" /\ accepted /\ sent < MaxPrompts /\ sent' = sent + 1 /\ pending' = pending \cup {sent + 1}
        /\ fate' = [fate EXCEPT ![sent + 1] = "pending"] /\ UNCHANGED <<kind, exchange_id, flags>>
    BY <1>7 DEF QueueSubmission, ReadsKeys
  <2>2. sent + 1 \in Prompts /\ "pending" \in Fates
    BY <1>1, <2>1 DEF Prompts, Fates
  <2>3. fate' \in [Prompts -> Fates]
    BY <1>2, <2>1, <2>2, FatesTyped
  <2>4. exchange_id' \in 0 .. sent' /\ pending' \subseteq (exchange_id' + 1) .. sent'
    BY <1>1, <1>2, <2>1
  <2>5. QED
    BY <2>1, <2>3, <2>4 DEF Exchange, Locals, flags
<1>8. CASE Escape \/ EscapeCompact
  <2>1. /\ interrupted' = TRUE
        /\ UNCHANGED <<sent, kind, exchange_id, accepted, settled, clear_done, abort_done, rejection, pending, fate>>
    BY <1>8 DEF Escape, EscapeCompact
  <2>2. QED
    BY <2>1 DEF Exchange, Locals
<1>9. CASE ReadCompact
  <2> DEFINE r == Head(records)
             is(part) == r.type = "response" /\ r.id = <<exchange_id, part>>
  <2>1. /\ kind = "compact" /\ records # <<>>
        /\ accepted' = (accepted \/ is("main")) /\ abort_done' = (abort_done \/ is("abort")) /\ kind' \in {"compact", "left"}
        /\ UNCHANGED <<sent, exchange_id, settled, interrupted, clear_done, rejection, pending, fate>>
    BY <1>9 DEF ReadCompact
  <2>2. is("abort") => interrupted
    BY <2>1, FirstRecord, ExpectedIs
  <2> HIDE DEF is
  <2>3. accepted' \in BOOLEAN /\ abort_done' \in BOOLEAN
    BY <2>1
  <2>4. QED
    BY <2>1, <2>2, <2>3 DEF Exchange, Locals
<1>10. CASE ReadRequest
  <2>1. kind' \in {"request", "none"} /\ (FreshLocals \/ UNCHANGED <<flags, pending>>) /\ UNCHANGED <<sent, exchange_id, fate>>
    BY <1>10 DEF ReadRequest
  <2>2. QED
    BY <2>1 DEF Exchange, Locals, FreshLocals, flags
<1>11. QED
  BY <1>4, <1>5, <1>6, <1>7, <1>8, <1>9, <1>10, ReadPromptLocals DEF ClientStep, ReadStep

\* A client that waits for nothing has nothing on its way.
LEMMA NothingComes ==
  ASSUME NEW owed, OnTheWay(owed), kind \notin {"prompt", "compact", "request"}
  PROVE  DOMAIN commands = {} /\ Responses(records) = {} /\ owed = {}
  BY NothingExpected DEF OnTheWay, Asked, Answered

LEMMA NothingComesNext ==
  ASSUME NEW owed, OnTheWay(owed)', kind' \notin {"prompt", "compact", "request"}
  PROVE  DOMAIN commands' = {} /\ Responses(records') = {} /\ owed = {}
  BY NothingExpected DEF OnTheWay, Asked, Answered, Responses

LEMMA CommandedMore ==
  ASSUME commands \in Seq(Command), NEW l \in Command, commands' = Append(commands, l)
  PROVE  /\ \A i \in DOMAIN commands' : (i \in DOMAIN commands /\ commands'[i] = commands[i]) \/ commands'[i] = l
  OBVIOUS

LEMMA CommandedUser ==
  ASSUME NEW owed, WireTyped, Exchange, OnTheWay(owed), OnTheWay(owed)', ClientStep
  PROVE  Commanded'
<1>1. commands \in Seq(Command) /\ sent \in Nat /\ sent + 1 \in Nat /\ exchange_id \in Nat /\ Commanded
  BY WireAssumption DEF WireTyped, Exchange, Locals
<1>2. \A l : commands \o <<l>> = Append(commands, l)
  BY <1>1
<1>3. \A k \in Kinds, n \in Nat, part \in {"main", "clear", "abort", "request"}, m \in Modes :
        Line(k, <<n, part>>, m) \in Command
  BY DEF Line, Command, Ids
<1>4. \A k, id, m : Line(k, id, m).id = id /\ Line(k, id, m).kind = k /\ Line(k, id, m).mode = m
  BY DEF Line
<1>5. CASE ReadStep
  <2>1. UNCHANGED <<commands, exchange_id>> /\ kind' \in {kind, "left", "none"}
    BY <1>5 DEF ReadStep, ReadPrompt, AcknowledgeQueued, AcknowledgeClear, AcknowledgeAbort, AcknowledgePrompt,
      ObserveStart, ObserveSettled, ObserveQueue, ObserveDelivery, ObserveRejected, ObserveOther,
      Proceed, ReadCompact, ReadRequest
  <2>2. CASE kind' \in {"left", "none"}
    BY <2>2, NothingComesNext DEF Commanded
  <2>3. CASE kind' = kind
    BY <1>1, <2>1, <2>3 DEF Commanded
  <2>4. QED
    BY <2>1, <2>2, <2>3
<1>6. CASE SubmitPrompt \/ SubmitCompact
  <2>1. PICK what \in {"prompt", "compact"} : Open(what)
    BY <1>6 DEF SubmitPrompt, SubmitCompact
  <2>2. PICK l : l = Line(what, <<sent + 1, "main">>, "none")
    OBVIOUS
  <2>3. l \in Command /\ l.id = <<sent + 1, "main">> /\ l.kind = what
    BY <1>1, <1>3, <1>4, <2>2 DEF Kinds, Modes
  <2>4. commands' = Append(commands, l) /\ kind = "none" /\ kind' = what /\ exchange_id' = sent + 1
    BY <1>2, <2>1, <2>2 DEF Open, Write
  <2>5. DOMAIN commands = {}
    BY <2>4, NothingComes
  <2>6. \A i \in DOMAIN commands' : commands'[i] = l
    BY <1>1, <2>3, <2>4, <2>5, CommandedMore
  <2>7. QED
    BY <2>3, <2>4, <2>6 DEF Commanded
<1>7. CASE AskStatus \/ AskRequest
  <2>1. PICK what \in Kinds \ {"prompt"} : Ask(what)
    BY <1>7, ClientAssumption DEF AskStatus, AskRequest, Kinds
  <2>2. PICK l : l = Line(what, <<exchange_id, "request">>, "none")
    OBVIOUS
  <2>3. l \in Command /\ l.kind = what
    BY <1>1, <1>3, <1>4, <2>2 DEF Modes
  <2>4. commands' = Append(commands, l) /\ kind \in {"none", "left"} /\ kind' = "request"
    BY <1>2, <1>7, <2>1, <2>2 DEF AskStatus, AskRequest, Ask, Write
  <2>5. DOMAIN commands = {}
    BY <2>4, NothingComes
  <2>6. \A i \in DOMAIN commands' : commands'[i] = l
    BY <1>1, <2>3, <2>4, <2>5, CommandedMore
  <2>7. QED
    BY <2>1, <2>3, <2>4, <2>6 DEF Commanded
<1>8. CASE QueueSubmission
  <2>1. PICK mode \in {"steer", "followUp"} : Write(<<Line("prompt", <<sent + 1, "main">>, mode)>>)
    BY <1>8 DEF QueueSubmission
  <2>2. PICK l : l = Line("prompt", <<sent + 1, "main">>, mode)
    OBVIOUS
  <2>3. l \in Command /\ l.kind = "prompt" /\ l.mode # "none"
    <3>1. "prompt" \in Kinds /\ mode \in Modes /\ mode # "none"
      BY DEF Kinds, Modes
    <3>2. l \in Command
      BY <1>1, <1>3, <2>2, <3>1
    <3>3. QED
      BY <1>4, <2>2, <3>1, <3>2
  <2>4. commands' = Append(commands, l) /\ kind = "prompt" /\ UNCHANGED <<kind, exchange_id>>
    BY <1>2, <1>8, <2>1, <2>2 DEF QueueSubmission, ReadsKeys, Write
  <2>5. \A i \in DOMAIN commands' : (i \in DOMAIN commands /\ commands'[i] = commands[i]) \/ commands'[i] = l
    BY <1>1, <2>3, <2>4, CommandedMore
  <2>6. QED
    BY <1>1, <2>3, <2>4, <2>5 DEF Commanded
<1>9. CASE Escape
  <2>1. PICK l, m : l = Line("clear_queue", <<exchange_id, "clear">>, "none") /\ m = Line("abort", <<exchange_id, "abort">>, "none")
    OBVIOUS
  <2>2. l \in Command /\ l.kind = "clear_queue"
    BY <1>1, <1>3, <1>4, <2>1 DEF Kinds, Modes
  <2>3. m \in Command /\ m.kind = "abort"
    BY <1>1, <1>3, <1>4, <2>1 DEF Kinds, Modes
  <2>4. commands' = commands \o <<l, m>> /\ kind = "prompt" /\ UNCHANGED <<kind, exchange_id>>
    BY <1>9, <2>1 DEF Escape, ReadsKeys, Write
  <2>5. \A i \in DOMAIN commands' : (i \in DOMAIN commands /\ commands'[i] = commands[i]) \/ commands'[i] = l \/ commands'[i] = m
    BY <1>1, <2>2, <2>3, <2>4
  <2>6. QED
    BY <1>1, <2>2, <2>3, <2>4, <2>5 DEF Commanded
<1>10. CASE EscapeCompact
  <2>1. PICK l : l = Line("abort", <<exchange_id, "abort">>, "none")
    OBVIOUS
  <2>2. l \in Command /\ l.kind = "abort"
    BY <1>1, <1>3, <1>4, <2>1 DEF Kinds, Modes
  <2>3. commands' = Append(commands, l) /\ UNCHANGED <<kind, exchange_id>>
    BY <1>2, <1>10, <2>1 DEF EscapeCompact, Write
  <2>4. \A i \in DOMAIN commands' : (i \in DOMAIN commands /\ commands'[i] = commands[i]) \/ commands'[i] = l
    BY <1>1, <2>2, <2>3, CommandedMore
  <2>5. QED
    BY <1>1, <1>10, <2>2, <2>3, <2>4 DEF Commanded, EscapeCompact
<1>11. QED
  BY <1>5, <1>6, <1>7, <1>8, <1>9, <1>10 DEF ClientStep

\* The engine's steps leave the client alone and take commands from the front.
LEMMA ExchangeEngine ==
  ASSUME WireTyped, Exchange, UNCHANGED <<client, sent>>,
         UNCHANGED commands \/ (commands # <<>> /\ commands' = Tail(commands))
  PROVE  Exchange'
<1>1. Locals'
  BY DEF Exchange, Locals, client, flags
<1>2. UNCHANGED <<kind, exchange_id>> /\ Commanded /\ commands \in Seq(Command)
  BY DEF Exchange, client, WireTyped
<1> SUFFICES Commanded'
  BY <1>1 DEF Exchange
<1>3. CASE UNCHANGED commands
  BY <1>2, <1>3 DEF Commanded
<1>4. CASE commands # <<>> /\ commands' = Tail(commands)
  <2>1. \A i \in DOMAIN commands' : i + 1 \in DOMAIN commands /\ commands'[i] = commands[i + 1]
    BY <1>2, <1>4, TailElements
  <2>2. QED
    BY <1>2, <2>1 DEF Commanded
<1>5. QED
  BY <1>3, <1>4
=============================================================================
