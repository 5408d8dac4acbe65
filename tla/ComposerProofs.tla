--------------------------- MODULE ComposerProofs ---------------------------
(***************************************************************************)
(* What the composer shows is what waits, what stands in the transcript is *)
(* what was delivered, and what came back is kept: for any number of       *)
(* submissions of any texts, equal ones too, and in any order.             *)
(***************************************************************************)
EXTENDS Composer, ClientProofs, SequenceTheorems, NaturalsInduction, WellFoundedInduction

-----------------------------------------------------------------------------
(* The engine's side and the client's, until a submission begins a run of  *)
(* its own.                                                                *)

\* The types of the engine's promise and of the display.
Typed ==
  /\ WireTyped
  /\ waiting \in Seq(Queued) /\ lead \in Nat /\ caller \in Ids
  /\ text \in [Prompts -> Texts \cup {Nothing}] /\ mode \in [Prompts -> Modes]
  /\ transcript \in [Texts -> Nat]
  /\ draft \in Texts \cup {Nothing} /\ slot \in Texts \cup {Nothing} /\ failed \in Texts \cup {Nothing}

\* The submissions that were queued behind a prompt, and those of them that steer.
Extra == {p \in 1 .. sent : mode[p] \in {"steer", "followUp"} /\ text[p] \in Texts}
Steers == {p \in Extra : mode[p] = "steer"}

\* What was sent has its text, and the prompt of an exchange is no such submission.
Written ==
  /\ \A p \in Prompts : p > sent => text[p] = Nothing /\ mode[p] = "none"
  /\ pending \subseteq Extra
  /\ kind = "prompt" => exchange_id \in 1 .. sent /\ mode[exchange_id] = "none" /\ text[exchange_id] \in Texts

\* The answer that a compaction or an extension command still owes.
Owed == IF stage = "task" THEN {caller} ELSE {}
Traffic == OnTheWay(Owed)

\* A queue of submissions of E, each once and those of S, which steer, first.
IdsIn(q) == {q[i].id : i \in DOMAIN q}
Ordered(q, E, S) ==
  /\ \A i \in DOMAIN q : q[i].id \in E /\ (q[i].steer <=> q[i].id \in S)
  /\ \A i, j \in DOMAIN q : q[i].id = q[j].id => i = j
  /\ \A i, j \in DOMAIN q : i < j /\ q[j].steer => q[i].steer

\* A submission is on its way, waits, or leads the run, one of them and once.
Main == <<exchange_id, "main">>
Placed ==
  /\ \A i \in DOMAIN commands : kind = "prompt" =>
       /\ commands[i].kind = "prompt" <=> commands[i].id[2] = "main"
       /\ commands[i].kind = "prompt" => commands[i].mode = mode[commands[i].id[1]]
  /\ Ordered(waiting, Extra, Steers)
  /\ \A p \in IdsIn(waiting) : <<p, "main">> \notin Asked(commands)
  /\ lead # 0 => /\ lead \in {exchange_id} \cup Extra
                 /\ lead \notin IdsIn(waiting) /\ <<lead, "main">> \notin Asked(commands)

\* Where the work is while the client is in which exchange.
Refused == rejection \/ \E k \in Responses(records) : records[k].id = Main /\ ~records[k].ok
Rests ==
  /\ stage \in {"none", "task"} => waiting = <<>>
  /\ stage = "none" => ~active
  /\ kind # "prompt" => stage \in {"none", "task"}
  /\ kind = "prompt" => stage # "task" /\ (Main \in Asked(commands) \/ Refused => stage = "none")
  /\ stage \in {"begins", "turn"} <=> lead # 0
  /\ stage = "begins" => lead = exchange_id

\* Outside of a prompt's exchange nothing is shown, and what is left to read when
\* the composer is back says that nothing waits.
Quiet ==
  /\ kind # "prompt" => /\ shown = <<>> /\ early = <<>> /\ initial = Nothing
                        /\ \A p \in Prompts : fate[p] # "waiting"
  /\ kind = "none" => \A k \in DOMAIN records : records[k] = QueueUpdate(<<>>)
  /\ kind = "request" => \A k \in Responses(records), j \in DOMAIN records :
                           k < j => records[j] = QueueUpdate(<<>>)

-----------------------------------------------------------------------------
(* What the records on their way will tell the display of the prompt x and *)
(* the submissions E, point by point: whether the prompt is still to be    *)
(* delivered (led), whether the run is over, which deliveries have been    *)
(* heard of, which submissions are listed as waiting (here) and which have *)
(* left the list undelivered (gone), and whether the list shows those that *)
(* steer first (neat).                                                     *)

Point == [led : BOOLEAN, over : BOOLEAN, heard : SUBSET Prompts,
          here : SUBSET Nat, gone : SUBSET Nat, neat : BOOLEAN]

Delivers(r) == r.type = "message_start"
Updates(r) == r.type = "queue_update"
Rejects(r) == r.type = "queue_rejected"
Accepts(r, x) == r.type = "response" /\ r.ok /\ r.id # <<x, "main">>

After(c, r, x) ==
  [led   |-> c.led /\ ~(Delivers(r) /\ r.prompt = x),
   over  |-> c.over \/ r.type = "agent_settled",
   heard |-> IF Delivers(r) THEN c.heard \cup {r.prompt} ELSE c.heard,
   here  |-> CASE Accepts(r, x) -> c.here \cup {r.id[1]}
               [] Updates(r)    -> IdsIn(r.waiting)
               [] Delivers(r)   -> c.here \ {r.prompt}
               [] Rejects(r)    -> {}
               [] OTHER         -> c.here,
   gone  |-> CASE Updates(r)  -> c.gone \cup (c.here \ IdsIn(r.waiting))
               [] Delivers(r) -> c.gone \ {r.prompt}
               [] Rejects(r)  -> {}
               [] OTHER       -> c.gone,
   neat  |-> CASE Accepts(r, x)             -> FALSE
               [] Updates(r) \/ Rejects(r)  -> TRUE
               [] OTHER                     -> c.neat]

\* Which record may come at which point; the list counts while it is seen.
Listable(c, r, x, E, S) ==
  /\ Accepts(r, x) => r.id[1] \in E \ (c.here \cup c.gone)
  /\ Updates(r) => Ordered(r.waiting, E, S) /\ IdsIn(r.waiting) \subseteq c.here
  /\ Rejects(r) => r.prompt \in c.here
  /\ Delivers(r) /\ r.prompt # x => \/ c.gone = {r.prompt}
                                    \/ c.gone = {} /\ r.prompt \in c.here \cap S /\ c.neat
Fits(c, r, x, E, S, seen) ==
  /\ Delivers(r) => \/ r.prompt = x /\ c.led
                    \/ r.prompt \in E \ c.heard /\ ~c.led
  /\ r.type \in {"agent_start", "agent_settled"} => ~c.over
  /\ seen => Listable(c, r, x, E, S)

Sound(c, E) == c.here \cup c.gone \subseteq E /\ c.here \cap c.gone = {}

\* T has a point before each record and one at the end.
Course(T, rs, x, E, S, seen) ==
  /\ T \in Seq(Point) /\ Len(T) = Len(rs) + 1
  /\ \A k \in DOMAIN rs : Fits(T[k], rs[k], x, E, S, seen) /\ T[k + 1] = After(T[k], rs[k], x)
  /\ seen => \A k \in DOMAIN T : Sound(T[k], E)

-----------------------------------------------------------------------------
(* The display is at the first of these points, the engine at the last.    *)

\* What stands in the transcript.
Transcribed(H) ==
  /\ H \subseteq 1 .. sent
  /\ \A t \in Texts : transcript[t] = Cardinality({p \in H : text[p] = t})
  /\ \A p \in Prompts : text[p] \in Texts /\ mode[p] = "none" => p \in H
  /\ \A p \in Prompts : fate[p] = "delivered" => p \in H

\* The items of s are those of e, one for each of its domain; g says where.
Items == [text : Texts, mode : Modes, accepted : BOOLEAN, sending : BOOLEAN]
Lists(g, s, e) ==
  /\ s \in Seq(Items) /\ g \in [DOMAIN e -> DOMAIN s]
  /\ \A p, q \in DOMAIN e : g[p] = g[q] => p = q
  /\ \A i \in DOMAIN s : \E p \in DOMAIN e : g[p] = i
  /\ \A p \in DOMAIN e : s[g[p]] = e[p]

\* The items of the submissions at the point c.
Entry(p, gone) == [text |-> text[p], mode |-> mode[p], accepted |-> TRUE, sending |-> p \in gone]
EntriesOf(P, gone) == [p \in P |-> Entry(p, gone)]
Entries(c) == EntriesOf(c.here \cup c.gone, c.gone)
Neat(s) == \A i, j \in DOMAIN s :
  i < j /\ ~s[i].sending /\ ~s[j].sending /\ s[j].mode = "steer" => s[i].mode = "steer"

Shown(c) ==
  /\ early = <<>> /\ \E g : Lists(g, shown, Entries(c))
  /\ c.neat => Neat(shown)
  /\ {p \in Prompts : fate[p] = "waiting"} = c.here \cup c.gone
  /\ \A p \in pending : fate[p] = "pending"

Begins(c) ==
  /\ initial = IF c.led THEN text[exchange_id] ELSE Nothing
  /\ settled = c.over
  /\ Transcribed(c.heard)
  /\ ~interrupted => Shown(c)

Live == stage \in {"begins", "turn", "works"}
Holds(c) ==
  /\ \A p \in c.here \cup c.gone : <<p, "main">> \notin Asked(commands)
  /\ IdsIn(waiting) \subseteq c.here
  /\ Live => /\ c.here = IdsIn(waiting) /\ c.neat
             /\ c.gone = IF stage = "turn" /\ lead # exchange_id THEN {lead} ELSE {}
  /\ Main \in Asked(commands) => c.here = {} /\ c.gone = {} /\ c.neat

Ends(c) ==
  /\ Main \in Asked(commands) \/ lead = exchange_id => c.led
  /\ stage = "works" \/ (stage = "turn" /\ lead # exchange_id) => ~c.led
  /\ \A p \in Extra : p \in IdsIn(waiting) \/ <<p, "main">> \in Asked(commands) \/ p = lead => p \notin c.heard
  /\ ~interrupted => Holds(c)

Done == stage = "none" /\ Main \notin Asked(commands)
Over(T) == \A k \in DOMAIN T : T[k].over => Done

Told(T) ==
  /\ Course(T, records, exchange_id, Extra, Steers, ~interrupted)
  /\ Begins(T[1]) /\ Ends(T[Len(T)]) /\ Over(T)

Story == IF kind = "prompt" THEN \E T : Told(T) ELSE \E H : Transcribed(H)

Inner == Typed /\ Exchange /\ Traffic /\ Written /\ Placed /\ Rests /\ Quiet /\ Story
IInv == ~stray => Inner

-----------------------------------------------------------------------------
(* Sequences of points.                                                    *)

\* A record is written.
LEMMA AfterPoint ==
  ASSUME NEW c \in Point, NEW r \in Record, NEW x
  PROVE  After(c, r, x) \in Point
<1>1. /\ Delivers(r) => r.prompt \in Prompts
      /\ Accepts(r, x) => r.id[1] \in Nat
      /\ Updates(r) => IdsIn(r.waiting) \subseteq Prompts
  <2>1. ASSUME Delivers(r) PROVE r.prompt \in Prompts
    BY <2>1 DEF Delivers, Record
  <2>2. ASSUME Accepts(r, x) PROVE r.id[1] \in Nat
    BY <2>2 DEF Accepts, Record, Ids
  <2>3. ASSUME Updates(r) PROVE IdsIn(r.waiting) \subseteq Prompts
    <3>1. PICK q : q = r.waiting
      OBVIOUS
    <3>2. q \in Seq(Queued)
      BY <2>3, <3>1 DEF Updates, Record
    <3>3. ASSUME NEW i \in DOMAIN q PROVE q[i].id \in Prompts
      <4>1. q[i] \in Queued
        BY <3>2
      <4>2. QED
        BY <4>1 DEF Queued
    <3>4. QED
      BY <3>1, <3>3 DEF IdsIn
  <2>4. QED
    BY <2>1, <2>2, <2>3
<1>2. Prompts \subseteq Nat
  BY DEF Prompts
<1>3. /\ c.led \in BOOLEAN /\ c.over \in BOOLEAN /\ c.neat \in BOOLEAN
      /\ c.heard \in SUBSET Prompts /\ c.here \in SUBSET Nat /\ c.gone \in SUBSET Nat
  BY DEF Point
<1>4. QED
  BY <1>1, <1>2, <1>3, Zenon DEF After, Point

LEMMA SoundAfter ==
  ASSUME NEW c, NEW r, NEW x, NEW E, NEW S, Sound(c, E), Listable(c, r, x, E, S)
  PROVE  Sound(After(c, r, x), E)
<1> DEFINE d == After(c, r, x)
<1>1. c.here \cup c.gone \subseteq E /\ c.here \cap c.gone = {}
  BY DEF Sound
<1>2. /\ d.here = CASE Accepts(r, x) -> c.here \cup {r.id[1]}
                    [] Updates(r)    -> IdsIn(r.waiting)
                    [] Delivers(r)   -> c.here \ {r.prompt}
                    [] Rejects(r)    -> {}
                    [] OTHER         -> c.here
      /\ d.gone = CASE Updates(r)  -> c.gone \cup (c.here \ IdsIn(r.waiting))
                    [] Delivers(r) -> c.gone \ {r.prompt}
                    [] Rejects(r)  -> {}
                    [] OTHER       -> c.gone
  BY DEF After
<1>3. /\ Accepts(r, x) => ~Updates(r) /\ ~Delivers(r) /\ ~Rejects(r)
      /\ Updates(r) => ~Delivers(r) /\ ~Rejects(r)
      /\ Delivers(r) => ~Rejects(r)
  BY DEF Accepts, Updates, Delivers, Rejects
<1> HIDE DEF d
<1>4. CASE Accepts(r, x)
  <2>1. d.here = c.here \cup {r.id[1]} /\ d.gone = c.gone
    BY <1>2, <1>3, <1>4
  <2>2. r.id[1] \in E \ (c.here \cup c.gone)
    BY <1>4 DEF Listable
  <2>3. QED
    BY <1>1, <2>1, <2>2 DEF Sound, d
<1>5. CASE Updates(r)
  <2>1. d.here = IdsIn(r.waiting) /\ d.gone = c.gone \cup (c.here \ IdsIn(r.waiting))
    BY <1>2, <1>3, <1>5
  <2>2. IdsIn(r.waiting) \subseteq c.here
    BY <1>5 DEF Listable
  <2>3. QED
    BY <1>1, <2>1, <2>2 DEF Sound, d
<1>6. CASE Delivers(r)
  <2>1. d.here = c.here \ {r.prompt} /\ d.gone = c.gone \ {r.prompt}
    BY <1>2, <1>3, <1>6
  <2>2. QED
    BY <1>1, <2>1 DEF Sound, d
<1>7. CASE Rejects(r)
  <2>1. d.here = {} /\ d.gone = {}
    BY <1>2, <1>3, <1>7
  <2>2. QED
    BY <2>1 DEF Sound, d
<1>8. CASE ~Accepts(r, x) /\ ~Updates(r) /\ ~Delivers(r) /\ ~Rejects(r)
  <2>1. d.here = c.here /\ d.gone = c.gone
    BY <1>2, <1>8
  <2>2. QED
    BY <1>1, <2>1 DEF Sound, d
<1>9. QED
  BY <1>4, <1>5, <1>6, <1>7, <1>8

LEMMA CourseMore ==
  ASSUME NEW T, NEW rs \in Seq(Record), NEW x, NEW E, NEW S, NEW seen, Course(T, rs, x, E, S, seen),
         NEW r \in Record, Fits(T[Len(T)], r, x, E, S, seen)
  PROVE  LET c == After(T[Len(T)], r, x)
         IN  /\ Course(Append(T, c), Append(rs, r), x, E, S, seen)
             /\ Append(T, c)[1] = T[1] /\ Append(T, c)[Len(Append(T, c))] = c
             /\ \A k \in DOMAIN Append(T, c) : (k \in DOMAIN T /\ Append(T, c)[k] = T[k]) \/ Append(T, c)[k] = c
<1> DEFINE n == Len(rs)
           c == After(T[Len(T)], r, x)
           U == Append(T, c)
           us == Append(rs, r)
<1>1. T \in Seq(Point) /\ Len(T) = n + 1 /\ n \in Nat
  BY DEF Course
<1>2. T[n + 1] \in Point
  BY <1>1
<1>3. c \in Point
  BY <1>1, <1>2, AfterPoint
<1>4. /\ U \in Seq(Point) /\ U[n + 2] = c /\ Len(U) = n + 2 /\ \A k \in 1 .. (n + 1) : U[k] = T[k]
      /\ DOMAIN U = 1 .. (n + 2) /\ DOMAIN T = 1 .. (n + 1)
  BY <1>1, <1>3
<1>5. /\ us \in Seq(Record) /\ us[n + 1] = r /\ Len(us) = n + 1 /\ \A k \in 1 .. n : us[k] = rs[k]
      /\ DOMAIN us = 1 .. (n + 1) /\ DOMAIN rs = 1 .. n
  OBVIOUS
<1>6. c = After(T[n + 1], r, x) /\ Fits(T[n + 1], r, x, E, S, seen)
  BY <1>1
<1> HIDE DEF U, us, c
<1>7. ASSUME NEW k \in DOMAIN us PROVE Fits(U[k], us[k], x, E, S, seen) /\ U[k + 1] = After(U[k], us[k], x)
  <2>1. CASE k = n + 1
    <3>1. U[k] = T[n + 1] /\ us[k] = r /\ U[k + 1] = c
      BY <1>1, <1>4, <1>5, <2>1
    <3>2. QED
      BY <1>6, <3>1
  <2>2. CASE k \in 1 .. n
    <3>1. U[k] = T[k] /\ us[k] = rs[k] /\ U[k + 1] = T[k + 1] /\ k \in DOMAIN rs
      BY <1>1, <1>4, <1>5, <2>2
    <3>2. Fits(T[k], rs[k], x, E, S, seen) /\ T[k + 1] = After(T[k], rs[k], x)
      BY <3>1 DEF Course
    <3>3. QED
      BY <3>1, <3>2
  <2>3. QED
    BY <1>1, <1>5, <2>1, <2>2
<1>8. \A k \in DOMAIN U : (k \in DOMAIN T /\ U[k] = T[k]) \/ U[k] = c
  BY <1>1, <1>4
<1>9. ASSUME seen, NEW k \in DOMAIN U PROVE Sound(U[k], E)
  <2>1. \A j \in DOMAIN T : Sound(T[j], E)
    BY <1>9 DEF Course
  <2>2. Sound(T[n + 1], E)
    BY <1>1, <1>4, <2>1
  <2>3. Sound(c, E)
    BY <1>6, <1>9, <2>2, SoundAfter DEF Fits
  <2>4. QED
    BY <1>8, <2>1, <2>3
<1>10. U[1] = T[1] /\ U[Len(U)] = c /\ Len(U) = Len(us) + 1
  BY <1>1, <1>4, <1>5
<1>11. Course(U, us, x, E, S, seen)
  BY <1>4, <1>7, <1>9, <1>10 DEF Course
<1>12. QED
  BY <1>8, <1>10, <1>11 DEF U, us, c

\* A record is read.
LEMMA CourseRead ==
  ASSUME NEW T, NEW rs \in Seq(Record), NEW x, NEW E, NEW S, NEW seen, Course(T, rs, x, E, S, seen), rs # <<>>
  PROVE  /\ Course(Tail(T), Tail(rs), x, E, S, seen)
         /\ Fits(T[1], Head(rs), x, E, S, seen) /\ Tail(T)[1] = After(T[1], Head(rs), x)
         /\ T[1] \in Point /\ 1 \in DOMAIN Tail(T)
         /\ Tail(T)[Len(Tail(T))] = T[Len(T)]
         /\ \A k \in DOMAIN Tail(T) : k + 1 \in DOMAIN T /\ Tail(T)[k] = T[k + 1]
         /\ seen => Sound(T[1], E)
<1> DEFINE n == Len(rs)
           U == Tail(T)
           us == Tail(rs)
<1>1. T \in Seq(Point) /\ Len(T) = n + 1 /\ n \in Nat /\ n > 0
  BY DEF Course
<1>2. /\ U \in Seq(Point) /\ Len(U) = n /\ \A k \in 1 .. n : U[k] = T[k + 1]
      /\ DOMAIN U = 1 .. n /\ DOMAIN T = 1 .. (n + 1) /\ T[1] \in Point
  BY <1>1
<1>3. /\ us \in Seq(Record) /\ Len(us) = n - 1 /\ \A k \in 1 .. (n - 1) : us[k] = rs[k + 1]
      /\ DOMAIN us = 1 .. (n - 1) /\ DOMAIN rs = 1 .. n /\ Head(rs) = rs[1]
  BY <1>1
<1> HIDE DEF U, us
<1>4. ASSUME NEW k \in DOMAIN us PROVE Fits(U[k], us[k], x, E, S, seen) /\ U[k + 1] = After(U[k], us[k], x)
  <2>1. U[k] = T[k + 1] /\ us[k] = rs[k + 1] /\ U[k + 1] = T[(k + 1) + 1] /\ k + 1 \in DOMAIN rs
    BY <1>1, <1>2, <1>3
  <2>2. Fits(T[k + 1], rs[k + 1], x, E, S, seen) /\ T[(k + 1) + 1] = After(T[k + 1], rs[k + 1], x)
    BY <2>1 DEF Course
  <2>3. QED
    BY <2>1, <2>2
<1>5. \A k \in DOMAIN U : k + 1 \in DOMAIN T /\ U[k] = T[k + 1]
  BY <1>1, <1>2
<1>6. seen => \A k \in DOMAIN T : Sound(T[k], E)
  BY DEF Course
<1>7. Course(U, us, x, E, S, seen)
  <2>1. Len(U) = Len(us) + 1
    BY <1>1, <1>2, <1>3
  <2>2. QED
    BY <1>2, <1>4, <1>5, <1>6, <2>1 DEF Course
<1>8. Fits(T[1], Head(rs), x, E, S, seen) /\ T[1 + 1] = After(T[1], Head(rs), x)
  <2>1. 1 \in DOMAIN rs
    BY <1>1, <1>3
  <2>2. QED
    BY <1>3, <2>1 DEF Course
<1>9. U[1] = T[1 + 1] /\ U[Len(U)] = T[Len(T)] /\ 1 \in DOMAIN U /\ 1 \in DOMAIN T
  BY <1>1, <1>2
<1>10. QED
  BY <1>2, <1>5, <1>6, <1>7, <1>8, <1>9 DEF U, us

\* More submissions are sent, or the list is no longer looked at.
LEMMA OrderedGrows ==
  ASSUME NEW q, NEW E, NEW S, NEW F, NEW R, Ordered(q, E, S), E \subseteq F, \A p \in E : p \in S <=> p \in R
  PROVE  Ordered(q, F, R)
  BY DEF Ordered

LEMMA CourseGrows ==
  ASSUME NEW T, NEW rs, NEW x, NEW E, NEW S, NEW seen, Course(T, rs, x, E, S, seen),
         NEW F, NEW R, NEW sees \in BOOLEAN, E \subseteq F, \A p \in E : p \in S <=> p \in R, sees => seen
  PROVE  Course(T, rs, x, F, R, sees)
<1>1. ASSUME NEW k \in DOMAIN rs PROVE Fits(T[k], rs[k], x, F, R, sees)
  <2> DEFINE c == T[k]
             r == rs[k]
  <2>1. Fits(c, r, x, E, S, seen) /\ (seen => Sound(c, E) \/ k \notin DOMAIN T)
    BY DEF Course
  <2> HIDE DEF c, r
  <2>2. sees => Listable(c, r, x, F, R)
    <3>1. SUFFICES ASSUME sees PROVE Listable(c, r, x, F, R)
      OBVIOUS
    <3>2. Listable(c, r, x, E, S)
      BY <2>1, <3>1 DEF Fits
    <3>3. k \in DOMAIN T
      BY DEF Course
    <3>4. c.here \subseteq E
      BY <2>1, <3>1, <3>3 DEF Sound
    <3>5. Updates(r) => Ordered(r.waiting, F, R)
      BY <3>2, OrderedGrows DEF Listable
    <3>6. QED
      BY <3>2, <3>4, <3>5 DEF Listable
  <2>3. QED
    BY <2>1, <2>2 DEF Fits, c, r
<1>2. sees => \A k \in DOMAIN T : Sound(T[k], F)
  BY DEF Course, Sound
<1>3. QED
  BY <1>1, <1>2 DEF Course

\* Where nothing comes but that nothing waits.
Unmoved(c, rs, x, E, S, seen) ==
  \E T : Course(T, rs, x, E, S, seen) /\ T[1] = c /\ T[Len(T)] = c /\ \A k \in DOMAIN T : T[k] = c

LEMMA CourseStarts ==
  ASSUME NEW rs \in Seq(Record), \A k \in DOMAIN rs : rs[k] = QueueUpdate(<<>>),
         NEW x, NEW E, NEW S, NEW seen, NEW c \in Point, c.here = {}, c.gone = {}, c.neat
  PROVE  Unmoved(c, rs, x, E, S, seen)
<1> DEFINE r == QueueUpdate(<<>>)
           T == [k \in 1 .. (Len(rs) + 1) |-> c]
<1>1. /\ r.type = "queue_update" /\ r.waiting = <<>> /\ Updates(r) /\ ~Delivers(r) /\ ~Rejects(r)
      /\ ~Accepts(r, x) /\ IdsIn(r.waiting) = {}
  BY DEF QueueUpdate, Updates, Delivers, Rejects, Accepts, IdsIn
<1>2. Ordered(r.waiting, E, S)
  BY <1>1 DEF Ordered
<1> HIDE DEF r
<1>3. Fits(c, r, x, E, S, seen)
  BY <1>1, <1>2 DEF Fits, Listable
<1>4. After(c, r, x) = c
  <2>1. c = [led |-> c.led, over |-> c.over, heard |-> c.heard, here |-> {}, gone |-> {}, neat |-> TRUE]
    BY DEF Point
  <2>2. c.led \in BOOLEAN /\ c.over \in BOOLEAN
    BY DEF Point
  <2>3. After(c, r, x) = [led |-> c.led, over |-> c.over, heard |-> c.heard, here |-> {}, gone |-> {}, neat |-> TRUE]
    BY <1>1, <2>2 DEF After
  <2>4. QED
    BY <2>1, <2>3
<1>5. Sound(c, E)
  BY DEF Sound
<1>6. T \in Seq(Point) /\ Len(T) = Len(rs) + 1 /\ DOMAIN T = 1 .. (Len(rs) + 1) /\ Len(rs) \in Nat
  OBVIOUS
<1>7. \A k \in DOMAIN T : T[k] = c
  BY <1>6
<1>8. \A k \in DOMAIN rs : k \in DOMAIN T /\ k + 1 \in DOMAIN T /\ rs[k] = r
  BY <1>6 DEF r
<1> HIDE DEF T
<1>9. Course(T, rs, x, E, S, seen)
  BY <1>3, <1>4, <1>5, <1>6, <1>7, <1>8 DEF Course
<1>10. 1 \in DOMAIN T /\ Len(T) \in DOMAIN T
  BY <1>6
<1>11. QED
  BY <1>7, <1>9, <1>10 DEF Unmoved

-----------------------------------------------------------------------------
(* The items beside the composer.                                          *)

LEMMA RemovedElements ==
  ASSUME NEW R, NEW s \in Seq(R), NEW i \in DOMAIN s
  PROVE  /\ RemoveAt(s, i) \in Seq(R) /\ DOMAIN RemoveAt(s, i) = 1 .. (Len(s) - 1)
         /\ \A k \in 1 .. (i - 1) : RemoveAt(s, i)[k] = s[k]
         /\ \A k \in i .. (Len(s) - 1) : RemoveAt(s, i)[k] = s[k + 1]
<1> DEFINE a == SubSeq(s, 1, i - 1)
           b == SubSeq(s, i + 1, Len(s))
<1>1. i \in 1 .. Len(s) /\ Len(s) \in Nat
  OBVIOUS
<1>2. a \in Seq(R) /\ Len(a) = i - 1 /\ \A k \in 1 .. (i - 1) : a[k] = s[k]
  BY <1>1
<1>3. b \in Seq(R) /\ Len(b) = Len(s) - i /\ \A k \in 1 .. (Len(s) - i) : b[k] = s[i + k]
  BY <1>1
<1> HIDE DEF a, b
<1>4. /\ a \o b \in Seq(R) /\ Len(a \o b) = Len(a) + Len(b)
      /\ \A k \in 1 .. Len(a) + Len(b) : (a \o b)[k] = IF k <= Len(a) THEN a[k] ELSE b[k - Len(a)]
  BY <1>2, <1>3, ConcatProperties
<1>5. RemoveAt(s, i) = a \o b
  BY DEF RemoveAt, a, b
<1>6. \A k \in 1 .. (i - 1) : (a \o b)[k] = s[k]
  BY <1>1, <1>2, <1>3, <1>4
<1>7. ASSUME NEW k \in i .. (Len(s) - 1) PROVE (a \o b)[k] = s[k + 1]
  <2>1. (a \o b)[k] = b[k - (i - 1)]
    <3>1. k \in 1 .. Len(a) + Len(b) /\ ~(k <= Len(a))
      BY <1>1, <1>2, <1>3
    <3>2. (a \o b)[k] = b[k - Len(a)]
      BY <1>4, <3>1
    <3>3. QED
      BY <1>2, <3>2
  <2>2. k - (i - 1) \in 1 .. (Len(s) - i) /\ i + (k - (i - 1)) = k + 1
    BY <1>1
  <2>3. QED
    BY <1>3, <2>1, <2>2
<1>8. Len(a \o b) = Len(s) - 1
  BY <1>1, <1>2, <1>3, <1>4
<1>9. QED
  BY <1>4, <1>5, <1>6, <1>7, <1>8

\* An item is shown.
LEMMA ListAdds ==
  ASSUME NEW g, NEW s, NEW e, Lists(g, s, e), NEW item \in Items, NEW p, p \notin DOMAIN e
  PROVE  \E f : Lists(f, Append(s, item), [q \in DOMAIN e \cup {p} |-> IF q = p THEN item ELSE e[q]])
<1> DEFINE n == Len(s) + 1
           d == [q \in DOMAIN e \cup {p} |-> IF q = p THEN item ELSE e[q]]
           f == [q \in DOMAIN d |-> IF q = p THEN n ELSE g[q]]
           t == Append(s, item)
<1>1. s \in Seq(Items)
  BY DEF Lists
<1>2. /\ t \in Seq(Items) /\ n \in DOMAIN t /\ t[n] = item
      /\ \A i \in DOMAIN s : i \in DOMAIN t /\ t[i] = s[i] /\ i # n
      /\ \A i \in DOMAIN t : i \in DOMAIN s \/ i = n
  BY <1>1, AppendElements
<1> HIDE DEF t, n
<1>3. /\ g \in [DOMAIN e -> DOMAIN s]
      /\ \A q, r \in DOMAIN e : g[q] = g[r] => q = r
      /\ \A i \in DOMAIN s : \E q \in DOMAIN e : g[q] = i
      /\ \A q \in DOMAIN e : s[g[q]] = e[q]
  BY DEF Lists
<1>4. DOMAIN d = DOMAIN e \cup {p} /\ DOMAIN f = DOMAIN d
  OBVIOUS
<1>5. \A q \in DOMAIN d : q # p => q \in DOMAIN e /\ f[q] = g[q] /\ d[q] = e[q] /\ g[q] \in DOMAIN s
  BY <1>3
<1>6. p \in DOMAIN d /\ f[p] = n /\ d[p] = item
  OBVIOUS
<1>7. f \in [DOMAIN d -> DOMAIN t]
  BY <1>2, <1>3
<1> HIDE DEF f, d
<1>8. \A q, r \in DOMAIN d : f[q] = f[r] => q = r
  BY <1>2, <1>3, <1>5, <1>6
<1>9. ASSUME NEW i \in DOMAIN t PROVE \E q \in DOMAIN d : f[q] = i
  BY <1>2, <1>3, <1>4, <1>5, <1>6
<1>10. \A q \in DOMAIN d : t[f[q]] = d[q]
  BY <1>2, <1>3, <1>5, <1>6
<1>11. Lists(f, t, d)
  BY <1>2, <1>7, <1>8, <1>9, <1>10 DEF Lists
<1>12. QED
  BY <1>11 DEF t, d

\* An item that is like that of p is shown no more: p might as well be the one.
LEMMA ListLoses ==
  ASSUME NEW g, NEW s, NEW e, Lists(g, s, e), NEW i \in DOMAIN s, NEW p \in DOMAIN e, s[i] = e[p]
  PROVE  \E f : Lists(f, RemoveAt(s, i), [q \in DOMAIN e \ {p} |-> e[q]])
<1> DEFINE d == [q \in DOMAIN e \ {p} |-> e[q]]
           t == RemoveAt(s, i)
           at(q) == IF g[q] = i THEN g[p] ELSE g[q]
           less(k) == IF k > i THEN k - 1 ELSE k
           f == [q \in DOMAIN d |-> less(at(q))]
<1>1. /\ s \in Seq(Items) /\ g \in [DOMAIN e -> DOMAIN s]
      /\ \A q, r \in DOMAIN e : g[q] = g[r] => q = r
      /\ \A k \in DOMAIN s : \E q \in DOMAIN e : g[q] = k
      /\ \A q \in DOMAIN e : s[g[q]] = e[q]
  BY DEF Lists
<1>2. /\ t \in Seq(Items) /\ DOMAIN t = 1 .. (Len(s) - 1)
      /\ \A k \in 1 .. (i - 1) : t[k] = s[k]
      /\ \A k \in i .. (Len(s) - 1) : t[k] = s[k + 1]
  BY <1>1, RemovedElements
<1>3. DOMAIN s = 1 .. Len(s) /\ Len(s) \in Nat /\ i \in 1 .. Len(s)
  BY <1>1
<1>4. DOMAIN d = DOMAIN e \ {p} /\ \A q \in DOMAIN d : q \in DOMAIN e /\ q # p /\ d[q] = e[q]
  OBVIOUS
<1>5. \A q \in DOMAIN d : f[q] = less(at(q))
  OBVIOUS
<1> HIDE DEF t, d
<1>6. ASSUME NEW q \in DOMAIN d PROVE at(q) \in (1 .. Len(s)) \ {i} /\ s[at(q)] = d[q]
  <2>1. CASE g[q] = i
    <3>1. at(q) = g[p] /\ g[p] # i /\ s[g[p]] = e[p] /\ e[q] = s[i]
      BY <1>1, <1>4, <2>1
    <3>2. QED
      BY <1>1, <1>3, <1>4, <3>1
  <2>2. CASE g[q] # i
    BY <1>1, <1>3, <1>4, <2>2
  <2>3. QED
    BY <2>1, <2>2
<1>7. \A k \in (1 .. Len(s)) \ {i} : less(k) \in 1 .. (Len(s) - 1) /\ t[less(k)] = s[k]
  <2> TAKE k \in (1 .. Len(s)) \ {i}
  <2>1. CASE k > i
    <3>1. less(k) = k - 1 /\ k - 1 \in i .. (Len(s) - 1) /\ (k - 1) + 1 = k
      BY <1>3, <2>1
    <3>2. QED
      BY <1>2, <1>3, <3>1
  <2>2. CASE k < i
    <3>1. less(k) = k /\ k \in 1 .. (i - 1)
      BY <1>3, <2>2
    <3>2. QED
      BY <1>2, <1>3, <3>1
  <2>3. QED
    BY <1>3, <2>1, <2>2
<1>8. \A k, m \in (1 .. Len(s)) \ {i} : less(k) = less(m) => k = m
  BY <1>3
<1>9. \A k \in 1 .. (Len(s) - 1) : \E m \in (1 .. Len(s)) \ {i} : less(m) = k
  <2> TAKE k \in 1 .. (Len(s) - 1)
  <2>1. CASE k < i
    <3>1. k \in (1 .. Len(s)) \ {i} /\ less(k) = k
      BY <1>3, <2>1
    <3>2. QED
      BY <3>1
  <2>2. CASE k >= i
    <3>1. k + 1 \in (1 .. Len(s)) \ {i} /\ less(k + 1) = k
      BY <1>3, <2>2
    <3>2. QED
      BY <3>1
  <2>3. QED
    BY <1>3, <2>1, <2>2
<1> HIDE DEF less
<1>10. \A q, r \in DOMAIN d : at(q) = at(r) => q = r
  BY <1>1, <1>4
<1>11. ASSUME NEW k \in (1 .. Len(s)) \ {i} PROVE \E q \in DOMAIN d : at(q) = k
  <2>1. PICK q \in DOMAIN e : g[q] = k
    BY <1>1, <1>3, <1>11
  <2>2. CASE q # p
    BY <1>4, <1>11, <2>1, <2>2
  <2>3. CASE q = p
    <3>1. PICK r \in DOMAIN e : g[r] = i
      BY <1>1
    <3>2. r # p
      BY <1>11, <2>1, <2>3, <3>1
    <3>3. QED
      BY <1>4, <2>1, <2>3, <3>1, <3>2
  <2>4. QED
    BY <2>2, <2>3
<1> HIDE DEF at
<1>12. f \in [DOMAIN d -> DOMAIN t]
  BY <1>2, <1>6, <1>7
<1> HIDE DEF f
<1>13. \A q, r \in DOMAIN d : f[q] = f[r] => q = r
  BY <1>5, <1>6, <1>8, <1>10
<1>14. ASSUME NEW k \in DOMAIN t PROVE \E q \in DOMAIN d : f[q] = k
  <2>1. PICK m \in (1 .. Len(s)) \ {i} : less(m) = k
    BY <1>2, <1>9, <1>14
  <2>2. PICK q \in DOMAIN d : at(q) = m
    BY <1>11
  <2>3. QED
    BY <1>5, <2>1, <2>2
<1>15. \A q \in DOMAIN d : t[f[q]] = d[q]
  BY <1>5, <1>6, <1>7
<1>16. Lists(f, t, d)
  BY <1>2, <1>12, <1>13, <1>14, <1>15 DEF Lists
<1>17. QED
  BY <1>16 DEF t, d

\* Any numbers have a least one, and the largest if they are bounded.
LEMMA SmallestOf ==
  ASSUME NEW T \in SUBSET Nat, T # {}
  PROVE  Min(T) \in T /\ \A y \in T : Min(T) <= y
<1> DEFINE Less == {s \in Nat \X Nat : s[1] < s[2]}
<1>1. IsWellFoundedOn(Less, Nat)
  <2>1. OpToRel(<, Nat) = Less
    BY DEF OpToRel
  <2>2. QED
    BY <2>1, NatLessThanWellFounded
<1>2. PICK x \in T : \A y \in T : ~(<<y, x>> \in Less)
  BY <1>1, WFMin
<1>3. ASSUME NEW y \in T PROVE x <= y
  <2>1. x \in Nat /\ y \in Nat
    OBVIOUS
  <2>2. ~(<<y, x>> \in Less)
    BY <1>2
  <2>3. ~(y < x)
    BY <2>1, <2>2
  <2>4. QED
    BY <2>1, <2>3
<1>4. QED
  BY <1>3 DEF Min

LEMMA LargestOf ==
  ASSUME NEW n \in Nat, NEW T \in SUBSET (1 .. n), T # {}
  PROVE  Max(T) \in T
<1> DEFINE U == {n - x : x \in T}
           m == Min(U)
<1>1. U \in SUBSET Nat /\ U # {}
  <2>1. \A x \in T : n - x \in Nat
    OBVIOUS
  <2>2. QED
    BY <2>1
<1>2. m \in U /\ \A y \in U : m <= y
  BY <1>1, SmallestOf
<1> HIDE DEF m
<1>3. PICK x \in T : m = n - x
  BY <1>2
<1>4. \A y \in T : x >= y
  <2> TAKE y \in T
  <2>1. n - y \in U /\ m <= n - y
    BY <1>2
  <2>2. QED
    BY <1>3, <2>1
<1>5. QED
  BY <1>4 DEF Max

\* What holds at 0, and at k if it holds at k - 1, holds up to n.
LEMMA Upwards ==
  ASSUME NEW n \in Nat, NEW T \in SUBSET (0 .. n), 0 \in T,
         \A k \in 1 .. n : k - 1 \in T => k \in T
  PROVE  T = 0 .. n
<1> SUFFICES ASSUME T # 0 .. n PROVE FALSE
  OBVIOUS
<1> DEFINE R == (0 .. n) \ T
           k == Min(R)
<1>1. R \in SUBSET Nat /\ R # {}
  <2>1. \E x \in 0 .. n : x \notin T
    BY Zenon
  <2>2. QED
    BY <2>1
<1>2. k \in R /\ \A y \in R : k <= y
  BY <1>1, SmallestOf
<1> HIDE DEF k
<1>3. k \in 1 .. n
  BY <1>2
<1>4. k - 1 \in T
  BY <1>2, <1>3
<1>5. QED
  BY <1>2, <1>3, <1>4

\* What UpdatedQueue folds, entry by entry from the last one.
Folds(f, list, base) ==
  f = [s \in SUBSET DOMAIN list |-> IF s = {} THEN base ELSE Match(list[Min(s)], f[s \ {Min(s)}])]

FoldsUpto(f, list, base, j) ==
  /\ f = [s \in SUBSET DOMAIN list |-> f[s]]
  /\ \A s \in SUBSET (((Len(list) - j) + 1) .. Len(list)) :
       f[s] = IF s = {} THEN base ELSE Match(list[Min(s)], f[s \ {Min(s)}])

LEMMA FoldExists ==
  ASSUME NEW list \in Seq(Queued), NEW base
  PROVE  \E f : Folds(f, list, base)
<1> DEFINE n == Len(list)
           D == SUBSET (1 .. n)
           G(f, s) == IF s = {} THEN base ELSE Match(list[Min(s)], f[s \ {Min(s)}])
           T == {j \in 0 .. n : \E f : FoldsUpto(f, list, base, j)}
<1>1. n \in Nat /\ DOMAIN list = 1 .. n
  OBVIOUS
<1>2. ASSUME NEW f, NEW j
      PROVE  FoldsUpto(f, list, base, j)
               <=> f = [s \in D |-> f[s]] /\ \A s \in SUBSET (((n - j) + 1) .. n) : f[s] = G(f, s)
  BY <1>1 DEF FoldsUpto
<1> HIDE DEF n
<1>3. 0 \in T
  <2> DEFINE f == [s \in D |-> base]
  <2>1. \A s \in SUBSET (((n - 0) + 1) .. n) : s = {}
    BY <1>1
  <2>2. {} \in D /\ f[{}] = base
    OBVIOUS
  <2>3. f = [s \in D |-> f[s]]
    OBVIOUS
  <2> HIDE DEF f
  <2>4. FoldsUpto(f, list, base, 0)
    BY <1>2, <2>1, <2>2, <2>3
  <2>5. QED
    BY <1>1, <2>4
<1>4. ASSUME NEW j \in 1 .. n, j - 1 \in T PROVE j \in T
  <2>1. PICK f : FoldsUpto(f, list, base, j - 1)
    BY <1>4
  <2> DEFINE h == [s \in D |-> G(f, s)]
  <2>2. h = [s \in D |-> h[s]]
    OBVIOUS
  <2>3. \A s \in D : h[s] = G(f, s)
    OBVIOUS
  <2> HIDE DEF h
  <2>4. ASSUME NEW s \in SUBSET (((n - j) + 1) .. n) PROVE h[s] = G(h, s)
    <3>1. s \in D
      BY <1>1
    <3>2. CASE s = {}
      BY <2>3, <3>1, <3>2
    <3>3. CASE s # {}
      <4> DEFINE m == Min(s)
                 t == s \ {m}
      <4>1. m \in s /\ \A y \in s : m <= y
        <5>1. s \in SUBSET Nat
          BY <1>1
        <5>2. QED
          BY <3>3, <5>1, SmallestOf
      <4> HIDE DEF m
      <4>2. t \in SUBSET (((n - (j - 1)) + 1) .. n) /\ t \in D
        BY <1>1, <4>1
      <4>3. f[t] = G(f, t) /\ h[t] = G(f, t)
        BY <1>2, <2>1, <2>3, <4>2
      <4>4. h[s] = Match(list[m], f[t])
        BY <2>3, <3>1, <3>3 DEF m
      <4>5. QED
        BY <3>3, <4>3, <4>4 DEF m
    <3>4. QED
      BY <3>2, <3>3
  <2>5. FoldsUpto(h, list, base, j)
    BY <1>2, <2>2, <2>4
  <2>6. QED
    BY <2>5
<1>5. T = 0 .. n
  <2> HIDE DEF T
  <2>1. T \in SUBSET (0 .. n)
    BY DEF T
  <2>2. QED
    BY <1>1, <1>3, <1>4, <2>1, Upwards
<1>6. n \in T
  <2> HIDE DEF T
  <2>1. QED
    BY <1>1, <1>5
<1>7. PICK f : FoldsUpto(f, list, base, n)
  BY <1>6
<1>8. (n - n) + 1 = 1
  BY <1>1
<1>9. \A s \in D : f[s] = G(f, s)
  BY <1>2, <1>7, <1>8
<1>10. f = [s \in D |-> G(f, s)]
  BY <1>2, <1>7, <1>9
<1>11. QED
  BY <1>1, <1>10 DEF Folds

Matched(list, base) == FoldRight(Match, list, base)

LEMMA FoldSteps ==
  ASSUME NEW list \in Seq(Queued), NEW base
  PROVE  \E A : /\ A[Len(list) + 1] = base /\ A[1] = Matched(list, base)
                /\ \A k \in DOMAIN list : A[k] = Match(list[k], A[k + 1])
<1> DEFINE n == Len(list)
           U == CHOOSE f : Folds(f, list, base)
           A == [k \in 1 .. (n + 1) |-> U[k .. n]]
<1>1. n \in Nat /\ DOMAIN list = 1 .. n
  OBVIOUS
<1>2. Folds(U, list, base)
  BY FoldExists
<1>3. Matched(list, base) = U[DOMAIN list]
  BY DEF Matched, FoldRight, MapThenFoldSet, Folds
<1> HIDE DEF n, U
<1>4. \A s \in SUBSET (1 .. n) : U[s] = IF s = {} THEN base ELSE Match(list[Min(s)], U[s \ {Min(s)}])
  BY <1>1, <1>2 DEF Folds
<1>5. A[n + 1] = base
  <2>1. (n + 1) .. n = {} /\ n + 1 \in 1 .. (n + 1)
    BY <1>1
  <2>2. QED
    BY <1>4, <2>1
<1>6. A[1] = U[1 .. n]
  BY <1>1
<1>7. ASSUME NEW k \in 1 .. n PROVE A[k] = Match(list[k], A[k + 1])
  <2> DEFINE s == k .. n
  <2>1. s \in SUBSET (1 .. n) /\ k \in s /\ s \ {k} = (k + 1) .. n /\ s \in SUBSET Nat
    BY <1>1
  <2>2. Min(s) = k
    <3>1. Min(s) \in s /\ Min(s) <= k
      BY <2>1, SmallestOf
    <3>2. QED
      BY <1>1, <3>1
  <2> HIDE DEF s
  <2>3. U[s] = Match(list[k], U[(k + 1) .. n])
    BY <1>4, <2>1, <2>2
  <2>4. A[k] = U[s] /\ A[k + 1] = U[(k + 1) .. n]
    BY <1>1 DEF s
  <2>5. QED
    BY <2>3, <2>4
<1> HIDE DEF A
<1>8. QED
  BY <1>1, <1>3, <1>5, <1>6, <1>7 DEF n

\* The submissions from the place k of a queue on.
From(q, k) == {q[j].id : j \in {i \in DOMAIN q : i >= k}}

\* b is a when the entry of p has been matched.
Takes(b, a, p, P, gone) ==
  b.kept = <<Entry(p, gone)>> \o a.kept /\ \E f : Lists(f, b.old, EntriesOf(P \ {p}, gone))

\* One entry is matched: with an item that is like its own.
LEMMA MatchOne ==
  ASSUME NEW a, NEW g, NEW P, NEW gone, Lists(g, a.old, EntriesOf(P, gone)),
         NEW entry, NEW p \in P \ gone, p = entry.id, mode[p] = ModeOf(entry)
  PROVE  Takes(Match(entry, a), a, p, P, gone)
<1> DEFINE t == text[p]
           m == ModeOf(entry)
           e == EntriesOf(P, gone)
           s == a.old
           same == {i \in DOMAIN s : Matches(s[i], t, m) /\ ~s[i].sending}
           i == Max(same)
           b == Match(entry, a)
<1>1. /\ s \in Seq(Items) /\ g \in [DOMAIN e -> DOMAIN s]
      /\ \A k \in DOMAIN s : \E q \in DOMAIN e : g[q] = k
      /\ \A q \in DOMAIN e : s[g[q]] = e[q]
  BY DEF Lists
<1>2. DOMAIN e = P /\ \A q \in P : e[q] = Entry(q, gone)
  BY DEF EntriesOf
<1>3. Entry(p, gone).text = t /\ Entry(p, gone).mode = m /\ ~Entry(p, gone).sending
  BY DEF Entry
<1>4. g[p] \in same
  BY <1>1, <1>2, <1>3 DEF Matches
<1>5. DOMAIN s = 1 .. Len(s) /\ Len(s) \in Nat
  BY <1>1
<1>6. i \in same
  <2>1. same \in SUBSET (1 .. Len(s)) /\ same # {}
    BY <1>4, <1>5
  <2> HIDE DEF same
  <2>2. QED
    BY <1>5, <2>1, LargestOf
<1>7. b = [old |-> RemoveAt(s, i), kept |-> <<s[i]>> \o a.kept]
  BY <1>4 DEF Match
<1> HIDE DEF i, b
<1>8. s[i] = Entry(p, gone)
  <2>1. PICK q \in P : g[q] = i
    BY <1>1, <1>2, <1>6
  <2>2. s[i] = Entry(q, gone)
    BY <1>1, <1>2, <2>1
  <2>3. Entry(q, gone).text = t /\ Entry(q, gone).mode = m /\ ~Entry(q, gone).sending
    BY <1>6, <2>2 DEF Matches
  <2>4. text[q] = text[p] /\ mode[q] = mode[p] /\ q \notin gone /\ p \notin gone
    BY <1>3, <2>3 DEF Entry
  <2>5. (q \in gone) = FALSE /\ (p \in gone) = FALSE
    BY <2>4
  <2>6. QED
    BY <2>2, <2>4, <2>5 DEF Entry
<1>9. \E f : Lists(f, RemoveAt(s, i), [q \in DOMAIN e \ {p} |-> e[q]])
  BY <1>2, <1>6, <1>8, ListLoses
<1>10. [q \in DOMAIN e \ {p} |-> e[q]] = EntriesOf(P \ {p}, gone)
  BY <1>2 DEF EntriesOf
<1>11. QED
  BY <1>7, <1>8, <1>9, <1>10 DEF b, Takes

\* m has the items of the queue q, and what is left of those of P.
Splits(m, q, P, gone) ==
  /\ \E f : Lists(f, m.old, EntriesOf(P \ IdsIn(q), gone))
  /\ m.kept \in Seq(Items) /\ Len(m.kept) = Len(q)
  /\ \A j \in DOMAIN q : m.kept[j] = Entry(q[j].id, gone)

\* An update shows what is listed in its order, and what has left the queue behind it.
LEMMA UpdateMatches ==
  ASSUME NEW q \in Seq(Queued), NEW g, NEW P, NEW gone, Lists(g, shown, EntriesOf(P, gone)), Ordered(q, Extra, Steers),
         IdsIn(q) \subseteq P \ gone, P \subseteq Extra
  PROVE  Splits(Matched(q, [old |-> shown, kept |-> <<>>]), q, P, gone)
<1> DEFINE n == Len(q)
           base == [old |-> shown, kept |-> <<>>]
<1>1. PICK A : /\ A[n + 1] = base /\ A[1] = Matched(q, base)
               /\ \A k \in DOMAIN q : A[k] = Match(q[k], A[k + 1])
  BY FoldSteps
<1>2. n \in Nat /\ DOMAIN q = 1 .. n /\ \A k \in DOMAIN q : q[k] \in Queued
  OBVIOUS
<1> DEFINE Right(k) == /\ \E f : Lists(f, A[k].old, EntriesOf(P \ From(q, k), gone))
                       /\ A[k].kept \in Seq(Items) /\ Len(A[k].kept) = (n - k) + 1
                       /\ \A j \in 1 .. ((n - k) + 1) : A[k].kept[j] = Entry(q[(k + j) - 1].id, gone)
           T == {j \in 0 .. n : Right((n - j) + 1)}
<1> HIDE DEF n
<1>3. 0 \in T
  <2>1. From(q, n + 1) = {} /\ P \ {} = P
    BY <1>2 DEF From
  <2>2. A[n + 1].old = shown /\ A[n + 1].kept = <<>>
    BY <1>1
  <2>3. <<>> \in Seq(Items) /\ Len(<<>>) = 0 /\ (n - (n + 1)) + 1 = 0 /\ (n - 0) + 1 = n + 1 /\ 0 \in 0 .. n
    BY <1>2
  <2>4. \A j \in 1 .. 0 : FALSE
    OBVIOUS
  <2>5. Right(n + 1)
    BY <2>1, <2>2, <2>3, <2>4
  <2>6. QED
    BY <2>3, <2>5
<1>4. ASSUME NEW i \in 1 .. n, i - 1 \in T PROVE i \in T
  <2> DEFINE k == (n - i) + 1
             a == A[k + 1]
             b == A[k]
             p == q[k].id
  <2>1. k \in DOMAIN q /\ k \in 1 .. n /\ (n - (i - 1)) + 1 = k + 1
    BY <1>2
  <2>2. Right(k + 1)
    BY <1>4, <2>1
  <2> HIDE DEF k
  <2>3. b = Match(q[k], a) /\ q[k] \in Queued
    BY <1>1, <1>2, <2>1
  <2>4. From(q, k) = From(q, k + 1) \cup {p}
    BY <1>2, <2>1 DEF From
  <2>5. p \in IdsIn(q) /\ p \notin From(q, k + 1)
    <3>1. \A j \in DOMAIN q : q[j].id = q[k].id => j = k
      BY <2>1 DEF Ordered
    <3>2. QED
      BY <1>2, <2>1, <3>1 DEF IdsIn, From
  <2>6. p \in (P \ From(q, k + 1)) \ gone
    BY <2>5
  <2>7. mode[p] = ModeOf(q[k])
    <3>1. p \in Extra /\ (q[k].steer <=> p \in Steers)
      BY <2>1 DEF Ordered
    <3>2. QED
      BY <3>1 DEF Extra, Steers, ModeOf
  <2>8. PICK f : Lists(f, a.old, EntriesOf(P \ From(q, k + 1), gone))
    BY <2>2
  <2>9. /\ b.kept = <<Entry(p, gone)>> \o a.kept
        /\ \E h : Lists(h, b.old, EntriesOf((P \ From(q, k + 1)) \ {p}, gone))
    <3>1. PICK R : R = P \ From(q, k + 1)
      OBVIOUS
    <3>2. PICK v : v = a
      OBVIOUS
    <3>3. PICK entry : entry = q[k]
      OBVIOUS
    <3>4. PICK o : o = p
      OBVIOUS
    <3>5. Lists(f, v.old, EntriesOf(R, gone)) /\ o \in R \ gone /\ o = entry.id /\ mode[o] = ModeOf(entry)
      BY <2>6, <2>7, <2>8, <3>1, <3>2, <3>3, <3>4
    <3>6. Takes(Match(entry, v), v, o, R, gone)
      BY <3>5, MatchOne
    <3>7. b = Match(entry, v)
      BY <2>3, <3>2, <3>3
    <3>8. QED
      BY <3>1, <3>2, <3>4, <3>6, <3>7 DEF Takes
  <2>10. (P \ From(q, k + 1)) \ {p} = P \ From(q, k)
    BY <2>4
  <2>11. Entry(p, gone) \in Items
    <3>1. p \in Extra
      BY <2>5
    <3>2. text[p] \in Texts /\ mode[p] \in Modes
      BY <3>1 DEF Extra, Modes
    <3>3. (p \in gone) \in BOOLEAN
      OBVIOUS
    <3>4. QED
      BY <3>2, <3>3 DEF Entry, Items
  <2>12. PICK y : y = Entry(p, gone)
    OBVIOUS
  <2>13. PICK w : w = a.kept
    OBVIOUS
  <2>14. w \in Seq(Items) /\ Len(w) = n - k /\ \A j \in 1 .. (n - k) : w[j] = Entry(q[k + j].id, gone)
    <3>1. (n - (k + 1)) + 1 = n - k /\ \A j \in 1 .. (n - k) : ((k + 1) + j) - 1 = k + j
      BY <1>2, <2>1
    <3>2. QED
      BY <2>2, <2>13, <3>1
  <2>15. /\ <<y>> \o w \in Seq(Items) /\ Len(<<y>> \o w) = (n - k) + 1 /\ (<<y>> \o w)[1] = y
         /\ \A j \in 2 .. ((n - k) + 1) : (<<y>> \o w)[j] = w[j - 1]
    BY <1>2, <2>1, <2>11, <2>12, <2>14
  <2>16. ASSUME NEW j \in 1 .. ((n - k) + 1) PROVE (<<y>> \o w)[j] = Entry(q[(k + j) - 1].id, gone)
    <3>1. CASE j = 1
      <4>1. (k + j) - 1 = k
        BY <2>1, <3>1
      <4>2. QED
        BY <2>12, <2>15, <3>1, <4>1
    <3>2. CASE j # 1
      <4>1. j \in 2 .. ((n - k) + 1) /\ j - 1 \in 1 .. (n - k) /\ k + (j - 1) = (k + j) - 1
        BY <1>2, <2>1, <3>2
      <4>2. QED
        BY <2>14, <2>15, <4>1
    <3>3. QED
      BY <3>1, <3>2
  <2>17. b.kept = <<y>> \o w
    BY <2>9, <2>12, <2>13
  <2>18. Right(k)
    BY <2>9, <2>10, <2>15, <2>16, <2>17
  <2>19. i \in 0 .. n
    BY <1>2
  <2>20. QED
    BY <2>18, <2>19 DEF k
<1>5. T = 0 .. n
  <2> HIDE DEF T
  <2>1. T \in SUBSET (0 .. n)
    BY DEF T
  <2>2. QED
    BY <1>2, <1>3, <1>4, <2>1, Upwards
<1>6. Right(1)
  <2>1. n \in T
    <3> HIDE DEF T
    <3>1. QED
      BY <1>2, <1>5
  <2>2. (n - n) + 1 = 1
    BY <1>2
  <2>3. QED
    BY <2>1, <2>2
<1>7. From(q, 1) = IdsIn(q)
  BY <1>2 DEF From, IdsIn
<1>8. (n - 1) + 1 = n /\ \A j \in 1 .. n : (1 + j) - 1 = j
  BY <1>2
<1>9. QED
  BY <1>1, <1>2, <1>6, <1>7, <1>8 DEF n, Splits

LEMMA UpdateLists ==
  ASSUME NEW q \in Seq(Queued), NEW g, NEW c, NEW d, Lists(g, shown, Entries(c)), Sound(c, Extra),
         Ordered(q, Extra, Steers), IdsIn(q) \subseteq c.here,
         d.here = IdsIn(q), d.gone = c.gone \cup (c.here \ IdsIn(q))
  PROVE  (\E f : Lists(f, UpdatedQueue(q), Entries(d))) /\ Neat(UpdatedQueue(q))
<1> DEFINE P == c.here \cup c.gone
           matched == Matched(q, [old |-> shown, kept |-> <<>>])
           kept == matched.kept
           old == matched.old
           off == [i \in DOMAIN old |-> [old[i] EXCEPT !.sending = TRUE]]
           u == UpdatedQueue(q)
           n == Len(q)
<1>1. P \subseteq Extra /\ c.here \cap c.gone = {} /\ IdsIn(q) \subseteq P \ c.gone
  BY DEF Sound
<1>2. /\ \E f : Lists(f, old, EntriesOf(P \ IdsIn(q), c.gone))
      /\ kept \in Seq(Items) /\ Len(kept) = n
      /\ \A j \in DOMAIN q : kept[j] = Entry(q[j].id, c.gone)
  <2>1. Splits(matched, q, P, c.gone)
    BY <1>1, UpdateMatches DEF Entries
  <2>2. QED
    BY <2>1 DEF Splits
<1>3. u = kept \o off
  BY DEF UpdatedQueue, Matched
<1>4. P = d.here \cup d.gone /\ d.gone = P \ IdsIn(q) /\ d.here \cap d.gone = {}
  BY <1>1
<1> HIDE DEF matched, kept, old, u, P
<1>5. PICK f : Lists(f, old, EntriesOf(P \ IdsIn(q), c.gone))
  BY <1>2
<1>6. /\ old \in Seq(Items) /\ f \in [P \ IdsIn(q) -> DOMAIN old]
      /\ \A p, r \in P \ IdsIn(q) : f[p] = f[r] => p = r
      /\ \A i \in DOMAIN old : \E p \in P \ IdsIn(q) : f[p] = i
      /\ \A p \in P \ IdsIn(q) : old[f[p]] = Entry(p, c.gone)
  BY <1>5 DEF Lists, EntriesOf
<1>7. /\ n \in Nat /\ DOMAIN q = 1 .. n /\ DOMAIN old = 1 .. Len(old) /\ Len(old) \in Nat
  BY <1>6
<1>8. off \in Seq(Items) /\ Len(off) = Len(old) /\ \A i \in DOMAIN old : off[i] = [old[i] EXCEPT !.sending = TRUE]
  <2>1. ASSUME NEW i \in DOMAIN old PROVE [old[i] EXCEPT !.sending = TRUE] \in Items
    <3>1. old[i] \in Items
      BY <1>6
    <3>2. QED
      BY <3>1 DEF Items
  <2>2. QED
    BY <1>6, <1>7, <2>1
<1> HIDE DEF off, n
<1>9. /\ u \in Seq(Items) /\ Len(u) = n + Len(old)
      /\ \A i \in 1 .. n : u[i] = kept[i]
      /\ \A i \in 1 .. Len(old) : u[n + i] = off[i]
  <2>1. /\ kept \o off \in Seq(Items) /\ Len(kept \o off) = Len(kept) + Len(off)
        /\ \A i \in 1 .. Len(kept) + Len(off) : (kept \o off)[i] = IF i <= Len(kept) THEN kept[i] ELSE off[i - Len(kept)]
    <3>1. kept \in Seq(Items) /\ off \in Seq(Items)
      BY <1>2, <1>8
    <3>2. QED
      BY <3>1, ConcatProperties
  <2>2. ASSUME NEW i \in 1 .. n PROVE u[i] = kept[i]
    BY <1>2, <1>3, <1>7, <1>8, <2>1
  <2>3. ASSUME NEW i \in 1 .. Len(old) PROVE u[n + i] = off[i]
    <3>1. n + i \in 1 .. n + Len(old) /\ ~(n + i <= n) /\ (n + i) - n = i
      BY <1>7
    <3>2. QED
      BY <1>2, <1>3, <1>8, <2>1, <3>1
  <2>4. QED
    BY <1>2, <1>3, <1>8, <2>1, <2>2, <2>3
<1>10. \A i \in 1 .. n : u[i] = Entry(q[i].id, d.gone) /\ q[i].id \in IdsIn(q)
  <2> TAKE i \in 1 .. n
  <2>1. u[i] = Entry(q[i].id, c.gone) /\ q[i].id \in IdsIn(q)
    BY <1>2, <1>7, <1>9 DEF IdsIn
  <2>2. (q[i].id \in c.gone) = FALSE /\ (q[i].id \in d.gone) = FALSE
    BY <1>1, <1>4, <2>1
  <2>3. QED
    BY <2>1, <2>2 DEF Entry
<1>11. \A p \in P \ IdsIn(q) : u[n + f[p]] = Entry(p, d.gone)
  <2> TAKE p \in P \ IdsIn(q)
  <2>1. f[p] \in 1 .. Len(old) /\ old[f[p]] = Entry(p, c.gone)
    BY <1>6, <1>7
  <2>2. u[n + f[p]] = [Entry(p, c.gone) EXCEPT !.sending = TRUE]
    BY <1>7, <1>8, <1>9, <2>1
  <2>3. (p \in d.gone) = TRUE
    BY <1>4
  <2>4. QED
    BY <2>2, <2>3 DEF Entry
<1>12. \A p \in IdsIn(q) : \E i \in 1 .. n : q[i].id = p
  BY <1>7 DEF IdsIn
<1> DEFINE at(p) == CHOOSE i \in 1 .. n : q[i].id = p
           h == [p \in P |-> IF p \in IdsIn(q) THEN at(p) ELSE n + f[p]]
           e == Entries(d)
<1>13. \A p \in IdsIn(q) : at(p) \in 1 .. n /\ q[at(p)].id = p
  BY <1>12
<1>14. DOMAIN e = P /\ \A p \in P : e[p] = Entry(p, d.gone)
  BY <1>4 DEF Entries, EntriesOf
<1> HIDE DEF at, e
<1>15. /\ \A p \in P : p \in IdsIn(q) => h[p] = at(p)
       /\ \A p \in P : p \notin IdsIn(q) => h[p] = n + f[p] /\ f[p] \in 1 .. Len(old)
  BY <1>6, <1>7
<1>16. DOMAIN u = 1 .. (n + Len(old))
  BY <1>7, <1>9
<1>17. h \in [P -> DOMAIN u]
  <2>1. \A p \in P : h[p] \in 1 .. (n + Len(old))
    BY <1>7, <1>13, <1>15
  <2>2. QED
    BY <1>16, <2>1
<1> HIDE DEF h
<1>18. ASSUME NEW p \in P, NEW r \in P, h[p] = h[r] PROVE p = r
  <2>1. CASE p \in IdsIn(q) /\ r \in IdsIn(q)
    BY <1>13, <1>15, <1>18, <2>1
  <2>2. CASE p \notin IdsIn(q) /\ r \notin IdsIn(q)
    <3>1. h[p] = n + f[p] /\ h[r] = n + f[r] /\ f[p] \in 1 .. Len(old) /\ f[r] \in 1 .. Len(old)
      BY <1>15, <2>2
    <3>2. n + f[p] = n + f[r]
      BY <1>18, <3>1
    <3>3. f[p] = f[r]
      BY <1>7, <3>1, <3>2
    <3>4. QED
      BY <1>6, <2>2, <3>3
  <2>3. CASE (p \in IdsIn(q)) # (r \in IdsIn(q))
    BY <1>7, <1>13, <1>15, <1>18, <2>3
  <2>4. QED
    BY <2>1, <2>2, <2>3
<1>19. ASSUME NEW i \in DOMAIN u PROVE \E p \in P : h[p] = i
  <2>1. CASE i \in 1 .. n
    <3>1. q[i].id \in IdsIn(q) /\ q[i].id \in P /\ at(q[i].id) \in 1 .. n /\ q[at(q[i].id)].id = q[i].id
      BY <1>1, <1>10, <1>13, <2>1
    <3>2. at(q[i].id) = i
      BY <1>7, <2>1, <3>1 DEF Ordered
    <3>3. QED
      BY <1>15, <3>1, <3>2
  <2>2. CASE i \notin 1 .. n
    <3>1. i - n \in 1 .. Len(old) /\ n + (i - n) = i
      BY <1>7, <1>16, <2>2
    <3>2. PICK p \in P \ IdsIn(q) : f[p] = i - n
      BY <1>6, <1>7, <3>1
    <3>3. QED
      BY <1>15, <3>1, <3>2
  <2>3. QED
    BY <2>1, <2>2
<1>20. \A p \in P : u[h[p]] = e[p]
  <2> TAKE p \in P
  <2>1. CASE p \in IdsIn(q)
    <3>1. h[p] \in 1 .. n /\ q[h[p]].id = p
      BY <1>13, <1>15, <2>1
    <3>2. QED
      BY <1>10, <1>14, <3>1
  <2>2. CASE p \notin IdsIn(q)
    BY <1>11, <1>14, <1>15, <2>2
  <2>3. QED
    BY <2>1, <2>2
<1>21. Lists(h, u, e)
  BY <1>9, <1>14, <1>17, <1>18, <1>19, <1>20 DEF Lists
<1>22. Neat(u)
  <2> SUFFICES ASSUME NEW i \in DOMAIN u, NEW j \in DOMAIN u, i < j, ~u[i].sending, ~u[j].sending, u[j].mode = "steer"
               PROVE  u[i].mode = "steer"
    BY DEF Neat
  <2>1. ASSUME NEW k \in DOMAIN u, ~u[k].sending PROVE k \in 1 .. n
    <3> SUFFICES ASSUME k \notin 1 .. n PROVE FALSE
      OBVIOUS
    <3>1. k - n \in 1 .. Len(old) /\ n + (k - n) = k
      BY <1>7, <1>16
    <3>2. u[k] = [old[k - n] EXCEPT !.sending = TRUE] /\ old[k - n] \in Items
      <4>1. u[k] = off[k - n] /\ k - n \in DOMAIN old
        BY <1>7, <1>9, <3>1
      <4>2. QED
        BY <1>6, <1>8, <4>1
    <3>3. u[k].sending = TRUE
      BY <3>2 DEF Items
    <3>4. QED
      BY <2>1, <3>3
  <2>2. i \in 1 .. n /\ j \in 1 .. n
    BY <2>1
  <2>3. ASSUME NEW k \in 1 .. n PROVE u[k].mode = mode[q[k].id] /\ q[k].id \in Extra /\ (q[k].steer <=> q[k].id \in Steers)
    <3>1. u[k] = Entry(q[k].id, d.gone)
      BY <1>10
    <3>2. QED
      BY <1>7, <3>1 DEF Entry, Ordered
  <2>4. q[j].id \in Steers
    BY <2>2, <2>3 DEF Steers
  <2>5. q[j].steer
    BY <2>2, <2>3, <2>4
  <2>6. q[i].steer
    BY <1>7, <2>2, <2>5 DEF Ordered
  <2>7. QED
    BY <2>2, <2>3, <2>6 DEF Steers
<1>23. QED
  BY <1>21, <1>22 DEF u, e


\* Where Insert puts a submission.
Places(w, q, p) ==
  \E k \in 1 .. (Len(q) + 1) :
    /\ w[k] = p
    /\ \A i \in 1 .. (k - 1) : w[i] = q[i]
    /\ \A i \in (k + 1) .. (Len(q) + 1) : w[i] = q[i - 1]
    /\ p.steer => /\ \A i \in 1 .. (k - 1) : q[i].steer
                  /\ k <= Len(q) => ~q[k].steer
    /\ ~p.steer => k = Len(q) + 1

LEMMA InsertPlaces ==
  ASSUME NEW q \in Seq(Queued), NEW p \in Queued
  PROVE  /\ Insert(q, p) \in Seq(Queued) /\ Len(Insert(q, p)) = Len(q) + 1
         /\ Places(Insert(q, p), q, p)
<1>1. CASE p.steer
  <2> DEFINE T == {i \in DOMAIN q : ~q[i].steer} \cup {Len(q) + 1}
             k == Min(T)
  <2>1. T \in SUBSET Nat /\ T # {}
    OBVIOUS
  <2>2. k \in T /\ \A y \in T : k <= y
    BY <2>1, SmallestOf
  <2> HIDE DEF k
  <2>3. k \in 1 .. (Len(q) + 1) /\ (k <= Len(q) => ~q[k].steer)
    BY <2>2
  <2>4. \A i \in 1 .. (k - 1) : q[i].steer
    BY <2>2, <2>3
  <2>5. Insert(q, p) = SubSeq(q, 1, k - 1) \o <<p>> \o SubSeq(q, k, Len(q))
    BY <1>1 DEF Insert, InsertAt, k
  <2> DEFINE a == SubSeq(q, 1, k - 1)
             b == SubSeq(q, k, Len(q))
  <2>6. /\ a \in Seq(Queued)
        /\ Len(a) = k - 1 /\ \A i \in 1 .. (k - 1) : a[i] = q[i]
    BY <2>3
  <2>7. /\ b \in Seq(Queued)
        /\ Len(b) = Len(q) - k + 1 /\ \A i \in 1 .. Len(b) : b[i] = q[(k + i) - 1]
    BY <2>3
  <2> HIDE DEF a, b
  <2>8. /\ a \o <<p>> \in Seq(Queued) /\ Len(a \o <<p>>) = k /\ (a \o <<p>>)[k] = p
        /\ \A i \in 1 .. (k - 1) : (a \o <<p>>)[i] = q[i]
    BY <2>3, <2>6
  <2> DEFINE c == a \o <<p>>
  <2> HIDE DEF c
  <2>9. /\ c \in Seq(Queued) /\ Len(c) = k /\ c[k] = p
        /\ \A i \in 1 .. (k - 1) : c[i] = q[i]
    BY <2>8 DEF c
  <2>10. /\ c \o b \in Seq(Queued) /\ Len(c \o b) = Len(q) + 1
         /\ \A i \in 1 .. k : (c \o b)[i] = c[i]
         /\ \A i \in (k + 1) .. (Len(q) + 1) : (c \o b)[i] = b[i - k]
    <3>1. c \in Seq(Queued) /\ b \in Seq(Queued)
      BY <2>7, <2>9
    <3>2. /\ c \o b \in Seq(Queued) /\ Len(c \o b) = Len(c) + Len(b)
          /\ \A i \in 1 .. Len(c) + Len(b) : (c \o b)[i] = IF i <= Len(c) THEN c[i] ELSE b[i - Len(c)]
      BY <3>1, ConcatProperties
    <3>3. Len(c) = k /\ Len(c) + Len(b) = Len(q) + 1 /\ k \in Nat
      BY <2>3, <2>7, <2>9
    <3>4. QED
      BY <2>3, <3>2, <3>3
  <2>11. \A i \in (k + 1) .. (Len(q) + 1) : (c \o b)[i] = q[i - 1]
    <3> TAKE i \in (k + 1) .. (Len(q) + 1)
    <3>1. i - k \in 1 .. Len(b) /\ (k + (i - k)) - 1 = i - 1
      BY <2>3, <2>7
    <3>2. QED
      BY <2>7, <2>10, <3>1
  <2>12. Insert(q, p) = c \o b
    BY <2>5 DEF a, b, c
  <2>13. (c \o b)[k] = p /\ \A i \in 1 .. (k - 1) : (c \o b)[i] = q[i]
    BY <2>3, <2>9, <2>10
  <2>14. QED
    BY <1>1, <2>3, <2>4, <2>10, <2>11, <2>12, <2>13 DEF Places
<1>2. CASE ~p.steer
  <2>1. Insert(q, p) = Append(q, p)
    BY <1>2 DEF Insert
  <2>2. Len(q) + 1 \in 1 .. (Len(q) + 1)
    OBVIOUS
  <2>3. QED
    BY <1>2, <2>1, <2>2 DEF Places
<1>3. QED
  BY <1>1, <1>2

\* A submission that is new to a queue takes its place in it.
LEMMA InsertOrdered ==
  ASSUME NEW q \in Seq(Queued), NEW e \in Queued, NEW E, NEW S, Ordered(q, E, S), e.id \notin IdsIn(q),
         e.id \in E, e.steer <=> e.id \in S
  PROVE  /\ Insert(q, e) \in Seq(Queued) /\ IdsIn(Insert(q, e)) = IdsIn(q) \cup {e.id}
         /\ Ordered(Insert(q, e), E, S)
<1> DEFINE w == Insert(q, e)
           n == Len(q)
<1>1. Places(w, q, e) /\ w \in Seq(Queued) /\ Len(w) = n + 1
  BY InsertPlaces
<1> HIDE DEF w
<1>2. PICK k \in 1 .. (n + 1) :
        /\ w[k] = e
        /\ \A i \in 1 .. (k - 1) : w[i] = q[i]
        /\ \A i \in (k + 1) .. (n + 1) : w[i] = q[i - 1]
        /\ e.steer => /\ \A i \in 1 .. (k - 1) : q[i].steer
                      /\ k <= n => ~q[k].steer
        /\ ~e.steer => k = n + 1
  BY <1>1 DEF Places
<1>3. n \in Nat /\ DOMAIN q = 1 .. n /\ DOMAIN w = 1 .. (n + 1)
  BY <1>1
<1> HIDE DEF n
<1> DEFINE old(i) == IF i < k THEN i ELSE i - 1
<1>4. \A i \in DOMAIN w : i # k => old(i) \in DOMAIN q /\ w[i] = q[old(i)]
  <2> TAKE i \in DOMAIN w
  <2> HAVE i # k
  <2>1. CASE i < k
    BY <1>2, <1>3, <2>1
  <2>2. CASE i > k
    <3>1. i \in (k + 1) .. (n + 1) /\ i - 1 \in 1 .. n /\ old(i) = i - 1
      BY <1>3, <2>2
    <3>2. QED
      BY <1>2, <1>3, <3>1
  <2>3. QED
    BY <1>3, <2>1, <2>2
<1>5. \A i \in DOMAIN q : \E j \in DOMAIN w : j # k /\ w[j] = q[i]
  <2> TAKE i \in DOMAIN q
  <2>1. CASE i < k
    BY <1>2, <1>3, <2>1
  <2>2. CASE i >= k
    <3>1. i + 1 \in (k + 1) .. (n + 1) /\ (i + 1) - 1 = i
      BY <1>3, <2>2
    <3>2. QED
      BY <1>2, <1>3, <3>1
  <2>3. QED
    BY <1>3, <2>1, <2>2
<1>6. IdsIn(w) = IdsIn(q) \cup {e.id}
  <2>1. \A x \in IdsIn(w) : x \in IdsIn(q) \cup {e.id}
    BY <1>2, <1>4 DEF IdsIn
  <2>2. \A x \in IdsIn(q) : x \in IdsIn(w)
    BY <1>5 DEF IdsIn
  <2>3. e.id \in IdsIn(w)
    BY <1>2, <1>3 DEF IdsIn
  <2>4. QED
    BY <2>1, <2>2, <2>3
<1>7. \A i, j \in DOMAIN w : i # k /\ j # k => (old(i) = old(j) => i = j) /\ (i < j => old(i) < old(j))
  BY <1>3
<1>8. \A i \in DOMAIN w : w[i].id \in E /\ (w[i].steer <=> w[i].id \in S)
  BY <1>2, <1>4 DEF Ordered
<1>9. ASSUME NEW i \in DOMAIN w, NEW j \in DOMAIN w, w[i].id = w[j].id PROVE i = j
  <2>1. \A m \in DOMAIN q : q[m].id # e.id
    BY DEF IdsIn
  <2>2. CASE i # k /\ j # k
    <3>1. old(i) = old(j)
      BY <1>4, <1>9, <2>2 DEF Ordered
    <3>2. QED
      BY <1>7, <2>2, <3>1
  <2>3. CASE i = k \/ j = k
    BY <1>2, <1>4, <1>9, <2>1, <2>3
  <2>4. QED
    BY <2>2, <2>3
<1>10. ASSUME NEW i \in DOMAIN w, NEW j \in DOMAIN w, i < j, w[j].steer PROVE w[i].steer
  <2>1. CASE i # k /\ j # k
    <3>1. old(i) < old(j) /\ q[old(j)].steer /\ old(i) \in DOMAIN q /\ old(j) \in DOMAIN q /\ w[i] = q[old(i)]
      BY <1>4, <1>7, <1>10, <2>1
    <3> HIDE DEF old
    <3>2. QED
      BY <3>1 DEF Ordered
  <2>2. CASE j = k
    <3>1. e.steer /\ i \in 1 .. (k - 1)
      BY <1>2, <1>3, <1>10, <2>2
    <3>2. QED
      BY <1>2, <3>1
  <2>3. CASE i = k
    <3> SUFFICES ASSUME ~e.steer PROVE FALSE
      BY <1>2, <2>3
    <3>1. k = n + 1
      BY <1>2
    <3>2. QED
      BY <1>3, <1>10, <2>3, <3>1
  <2>4. QED
    BY <2>1, <2>2, <2>3
<1>11. Ordered(w, E, S)
  BY <1>8, <1>9, <1>10 DEF Ordered
<1>12. QED
  BY <1>1, <1>6, <1>11 DEF w

-----------------------------------------------------------------------------
(* The engine's steps: what they leave alone, and what is on its way.      *)

Served == UNCHANGED <<sent, client, display>>
Taken == commands # <<>> /\ commands' = Tail(commands)

LEMMA EngineLeaves ==
  ASSUME Inner, Served, UNCHANGED commands \/ Taken
  PROVE  /\ Exchange' /\ Written' /\ Extra' = Extra /\ Steers' = Steers /\ Main' = Main
         /\ UNCHANGED <<kind, exchange_id, interrupted, rejection, pending, fate, settled, text, mode, sent, transcript>>
<1>1. UNCHANGED <<kind, exchange_id, interrupted, rejection, pending, fate, settled, text, mode, sent, transcript>>
  BY DEF Served, client, flags, display
<1>2. Exchange'
  BY ExchangeEngine DEF Inner, Typed, Served, Taken
<1>3. Extra' = Extra /\ Main' = Main
  BY <1>1 DEF Extra, Main
<1>4. Steers' = Steers
  BY <1>1, <1>3 DEF Steers
<1>5. Written'
  BY <1>1, <1>3 DEF Inner, Written
<1>6. QED
  BY <1>1, <1>2, <1>3, <1>4, <1>5

LEMMA TypedServed ==
  ASSUME Inner, Served, UNCHANGED commands \/ Taken, records' \in Seq(Record), waiting' \in Seq(Queued),
         lead' \in Nat, caller' \in Ids
  PROVE  Typed'
<1>1. commands' \in Seq(Command)
  <2>1. commands \in Seq(Command)
    BY DEF Inner, Typed, WireTyped
  <2>2. QED
    BY <2>1, TailElements DEF Taken
<1>2. UNCHANGED <<text, mode, transcript, draft, slot, failed, sent>>
  BY DEF Served, display
<1>3. QED
  BY <1>1, <1>2 DEF Inner, Typed, WireTyped

\* What a command's id says of it.
LEMMA CommandTaken ==
  ASSUME Inner, Taken
  PROVE  /\ Head(commands) \in Command /\ 1 \in DOMAIN commands /\ commands[1] = Head(commands)
         /\ Head(commands).id \in Asked(commands) /\ Head(commands).id \in Ids /\ Expects(Head(commands).id)
         /\ Asked(commands') = Asked(commands) \ {Head(commands).id}
         /\ \A i \in DOMAIN commands' : i + 1 \in DOMAIN commands /\ commands'[i] = commands[i + 1]
<1>1. commands \in Seq(Command) /\ commands # <<>> /\ commands' = Tail(commands)
  BY DEF Inner, Typed, WireTyped, Taken
<1>2. Head(commands) \in Command /\ 1 \in DOMAIN commands /\ commands[1] = Head(commands)
  BY <1>1, TailElements
<1>3. AskedOnce(commands) /\ \A id \in Asked(commands) : Expects(id)
  BY DEF Inner, Traffic, OnTheWay
<1>4. Asked(commands') = Asked(commands) \ {Head(commands).id} /\ Head(commands).id \in Asked(commands)
  BY <1>1, <1>3, AskedLess
<1>5. \A i \in DOMAIN commands' : i + 1 \in DOMAIN commands /\ commands'[i] = commands[i + 1]
  BY <1>1, TailElements
<1>6. QED
  BY <1>2, <1>3, <1>4, <1>5 DEF Command

\* A submission that is taken is the prompt, or one that was queued.
LEMMA PromptTaken ==
  ASSUME Inner, Taken, Head(commands).kind = "prompt"
  PROVE  /\ kind = "prompt"
         /\ \/ Head(commands).id = Main /\ Head(commands).mode = "none"
            \/ \E p \in Extra : /\ Head(commands).id = <<p, "main">> /\ Head(commands).mode = mode[p]
                                /\ p \in Nat /\ p # exchange_id
<1> DEFINE h == Head(commands)
<1>1. h = commands[1] /\ 1 \in DOMAIN commands /\ Expects(h.id)
  BY CommandTaken
<1> HIDE DEF h
<1>2. kind = "prompt"
  BY <1>1 DEF Inner, Exchange, Commanded, h
<1>3. h.id[2] = "main" /\ h.mode = mode[h.id[1]]
  BY <1>1, <1>2 DEF Inner, Placed, h
<1>4. h.id = Main \/ \E p \in pending : h.id = <<p, "main">>
  BY <1>1, <1>2, <1>3 DEF Expects, Main
<1>5. /\ pending \subseteq Extra /\ mode[exchange_id] = "none" /\ exchange_id \notin Extra
  BY <1>2 DEF Inner, Written, Extra
<1>6. \A p \in Extra : p \in Nat
  BY DEF Extra
<1>7. QED
  BY <1>2, <1>3, <1>4, <1>5, <1>6 DEF Main, h

\* Any other command of a prompt cancels it.
LEMMA CancelTaken ==
  ASSUME Inner, Taken, Head(commands).kind # "prompt", kind = "prompt"
  PROVE  /\ interrupted /\ Head(commands).id # Main /\ \A p : Head(commands).id # <<p, "main">>
<1> DEFINE h == Head(commands)
<1>1. h = commands[1] /\ 1 \in DOMAIN commands /\ Expects(h.id)
  BY CommandTaken
<1>2. h.id[2] # "main"
  BY <1>1 DEF Inner, Placed
<1>3. interrupted
  BY <1>1, <1>2 DEF Expects
<1>4. QED
  BY <1>2, <1>3 DEF Main

\* An answer is to a command that is taken, or what a task owed.
LEMMA TrafficServed ==
  ASSUME Inner, Served, NEW a \in Record, NEW b \in Record, b.type # "response", a.type # "agent_settled",
         \/ /\ UNCHANGED commands
            /\ UNCHANGED records \/ Emit(<<a>>) \/ Emit(<<a, b>>)
            /\ a.type = "response" => a.id \in Owed /\ a.id \notin Owed'
            /\ Owed' \subseteq Owed
         \/ /\ Taken
            /\ UNCHANGED records /\ Owed' \subseteq Owed \cup {Head(commands).id}
         \/ /\ Taken
            /\ Emit(<<a>>) \/ Emit(<<a, b>>)
            /\ a.type = "response" => a.id = Head(commands).id
            /\ Owed' = Owed
  PROVE  Traffic'
<1>1. /\ \A id \in Asked(commands) \cup Answered(records) \cup Owed : Expects(id)
      /\ AskedOnce(commands) /\ AnsweredOnce(records)
      /\ Asked(commands) \cap Answered(records) = {}
      /\ Asked(commands) \cap Owed = {} /\ Answered(records) \cap Owed = {}
  BY DEF Inner, Traffic, OnTheWay
<1>2. \A id : Expects(id)' <=> Expects(id)
  BY ExpectsSame DEF Served
<1>3. records \in Seq(Record) /\ commands \in Seq(Command)
  BY DEF Inner, Typed, WireTyped
<1>4. UNCHANGED records \/ Emit(<<a>>) \/ Emit(<<a, b>>)
  OBVIOUS
<1>5. /\ Answered(records') \subseteq Answered(records) \cup {a.id}
      /\ a.type # "response" \/ UNCHANGED records => Answered(records') \subseteq Answered(records)
      /\ a.type = "response" /\ ~UNCHANGED records => a.id \in Owed \/ (Taken /\ a.id = Head(commands).id)
      /\ AnsweredOnce(records')
  <2>1. CASE UNCHANGED records
    BY <1>1, <2>1
  <2>2. CASE ~UNCHANGED records
    <3>1. Emit(<<a>>) \/ Emit(<<a, b>>)
      BY <1>4, <2>2
    <3>2. a.type = "response" => a.id \in Owed \/ (Taken /\ a.id = Head(commands).id)
      BY <2>2
    <3>3. Taken => Head(commands).id \in Asked(commands)
      BY CommandTaken
    <3>4. a.type = "response" => a.id \notin Answered(records)
      BY <1>1, <3>2, <3>3
    <3>5. /\ Answered(records') \subseteq Answered(records) \cup {a.id}
          /\ a.type # "response" => Answered(records') \subseteq Answered(records)
          /\ AnsweredOnce(records')
      BY <1>1, <1>3, <3>1, <3>4, EmitTells
    <3>6. QED
      BY <2>2, <3>2, <3>5
  <2>3. QED
    BY <2>1, <2>2
<1>6. PICK o : o = Owed'
  OBVIOUS
<1>7. ~(Taken /\ UNCHANGED commands)
  BY <1>3 DEF Taken
<1>8. OnTheWay(o)'
  <2>1. CASE UNCHANGED commands
    <3>1. /\ a.type = "response" /\ ~UNCHANGED records => a.id \in Owed /\ a.id \notin o
          /\ o \subseteq Owed
      BY <1>6, <1>7, <2>1
    <3>2. Asked(commands') = Asked(commands) /\ AskedOnce(commands')
      BY <1>1, <2>1
    <3>3. \A id \in Answered(records') : id \in Answered(records) \/ (id \in Owed /\ id \notin o)
      BY <1>5, <3>1
    <3>4. Asked(commands') \cap Answered(records') = {} /\ Asked(commands') \cap o = {} /\ Answered(records') \cap o = {}
      BY <1>1, <3>1, <3>2, <3>3
    <3>5. \A id \in Asked(commands') \cup Answered(records') \cup o : Expects(id)'
      BY <1>1, <1>2, <3>1, <3>2, <3>3
    <3>6. QED
      BY <1>5, <3>2, <3>4, <3>5 DEF OnTheWay
  <2>2. CASE Taken
    <3> DEFINE h == Head(commands).id
    <3>1. Asked(commands') = Asked(commands) \ {h} /\ h \in Asked(commands) /\ AskedOnce(commands')
      BY <1>1, <1>3, <2>2, AskedLess DEF Taken
    <3>2. \/ UNCHANGED records /\ o \subseteq Owed \cup {h}
          \/ (a.type = "response" => a.id = h) /\ o = Owed
      BY <1>6, <1>7, <2>2
    <3> HIDE DEF h
    <3>3. \A id \in Answered(records') : id \in Answered(records) \/ (id = h /\ o = Owed)
      BY <1>5, <3>2
    <3>4. h \notin Answered(records) /\ h \notin Owed /\ o \subseteq Owed \cup {h}
      BY <1>1, <3>1, <3>2
    <3>5. Asked(commands') \cap Answered(records') = {} /\ Asked(commands') \cap o = {} /\ Answered(records') \cap o = {}
      BY <1>1, <3>1, <3>3, <3>4
    <3>6. \A id \in Asked(commands') \cup Answered(records') \cup o : Expects(id)'
      BY <1>1, <1>2, <3>1, <3>3, <3>4
    <3>7. QED
      BY <1>5, <3>1, <3>5, <3>6 DEF OnTheWay
  <2>3. QED
    BY <2>1, <2>2
<1>9. QED
  BY <1>6, <1>8 DEF Traffic, OnTheWay

-----------------------------------------------------------------------------
(* The engine's steps: what they will tell.                                *)

\* The display is still where it was, and the submissions are the same.
LEMMA BeginsServed ==
  ASSUME Inner, Served, UNCHANGED commands \/ Taken, NEW c
  PROVE  (Begins(c) => Begins(c)') /\ (\A H : Transcribed(H) => Transcribed(H)')
<1>1. /\ UNCHANGED <<kind, exchange_id, interrupted, rejection, pending, fate, settled, text, mode, sent, transcript>>
      /\ UNCHANGED <<shown, early, initial>>
  BY EngineLeaves DEF Served, display
<1>2. ASSUME NEW H, Transcribed(H) PROVE Transcribed(H)'
  BY <1>1, <1>2 DEF Transcribed
<1>3. ASSUME Shown(c) PROVE Shown(c)'
  <2>1. Entries(c)' = Entries(c)
    BY <1>1 DEF Entries, EntriesOf, Entry
  <2>2. PICK g : Lists(g, shown, Entries(c))
    BY <1>3 DEF Shown
  <2>3. Lists(g, shown', Entries(c)')
    BY <1>1, <2>1, <2>2
  <2>4. QED
    BY <1>1, <1>3, <2>3 DEF Shown
<1>4. ASSUME Begins(c) PROVE Begins(c)'
  BY <1>1, <1>2, <1>3, <1>4 DEF Begins
<1>5. QED
  BY <1>2, <1>4

LEMMA StorySame ==
  ASSUME Inner, Served, UNCHANGED commands \/ Taken, kind # "prompt"
  PROVE  Story'
<1>1. UNCHANGED kind
  BY EngineLeaves
<1>2. PICK H : Transcribed(H)
  BY DEF Inner, Story
<1>3. Transcribed(H)'
  BY <1>2, BeginsServed
<1>4. QED
  BY <1>1, <1>3 DEF Story

\* T will be told, as m says at its end.
LEMMA StoryServed ==
  ASSUME Inner, Served, UNCHANGED commands \/ Taken, kind = "prompt", NEW T, NEW m,
         Course(T, records', exchange_id, Extra, Steers, ~interrupted), Begins(T[1]), m = T[Len(T)], Ends(m)', Over(T)'
  PROVE  Story'
<1>1. /\ UNCHANGED <<kind, exchange_id, interrupted>> /\ Extra' = Extra /\ Steers' = Steers
  BY EngineLeaves
<1>2. PICK c : c = T[1]
  OBVIOUS
<1>3. Begins(c)'
  BY <1>2, BeginsServed
<1>4. Told(T)'
  BY <1>1, <1>2, <1>3 DEF Told
<1>5. QED
  BY <1>1, <1>4 DEF Story

\* The point at the end is as it was.
LEMMA LastPoint ==
  ASSUME Inner, NEW T, Told(T)
  PROVE  /\ T \in Seq(Point) /\ T[Len(T)] \in Point /\ Len(T) \in DOMAIN T
         /\ ~interrupted => Sound(T[Len(T)], Extra)
         /\ T[Len(T)].over => Done
<1>1. T \in Seq(Point) /\ Len(T) = Len(records) + 1 /\ records \in Seq(Record)
  BY DEF Told, Course, Inner, Typed, WireTyped
<1>2. Len(T) \in DOMAIN T /\ T[Len(T)] \in Point
  BY <1>1
<1>3. QED
  BY <1>1, <1>2 DEF Told, Course, Over

LEMMA StoryNone ==
  ASSUME Inner, Served, UNCHANGED commands \/ Taken, kind = "prompt", NEW T, Told(T), NEW l, l = T[Len(T)],
         UNCHANGED records, Ends(l)', Done => Done'
  PROVE  Story'
<1>1. Over(T)'
  BY DEF Told, Over
<1>2. QED
  BY <1>1, StoryServed DEF Told

LEMMA StoryOne ==
  ASSUME Inner, Served, UNCHANGED commands \/ Taken, kind = "prompt", NEW T, Told(T), NEW l, l = T[Len(T)],
         NEW r \in Record, records' = Append(records, r), Fits(l, r, exchange_id, Extra, Steers, ~interrupted),
         NEW m, m = After(l, r, exchange_id), Ends(m)', Done => Done', m.over => Done'
  PROVE  Story'
<1>1. records \in Seq(Record)
  BY DEF Inner, Typed, WireTyped
<1>2. PICK U : U = Append(T, m)
  OBVIOUS
<1>3. PICK seen : seen = ~interrupted
  OBVIOUS
<1>4. PICK E : E = Extra
  OBVIOUS
<1>5. PICK S : S = Steers
  OBVIOUS
<1>6. PICK x : x = exchange_id
  OBVIOUS
<1>7. Course(T, records, x, E, S, seen) /\ Fits(T[Len(T)], r, x, E, S, seen) /\ m = After(T[Len(T)], r, x)
  BY <1>3, <1>4, <1>5, <1>6 DEF Told
<1>8. /\ Course(U, records', x, E, S, seen) /\ U[1] = T[1] /\ U[Len(U)] = m
      /\ \A k \in DOMAIN U : (k \in DOMAIN T /\ U[k] = T[k]) \/ U[k] = m
  BY <1>1, <1>2, <1>7, CourseMore
<1>9. Over(U)'
  BY <1>8 DEF Told, Over
<1>10. QED
  BY <1>3, <1>4, <1>5, <1>6, <1>8, <1>9, StoryServed DEF Told

LEMMA StoryTwo ==
  ASSUME Inner, Served, UNCHANGED commands \/ Taken, kind = "prompt", NEW T, Told(T), NEW l, l = T[Len(T)],
         NEW r \in Record, NEW s \in Record, records' = Append(Append(records, r), s),
         Fits(l, r, exchange_id, Extra, Steers, ~interrupted),
         NEW m, m = After(l, r, exchange_id), Fits(m, s, exchange_id, Extra, Steers, ~interrupted),
         NEW n, n = After(m, s, exchange_id), Ends(n)', Done => Done', m.over \/ n.over => Done'
  PROVE  Story'
<1>1. records \in Seq(Record) /\ Append(records, r) \in Seq(Record)
  BY DEF Inner, Typed, WireTyped
<1>2. PICK U : U = Append(T, m)
  OBVIOUS
<1>3. PICK V : V = Append(U, n)
  OBVIOUS
<1>4. PICK seen : seen = ~interrupted
  OBVIOUS
<1>5. PICK E : E = Extra
  OBVIOUS
<1>6. PICK S : S = Steers
  OBVIOUS
<1>7. PICK x : x = exchange_id
  OBVIOUS
<1>8. PICK w : w = Append(records, r)
  OBVIOUS
<1>9. Course(T, records, x, E, S, seen) /\ Fits(T[Len(T)], r, x, E, S, seen) /\ m = After(T[Len(T)], r, x)
  BY <1>4, <1>5, <1>6, <1>7 DEF Told
<1>10. /\ Course(U, w, x, E, S, seen) /\ U[1] = T[1] /\ U[Len(U)] = m
       /\ \A k \in DOMAIN U : (k \in DOMAIN T /\ U[k] = T[k]) \/ U[k] = m
  BY <1>1, <1>2, <1>8, <1>9, CourseMore
<1>11. Fits(U[Len(U)], s, x, E, S, seen) /\ n = After(U[Len(U)], s, x)
  BY <1>4, <1>5, <1>6, <1>7, <1>10
<1>12. /\ Course(V, Append(w, s), x, E, S, seen) /\ V[1] = U[1] /\ V[Len(V)] = n
       /\ \A k \in DOMAIN V : (k \in DOMAIN U /\ V[k] = U[k]) \/ V[k] = n
  <2>1. w \in Seq(Record) /\ Course(U, w, x, E, S, seen)
    BY <1>1, <1>8, <1>10
  <2>2. QED
    BY <1>3, <1>11, <2>1, CourseMore
<1>13. Over(V)'
  BY <1>10, <1>12 DEF Told, Over
<1>14. Course(V, records', exchange_id, Extra, Steers, ~interrupted) /\ Begins(V[1])
  BY <1>4, <1>5, <1>6, <1>7, <1>8, <1>10, <1>12 DEF Told
<1>15. QED
  BY <1>12, <1>13, <1>14, StoryServed

-----------------------------------------------------------------------------
(* Records and what they do to a point.                                    *)

LEMMA RecordsTyped ==
  /\ \A id \in Ids, ok \in BOOLEAN : /\ Response(id, ok) \in Record /\ Response(id, ok).type = "response"
                                     /\ Response(id, ok).id = id /\ Response(id, ok).ok = ok
  /\ \A q \in Seq(Queued) : /\ QueueUpdate(q) \in Record /\ QueueUpdate(q).type = "queue_update"
                            /\ QueueUpdate(q).waiting = q
  /\ \A p \in Prompts : /\ MessageStart(p) \in Record /\ MessageStart(p).type = "message_start"
                        /\ MessageStart(p).prompt = p
                        /\ QueueRejected(p) \in Record /\ QueueRejected(p).type = "queue_rejected"
                        /\ QueueRejected(p).prompt = p
  /\ AgentStart \in Record /\ AgentStart.type = "agent_start"
  /\ Failed \in Record /\ Failed.type = "failed"
  /\ Settled \in Record /\ Settled.type = "agent_settled"
  BY DEF Record, Response, QueueUpdate, MessageStart, QueueRejected, AgentStart, Failed, Settled

LEMMA EmitKept ==
  ASSUME KeepRecords, Inner, NEW a \in Record, NEW b \in Record
  PROVE  /\ Emit(<<a>>) => records' = Append(records, a) /\ records' \in Seq(Record)
         /\ Emit(<<a, b>>) => records' = Append(Append(records, a), b) /\ records' \in Seq(Record)
<1>1. records \in Seq(Record)
  BY DEF Inner, Typed, WireTyped
<1>2. records \o <<a>> = Append(records, a) /\ records \o <<a, b>> = Append(Append(records, a), b)
  BY <1>1
<1>3. ASSUME Emit(<<a>>) PROVE records' = Append(records, a)
  BY <1>2, <1>3 DEF Emit
<1>4. ASSUME Emit(<<a, b>>) PROVE records' = Append(Append(records, a), b)
  BY <1>2, <1>4 DEF Emit
<1>5. Append(records, a) \in Seq(Record) /\ Append(Append(records, a), b) \in Seq(Record)
  BY <1>1
<1>6. QED
  BY <1>3, <1>4, <1>5

LEMMA AfterOther ==
  ASSUME NEW c \in Point, NEW r, NEW x, ~Accepts(r, x),
         r.type \notin {"message_start", "queue_update", "queue_rejected", "agent_settled"}
  PROVE  After(c, r, x) = c
<1>1. c = [led |-> c.led, over |-> c.over, heard |-> c.heard, here |-> c.here, gone |-> c.gone, neat |-> c.neat]
  BY DEF Point
<1>2. c.led \in BOOLEAN /\ c.over \in BOOLEAN
  BY DEF Point
<1>3. ~Delivers(r) /\ ~Updates(r) /\ ~Rejects(r)
  BY DEF Delivers, Updates, Rejects
<1>4. After(c, r, x) = [led |-> c.led, over |-> c.over, heard |-> c.heard, here |-> c.here, gone |-> c.gone, neat |-> c.neat]
  BY <1>2, <1>3 DEF After
<1>5. QED
  BY <1>1, <1>4

LEMMA AfterDelivery ==
  ASSUME NEW c \in Point, NEW r, r.type = "message_start", NEW x, NEW d, d = After(c, r, x)
  PROVE  /\ d.led = (c.led /\ r.prompt # x) /\ d.over = c.over /\ d.heard = c.heard \cup {r.prompt}
         /\ d.here = c.here \ {r.prompt} /\ d.gone = c.gone \ {r.prompt} /\ d.neat = c.neat
<1>1. c.led \in BOOLEAN /\ c.over \in BOOLEAN
  BY DEF Point
<1>2. Delivers(r) /\ ~Updates(r) /\ ~Rejects(r) /\ ~Accepts(r, x)
  BY DEF Delivers, Updates, Rejects, Accepts
<1>3. QED
  BY <1>1, <1>2 DEF After

LEMMA AfterUpdate ==
  ASSUME NEW c \in Point, NEW r, r.type = "queue_update", NEW x, NEW d, d = After(c, r, x)
  PROVE  /\ d.led = c.led /\ d.over = c.over /\ d.heard = c.heard
         /\ d.here = IdsIn(r.waiting) /\ d.gone = c.gone \cup (c.here \ IdsIn(r.waiting)) /\ d.neat
<1>1. c.led \in BOOLEAN /\ c.over \in BOOLEAN
  BY DEF Point
<1>2. Updates(r) /\ ~Delivers(r) /\ ~Rejects(r) /\ ~Accepts(r, x)
  BY DEF Delivers, Updates, Rejects, Accepts
<1>3. QED
  BY <1>1, <1>2 DEF After

LEMMA AfterAccepted ==
  ASSUME NEW c \in Point, NEW r, NEW x, Accepts(r, x), NEW d, d = After(c, r, x)
  PROVE  /\ d.led = c.led /\ d.over = c.over /\ d.heard = c.heard
         /\ d.here = c.here \cup {r.id[1]} /\ d.gone = c.gone /\ ~d.neat
<1>1. c.led \in BOOLEAN /\ c.over \in BOOLEAN
  BY DEF Point
<1>2. ~Updates(r) /\ ~Delivers(r) /\ ~Rejects(r) /\ r.type = "response"
  BY DEF Delivers, Updates, Rejects, Accepts
<1>3. QED
  BY <1>1, <1>2 DEF After

LEMMA AfterRejected ==
  ASSUME NEW c \in Point, NEW r, r.type = "queue_rejected", NEW x, NEW d, d = After(c, r, x)
  PROVE  /\ d.led = c.led /\ d.over = c.over /\ d.heard = c.heard
         /\ d.here = {} /\ d.gone = {} /\ d.neat
<1>1. c.led \in BOOLEAN /\ c.over \in BOOLEAN
  BY DEF Point
<1>2. ~Updates(r) /\ ~Delivers(r) /\ Rejects(r) /\ ~Accepts(r, x)
  BY DEF Delivers, Updates, Rejects, Accepts
<1>3. QED
  BY <1>1, <1>2 DEF After

LEMMA AfterSettled ==
  ASSUME NEW c \in Point, NEW r, r.type = "agent_settled", NEW x, NEW d, d = After(c, r, x)
  PROVE  /\ d.led = c.led /\ d.over /\ d.heard = c.heard
         /\ d.here = c.here /\ d.gone = c.gone /\ d.neat = c.neat
<1>1. c.led \in BOOLEAN /\ c.over \in BOOLEAN
  BY DEF Point
<1>2. ~Updates(r) /\ ~Delivers(r) /\ ~Rejects(r) /\ ~Accepts(r, x)
  BY DEF Delivers, Updates, Rejects, Accepts
<1>3. QED
  BY <1>1, <1>2 DEF After

\* While the prompt is on its way, no refusal of it is.
LEMMA NotRefused ==
  ASSUME Inner, kind = "prompt", Main \in Asked(commands)
  PROVE  ~Refused
<1>1. Expects(Main) /\ Main \notin Answered(records)
  BY DEF Inner, Traffic, OnTheWay
<1>2. ~rejection
  BY <1>1, ExpectedIs DEF Inner, Main
<1>3. QED
  BY <1>1, <1>2 DEF Refused, Answered, Responses

\* Only a refusal makes the prompt refused.
LEMMA RefusedLater ==
  ASSUME Inner, Served, UNCHANGED commands \/ Taken, NEW a \in Record, NEW b \in Record,
         UNCHANGED records \/ Emit(<<a>>) \/ Emit(<<a, b>>), b.type # "response",
         a.type = "response" => a.ok \/ a.id # Main, Refused'
  PROVE  Refused
<1>1. UNCHANGED rejection /\ Main' = Main
  BY EngineLeaves
<1>2. ASSUME NEW k \in Responses(records'), records'[k].id = Main, ~records'[k].ok PROVE Refused
  <2>1. k \in DOMAIN records' /\ records'[k].type = "response"
    BY <1>2 DEF Responses
  <2>2. records \in Seq(Record)
    BY DEF Inner, Typed, WireTyped
  <2>3. CASE UNCHANGED records
    BY <1>2, <2>3 DEF Refused
  <2>4. CASE Emit(<<a>>) \/ Emit(<<a, b>>)
    <3>1. \/ k \in DOMAIN records /\ records'[k] = records[k]
          \/ records'[k] = a
          \/ records'[k] = b
      BY <2>1, <2>2, <2>4, EmitAdds
    <3>2. k \in DOMAIN records /\ records'[k] = records[k]
      BY <1>2, <2>1, <3>1
    <3>3. QED
      BY <1>2, <2>1, <3>2 DEF Refused, Responses
  <2>5. QED
    BY <2>3, <2>4
<1>3. QED
  BY <1>1, <1>2 DEF Refused

\* A prompt's exchange goes on.
LEMMA QuietServed ==
  ASSUME Inner, Served, UNCHANGED commands \/ Taken, kind = "prompt"
  PROVE  Quiet'
<1>1. kind' = "prompt"
  BY EngineLeaves
<1>2. QED
  BY <1>1 DEF Quiet

\* The commands that are left are as they were.
LEMMA CommandsLeft ==
  ASSUME Inner, Served, UNCHANGED commands \/ Taken
  PROVE  /\ Asked(commands') \subseteq Asked(commands)
         /\ \A i \in DOMAIN commands' : kind' = "prompt" =>
               /\ commands'[i].kind = "prompt" <=> commands'[i].id[2] = "main"
               /\ commands'[i].kind = "prompt" => commands'[i].mode = mode'[commands'[i].id[1]]
<1>1. UNCHANGED <<kind, mode>>
  BY EngineLeaves
<1>2. CASE UNCHANGED commands
  BY <1>1, <1>2 DEF Inner, Placed
<1>3. CASE Taken
  <2>1. /\ Asked(commands') \subseteq Asked(commands)
        /\ \A i \in DOMAIN commands' : i + 1 \in DOMAIN commands /\ commands'[i] = commands[i + 1]
    BY <1>3, CommandTaken
  <2>2. QED
    BY <1>1, <2>1 DEF Inner, Placed
<1>4. QED
  BY <1>2, <1>3

-----------------------------------------------------------------------------
(* The engine's steps, one by one.                                         *)

LEMMA BeginRunKeeps ==
  ASSUME KeepRecords, Inner, Served, BeginRun, Head(commands).mode = "none"
  PROVE  Inner'
<1> DEFINE h == Head(commands)
<1>1. Taken /\ h.kind = "prompt"
  BY DEF BeginRun, Take, Taken
<1>2. /\ ~active /\ stage = "none" /\ active' /\ stage' = "begins" /\ lead' = h.id[1]
      /\ UNCHANGED <<waiting, caller>> /\ Emit(<<Response(h.id, TRUE)>>)
  BY DEF BeginRun, Answer
<1>3. kind = "prompt" /\ h.id = Main /\ lead' = exchange_id
  <2>1. kind = "prompt" /\ (h.id = Main \/ \E p \in Extra : h.mode = mode[p])
    BY <1>1, PromptTaken
  <2>2. \A p \in Extra : mode[p] # "none"
    BY DEF Extra
  <2>3. h.id = Main
    BY <2>1, <2>2
  <2>4. QED
    BY <1>2, <2>1, <2>3 DEF Main
<1>4. h.id \in Ids /\ Main \in Asked(commands) /\ Asked(commands') = Asked(commands) \ {Main}
  BY <1>1, <1>3, CommandTaken
<1>5. PICK a \in Record : a = Response(h.id, TRUE) /\ a.type = "response" /\ a.id = Main /\ a.ok
  BY <1>3, <1>4, RecordsTyped
<1>6. PICK b \in Record : b = Failed /\ b.type = "failed"
  BY RecordsTyped
<1>7. /\ Extra' = Extra /\ Steers' = Steers /\ Main' = Main /\ Exchange' /\ Written'
      /\ UNCHANGED <<kind, exchange_id, interrupted, rejection>>
  BY <1>1, EngineLeaves
<1>8. /\ exchange_id \in 1 .. sent /\ exchange_id \notin Extra /\ exchange_id \in Nat
      /\ waiting = <<>> /\ waiting \in Seq(Queued) /\ caller \in Ids /\ sent \in Nat
  BY <1>2, <1>3 DEF Inner, Typed, WireTyped, Written, Rests, Extra
<1>9. Emit(<<a>>) /\ records' = Append(records, a) /\ records' \in Seq(Record)
  BY <1>2, <1>5, <1>6, EmitKept
<1>10. Typed'
  BY <1>1, <1>2, <1>3, <1>8, <1>9, TypedServed
<1>11. Traffic'
  <2>1. Owed' = Owed
    BY <1>2 DEF Owed
  <2>2. QED
    BY <1>1, <1>3, <1>5, <1>6, <1>9, <2>1, TrafficServed
<1>12. Placed'
  <2>1. Ordered(waiting, Extra, Steers)' /\ IdsIn(waiting') = {}
    BY <1>2, <1>7, <1>8 DEF Ordered, IdsIn
  <2>2. QED
    BY <1>1, <1>3, <1>4, <1>7, <2>1, CommandsLeft DEF Placed, Main
<1>13. Rests'
  <2>1. ~Refused
    BY <1>3, <1>4, NotRefused
  <2>2. ~Refused'
    BY <1>1, <1>5, <1>6, <1>9, <2>1, RefusedLater
  <2>3. Main' \notin Asked(commands') /\ lead' # 0
    BY <1>3, <1>4, <1>7, <1>8
  <2>4. QED
    BY <1>2, <1>3, <1>7, <1>8, <2>2, <2>3 DEF Rests
<1>14. Quiet'
  BY <1>1, <1>3, QuietServed
<1>15. Story'
  <2>1. PICK T : Told(T)
    BY <1>3 DEF Inner, Story
  <2>2. PICK l : l = T[Len(T)]
    OBVIOUS
  <2>3. Ends(l) /\ l \in Point /\ (l.over => Done)
    BY <2>1, <2>2, LastPoint DEF Told
  <2>4. l = After(l, a, exchange_id)
    BY <1>5, <2>3, AfterOther DEF Accepts, Main
  <2>5. Fits(l, a, exchange_id, Extra, Steers, ~interrupted)
    BY <1>5 DEF Fits, Listable, Accepts, Updates, Rejects, Delivers, Main
  <2>6. ~Done
    BY <1>4 DEF Done
  <2>7. l.led /\ (~interrupted => l.here = {} /\ l.gone = {} /\ l.neat)
    BY <1>4, <2>3 DEF Ends, Holds
  <2>8. Ends(l)'
    <3>1. \A p \in Extra' : <<p, "main">> \in Asked(commands') => p \notin l.heard
      BY <1>4, <1>7, <2>3 DEF Ends
    <3>2. IdsIn(waiting') = {}
      BY <1>2, <1>8 DEF IdsIn
    <3>3. ~interrupted' => Holds(l)'
      BY <1>2, <1>3, <1>4, <1>7, <2>7, <3>2 DEF Holds, Live
    <3>4. QED
      BY <1>2, <1>3, <1>7, <1>8, <2>7, <3>1, <3>2, <3>3 DEF Ends
  <2>9. QED
    BY <1>1, <1>3, <1>9, <2>1, <2>2, <2>3, <2>4, <2>5, <2>6, <2>8, StoryOne
<1>16. QED
  BY <1>7, <1>10, <1>11, <1>12, <1>13, <1>14, <1>15 DEF Inner

\* What is known while the run is under way.
LEMMA RunGoesOn ==
  ASSUME Inner, Served, UNCHANGED commands \/ Taken, stage \notin {"none", "task"}
  PROVE  /\ kind = "prompt" /\ kind' = "prompt" /\ Main \notin Asked(commands) /\ ~Refused /\ ~Done /\ Owed = {}
         /\ UNCHANGED <<exchange_id, interrupted, sent>> /\ Extra' = Extra /\ Steers' = Steers /\ Main' = Main
         /\ Exchange' /\ Written' /\ Quiet'
         /\ exchange_id \in Prompts /\ exchange_id # 0 /\ exchange_id \notin Extra /\ Extra \subseteq Prompts
         /\ 0 \notin Extra /\ Prompts \subseteq Nat
         /\ waiting \in Seq(Queued) /\ caller \in Ids /\ lead \in Nat /\ Ordered(waiting, Extra, Steers)
         /\ \A p \in IdsIn(waiting) : <<p, "main">> \notin Asked(commands)
         /\ lead # 0 => /\ lead \in {exchange_id} \cup Extra
                        /\ lead \notin IdsIn(waiting) /\ <<lead, "main">> \notin Asked(commands)
         /\ (stage \in {"begins", "turn"} <=> lead # 0) /\ (stage = "begins" => lead = exchange_id)
<1>1. kind = "prompt" /\ Main \notin Asked(commands) /\ ~Refused
  BY DEF Inner, Rests
<1>2. ~Done /\ Owed = {}
  BY DEF Done, Owed
<1>3. /\ UNCHANGED <<kind, exchange_id, interrupted, sent>> /\ Extra' = Extra /\ Steers' = Steers /\ Main' = Main
      /\ Exchange' /\ Written'
  BY EngineLeaves
<1>4. Quiet'
  BY <1>1, QuietServed
<1>5. sent \in 0 .. MaxPrompts /\ waiting \in Seq(Queued) /\ caller \in Ids /\ lead \in Nat
  BY DEF Inner, Typed, WireTyped
<1>6. exchange_id \in 1 .. sent /\ mode[exchange_id] = "none"
  BY <1>1 DEF Inner, Written
<1>7. MaxPrompts \in Nat
  BY WireAssumption
<1>8. exchange_id \in Prompts /\ exchange_id # 0 /\ exchange_id \notin Extra
  BY <1>5, <1>6, <1>7 DEF Prompts, Extra
<1>9. Extra \subseteq Prompts /\ 0 \notin Extra /\ Prompts \subseteq Nat
  BY <1>5, <1>7 DEF Prompts, Extra
<1>10. /\ Ordered(waiting, Extra, Steers)
       /\ \A p \in IdsIn(waiting) : <<p, "main">> \notin Asked(commands)
       /\ lead # 0 => /\ lead \in {exchange_id} \cup Extra
                      /\ lead \notin IdsIn(waiting) /\ <<lead, "main">> \notin Asked(commands)
  BY DEF Inner, Placed
<1>11. (stage \in {"begins", "turn"} <=> lead # 0) /\ (stage = "begins" => lead = exchange_id)
  BY DEF Inner, Rests
<1>12. QED
  BY <1>1, <1>2, <1>3, <1>4, <1>5, <1>8, <1>9, <1>10, <1>11

\* A step of the run keeps all but the story, if its queue is in order.
LEMMA RunKept ==
  ASSUME KeepRecords, Inner, Served, UNCHANGED commands, stage \notin {"none", "task"},
         NEW a \in Record, NEW b \in Record, UNCHANGED records \/ Emit(<<a>>) \/ Emit(<<a, b>>),
         a.type # "response", b.type # "response", a.type # "agent_settled", UNCHANGED caller,
         waiting' \in Seq(Queued), Ordered(waiting', Extra, Steers), IdsIn(waiting') \subseteq IdsIn(waiting),
         lead' \in {lead, 0} \cup IdsIn(waiting), lead' \notin IdsIn(waiting'),
         stage' \in {"turn", "works", "over", "none"}, stage' = "turn" <=> lead' # 0,
         stage' = "none" => waiting' = <<>> /\ ~active'
  PROVE  Typed' /\ Exchange' /\ Traffic' /\ Written' /\ Placed' /\ Rests' /\ Quiet'
<1>1. PICK x : x = exchange_id
  OBVIOUS
<1>2. /\ kind = "prompt" /\ kind' = "prompt" /\ Main \notin Asked(commands) /\ ~Refused /\ Owed = {}
      /\ exchange_id' = x /\ Extra' = Extra /\ Steers' = Steers /\ Main' = Main
      /\ Exchange' /\ Written' /\ Quiet' /\ 0 \notin Extra
      /\ caller \in Ids /\ lead \in Nat /\ Ordered(waiting, Extra, Steers)
      /\ \A p \in IdsIn(waiting) : <<p, "main">> \notin Asked(commands)
      /\ lead # 0 => lead \in {x} \cup Extra /\ <<lead, "main">> \notin Asked(commands)
      /\ Prompts \subseteq Nat /\ Extra \subseteq Prompts
  BY <1>1, RunGoesOn
<1>3. IdsIn(waiting) \subseteq Extra
  BY <1>2 DEF Ordered, IdsIn
<1>4. records' \in Seq(Record)
  <2>1. records \in Seq(Record)
    BY DEF Inner, Typed, WireTyped
  <2>2. QED
    BY <2>1, EmitKept
<1>5. Typed'
  <2>1. lead' \in Nat /\ caller' \in Ids
    BY <1>2, <1>3
  <2>2. QED
    BY <1>4, <2>1, TypedServed
<1>6. Traffic'
  <2>1. Owed' = {}
    BY DEF Owed
  <2>2. QED
    BY <1>2, <2>1, TrafficServed
<1>7. Placed'
  <2>1. /\ \A i \in DOMAIN commands' : kind' = "prompt" =>
             /\ commands'[i].kind = "prompt" <=> commands'[i].id[2] = "main"
             /\ commands'[i].kind = "prompt" => commands'[i].mode = mode'[commands'[i].id[1]]
    BY CommandsLeft
  <2>2. Asked(commands') = Asked(commands)
    OBVIOUS
  <2>3. lead' # 0 => lead' \in {x} \cup Extra /\ <<lead', "main">> \notin Asked(commands)
    BY <1>2, <1>3
  <2>4. \A p \in IdsIn(waiting') : <<p, "main">> \notin Asked(commands)
    BY <1>2
  <2>5. QED
    BY <1>1, <1>2, <2>1, <2>2, <2>3, <2>4 DEF Placed
<1>8. Rests'
  <2>1. ~Refused'
    BY <1>2, RefusedLater
  <2>2. QED
    BY <1>2, <2>1 DEF Rests
<1>9. QED
  BY <1>2, <1>5, <1>6, <1>7, <1>8

\* The last point of the story, while the run is under way.
LEMMA RunPoint ==
  ASSUME Inner, stage \notin {"none", "task"}
  PROVE  \E T : \E l \in Point :
            /\ Told(T) /\ l = T[Len(T)] /\ ~l.over /\ (~interrupted => Sound(l, Extra)) /\ Ends(l)
<1>1. kind = "prompt" /\ ~Done
  BY DEF Inner, Rests, Done
<1>2. PICK T : Told(T)
  BY <1>1 DEF Inner, Story
<1>3. QED
  BY <1>1, <1>2, LastPoint DEF Told

LEMMA AnnounceKeeps ==
  ASSUME KeepRecords, Inner, Served, Announce, UNCHANGED commands
  PROVE  Inner'
<1>1. PICK x : x = exchange_id
  OBVIOUS
<1>2. stage = "begins" /\ stage' = "turn" /\ Emit(<<AgentStart>>) /\ UNCHANGED <<active, waiting, lead, caller>>
  BY DEF Announce
<1>3. /\ exchange_id' = x /\ UNCHANGED interrupted /\ Extra' = Extra /\ Main' = Main
      /\ Main \notin Asked(commands) /\ ~Done /\ kind = "prompt"
      /\ waiting \in Seq(Queued) /\ Ordered(waiting, Extra, Steers) /\ lead # 0
      /\ lead = x /\ lead \notin IdsIn(waiting)
  BY <1>1, <1>2, RunGoesOn
<1>4. PICK a \in Record : a = AgentStart /\ a.type = "agent_start"
  BY RecordsTyped
<1>5. records' = Append(records, a)
  BY <1>2, <1>4, EmitKept
<1>6. Typed' /\ Exchange' /\ Traffic' /\ Written' /\ Placed' /\ Rests' /\ Quiet'
  BY <1>2, <1>3, <1>4, RunKept
<1>7. PICK T : \E l \in Point : Told(T) /\ l = T[Len(T)] /\ ~l.over /\ Ends(l)
  BY <1>2, RunPoint
<1>8. PICK l \in Point : Told(T) /\ l = T[Len(T)] /\ ~l.over /\ Ends(l)
  BY <1>7
<1>9. l = After(l, a, x)
  BY <1>4, AfterOther DEF Accepts
<1>10. Fits(l, a, x, Extra, Steers, ~interrupted)
  BY <1>4, <1>8 DEF Fits, Listable, Accepts, Updates, Rejects, Delivers
<1>11. Ends(l)'
  <2>1. ~interrupted' => Holds(l)'
    BY <1>1, <1>2, <1>3, <1>8 DEF Ends, Holds, Live
  <2>2. QED
    BY <1>1, <1>2, <1>3, <1>8, <2>1 DEF Ends
<1>12. Story'
  BY <1>1, <1>3, <1>5, <1>8, <1>9, <1>10, <1>11, StoryOne
<1>13. QED
  BY <1>6, <1>12 DEF Inner

LEMMA DeliverLeadKeeps ==
  ASSUME KeepRecords, Inner, Served, DeliverLead, UNCHANGED commands
  PROVE  Inner'
<1>1. PICK x : x = exchange_id
  OBVIOUS
<1>2. stage = "turn" /\ stage' = "works" /\ lead' = 0 /\ Emit(<<MessageStart(lead)>>) /\ UNCHANGED <<active, waiting, caller>>
  BY DEF DeliverLead
<1>3. /\ exchange_id' = x /\ UNCHANGED interrupted /\ Extra' = Extra /\ Main' = Main /\ x \notin Extra
      /\ Main \notin Asked(commands) /\ ~Done /\ kind = "prompt"
      /\ waiting \in Seq(Queued) /\ Ordered(waiting, Extra, Steers) /\ lead # 0 /\ 0 \notin Extra /\ x # 0
      /\ lead \in {x} \cup Extra /\ lead \notin IdsIn(waiting) /\ <<lead, "main">> \notin Asked(commands)
      /\ lead \in Prompts
  BY <1>1, <1>2, RunGoesOn
<1>4. PICK a \in Record : a = MessageStart(lead) /\ a.type = "message_start" /\ a.prompt = lead
  BY <1>3, RecordsTyped
<1>5. records' = Append(records, a)
  BY <1>2, <1>4, EmitKept
<1>6. Typed' /\ Exchange' /\ Traffic' /\ Written' /\ Placed' /\ Rests' /\ Quiet'
  <2>1. 0 \notin IdsIn(waiting)
    BY <1>3 DEF Ordered, IdsIn
  <2>2. QED
    BY <1>2, <1>3, <1>4, <2>1, RunKept
<1>7. PICK T : \E l \in Point : Told(T) /\ l = T[Len(T)] /\ ~l.over /\ Ends(l)
  BY <1>2, RunPoint
<1>8. PICK l \in Point : Told(T) /\ l = T[Len(T)] /\ ~l.over /\ Ends(l)
  BY <1>7
<1>9. PICK m : m = After(l, a, x)
  OBVIOUS
<1>10. /\ (lead = x => l.led) /\ (lead # x => ~l.led /\ lead \notin l.heard)
       /\ \A p \in Extra : p \in IdsIn(waiting) \/ <<p, "main">> \in Asked(commands) => p \notin l.heard
       /\ ~interrupted => /\ \A p \in l.here \cup l.gone : <<p, "main">> \notin Asked(commands)
                          /\ l.here = IdsIn(waiting) /\ l.neat
                          /\ l.gone = IF lead # x THEN {lead} ELSE {}
  BY <1>1, <1>2, <1>3, <1>8 DEF Ends, Holds, Live
<1>11. Fits(l, a, x, Extra, Steers, ~interrupted)
  BY <1>3, <1>4, <1>8, <1>10 DEF Fits, Listable, Accepts, Updates, Rejects, Delivers
<1>12. /\ m.led = (l.led /\ lead # x) /\ m.over = l.over /\ m.heard = l.heard \cup {lead}
       /\ m.here = l.here \ {lead} /\ m.gone = l.gone \ {lead} /\ m.neat = l.neat
  BY <1>4, <1>9, AfterDelivery
<1>13. Ends(m)'
  <2>1. ~m.led
    BY <1>10, <1>12
  <2>2. \A p \in Extra : p \in IdsIn(waiting) \/ <<p, "main">> \in Asked(commands) => p \notin m.heard
    BY <1>3, <1>10, <1>12
  <2>3. ~interrupted' => Holds(m)'
    BY <1>2, <1>3, <1>10, <1>12 DEF Holds, Live
  <2>4. QED
    BY <1>1, <1>2, <1>3, <2>1, <2>2, <2>3 DEF Ends
<1>14. Story'
  BY <1>1, <1>3, <1>5, <1>8, <1>9, <1>11, <1>12, <1>13, StoryOne
<1>15. QED
  BY <1>6, <1>14 DEF Inner

\* The first of a queue leaves it.
LEMMA HeadOrdered ==
  ASSUME NEW q \in Seq(Queued), q # <<>>, NEW E, NEW S, Ordered(q, E, S)
  PROVE  /\ Tail(q) \in Seq(Queued) /\ Ordered(Tail(q), E, S) /\ Head(q).id \in E /\ Head(q).id \in Prompts
         /\ (Head(q).steer <=> Head(q).id \in S) /\ Head(q).id \in IdsIn(q)
         /\ IdsIn(Tail(q)) = IdsIn(q) \ {Head(q).id}
<1> DEFINE t == Tail(q)
           h == Head(q)
<1>1. /\ t \in Seq(Queued) /\ h \in Queued /\ 1 \in DOMAIN q /\ q[1] = h
      /\ \A i \in DOMAIN t : i + 1 \in DOMAIN q /\ t[i] = q[i + 1] /\ i + 1 # 1
      /\ \A i \in DOMAIN q : i = 1 \/ (i - 1 \in DOMAIN t /\ t[i - 1] = q[i])
  BY TailElements
<1>2. \A i \in DOMAIN t : i \in Int
  OBVIOUS
<1> HIDE DEF t, h
<1>3. /\ \A i \in DOMAIN q : q[i].id \in E /\ (q[i].steer <=> q[i].id \in S)
      /\ \A i, j \in DOMAIN q : q[i].id = q[j].id => i = j
      /\ \A i, j \in DOMAIN q : i < j /\ q[j].steer => q[i].steer
  BY DEF Ordered
<1>4. \A i, j \in DOMAIN t : (i + 1 = j + 1 => i = j) /\ (i < j => i + 1 < j + 1)
  BY <1>2
<1>5. Ordered(t, E, S)
  BY <1>1, <1>3, <1>4 DEF Ordered
<1>6. \A i \in DOMAIN t : t[i].id # h.id
  BY <1>1, <1>3
<1>7. IdsIn(t) = IdsIn(q) \ {h.id} /\ h.id \in IdsIn(q)
  <2>1. \A i \in DOMAIN t : \E j \in DOMAIN q : t[i].id = q[j].id
    BY <1>1
  <2>2. \A j \in DOMAIN q : q[j].id = h.id \/ \E i \in DOMAIN t : t[i].id = q[j].id
    BY <1>1
  <2>3. {t[i].id : i \in DOMAIN t} = {q[i].id : i \in DOMAIN q} \ {h.id}
    BY <1>6, <2>1, <2>2
  <2>4. h.id \in {q[i].id : i \in DOMAIN q}
    BY <1>1
  <2>5. QED
    BY <2>3, <2>4 DEF IdsIn
<1>8. h.id \in Prompts
  BY <1>1 DEF Queued
<1>9. QED
  BY <1>1, <1>3, <1>5, <1>7, <1>8 DEF t, h

LEMMA DeliverSteeringKeeps ==
  ASSUME KeepRecords, Inner, Served, DeliverSteering, UNCHANGED commands
  PROVE  Inner'
<1>1. PICK x : x = exchange_id
  OBVIOUS
<1>2. PICK q : q = Tail(waiting)
  OBVIOUS
<1>3. PICK p : p = Head(waiting).id
  OBVIOUS
<1>4. /\ stage = "works" /\ waiting # <<>> /\ Head(waiting).steer /\ waiting' = q
      /\ Emit(<<MessageStart(p), QueueUpdate(q)>>) /\ UNCHANGED <<active, stage, lead, caller>>
  BY <1>2, <1>3 DEF DeliverSteering
<1>5. /\ exchange_id' = x /\ UNCHANGED interrupted /\ Extra' = Extra /\ Main' = Main /\ x \notin Extra
      /\ Main \notin Asked(commands) /\ ~Done /\ kind = "prompt" /\ x # 0
      /\ waiting \in Seq(Queued) /\ Ordered(waiting, Extra, Steers) /\ lead = 0 /\ 0 \notin Extra
  BY <1>1, <1>4, RunGoesOn
<1>6. /\ q \in Seq(Queued) /\ Ordered(q, Extra, Steers) /\ p \in Extra /\ p \in Prompts /\ p \in Steers
      /\ p \in IdsIn(waiting) /\ IdsIn(q) = IdsIn(waiting) \ {p}
  BY <1>2, <1>3, <1>4, <1>5, HeadOrdered
<1>7. PICK a \in Record : a = MessageStart(p) /\ a.type = "message_start" /\ a.prompt = p
  BY <1>6, RecordsTyped
<1>8. PICK b \in Record : b = QueueUpdate(q) /\ b.type = "queue_update" /\ b.waiting = q
  BY <1>6, RecordsTyped
<1>9. Emit(<<a, b>>) /\ records' = Append(Append(records, a), b)
  BY <1>4, <1>7, <1>8, EmitKept
<1>10. Typed' /\ Exchange' /\ Traffic' /\ Written' /\ Placed' /\ Rests' /\ Quiet'
  <2>1. 0 \notin IdsIn(waiting)
    BY <1>5 DEF Ordered, IdsIn
  <2>2. QED
    BY <1>4, <1>5, <1>6, <1>7, <1>8, <1>9, <2>1, RunKept
<1>11. PICK T : \E l \in Point : Told(T) /\ l = T[Len(T)] /\ ~l.over /\ Ends(l)
  BY <1>4, RunPoint
<1>12. PICK l \in Point : Told(T) /\ l = T[Len(T)] /\ ~l.over /\ Ends(l)
  BY <1>11
<1>13. PICK m \in Point : m = After(l, a, x)
  BY AfterPoint
<1>14. PICK n : n = After(m, b, x)
  OBVIOUS
<1>15. /\ ~l.led /\ p \notin l.heard
       /\ \A r \in Extra : r \in IdsIn(waiting) \/ <<r, "main">> \in Asked(commands) => r \notin l.heard
       /\ ~interrupted => /\ \A r \in l.here \cup l.gone : <<r, "main">> \notin Asked(commands)
                          /\ l.here = IdsIn(waiting) /\ l.neat /\ l.gone = {}
  BY <1>4, <1>6, <1>12 DEF Ends, Holds, Live
<1>16. /\ m.led = (l.led /\ p # x) /\ m.over = l.over /\ m.heard = l.heard \cup {p}
       /\ m.here = l.here \ {p} /\ m.gone = l.gone \ {p} /\ m.neat = l.neat
  BY <1>7, <1>13, AfterDelivery
<1>17. /\ n.led = m.led /\ n.over = m.over /\ n.heard = m.heard
       /\ n.here = IdsIn(q) /\ n.gone = m.gone \cup (m.here \ IdsIn(q)) /\ n.neat
  BY <1>8, <1>14, AfterUpdate
<1>18. Fits(l, a, x, Extra, Steers, ~interrupted)
  BY <1>5, <1>6, <1>7, <1>15 DEF Fits, Listable, Accepts, Updates, Rejects, Delivers
<1>19. Fits(m, b, x, Extra, Steers, ~interrupted)
  BY <1>6, <1>8, <1>15, <1>16 DEF Fits, Listable, Accepts, Updates, Rejects, Delivers
<1>20. Ends(n)'
  <2>1. ~n.led
    BY <1>15, <1>16, <1>17
  <2>2. \A r \in Extra : r \in IdsIn(q) \/ <<r, "main">> \in Asked(commands) => r \notin n.heard
    <3>1. <<p, "main">> \notin Asked(commands)
      BY <1>6, RunGoesOn, <1>4
    <3>2. QED
      BY <1>6, <1>15, <1>16, <1>17, <3>1
  <2>3. ~interrupted' => Holds(n)'
    <3>1. ~interrupted => n.here = IdsIn(q) /\ n.gone = {}
      BY <1>6, <1>15, <1>16, <1>17
    <3>2. QED
      BY <1>4, <1>5, <1>6, <1>15, <1>17, <3>1 DEF Holds, Live
  <2>4. QED
    BY <1>1, <1>4, <1>5, <2>1, <2>2, <2>3 DEF Ends
<1>21. Story'
  BY <1>1, <1>5, <1>9, <1>12, <1>13, <1>14, <1>16, <1>17, <1>18, <1>19, <1>20, StoryTwo
<1>22. QED
  BY <1>10, <1>21 DEF Inner

LEMMA TakeNextKeeps ==
  ASSUME KeepRecords, Inner, Served, TakeNext, UNCHANGED commands
  PROVE  Inner'
<1>1. PICK x : x = exchange_id
  OBVIOUS
<1>2. PICK q : q = Tail(waiting)
  OBVIOUS
<1>3. PICK p : p = Head(waiting).id
  OBVIOUS
<1>4. /\ stage = "works" /\ waiting # <<>> /\ stage' = "turn" /\ lead' = p /\ waiting' = q
      /\ Emit(<<QueueUpdate(q)>>) /\ UNCHANGED <<active, caller>>
  BY <1>2, <1>3 DEF TakeNext
<1>5. /\ exchange_id' = x /\ UNCHANGED interrupted /\ Extra' = Extra /\ Main' = Main /\ x \notin Extra
      /\ Main \notin Asked(commands) /\ ~Done /\ kind = "prompt"
      /\ waiting \in Seq(Queued) /\ Ordered(waiting, Extra, Steers) /\ 0 \notin Extra
      /\ \A r \in IdsIn(waiting) : <<r, "main">> \notin Asked(commands)
  BY <1>1, <1>4, RunGoesOn
<1>6. /\ q \in Seq(Queued) /\ Ordered(q, Extra, Steers) /\ p \in Extra /\ p \in Prompts
      /\ p \in IdsIn(waiting) /\ IdsIn(q) = IdsIn(waiting) \ {p}
  BY <1>2, <1>3, <1>4, <1>5, HeadOrdered
<1>7. PICK a \in Record : a = QueueUpdate(q) /\ a.type = "queue_update" /\ a.waiting = q
  BY <1>6, RecordsTyped
<1>8. Emit(<<a>>) /\ records' = Append(records, a)
  BY <1>4, <1>7, EmitKept
<1>9. Typed' /\ Exchange' /\ Traffic' /\ Written' /\ Placed' /\ Rests' /\ Quiet'
  <2>1. IdsIn(waiting') \subseteq IdsIn(waiting) /\ lead' # 0 /\ lead' \in IdsIn(waiting) /\ lead' \notin IdsIn(waiting')
    BY <1>4, <1>5, <1>6
  <2>2. QED
    BY <1>4, <1>6, <1>7, <1>8, <2>1, RunKept
<1>10. PICK T : \E l \in Point : Told(T) /\ l = T[Len(T)] /\ ~l.over /\ Ends(l)
  BY <1>4, RunPoint
<1>11. PICK l \in Point : Told(T) /\ l = T[Len(T)] /\ ~l.over /\ Ends(l)
  BY <1>10
<1>12. PICK m : m = After(l, a, x)
  OBVIOUS
<1>13. /\ ~l.led
       /\ \A r \in Extra : r \in IdsIn(waiting) \/ <<r, "main">> \in Asked(commands) => r \notin l.heard
       /\ ~interrupted => /\ \A r \in l.here \cup l.gone : <<r, "main">> \notin Asked(commands)
                          /\ l.here = IdsIn(waiting) /\ l.neat /\ l.gone = {}
  BY <1>4, <1>6, <1>11 DEF Ends, Holds, Live
<1>14. /\ m.led = l.led /\ m.over = l.over /\ m.heard = l.heard
       /\ m.here = IdsIn(q) /\ m.gone = l.gone \cup (l.here \ IdsIn(q)) /\ m.neat
  BY <1>7, <1>12, AfterUpdate
<1>15. Fits(l, a, x, Extra, Steers, ~interrupted)
  BY <1>6, <1>7, <1>13 DEF Fits, Listable, Accepts, Updates, Rejects, Delivers
<1>16. Ends(m)'
  <2>1. \A r \in Extra : r \in IdsIn(q) \/ <<r, "main">> \in Asked(commands) \/ r = p => r \notin m.heard
    BY <1>6, <1>13, <1>14
  <2>2. ~interrupted' => Holds(m)'
    <3>1. ~interrupted => m.here = IdsIn(q) /\ m.gone = {p}
      BY <1>6, <1>13, <1>14
    <3>2. p # x
      BY <1>5, <1>6
    <3>3. QED
      BY <1>4, <1>5, <1>6, <1>13, <1>14, <3>1, <3>2 DEF Holds, Live
  <2>3. QED
    BY <1>1, <1>4, <1>5, <1>6, <1>13, <1>14, <2>1, <2>2 DEF Ends
<1>17. Story'
  BY <1>1, <1>5, <1>8, <1>11, <1>12, <1>14, <1>15, <1>16, StoryOne
<1>18. QED
  BY <1>9, <1>17 DEF Inner

LEMMA LeaveIdleKeeps ==
  ASSUME KeepRecords, Inner, Served, LeaveIdle, UNCHANGED commands
  PROVE  Inner'
<1>1. PICK x : x = exchange_id
  OBVIOUS
<1>2. /\ stage = "works" /\ waiting = <<>> /\ stage' = "over" /\ active' = FALSE
      /\ Emit(<<QueueUpdate(<<>>)>>) /\ UNCHANGED <<waiting, lead, caller>>
  BY DEF LeaveIdle
<1>3. /\ exchange_id' = x /\ UNCHANGED interrupted /\ Extra' = Extra /\ Main' = Main
      /\ Main \notin Asked(commands) /\ ~Done /\ kind = "prompt" /\ x # 0 /\ lead = 0 /\ 0 \notin Extra
      /\ Ordered(waiting, Extra, Steers)
  BY <1>1, <1>2, RunGoesOn
<1>4. <<>> \in Seq(Queued) /\ IdsIn(<<>>) = {}
  BY DEF IdsIn
<1>5. PICK a \in Record : a = QueueUpdate(<<>>) /\ a.type = "queue_update" /\ a.waiting = <<>>
  BY <1>4, RecordsTyped
<1>6. Emit(<<a>>) /\ records' = Append(records, a)
  BY <1>2, <1>5, EmitKept
<1>7. Typed' /\ Exchange' /\ Traffic' /\ Written' /\ Placed' /\ Rests' /\ Quiet'
  BY <1>2, <1>3, <1>4, <1>5, <1>6, RunKept
<1>8. PICK T : \E l \in Point : Told(T) /\ l = T[Len(T)] /\ ~l.over /\ Ends(l)
  BY <1>2, RunPoint
<1>9. PICK l \in Point : Told(T) /\ l = T[Len(T)] /\ ~l.over /\ Ends(l)
  BY <1>8
<1>10. PICK m : m = After(l, a, x)
  OBVIOUS
<1>11. /\ \A r \in Extra : <<r, "main">> \in Asked(commands) => r \notin l.heard
       /\ ~interrupted => l.here = {} /\ l.gone = {}
  BY <1>2, <1>4, <1>9 DEF Ends, Holds, Live
<1>12. /\ m.led = l.led /\ m.over = l.over /\ m.heard = l.heard
       /\ m.here = {} /\ m.gone = l.gone \cup (l.here \ {}) /\ m.neat
  BY <1>4, <1>5, <1>10, AfterUpdate
<1>13. Fits(l, a, x, Extra, Steers, ~interrupted)
  BY <1>2, <1>3, <1>4, <1>5 DEF Fits, Listable, Accepts, Updates, Rejects, Delivers
<1>14. Ends(m)'
  <2>1. ~interrupted' => Holds(m)'
    BY <1>2, <1>3, <1>4, <1>11, <1>12 DEF Holds, Live
  <2>2. QED
    BY <1>1, <1>2, <1>3, <1>4, <1>11, <1>12, <2>1 DEF Ends
<1>15. Story'
  BY <1>1, <1>3, <1>6, <1>9, <1>10, <1>12, <1>13, <1>14, StoryOne
<1>16. QED
  BY <1>7, <1>15 DEF Inner

LEMMA TwoElements ==
  ASSUME NEW R, NEW a \in R, NEW b \in R
  PROVE  <<a>> \o <<b>> = <<a, b>>
<1> DEFINE s == <<a>> \o <<b>>
           t == <<a, b>>
<1>1. s \in Seq(R) /\ Len(s) = 2 /\ s[1] = a /\ s[2] = b
  OBVIOUS
<1>2. t \in Seq(R) /\ Len(t) = 2 /\ t[1] = a /\ t[2] = b
  OBVIOUS
<1> HIDE DEF s, t
<1>3. Len(s) = Len(t) /\ \A i \in 1 .. Len(s) : s[i] = t[i]
  BY <1>1, <1>2
<1>4. s = t
  BY <1>1, <1>2, <1>3, SeqEqual
<1>5. QED
  BY <1>4 DEF s, t

LEMMA LeaveCancelledKeeps ==
  ASSUME KeepRecords, Inner, Served, LeaveCancelled, UNCHANGED commands
  PROVE  Inner'
<1>1. PICK x : x = exchange_id
  OBVIOUS
<1>2. /\ stage = "works" /\ stage' = "over" /\ waiting' = <<>>
      /\ UNCHANGED <<records, active, lead, caller>>
  BY DEF LeaveCancelled
<1>3. /\ exchange_id' = x /\ UNCHANGED interrupted /\ Extra' = Extra /\ Main' = Main
      /\ Main \notin Asked(commands) /\ ~Done /\ kind = "prompt" /\ x # 0 /\ lead = 0 /\ 0 \notin Extra
  BY <1>1, <1>2, RunGoesOn
<1>4. /\ <<>> \in Seq(Queued) /\ IdsIn(<<>>) = {} /\ Ordered(<<>>, Extra, Steers)
  BY DEF IdsIn, Ordered
<1>5. PICK a \in Record : a = Failed /\ a.type = "failed"
  BY RecordsTyped
<1>6. Typed' /\ Exchange' /\ Traffic' /\ Written' /\ Placed' /\ Rests' /\ Quiet'
  BY <1>2, <1>3, <1>4, <1>5, RunKept
<1>7. PICK T : \E l \in Point : Told(T) /\ l = T[Len(T)] /\ ~l.over /\ Ends(l)
  BY <1>2, RunPoint
<1>8. PICK l \in Point : Told(T) /\ l = T[Len(T)] /\ ~l.over /\ Ends(l)
  BY <1>7
<1>9. Ends(l)'
  <2>1. ~interrupted' => Holds(l)'
    BY <1>2, <1>3, <1>4, <1>8 DEF Ends, Holds, Live
  <2>2. QED
    BY <1>1, <1>2, <1>3, <1>4, <1>8, <2>1 DEF Ends
<1>10. Story'
  BY <1>2, <1>3, <1>8, <1>9, StoryNone
<1>11. QED
  BY <1>6, <1>10 DEF Inner

LEMMA CloseKeeps ==
  ASSUME KeepRecords, Inner, Served, Close, UNCHANGED commands
  PROVE  Inner'
<1>1. PICK x : x = exchange_id
  OBVIOUS
<1>2. /\ stage = "over" /\ stage' = "none" /\ active' = FALSE /\ waiting' = <<>>
      /\ Emit(<<QueueUpdate(<<>>), Settled>>) /\ UNCHANGED <<lead, caller>>
  BY DEF Close
<1>3. /\ exchange_id' = x /\ UNCHANGED interrupted /\ Extra' = Extra /\ Main' = Main
      /\ Main \notin Asked(commands) /\ ~Done /\ kind = "prompt" /\ x # 0 /\ lead = 0 /\ 0 \notin Extra
  BY <1>1, <1>2, RunGoesOn
<1>4. /\ <<>> \in Seq(Queued) /\ IdsIn(<<>>) = {} /\ \A E, S : Ordered(<<>>, E, S)
  BY DEF IdsIn, Ordered
<1>5. PICK a \in Record : a = QueueUpdate(<<>>) /\ a.type = "queue_update" /\ a.waiting = <<>>
  BY <1>4, RecordsTyped
<1>6. PICK b \in Record : b = Settled /\ b.type = "agent_settled"
  BY RecordsTyped
<1>7. Emit(<<a, b>>) /\ records' = Append(Append(records, a), b)
  BY <1>2, <1>5, <1>6, EmitKept
<1>8. Typed' /\ Exchange' /\ Traffic' /\ Written' /\ Placed' /\ Rests' /\ Quiet'
  BY <1>2, <1>3, <1>4, <1>5, <1>6, <1>7, RunKept
<1>9. PICK T : \E l \in Point : Told(T) /\ l = T[Len(T)] /\ ~l.over /\ Ends(l)
  BY <1>2, RunPoint
<1>10. PICK l \in Point : Told(T) /\ l = T[Len(T)] /\ ~l.over /\ Ends(l)
  BY <1>9
<1>11. PICK m \in Point : m = After(l, a, x)
  BY AfterPoint
<1>12. PICK n : n = After(m, b, x)
  OBVIOUS
<1>13. /\ \A r \in Extra : <<r, "main">> \in Asked(commands) => r \notin l.heard
       /\ ~interrupted => /\ \A r \in l.here \cup l.gone : <<r, "main">> \notin Asked(commands)
  BY <1>10 DEF Ends, Holds
<1>14. /\ m.led = l.led /\ m.over = l.over /\ m.heard = l.heard
       /\ m.here = {} /\ m.gone = l.gone \cup (l.here \ {}) /\ m.neat
  BY <1>4, <1>5, <1>11, AfterUpdate
<1>15. n.led = m.led /\ n.over /\ n.heard = m.heard /\ n.here = m.here /\ n.gone = m.gone /\ n.neat = m.neat
  BY <1>6, <1>12, AfterSettled
<1>16. Fits(l, a, x, Extra, Steers, ~interrupted)
  <2>1. IdsIn(a.waiting) \subseteq l.here /\ Ordered(a.waiting, Extra, Steers)
    BY <1>4, <1>5
  <2>2. QED
    BY <1>5, <2>1 DEF Fits, Listable, Accepts, Updates, Rejects, Delivers
<1>17. Fits(m, b, x, Extra, Steers, ~interrupted)
  BY <1>6, <1>10, <1>14 DEF Fits, Listable, Accepts, Updates, Rejects, Delivers
<1>18. Ends(n)' /\ Done'
  <2>1. ~interrupted' => Holds(n)'
    BY <1>2, <1>3, <1>4, <1>13, <1>14, <1>15 DEF Holds, Live
  <2>2. QED
    BY <1>1, <1>2, <1>3, <1>4, <1>13, <1>14, <1>15, <2>1 DEF Ends, Done
<1>19. Story'
  BY <1>1, <1>3, <1>7, <1>10, <1>11, <1>12, <1>16, <1>17, <1>18, StoryTwo
<1>20. QED
  BY <1>8, <1>19 DEF Inner

LEMMA LeaveFailedKeeps ==
  ASSUME KeepRecords, Inner, Served, LeaveFailed, UNCHANGED commands
  PROVE  Inner'
<1>1. PICK x : x = exchange_id
  OBVIOUS
<1>2. PICK q \in {waiting} \cup (IF waiting = <<>> THEN {} ELSE {Tail(waiting)}) :
        /\ stage \in {"turn", "works"}
        /\ stage' = "over" /\ active' = FALSE /\ waiting' = <<>> /\ lead' = 0
        /\ Emit(<<Failed>> \o IF q = <<>> THEN <<>> ELSE <<QueueRejected(Last(q).id)>>)
        /\ UNCHANGED caller
  BY DEF LeaveFailed
<1>3. /\ exchange_id' = x /\ UNCHANGED interrupted /\ Extra' = Extra /\ Main' = Main
      /\ Main \notin Asked(commands) /\ ~Done /\ kind = "prompt" /\ x # 0 /\ 0 \notin Extra
      /\ waiting \in Seq(Queued) /\ Ordered(waiting, Extra, Steers)
  BY <1>1, <1>2, RunGoesOn
<1>4. /\ <<>> \in Seq(Queued) /\ IdsIn(<<>>) = {} /\ \A E, S : Ordered(<<>>, E, S)
  BY DEF IdsIn, Ordered
<1>5. PICK a \in Record : a = Failed /\ a.type = "failed"
  BY RecordsTyped
<1>6. PICK T : \E l \in Point : Told(T) /\ l = T[Len(T)] /\ ~l.over /\ Ends(l)
  BY <1>2, RunPoint
<1>7. PICK l \in Point : Told(T) /\ l = T[Len(T)] /\ ~l.over /\ Ends(l)
  BY <1>6
<1>8. /\ \A r \in Extra : <<r, "main">> \in Asked(commands) => r \notin l.heard
      /\ ~interrupted => /\ \A r \in l.here \cup l.gone : <<r, "main">> \notin Asked(commands)
                         /\ l.here = IdsIn(waiting)
  BY <1>2, <1>7 DEF Ends, Holds, Live
<1>9. l = After(l, a, x) /\ Fits(l, a, x, Extra, Steers, ~interrupted)
  <2>1. l = After(l, a, x)
    BY <1>5, AfterOther DEF Accepts
  <2>2. QED
    BY <1>5, <2>1 DEF Fits, Listable, Accepts, Updates, Rejects, Delivers
<1>10. CASE q = <<>>
  <2>1. Emit(<<a>>) /\ records' = Append(records, a)
    <3>1. <<Failed>> \o <<>> = <<Failed>>
      OBVIOUS
    <3>2. QED
      BY <1>2, <1>5, <1>10, <3>1, EmitKept
  <2>2. Typed' /\ Exchange' /\ Traffic' /\ Written' /\ Placed' /\ Rests' /\ Quiet'
    BY <1>2, <1>3, <1>4, <1>5, <2>1, RunKept
  <2>3. Ends(l)'
    <3>1. ~interrupted' => Holds(l)'
      BY <1>2, <1>3, <1>4, <1>8 DEF Holds, Live
    <3>2. QED
      BY <1>1, <1>2, <1>3, <1>4, <1>8, <3>1 DEF Ends
  <2>4. Story'
    BY <1>1, <1>3, <1>7, <1>9, <2>1, <2>3, StoryOne
  <2>5. QED
    BY <2>2, <2>4 DEF Inner
<1>11. CASE q # <<>>
  <2>1. PICK p : p = Last(q).id
    OBVIOUS
  <2>2. p \in IdsIn(waiting) /\ p \in Prompts
    <3>1. q \in Seq(Queued)
      BY <1>2, <1>3
    <3>2. Len(q) \in DOMAIN q /\ Last(q) = q[Len(q)]
      BY <1>11, <3>1 DEF Last
    <3>3. p \in Prompts
      <4>1. q[Len(q)] \in Queued
        BY <3>1, <3>2
      <4>2. QED
        BY <2>1, <3>2, <4>1 DEF Queued
    <3>4. \E i \in DOMAIN waiting : q[Len(q)] = waiting[i]
      <4>1. CASE q = waiting
        BY <3>2, <4>1
      <4>2. CASE waiting # <<>> /\ q = Tail(waiting)
        BY <1>3, <3>2, <4>2, TailElements
      <4>3. QED
        BY <1>2, <4>1, <4>2
    <3>5. QED
      BY <2>1, <3>2, <3>3, <3>4 DEF IdsIn
  <2>3. PICK b \in Record : b = QueueRejected(p) /\ b.type = "queue_rejected" /\ b.prompt = p
    BY <2>2, RecordsTyped
  <2>4. Emit(<<a, b>>) /\ records' = Append(Append(records, a), b)
    <3>1. <<a>> \o <<b>> = <<a, b>>
      BY TwoElements
    <3>2. QED
      BY <1>2, <1>5, <1>11, <2>1, <2>3, <3>1, EmitKept
  <2>5. Typed' /\ Exchange' /\ Traffic' /\ Written' /\ Placed' /\ Rests' /\ Quiet'
    BY <1>2, <1>3, <1>4, <1>5, <2>3, <2>4, RunKept
  <2>6. PICK n : n = After(l, b, x)
    OBVIOUS
  <2>7. n.led = l.led /\ n.over = l.over /\ n.heard = l.heard /\ n.here = {} /\ n.gone = {} /\ n.neat
    BY <2>3, <2>6, AfterRejected
  <2>8. Fits(l, b, x, Extra, Steers, ~interrupted)
    BY <1>8, <2>2, <2>3 DEF Fits, Listable, Accepts, Updates, Rejects, Delivers
  <2>9. Ends(n)'
    <3>1. ~interrupted' => Holds(n)'
      BY <1>2, <1>3, <1>4, <2>7 DEF Holds, Live
    <3>2. QED
      BY <1>1, <1>2, <1>3, <1>4, <1>8, <2>7, <3>1 DEF Ends
  <2>10. Story'
    BY <1>1, <1>3, <1>7, <1>9, <2>4, <2>6, <2>7, <2>8, <2>9, StoryTwo
  <2>11. QED
    BY <2>5, <2>10 DEF Inner
<1>12. QED
  BY <1>10, <1>11

-----------------------------------------------------------------------------
(* The engine's answers.                                                   *)

\* A submission joins those that wait.
LEMMA WaitKeeps ==
  ASSUME KeepRecords, Inner, Served, Wait
  PROVE  Inner'
<1>1. PICK x : x = exchange_id
  OBVIOUS
<1>2. PICK h : h = Head(commands)
  OBVIOUS
<1>3. PICK e : e = Submission(h)
  OBVIOUS
<1>4. PICK q : q = Insert(waiting, e)
  OBVIOUS
<1>5. /\ Taken /\ h.kind = "prompt" /\ active /\ h.mode # "none" /\ waiting' = q
      /\ Emit(<<Response(h.id, TRUE), QueueUpdate(q)>>) /\ UNCHANGED <<active, stage, lead, caller>>
  BY <1>2, <1>3, <1>4 DEF Wait, Take, Taken
<1>6. kind = "prompt" /\ \E p \in Extra : h.id = <<p, "main">> /\ h.mode = mode[p] /\ p \in Nat /\ p # x
  BY <1>1, <1>2, <1>5, PromptTaken
<1>7. PICK p \in Extra : h.id = <<p, "main">> /\ h.mode = mode[p] /\ p \in Nat /\ p # x
  BY <1>6
<1>8. stage \notin {"none", "task"}
  BY <1>5, <1>6 DEF Inner, Rests
<1>9. /\ exchange_id' = x /\ UNCHANGED <<interrupted, rejection, kind>> /\ Extra' = Extra /\ Main' = Main /\ Steers' = Steers
      /\ Main \notin Asked(commands) /\ ~Done /\ x # 0 /\ 0 \notin Extra /\ ~Refused /\ Extra \subseteq Prompts
      /\ Exchange' /\ Written' /\ Quiet' /\ caller \in Ids /\ lead \in Nat
      /\ waiting \in Seq(Queued) /\ Ordered(waiting, Extra, Steers) /\ Owed = {}
      /\ \A r \in IdsIn(waiting) : <<r, "main">> \notin Asked(commands)
      /\ lead # 0 => /\ lead \in {x} \cup Extra
                     /\ lead \notin IdsIn(waiting) /\ <<lead, "main">> \notin Asked(commands)
  BY <1>1, <1>5, <1>8, RunGoesOn, EngineLeaves
<1>10. /\ <<p, "main">> \in Asked(commands) /\ h.id \in Ids /\ Asked(commands') = Asked(commands) \ {<<p, "main">>}
       /\ p \notin IdsIn(waiting) /\ p # lead
  <2>1. h.id \in Asked(commands) /\ h.id \in Ids /\ Asked(commands') = Asked(commands) \ {h.id}
    BY <1>2, <1>5, CommandTaken
  <2>2. QED
    BY <1>7, <1>9, <2>1
<1>11. e \in Queued /\ e.id = p /\ (e.steer <=> p \in Steers)
  <2>1. h.id[1] = p
    <3>1. <<p, "main">>[1] = p
      OBVIOUS
    <3>2. QED
      BY <1>7, <3>1
  <2>2. e = [id |-> p, steer |-> h.mode = "steer"]
    BY <1>3, <2>1 DEF Submission
  <2>3. p \in Prompts /\ (h.mode = "steer" <=> p \in Steers)
    BY <1>7, <1>9 DEF Steers
  <2>4. QED
    BY <2>2, <2>3 DEF Queued
<1>12. q \in Seq(Queued) /\ IdsIn(q) = IdsIn(waiting) \cup {p} /\ Ordered(q, Extra, Steers)
  <2>1. e.id \notin IdsIn(waiting) /\ e.id \in Extra /\ (e.steer <=> e.id \in Steers)
    BY <1>10, <1>11
  <2>2. QED
    BY <1>4, <1>9, <1>11, <2>1, InsertOrdered
<1>13. PICK a \in Record : a = Response(h.id, TRUE) /\ a.type = "response" /\ a.id = h.id /\ a.ok
  BY <1>10, RecordsTyped
<1>14. PICK b \in Record : b = QueueUpdate(q) /\ b.type = "queue_update" /\ b.waiting = q
  BY <1>12, RecordsTyped
<1>15. Emit(<<a, b>>) /\ records' = Append(Append(records, a), b) /\ records' \in Seq(Record)
  BY <1>5, <1>13, <1>14, EmitKept
<1>16. Typed'
  BY <1>5, <1>9, <1>12, <1>15, TypedServed
<1>17. Traffic'
  <2>1. Owed' = Owed
    BY <1>5 DEF Owed
  <2>2. QED
    BY <1>2, <1>5, <1>7, <1>13, <1>14, <1>15, <2>1, TrafficServed
<1>18. Placed'
  <2>1. /\ \A i \in DOMAIN commands' : kind' = "prompt" =>
             /\ commands'[i].kind = "prompt" <=> commands'[i].id[2] = "main"
             /\ commands'[i].kind = "prompt" => commands'[i].mode = mode'[commands'[i].id[1]]
    BY <1>5, CommandsLeft
  <2>2. \A r \in IdsIn(waiting') : <<r, "main">> \notin Asked(commands')
    BY <1>5, <1>9, <1>10, <1>12
  <2>3. lead' # 0 => /\ lead' \in {x} \cup Extra
                     /\ lead' \notin IdsIn(waiting') /\ <<lead', "main">> \notin Asked(commands')
    BY <1>5, <1>9, <1>10, <1>12
  <2>4. QED
    BY <1>5, <1>9, <1>12, <2>1, <2>2, <2>3 DEF Placed
<1>19. Rests'
  <2>1. ~Refused'
    BY <1>5, <1>9, <1>13, <1>14, <1>15, RefusedLater
  <2>2. QED
    BY <1>1, <1>5, <1>6, <1>8, <1>9, <1>10, <2>1 DEF Rests, Inner
<1>20. PICK T : \E l \in Point : Told(T) /\ l = T[Len(T)] /\ ~l.over /\ Ends(l)
  BY <1>8, RunPoint
<1>21. PICK l \in Point : Told(T) /\ l = T[Len(T)] /\ ~l.over /\ Ends(l)
  BY <1>20
<1>22. PICK m \in Point : m = After(l, a, x)
  BY AfterPoint
<1>23. PICK n : n = After(m, b, x)
  OBVIOUS
<1>24. Accepts(a, x) /\ a.id[1] = p /\ a.id # Main
  <2>1. <<p, "main">>[1] = p /\ <<x, "main">>[1] = x
    OBVIOUS
  <2>2. <<p, "main">> # <<x, "main">>
    BY <1>7, <2>1
  <2>3. QED
    BY <1>1, <1>7, <1>13, <2>1, <2>2 DEF Accepts, Main
<1>25. /\ m.led = l.led /\ m.over = l.over /\ m.heard = l.heard
       /\ m.here = l.here \cup {p} /\ m.gone = l.gone /\ ~m.neat
  BY <1>22, <1>24, AfterAccepted
<1>26. /\ n.led = m.led /\ n.over = m.over /\ n.heard = m.heard
       /\ n.here = IdsIn(q) /\ n.gone = m.gone \cup (m.here \ IdsIn(q)) /\ n.neat
  BY <1>14, <1>23, AfterUpdate
<1>27. /\ lead = x => l.led
       /\ stage = "works" \/ (stage = "turn" /\ lead # x) => ~l.led
       /\ \A r \in Extra : r \in IdsIn(waiting) \/ <<r, "main">> \in Asked(commands) \/ r = lead => r \notin l.heard
       /\ ~interrupted => /\ \A r \in l.here \cup l.gone : <<r, "main">> \notin Asked(commands)
                          /\ IdsIn(waiting) \subseteq l.here
                          /\ Live => /\ l.here = IdsIn(waiting) /\ l.neat
                                     /\ l.gone = IF stage = "turn" /\ lead # x THEN {lead} ELSE {}
  BY <1>1, <1>21 DEF Ends, Holds
<1>28. Fits(l, a, x, Extra, Steers, ~interrupted)
  <2>1. ~interrupted => p \in Extra \ (l.here \cup l.gone)
    BY <1>10, <1>27
  <2>2. QED
    BY <1>13, <1>24, <2>1 DEF Fits, Listable, Accepts, Updates, Rejects, Delivers
<1>29. Fits(m, b, x, Extra, Steers, ~interrupted)
  <2>1. ~interrupted => IdsIn(q) \subseteq m.here
    BY <1>12, <1>25, <1>27
  <2>2. QED
    BY <1>12, <1>14, <2>1 DEF Fits, Listable, Accepts, Updates, Rejects, Delivers
<1>30. Ends(n)'
  <2>1. \A r \in Extra : r \in IdsIn(q) \/ <<r, "main">> \in Asked(commands') \/ r = lead => r \notin n.heard
    BY <1>10, <1>12, <1>25, <1>26, <1>27
  <2>2. ~interrupted' => Holds(n)'
    <3> SUFFICES ASSUME ~interrupted PROVE Holds(n)'
      BY <1>9
    <3>1. n.gone \subseteq l.gone \cup l.here /\ n.here = IdsIn(waiting) \cup {p}
      BY <1>12, <1>25, <1>26
    <3>2. \A r \in n.here \cup n.gone : <<r, "main">> \notin Asked(commands')
      BY <1>9, <1>10, <1>27, <3>1
    <3>3. Live => n.gone = l.gone
      BY <1>12, <1>25, <1>26, <1>27
    <3>4. Live' <=> Live
      BY <1>5 DEF Live
    <3>5. Main \notin Asked(commands')
      BY <1>9, <1>10
    <3>6. QED
      BY <1>1, <1>5, <1>9, <1>12, <1>26, <1>27, <3>2, <3>3, <3>4, <3>5 DEF Holds
  <2>3. Main \notin Asked(commands')
    BY <1>9, <1>10
  <2>4. QED
    BY <1>1, <1>5, <1>9, <1>25, <1>26, <1>27, <2>1, <2>2, <2>3 DEF Ends
<1>31. Story'
  BY <1>1, <1>5, <1>6, <1>9, <1>15, <1>21, <1>22, <1>23, <1>25, <1>26, <1>28, <1>29, <1>30, StoryTwo
<1>32. QED
  BY <1>9, <1>16, <1>17, <1>18, <1>19, <1>31 DEF Inner

\* A record that is neither a delivery nor the end of a run.
LEMMA AfterSilent ==
  ASSUME NEW c \in Point, NEW r, r.type \notin {"message_start", "agent_settled"}, NEW x, NEW d, d = After(c, r, x)
  PROVE  d.led = c.led /\ d.over = c.over /\ d.heard = c.heard
<1>1. c.led \in BOOLEAN /\ c.over \in BOOLEAN
  BY DEF Point
<1>2. ~Delivers(r)
  BY DEF Delivers
<1>3. QED
  BY <1>1, <1>2 DEF After

\* Outside of a prompt's exchange, an answer is the only one.
LEMMA QuietAnswer ==
  ASSUME Inner, Served, UNCHANGED commands \/ Taken, kind # "prompt", NEW a \in Record, NEW b \in Record,
         a.type = "response", a.id \in Asked(commands) \cup Owed, b = QueueUpdate(<<>>), b.type # "response",
         Emit(<<a>>) \/ Emit(<<a, b>>)
  PROVE  Quiet'
<1>1. /\ UNCHANGED <<kind, exchange_id, fate>>
      /\ UNCHANGED <<shown, early, initial>>
  BY EngineLeaves DEF Served, display
<1>2. Expects(a.id) /\ a.id \notin Answered(records)
  BY DEF Inner, Traffic, OnTheWay
<1>3. kind \in {"prompt", "compact", "request"}
  BY <1>2, NothingExpected
<1>4. ASSUME kind = "request" PROVE Responses(records) = {}
  <2>1. \A id : Expects(id) => id = <<exchange_id, "request">>
    BY <1>4 DEF Expects
  <2>2. ASSUME NEW k \in Responses(records) PROVE FALSE
    <3>1. records[k].id \in Answered(records)
      BY DEF Answered
    <3>2. Expects(records[k].id)
      BY <3>1 DEF Inner, Traffic, OnTheWay
    <3>3. QED
      BY <1>2, <2>1, <3>1, <3>2
  <2>3. QED
    BY <2>2
<1>5. ASSUME kind = "request", NEW k \in Responses(records'), NEW j \in DOMAIN records', k < j
      PROVE  records'[j] = QueueUpdate(<<>>)
  <2>1. records \in Seq(Record) /\ Len(records) \in Nat /\ DOMAIN records = 1 .. Len(records)
    BY DEF Inner, Typed, WireTyped
  <2>2. k \in DOMAIN records' /\ records'[k].type = "response"
    BY <1>5 DEF Responses
  <2>3. \A i \in DOMAIN records' :
          \/ i \in DOMAIN records /\ records'[i] = records[i]
          \/ i = Len(records) + 1 /\ records'[i] = a
          \/ i = Len(records) + 2 /\ records'[i] = b
    BY <2>1, EmitAdds
  <2>4. ~(k \in DOMAIN records /\ records'[k] = records[k])
    BY <1>4, <1>5, <2>2 DEF Responses
  <2>5. k = Len(records) + 1
    BY <2>2, <2>3, <2>4
  <2>6. records'[j] = b
    BY <1>5, <2>1, <2>3, <2>5
  <2>7. QED
    BY <2>6
<1>6. QED
  BY <1>1, <1>3, <1>5 DEF Inner, Quiet

\* The engine answers a command that submits nothing; what waits may be dropped.
LEMMA CancelKeeps ==
  ASSUME KeepRecords, Inner, Served, Taken, Head(commands).kind # "prompt", NEW a \in Record, NEW b \in Record,
         a.type = "response", a.id = Head(commands).id, b = QueueUpdate(<<>>), b.type = "queue_update", b.waiting = <<>>,
         Emit(<<a>>) \/ Emit(<<a, b>>), waiting' \in {waiting, <<>>}, UNCHANGED <<active, stage, lead, caller>>
  PROVE  Inner'
<1>1. PICK x : x = exchange_id
  OBVIOUS
<1>2. /\ UNCHANGED <<kind, interrupted, rejection>> /\ exchange_id' = x /\ Exchange' /\ Written'
      /\ Extra' = Extra /\ Steers' = Steers /\ Main' = Main
  BY <1>1, EngineLeaves
<1>3. /\ a.id \in Asked(commands) /\ Asked(commands') = Asked(commands) \ {a.id}
      /\ \A i \in DOMAIN commands' : kind' = "prompt" =>
             /\ commands'[i].kind = "prompt" <=> commands'[i].id[2] = "main"
             /\ commands'[i].kind = "prompt" => commands'[i].mode = mode'[commands'[i].id[1]]
  BY CommandTaken, CommandsLeft
<1>4. <<>> \in Seq(Queued) /\ IdsIn(<<>>) = {} /\ Ordered(<<>>, Extra, Steers)
  BY DEF IdsIn, Ordered
<1>5. waiting \in Seq(Queued) /\ lead \in Nat /\ caller \in Ids /\ records \in Seq(Record)
  BY DEF Inner, Typed, WireTyped
<1>6. waiting' \in Seq(Queued) /\ Ordered(waiting', Extra, Steers) /\ IdsIn(waiting') \subseteq IdsIn(waiting)
  BY <1>4, <1>5 DEF Inner, Placed
<1>7. records' \in Seq(Record)
  BY EmitKept
<1>8. Typed'
  BY <1>5, <1>6, <1>7, TypedServed
<1>9. Traffic'
  <2>1. Owed' = Owed
    BY DEF Owed
  <2>2. QED
    BY <2>1, TrafficServed
<1>10. Placed'
  <2>1. \A p \in IdsIn(waiting') : <<p, "main">> \notin Asked(commands')
    BY <1>3, <1>6 DEF Inner, Placed
  <2>2. lead' # 0 => /\ lead' \in {x} \cup Extra
                     /\ lead' \notin IdsIn(waiting') /\ <<lead', "main">> \notin Asked(commands')
    BY <1>1, <1>3, <1>6 DEF Inner, Placed
  <2>3. QED
    BY <1>2, <1>3, <1>6, <2>1, <2>2 DEF Placed
<1>11. kind = "prompt" => interrupted /\ a.id # Main /\ \A p : a.id # <<p, "main">>
  BY CancelTaken
<1>12. Rests'
  <2>1. kind = "prompt" /\ Refused' => Refused
    BY <1>11, RefusedLater
  <2>2. kind = "prompt" => (Main' \in Asked(commands') <=> Main \in Asked(commands))
    BY <1>2, <1>3, <1>11
  <2>3. QED
    BY <1>1, <1>2, <2>1, <2>2 DEF Inner, Rests
<1>13. CASE kind = "prompt"
  <2>1. Quiet'
    BY <1>13, QuietServed
  <2>2. PICK T : Told(T)
    BY <1>13 DEF Inner, Story
  <2>3. PICK l \in Point : l = T[Len(T)] /\ Ends(l) /\ (l.over => Done)
    BY <2>2, LastPoint DEF Told
  <2>4. PICK m \in Point : m = After(l, a, x)
    BY AfterPoint
  <2>5. PICK n : n = After(m, b, x)
    OBVIOUS
  <2>6. m.led = l.led /\ m.over = l.over /\ m.heard = l.heard
    BY <2>4, AfterSilent
  <2>7. n.led = m.led /\ n.over = m.over /\ n.heard = m.heard
    BY <2>5, AfterSilent
  <2>8. Done => Done'
    BY <1>2, <1>3, <1>11, <1>13 DEF Done
  <2>9. ASSUME NEW c, c.led = l.led, c.heard = l.heard PROVE Ends(c)'
    <3>1. \A p \in Extra : p \in IdsIn(waiting') \/ <<p, "main">> \in Asked(commands') \/ p = lead => p \notin c.heard
      BY <1>3, <1>6, <2>3, <2>9 DEF Ends
    <3>2. /\ Main \in Asked(commands') \/ lead = x => c.led
          /\ stage = "works" \/ (stage = "turn" /\ lead # x) => ~c.led
      BY <1>1, <1>3, <2>3, <2>9 DEF Ends
    <3>3. QED
      BY <1>2, <1>11, <1>13, <3>1, <3>2 DEF Ends
  <2>10. \A r \in {a, b} : \A c : Fits(c, r, x, Extra, Steers, ~interrupted)
    BY <1>11, <1>13 DEF Fits, Delivers
  <2>11. Story'
    <3>1. CASE Emit(<<a>>)
      <4>1. records' = Append(records, a)
        BY <3>1, EmitKept
      <4>2. Ends(m)'
        BY <2>6, <2>9
      <4>3. QED
        BY <1>1, <1>13, <2>2, <2>3, <2>4, <2>6, <2>8, <2>10, <4>1, <4>2, StoryOne
    <3>2. CASE Emit(<<a, b>>)
      <4>1. records' = Append(Append(records, a), b)
        BY <3>2, EmitKept
      <4>2. Ends(n)'
        BY <2>6, <2>7, <2>9
      <4>3. QED
        BY <1>1, <1>13, <2>2, <2>3, <2>4, <2>5, <2>6, <2>7, <2>8, <2>10, <4>1, <4>2, StoryTwo
    <3>3. QED
      BY <3>1, <3>2
  <2>12. QED
    BY <1>2, <1>8, <1>9, <1>10, <1>12, <2>1, <2>11 DEF Inner
<1>14. CASE kind # "prompt"
  <2>1. Quiet'
    BY <1>3, <1>14, QuietAnswer
  <2>2. Story'
    BY <1>14, StorySame
  <2>3. QED
    BY <1>2, <1>8, <1>9, <1>10, <1>12, <2>1, <2>2 DEF Inner
<1>15. QED
  BY <1>13, <1>14

LEMMA ClearWaitingKeeps ==
  ASSUME KeepRecords, Inner, Served, ClearWaiting
  PROVE  Inner'
<1>1. PICK h : h = Head(commands)
  OBVIOUS
<1>2. /\ Taken /\ h.kind # "prompt" /\ waiting' = <<>>
      /\ Emit(<<Response(h.id, TRUE), QueueUpdate(<<>>)>>) /\ UNCHANGED <<active, stage, lead, caller>>
  BY <1>1 DEF ClearWaiting, Take, Taken
<1>3. h.id \in Ids
  BY <1>1, <1>2, CommandTaken
<1>4. PICK a \in Record : a = Response(h.id, TRUE) /\ a.type = "response" /\ a.id = h.id
  BY <1>3, RecordsTyped
<1>5. PICK b \in Record : b = QueueUpdate(<<>>) /\ b.type = "queue_update" /\ b.waiting = <<>>
  <2>1. <<>> \in Seq(Queued)
    OBVIOUS
  <2>2. QED
    BY <2>1, RecordsTyped
<1>6. QED
  BY <1>1, <1>2, <1>4, <1>5, CancelKeeps

\* A submission is refused.
LEMMA RefusalKeeps ==
  ASSUME KeepRecords, Inner, Served, Taken, Head(commands).kind = "prompt", Answer(FALSE), UNCHANGED work
  PROVE  Inner'
<1>1. PICK x : x = exchange_id
  OBVIOUS
<1>2. PICK h : h = Head(commands)
  OBVIOUS
<1>3. kind = "prompt" /\ (h.id = Main \/ \E p \in Extra : h.id = <<p, "main">>)
  BY <1>2, PromptTaken
<1>4. /\ UNCHANGED <<kind, interrupted, rejection>> /\ exchange_id' = x /\ Exchange' /\ Written'
      /\ Extra' = Extra /\ Steers' = Steers /\ Main' = Main
  BY <1>1, EngineLeaves
<1>5. /\ h.id \in Asked(commands) /\ Asked(commands') = Asked(commands) \ {h.id} /\ h.id \in Ids
      /\ \A i \in DOMAIN commands' : kind' = "prompt" =>
             /\ commands'[i].kind = "prompt" <=> commands'[i].id[2] = "main"
             /\ commands'[i].kind = "prompt" => commands'[i].mode = mode'[commands'[i].id[1]]
  BY <1>2, CommandTaken, CommandsLeft
<1>6. PICK a \in Record : a = Response(h.id, FALSE) /\ a.type = "response" /\ a.id = h.id /\ ~a.ok
  BY <1>5, RecordsTyped
<1>7. PICK b \in Record : b = Failed /\ b.type = "failed"
  BY RecordsTyped
<1>8. Emit(<<a>>) /\ records' = Append(records, a) /\ records' \in Seq(Record)
  BY <1>2, <1>6, <1>7, EmitKept DEF Answer
<1>9. UNCHANGED <<active, waiting, stage, lead, caller>>
  BY DEF work
<1>10. Typed'
  <2>1. waiting' \in Seq(Queued) /\ lead' \in Nat /\ caller' \in Ids
    BY <1>9 DEF Inner, Typed
  <2>2. QED
    BY <1>8, <2>1, TypedServed
<1>11. Traffic'
  <2>1. Owed' = Owed
    BY <1>9 DEF Owed
  <2>2. QED
    BY <1>2, <1>6, <1>7, <1>8, <2>1, TrafficServed
<1>12. Placed'
  <2>1. \A p \in IdsIn(waiting) : <<p, "main">> \notin Asked(commands')
    BY <1>5 DEF Inner, Placed
  <2>2. lead # 0 => <<lead, "main">> \notin Asked(commands')
    BY <1>5 DEF Inner, Placed
  <2>3. QED
    BY <1>1, <1>4, <1>5, <1>9, <2>1, <2>2 DEF Inner, Placed
<1>13. Rests'
  <2>1. Main' \in Asked(commands') \/ Refused' => stage = "none"
    <3>1. CASE h.id = Main
      <4>1. Main \in Asked(commands)
        BY <1>5, <3>1
      <4>2. QED
        BY <1>3, <4>1 DEF Inner, Rests
    <3>2. CASE h.id # Main
      <4>1. Refused' => Refused
        BY <1>6, <1>7, <1>8, <3>2, RefusedLater
      <4>2. QED
        BY <1>3, <1>4, <1>5, <4>1 DEF Inner, Rests
    <3>3. QED
      BY <3>1, <3>2
  <2>2. QED
    BY <1>1, <1>3, <1>4, <1>9, <2>1 DEF Inner, Rests
<1>14. Quiet'
  BY <1>3, QuietServed
<1>15. PICK T : Told(T)
  BY <1>3 DEF Inner, Story
<1>16. PICK l \in Point : l = T[Len(T)] /\ Ends(l) /\ (l.over => Done)
  BY <1>15, LastPoint DEF Told
<1>17. l = After(l, a, x) /\ Fits(l, a, x, Extra, Steers, ~interrupted)
  <2>1. ~Accepts(a, x)
    BY <1>6 DEF Accepts
  <2>2. l = After(l, a, x)
    BY <1>6, <2>1, AfterOther
  <2>3. QED
    BY <1>6, <2>1, <2>2 DEF Fits, Listable, Updates, Rejects, Delivers
<1>18. Done => Done'
  BY <1>4, <1>5, <1>9 DEF Done
<1>19. Ends(l)'
  <2>1. \A p \in Extra : p \in IdsIn(waiting) \/ <<p, "main">> \in Asked(commands') \/ p = lead => p \notin l.heard
    BY <1>5, <1>16 DEF Ends
  <2>2. ~interrupted => Holds(l)'
    BY <1>1, <1>4, <1>5, <1>9, <1>16 DEF Ends, Holds, Live
  <2>3. QED
    BY <1>1, <1>4, <1>5, <1>9, <1>16, <2>1, <2>2 DEF Ends
<1>20. Story'
  BY <1>1, <1>3, <1>8, <1>15, <1>16, <1>17, <1>18, <1>19, StoryOne
<1>21. QED
  BY <1>4, <1>10, <1>11, <1>12, <1>13, <1>14, <1>20 DEF Inner

LEMMA AnswerOnlyKeeps ==
  ASSUME KeepRecords, Inner, Served, AnswerOnly
  PROVE  Inner'
<1>1. PICK h : h = Head(commands)
  OBVIOUS
<1>2. PICK ok \in BOOLEAN : Taken /\ Answer(ok) /\ UNCHANGED work /\ (h.kind = "prompt" => ~ok)
  BY <1>1 DEF AnswerOnly, Take, Taken
<1>3. CASE h.kind = "prompt"
  <2>1. ok = FALSE
    BY <1>2, <1>3
  <2>2. QED
    BY <1>1, <1>2, <1>3, <2>1, RefusalKeeps
<1>4. CASE h.kind # "prompt"
  <2>1. h.id \in Ids
    BY <1>1, <1>2, CommandTaken
  <2>2. PICK a \in Record : a = Response(h.id, ok) /\ a.type = "response" /\ a.id = h.id
    BY <2>1, RecordsTyped
  <2>3. PICK b \in Record : b = QueueUpdate(<<>>) /\ b.type = "queue_update" /\ b.waiting = <<>>
    <3>1. <<>> \in Seq(Queued)
      OBVIOUS
    <3>2. QED
      BY <3>1, RecordsTyped
  <2>4. Emit(<<a>>) /\ UNCHANGED <<active, waiting, stage, lead, caller>>
    BY <1>1, <1>2, <2>2 DEF Answer, work
  <2>5. QED
    BY <1>1, <1>2, <1>4, <2>2, <2>3, <2>4, CancelKeeps
<1>5. QED
  BY <1>3, <1>4

\* A compaction or an extension command starts, and owes its answer.
LEMMA BeginTaskKeeps ==
  ASSUME KeepRecords, Inner, Served, BeginTask
  PROVE  Inner'
<1>1. PICK h : h = Head(commands)
  OBVIOUS
<1>2. /\ Taken /\ h.kind \in {"compact", "extension_command"} /\ ~active /\ stage = "none" /\ stage' = "task"
      /\ caller' = h.id /\ UNCHANGED <<records, waiting, lead>>
  BY <1>1 DEF BeginTask, Take, Taken
<1>3. h = commands[1] /\ 1 \in DOMAIN commands /\ h.id \in Ids /\ Asked(commands') = Asked(commands) \ {h.id}
  BY <1>1, <1>2, CommandTaken
<1>4. kind # "prompt"
  BY <1>2, <1>3 DEF Inner, Exchange, Commanded
<1>5. /\ Exchange' /\ Written' /\ Extra' = Extra /\ Steers' = Steers /\ Main' = Main
      /\ UNCHANGED <<kind, exchange_id, interrupted, rejection, fate>>
      /\ UNCHANGED <<shown, early, initial>>
  BY <1>2, EngineLeaves DEF Served, display
<1>6. records' \in Seq(Record) /\ waiting' \in Seq(Queued) /\ lead' \in Nat
  BY <1>2 DEF Inner, Typed, WireTyped
<1>7. waiting = <<>> /\ lead = 0 /\ IdsIn(<<>>) = {}
  BY <1>2 DEF Inner, Rests, IdsIn
<1>8. Typed'
  BY <1>2, <1>3, <1>6, TypedServed
<1>9. Traffic'
  <2>1. Owed' = {h.id} /\ Owed = {}
    BY <1>2 DEF Owed
  <2>2. PICK b \in Record : b = Failed /\ b.type = "failed"
    BY RecordsTyped
  <2>3. QED
    BY <1>1, <1>2, <2>1, <2>2, TrafficServed
<1>10. Placed'
  BY <1>2, <1>4, <1>5, <1>7 DEF Inner, Placed
<1>11. Rests'
  BY <1>2, <1>4, <1>5, <1>7 DEF Rests
<1>12. Quiet'
  BY <1>2, <1>5 DEF Inner, Quiet
<1>13. Story'
  BY <1>2, <1>4, StorySame
<1>14. QED
  BY <1>5, <1>8, <1>9, <1>10, <1>11, <1>12, <1>13 DEF Inner

\* It ends, and answers.
LEMMA EndOfTaskKeeps ==
  ASSUME KeepRecords, Inner, Served, EndOfTask, UNCHANGED commands
  PROVE  Inner'
<1>1. PICK ok \in BOOLEAN :
        /\ stage = "task" /\ stage' = "none" /\ active' = FALSE /\ caller' = <<0, "main">>
        /\ Emit(<<Response(caller, ok)>>) /\ UNCHANGED <<waiting, lead>>
  BY DEF EndOfTask
<1>2. kind # "prompt"
  BY <1>1 DEF Inner, Rests
<1>3. caller \in Ids /\ waiting' \in Seq(Queued) /\ lead' \in Nat /\ <<0, "main">> \in Ids
  BY <1>1 DEF Inner, Typed, WireTyped, Ids
<1>4. PICK a \in Record : a = Response(caller, ok) /\ a.type = "response" /\ a.id = caller
  BY <1>3, RecordsTyped
<1>5. PICK b \in Record : b = QueueUpdate(<<>>) /\ b.type = "queue_update" /\ b.waiting = <<>>
  <2>1. <<>> \in Seq(Queued)
    OBVIOUS
  <2>2. QED
    BY <2>1, RecordsTyped
<1>6. Emit(<<a>>) /\ records' \in Seq(Record)
  BY <1>1, <1>4, <1>5, EmitKept
<1>7. Owed = {caller} /\ Owed' = {}
  BY <1>1 DEF Owed
<1>8. /\ Exchange' /\ Written' /\ Extra' = Extra /\ Steers' = Steers /\ Main' = Main
      /\ UNCHANGED <<kind, exchange_id, interrupted, rejection, fate>>
  BY EngineLeaves
<1>9. waiting = <<>> /\ lead = 0 /\ IdsIn(<<>>) = {}
  BY <1>1 DEF Inner, Rests, IdsIn
<1>10. Typed'
  BY <1>1, <1>3, <1>6, TypedServed
<1>11. Traffic'
  BY <1>4, <1>5, <1>6, <1>7, TrafficServed
<1>12. Placed'
  BY <1>1, <1>2, <1>8, <1>9 DEF Inner, Placed
<1>13. Rests'
  BY <1>1, <1>2, <1>8, <1>9 DEF Rests
<1>14. Quiet'
  BY <1>2, <1>4, <1>5, <1>6, <1>7, QuietAnswer
<1>15. Story'
  BY <1>2, StorySame
<1>16. QED
  BY <1>8, <1>10, <1>11, <1>12, <1>13, <1>14, <1>15 DEF Inner

\* Whatever the engine does.
LEMMA EngineKeeps ==
  ASSUME KeepRecords, Inner, Served, Serve,
         ~(stage = "none" /\ stage' = "begins" /\ Head(commands).mode # "none")
  PROVE  Inner'
<1>1. CASE BeginRun
  <2>1. stage = "none" /\ stage' = "begins"
    BY <1>1 DEF BeginRun
  <2>2. QED
    BY <1>1, <2>1, BeginRunKeeps
<1>2. CASE Wait \/ ClearWaiting \/ AnswerOnly \/ BeginTask
  BY <1>2, WaitKeeps, ClearWaitingKeeps, AnswerOnlyKeeps, BeginTaskKeeps
<1>3. CASE Working /\ UNCHANGED commands
  BY <1>3, AnnounceKeeps, DeliverLeadKeeps, DeliverSteeringKeeps, TakeNextKeeps, LeaveIdleKeeps,
     LeaveCancelledKeeps, LeaveFailedKeeps, CloseKeeps, EndOfTaskKeeps DEF Working
<1>4. QED
  BY <1>1, <1>2, <1>3 DEF Serve

-----------------------------------------------------------------------------
(* The user's steps.                                                       *)

\* What the client and its socket keep, whatever is done at the composer.
LEMMA WireUser ==
  ASSUME Inner, ClientStep, UNCHANGED work
  PROVE  WireTyped' /\ Exchange' /\ Traffic' /\ Owed' = Owed
<1>1. WireTyped /\ Exchange /\ exchange_id \in 0 .. sent /\ Locals
  BY DEF Inner, Typed, Exchange, Locals
<1>2. WireTyped'
  <2>1. commands \in Seq(Command) /\ records \in Seq(Record) /\ sent \in 0 .. MaxPrompts
    BY <1>1 DEF WireTyped
  <2>2. sent' \in 0 .. MaxPrompts
    <3>1. sent' = sent \/ (sent < MaxPrompts /\ sent' = sent + 1)
      BY DEF ClientStep, SubmitPrompt, SubmitCompact, Open, AskStatus, AskRequest, Ask, QueueSubmission, Escape,
        EscapeCompact, ReadStep, ReadPrompt, AcknowledgeQueued, AcknowledgeClear, AcknowledgeAbort, AcknowledgePrompt,
        ObserveStart, ObserveSettled, ObserveQueue, ObserveDelivery, ObserveRejected, ObserveOther,
        Proceed, ReadCompact, ReadRequest
    <3>2. QED
      BY <2>1, <3>1, WireAssumption
  <2>3. CASE ReadStep /\ Reads
    BY <2>1, <2>2, <2>3, TailElements DEF Reads, WireTyped
  <2>4. CASE \E l \in Command : Opens(l) \/ Adds(l)
    <3>1. PICK l \in Command : UNCHANGED records /\ commands' = Append(commands, l)
      BY <2>4 DEF Opens, Adds
    <3>2. QED
      BY <2>1, <2>2, <3>1 DEF WireTyped
  <2>5. CASE \E l, m \in Command : AddsTwo(l, m)
    BY <2>1, <2>2, <2>5 DEF AddsTwo, WireTyped
  <2>6. QED
    BY <1>1, <2>3, <2>4, <2>5, ClientWire
<1>3. PICK o : o = Owed
  OBVIOUS
<1>4. Owed' = o
  BY <1>3 DEF Owed, work
<1>5. OnTheWay(o)
  BY <1>3 DEF Inner, Traffic
<1>6. OnTheWay(o)'
  BY <1>1, <1>5, TrafficUser
<1>7. Locals' /\ Commanded'
  BY <1>1, <1>5, <1>6, LocalsUser, CommandedUser
<1>8. QED
  BY <1>2, <1>3, <1>4, <1>6, <1>7 DEF Exchange, Traffic, OnTheWay

\* Only what the user is typing, or what could be restored, changes.
LEMMA DraftKeeps ==
  ASSUME Inner, UNCHANGED <<wire, sent, client, work, text, mode, shown, early, initial, transcript>>,
         draft' \in Texts \cup {Nothing}, slot' \in Texts \cup {Nothing}, failed' \in Texts \cup {Nothing}
  PROVE  Inner'
<1>1. UNCHANGED <<commands, records, sent, kind, exchange_id, accepted, settled, interrupted, clear_done, abort_done,
                  rejection, pending, queued, queued_count, fate, active, waiting, stage, lead, caller>>
  BY DEF wire, client, flags, work
<1>2. Typed'
  BY <1>1 DEF Inner, Typed, WireTyped
<1>3. Exchange'
  BY <1>1 DEF Inner, Exchange, Locals, Commanded
<1>4. Traffic'
  <2>1. \A id : Expects(id)' <=> Expects(id)
    BY ExpectsSame
  <2>2. Owed' = Owed
    BY <1>1 DEF Owed
  <2>3. QED
    BY <1>1, <2>1, <2>2 DEF Inner, Traffic, OnTheWay
<1>5. Extra' = Extra /\ Main' = Main
  BY <1>1 DEF Extra, Main
<1>6. Steers' = Steers
  BY <1>1, <1>5 DEF Steers
<1>7. Written' /\ Placed'
  BY <1>1, <1>5, <1>6 DEF Inner, Written, Placed
<1>8. Rests' /\ Quiet'
  BY <1>1, <1>5 DEF Inner, Rests, Refused, Quiet
<1>9. \A H : Transcribed(H) => Transcribed(H)'
  BY <1>1 DEF Transcribed
<1>10. ASSUME NEW T, Told(T) PROVE Told(T)'
  <2>1. PICK c : c = T[1]
    OBVIOUS
  <2>2. PICK l : l = T[Len(T)]
    OBVIOUS
  <2>3. Shown(c) => Shown(c)'
    <3> SUFFICES ASSUME Shown(c) PROVE Shown(c)'
      OBVIOUS
    <3>1. Entries(c)' = Entries(c)
      BY <1>1 DEF Entries, EntriesOf, Entry
    <3>2. PICK g : Lists(g, shown, Entries(c))
      BY DEF Shown
    <3>3. Lists(g, shown', Entries(c)')
      BY <1>1, <3>1, <3>2
    <3>4. QED
      BY <1>1, <3>3 DEF Shown
  <2>4. Begins(c)'
    BY <1>1, <1>9, <1>10, <2>1, <2>3 DEF Told, Begins
  <2>5. Ends(l)'
    BY <1>1, <1>5, <1>10, <2>2 DEF Told, Ends, Holds, Live
  <2>6. Over(T)'
    BY <1>1, <1>5, <1>10 DEF Told, Over, Done
  <2>7. QED
    BY <1>1, <1>5, <1>6, <1>10, <2>1, <2>2, <2>4, <2>5, <2>6 DEF Told
<1>11. Story'
  BY <1>1, <1>9, <1>10 DEF Inner, Story
<1>12. QED
  BY <1>2, <1>3, <1>4, <1>7, <1>8, <1>11 DEF Inner

\* While the display follows, all that it shows was accepted.
LEMMA AllAccepted ==
  ASSUME NEW c, Shown(c)
  PROVE  /\ \A i \in DOMAIN shown : shown[i].accepted
         /\ \A t, m : Without(shown, t, m) = shown
<1>1. PICK g : Lists(g, shown, Entries(c))
  BY DEF Shown
<1>2. \A i \in DOMAIN shown : \E p \in c.here \cup c.gone : shown[i] = Entry(p, c.gone)
  <2>1. /\ \A i \in DOMAIN shown : \E p \in DOMAIN Entries(c) : g[p] = i
        /\ \A p \in DOMAIN Entries(c) : shown[g[p]] = Entries(c)[p]
    BY <1>1 DEF Lists
  <2>2. \A p \in DOMAIN Entries(c) : p \in c.here \cup c.gone /\ Entries(c)[p] = Entry(p, c.gone)
    BY DEF Entries, EntriesOf
  <2>3. QED
    BY <2>1, <2>2
<1>3. \A i \in DOMAIN shown : shown[i].accepted
  BY <1>2 DEF Entry
<1>4. \A t, m : {i \in DOMAIN shown : Matches(shown[i], t, m) /\ ~shown[i].accepted} = {}
  BY <1>3
<1>5. QED
  BY <1>3, <1>4 DEF Without

\* What the user does with the draft.
LEMMA TypingKeeps ==
  ASSUME Inner, Types, UNCHANGED <<wire, sent, client, work>>
  PROVE  Inner'
<1>1. draft \in Texts \cup {Nothing} /\ slot \in Texts \cup {Nothing} /\ failed \in Texts \cup {Nothing}
  BY DEF Inner, Typed
<1>2. CASE Type \/ Discard \/ Restore \/ SubmitOffline
  <2>1. UNCHANGED <<text, mode, shown, early, initial, transcript>>
    BY <1>2 DEF Type, Discard, Restore, SubmitOffline
  <2>2. draft' \in Texts \cup {Nothing} /\ slot' \in Texts \cup {Nothing} /\ failed' \in Texts \cup {Nothing}
    BY <1>1, <1>2 DEF Type, Discard, Restore, SubmitOffline
  <2>3. QED
    BY <2>1, <2>2, DraftKeeps
<1>3. CASE RefuseQueue
  <2>1. kind = "prompt" /\ ~interrupted /\ slot' = draft /\ UNCHANGED <<text, mode, early, initial, transcript, draft, failed>>
    BY <1>3 DEF RefuseQueue, ReadsKeys
  <2>2. PICK T : Told(T)
    BY <2>1 DEF Inner, Story
  <2>3. PICK c : c = T[1]
    OBVIOUS
  <2>4. Shown(c)
    BY <2>1, <2>2, <2>3 DEF Told, Begins
  <2>5. shown' = shown
    BY <1>3, <2>4, AllAccepted DEF RefuseQueue
  <2>6. QED
    BY <1>1, <2>1, <2>5, DraftKeeps
<1>4. QED
  BY <1>2, <1>3 DEF Types

\* How many of the submissions H stand there with the text t.
Standing(H, tx, t) == Cardinality({q \in H : tx[q] = t})

\* One more stands in the transcript.
SameOn(H, tx, ty) == \A q \in H : ty[q] = tx[q]
Upto(H, n) == n \in Nat /\ H \subseteq 1 .. n
OneMore(H, p, tx, ty, t) ==
  /\ Standing(H, tx, t) \in Nat
  /\ ty[p] = t => Standing(H \cup {p}, ty, t) = Standing(H, tx, t) + 1
  /\ ty[p] # t => Standing(H \cup {p}, ty, t) = Standing(H, tx, t)

LEMMA CountsOneMore ==
  ASSUME NEW n, NEW H, Upto(H, n), NEW p, p \notin H, NEW tx, NEW ty, NEW t, SameOn(H, tx, ty)
  PROVE  OneMore(H, p, tx, ty, t)
<1> DEFINE A == {q \in H : tx[q] = t}
           B == {q \in H \cup {p} : ty[q] = t}
<1>1. IsFiniteSet(A)
  <2>1. IsFiniteSet(1 .. n)
    BY FS_Interval DEF Upto
  <2>2. A \subseteq 1 .. n
    BY DEF Upto
  <2>3. QED
    BY <2>1, <2>2, FS_Subset
<1>2. Cardinality(A) \in Nat
  BY <1>1, FS_CardinalityType
<1>3. CASE ty[p] = t
  <2>1. B = A \cup {p} /\ p \notin A
    BY <1>3 DEF SameOn
  <2> HIDE DEF A, B
  <2>2. Cardinality(B) = Cardinality(A) + 1
    BY <1>1, <2>1, FS_AddElement
  <2>3. QED
    BY <1>2, <1>3, <2>2 DEF A, B, Standing, OneMore
<1>4. CASE ty[p] # t
  <2>1. B = A
    BY <1>4 DEF SameOn
  <2> HIDE DEF A, B
  <2>2. Cardinality(B) = Cardinality(A)
    BY <2>1
  <2>3. QED
    BY <1>2, <1>4, <2>2 DEF A, B, Standing, OneMore
<1>5. QED
  BY <1>3, <1>4

\* Nothing is going on while the composer waits.
LEMMA AtRest ==
  ASSUME Inner, kind \in {"none", "left"}
  PROVE  /\ DOMAIN commands = {} /\ Responses(records) = {} /\ Asked(commands) = {}
         /\ stage = "none" /\ waiting = <<>> /\ ~active /\ lead = 0 /\ IdsIn(waiting) = {}
<1>1. PICK o : o = Owed
  OBVIOUS
<1>2. OnTheWay(o)
  BY <1>1 DEF Inner, Traffic
<1>3. DOMAIN commands = {} /\ Responses(records) = {} /\ o = {}
  BY <1>2, NothingComes
<1>4. stage = "none"
  BY <1>1, <1>3 DEF Owed, Inner, Rests
<1>5. waiting = <<>> /\ ~active /\ lead = 0
  BY <1>4 DEF Inner, Rests
<1>6. QED
  BY <1>3, <1>4, <1>5 DEF Asked, IdsIn

\* A command is written.
LEMMA OneWritten ==
  ASSUME Inner, NEW l, l \in Command, Write(<<l>>)
  PROVE  /\ Asked(commands') = Asked(commands) \cup {l.id}
         /\ \A i \in DOMAIN commands' : (i \in DOMAIN commands /\ commands'[i] = commands[i]) \/ commands'[i] = l
<1>1. commands \in Seq(Command)
  BY DEF Inner, Typed, WireTyped
<1>2. commands' = Append(commands, l)
  BY <1>1 DEF Write
<1>3. QED
  BY <1>1, <1>2, AskedMore, CommandedMore

\* The lines a client writes.
LEMMA LinesTyped ==
  /\ \A k \in Kinds, n \in Nat, part \in {"main", "clear", "abort", "request"}, m \in Modes :
       Line(k, <<n, part>>, m) \in Command
  /\ \A k, id, m : Line(k, id, m).id = id /\ Line(k, id, m).kind = k /\ Line(k, id, m).mode = m
  BY DEF Line, Command, Ids

\* Two ids are the same if their numbers and parts are.
LEMMA IdsDiffer ==
  \A n, k, part, other : /\ <<n, part>> = <<k, other>> => n = k /\ part = other
                         /\ <<n, part>>[1] = n /\ <<n, part>>[2] = part
  OBVIOUS

LEMMA SubmitKeeps ==
  ASSUME Inner, Submit, UNCHANGED work
  PROVE  Inner'
<1>1. PICK p : p = sent + 1
  OBVIOUS
<1>2. /\ kind = "none" /\ sent < MaxPrompts /\ sent' = p /\ exchange_id' = p /\ kind' = "prompt"
      /\ UNCHANGED records /\ accepted' = FALSE /\ settled' = FALSE /\ interrupted' = FALSE /\ rejection' = FALSE
      /\ pending' = {} /\ fate' = [fate EXCEPT ![p] = "pending"]
      /\ Write(<<Line("prompt", <<p, "main">>, "none")>>)
  BY <1>1 DEF Submit, SubmitPrompt, Open, FreshLocals
<1>3. /\ draft # Nothing /\ text' = [text EXCEPT ![p] = draft] /\ mode' = [mode EXCEPT ![p] = "none"]
      /\ draft' = Nothing /\ initial' = draft /\ transcript' = [transcript EXCEPT ![draft] = @ + 1]
      /\ UNCHANGED <<shown, early, slot, failed>>
  BY <1>1 DEF Submit, Sends
<1>4. ClientStep
  BY DEF ClientStep, Submit
<1>5. WireTyped' /\ Exchange' /\ Traffic'
  BY <1>4, WireUser
<1>6. UNCHANGED <<active, waiting, stage, lead, caller>>
  BY DEF work
<1>7. /\ DOMAIN commands = {} /\ Responses(records) = {} /\ Asked(commands) = {}
      /\ stage = "none" /\ waiting = <<>> /\ ~active /\ lead = 0 /\ IdsIn(waiting) = {}
  BY <1>2, AtRest
<1>8. /\ sent \in 0 .. MaxPrompts /\ MaxPrompts \in Nat /\ sent \in Nat /\ p \in Nat /\ p \in 1 .. p /\ p \in Prompts /\ p # 0
      /\ p \notin 1 .. sent /\ 1 .. p = (1 .. sent) \cup {p} /\ Prompts \subseteq Nat
  <2>1. sent \in 0 .. MaxPrompts /\ MaxPrompts \in Nat
    BY WireAssumption DEF Inner, Typed, WireTyped
  <2>2. QED
    BY <1>1, <1>2, <2>1 DEF Prompts
<1>9. PICK l : l = Line("prompt", <<p, "main">>, "none")
  OBVIOUS
<1>10. l \in Command /\ l.kind = "prompt" /\ l.id = <<p, "main">> /\ l.mode = "none" /\ l.id[1] = p /\ l.id[2] = "main"
  <2>1. "prompt" \in Kinds /\ "none" \in Modes
    BY DEF Kinds, Modes
  <2>2. l \in Command
    BY <1>8, <1>9, <2>1, LinesTyped
  <2>3. l.kind = "prompt" /\ l.id = <<p, "main">> /\ l.mode = "none"
    BY <1>9, LinesTyped
  <2>4. QED
    BY <2>2, <2>3, IdsDiffer
<1>11. Asked(commands') = {l.id} /\ \A i \in DOMAIN commands' : commands'[i] = l
  BY <1>2, <1>7, <1>9, <1>10, OneWritten
<1>12. /\ text \in [Prompts -> Texts \cup {Nothing}] /\ mode \in [Prompts -> Modes] /\ transcript \in [Texts -> Nat]
       /\ draft \in Texts /\ slot \in Texts \cup {Nothing} /\ failed \in Texts \cup {Nothing}
       /\ waiting \in Seq(Queued) /\ lead \in Nat /\ caller \in Ids /\ "none" \in Modes /\ fate \in [Prompts -> Fates]
  BY <1>3 DEF Inner, Typed, Modes, Exchange, Locals
<1>13. /\ text' \in [Prompts -> Texts \cup {Nothing}] /\ mode' \in [Prompts -> Modes]
       /\ text'[p] = draft /\ mode'[p] = "none" /\ fate'[p] = "pending"
       /\ \A q \in Prompts : q # p => text'[q] = text[q] /\ mode'[q] = mode[q] /\ fate'[q] = fate[q]
  BY <1>2, <1>3, <1>8, <1>12
<1>14. transcript' \in [Texts -> Nat] /\ \A t \in Texts : transcript'[t] = transcript[t] + IF draft = t THEN 1 ELSE 0
  BY <1>3, <1>12
<1>15. Typed'
  BY <1>3, <1>5, <1>6, <1>12, <1>13, <1>14 DEF Typed
<1>16. Extra' = Extra /\ p \notin Extra /\ Main' = <<p, "main">> /\ Steers' = Steers /\ Extra \subseteq Nat /\ 0 \notin Extra
  <2>1. 1 .. sent \subseteq Prompts
    BY <1>8 DEF Prompts
  <2>2. \A q \in 1 .. sent : q # p /\ text'[q] = text[q] /\ mode'[q] = mode[q]
    BY <1>8, <1>13, <2>1
  <2>3. Extra' = Extra
    BY <1>2, <1>8, <1>13, <2>2 DEF Extra
  <2>4. Steers' = Steers
    BY <2>2, <2>3 DEF Steers, Extra
  <2>5. QED
    BY <1>2, <1>8, <2>3, <2>4 DEF Main, Extra
<1>17. Written'
  <2>1. \A q \in Prompts : q > p => q > sent /\ q # p
    BY <1>8
  <2>2. \A q \in Prompts : q > sent' => text'[q] = Nothing /\ mode'[q] = "none"
    BY <1>2, <1>13, <2>1 DEF Inner, Written
  <2>3. QED
    BY <1>2, <1>8, <1>12, <1>13, <2>2 DEF Written
<1>18. Placed'
  BY <1>6, <1>7, <1>10, <1>11, <1>13, <1>16 DEF Inner, Placed
<1>19. Rests' /\ Quiet'
  BY <1>2, <1>6, <1>7 DEF Rests, Quiet
<1>20. PICK H : Transcribed(H)
  BY <1>2 DEF Inner, Story
<1>21. PICK G : G = H \cup {p}
  OBVIOUS
<1>22. H \subseteq 1 .. sent /\ p \notin H /\ G \subseteq Prompts /\ G \subseteq 1 .. p
  BY <1>8, <1>20, <1>21 DEF Transcribed, Prompts
<1>23. Transcribed(G)'
  <2>1. ASSUME NEW t \in Texts PROVE transcript'[t] = Cardinality({q \in G : text'[q] = t})
    <3>1. transcript[t] = Cardinality({q \in H : text[q] = t})
      BY <1>20 DEF Transcribed
    <3>2. \A q \in H : text'[q] = text[q]
      BY <1>8, <1>13, <1>22 DEF Prompts
    <3>3. PICK ty : ty = text'
      OBVIOUS
    <3>4. PICK tx : tx = text
      OBVIOUS
    <3>5. PICK n \in Nat : n = sent
      BY <1>8
    <3>6. Standing(H \cup {p}, ty, t) = Standing(H, tx, t) + IF ty[p] = t THEN 1 ELSE 0
      <4>1. SameOn(H, tx, ty) /\ Upto(H, n) /\ p \notin H
        BY <1>8, <1>22, <3>2, <3>3, <3>4, <3>5 DEF SameOn, Upto
      <4>2. OneMore(H, p, tx, ty, t)
        BY <4>1, CountsOneMore
      <4>3. QED
        BY <4>2 DEF OneMore
    <3>7. QED
      BY <1>13, <1>14, <1>21, <3>1, <3>3, <3>4, <3>6 DEF Standing
  <2>2. \A q \in Prompts : text'[q] \in Texts /\ mode'[q] = "none" => q \in G
    BY <1>13, <1>20, <1>21 DEF Transcribed
  <2>3. \A q \in Prompts : fate'[q] = "delivered" => q \in G
    BY <1>13, <1>20, <1>21 DEF Transcribed
  <2>4. QED
    BY <1>2, <1>22, <2>1, <2>2, <2>3 DEF Transcribed
<1>24. PICK c \in Point : c = [led |-> TRUE, over |-> FALSE, heard |-> G, here |-> {}, gone |-> {}, neat |-> TRUE]
  BY <1>22 DEF Point
<1>25. c.led /\ ~c.over /\ c.heard = G /\ c.here = {} /\ c.gone = {} /\ c.neat /\ c.led = TRUE /\ c.over = FALSE
  BY <1>24
<1>26. \A k \in DOMAIN records : records[k] = QueueUpdate(<<>>)
  BY <1>2 DEF Inner, Quiet
<1>27. PICK T : /\ Course(T, records, p, Extra, Steers, TRUE) /\ T[1] = c /\ T[Len(T)] = c
                /\ \A k \in DOMAIN T : T[k] = c
  <2>1. records \in Seq(Record)
    BY DEF Inner, Typed, WireTyped
  <2>2. PICK E : E = Extra
    OBVIOUS
  <2>3. PICK S : S = Steers
    OBVIOUS
  <2>4. PICK seen : seen = TRUE
    OBVIOUS
  <2>5. Unmoved(c, records, p, E, S, seen)
    BY <1>25, <1>26, <2>1, CourseStarts
  <2>6. QED
    BY <2>2, <2>3, <2>4, <2>5 DEF Unmoved
<1>28. Shown(c)'
  <2>1. shown' = <<>> /\ early' = <<>> /\ \A q \in Prompts : fate[q] # "waiting"
    BY <1>2, <1>3 DEF Inner, Quiet
  <2>2. PICK e : e = Entries(c)'
    OBVIOUS
  <2>3. DOMAIN e = {}
    BY <1>25, <2>2 DEF Entries, EntriesOf
  <2>4. PICK g : g = [q \in {} |-> 1]
    OBVIOUS
  <2>5. Lists(g, <<>>, e)
    BY <2>3, <2>4 DEF Lists
  <2>6. Lists(g, shown', Entries(c)')
    BY <2>1, <2>2, <2>5
  <2>7. Neat(shown')
    BY <2>1 DEF Neat
  <2>8. {q \in Prompts : fate'[q] = "waiting"} = {}
    BY <1>13, <2>1
  <2>9. QED
    BY <1>2, <1>25, <2>1, <2>6, <2>7, <2>8 DEF Shown
<1>29. Begins(c)'
  BY <1>2, <1>3, <1>13, <1>23, <1>25, <1>28 DEF Begins
<1>30. Ends(c)'
  <2>1. \A q \in Extra : <<q, "main">> \notin Asked(commands') /\ q # 0
    BY <1>10, <1>11, <1>16, IdsDiffer
  <2>2. Holds(c)'
    BY <1>6, <1>7, <1>25 DEF Holds, Live
  <2>3. QED
    BY <1>6, <1>7, <1>16, <1>25, <2>1, <2>2 DEF Ends
<1>31. Told(T)'
  <2>1. Over(T)'
    BY <1>25, <1>27 DEF Over
  <2>2. QED
    BY <1>2, <1>16, <1>27, <1>29, <1>30, <2>1 DEF Told
<1>32. Story'
  BY <1>2, <1>31 DEF Story
<1>33. QED
  BY <1>5, <1>15, <1>17, <1>18, <1>19, <1>32 DEF Inner

\* What the display had may have been typed, or may be restored.
Shelved ==
  /\ UNCHANGED <<text, mode, shown, early, initial, transcript>>
  /\ draft' \in Texts \cup {Nothing} /\ slot' \in Texts \cup {Nothing} /\ failed' \in Texts \cup {Nothing}

\* What the user does outside of a prompt's exchange leaves the display alone.
LEMMA AsideKeeps ==
  ASSUME Inner, ClientStep, UNCHANGED work, Shelved, kind # "prompt", kind' # "prompt", UNCHANGED fate,
         pending' \in {pending, {}}, sent' \in {sent, sent + 1},
         kind' = "none" => \A k \in DOMAIN records' : records'[k] = QueueUpdate(<<>>),
         kind' = "request" => \A k \in Responses(records'), j \in DOMAIN records' :
                                k < j => records'[j] = QueueUpdate(<<>>)
  PROVE  Inner'
<1>1. UNCHANGED <<active, waiting, stage, lead, caller, text, mode, shown, early, initial, transcript>>
  BY DEF work, Shelved
<1>2. WireTyped' /\ Exchange' /\ Traffic'
  BY WireUser
<1>3. Typed'
  BY <1>1, <1>2 DEF Inner, Typed, Shelved
<1>4. sent \in 0 .. MaxPrompts /\ sent' \in 0 .. MaxPrompts /\ MaxPrompts \in Nat
  BY <1>2, WireAssumption DEF Inner, Typed, WireTyped
<1>5. Extra' = Extra
  <2>1. \A p \in Prompts : p > sent => text[p] \notin Texts
    BY ComposerAssumption DEF Inner, Written
  <2>2. \A p \in 1 .. sent' : p \in Prompts /\ (p \in 1 .. sent \/ p > sent)
    BY <1>4 DEF Prompts
  <2>3. 1 .. sent \subseteq 1 .. sent'
    BY <1>4
  <2>4. QED
    BY <1>1, <2>1, <2>2, <2>3 DEF Extra
<1>6. Steers' = Steers
  BY <1>1, <1>5 DEF Steers
<1>7. Written'
  <2>1. \A p \in Prompts : p > sent' => p > sent
    BY <1>4 DEF Prompts
  <2>2. QED
    BY <1>1, <1>5, <2>1 DEF Inner, Written
<1>8. waiting = <<>> /\ lead = 0
  BY DEF Inner, Rests
<1>9. Placed'
  BY <1>1, <1>5, <1>6, <1>8 DEF Inner, Placed, IdsIn
<1>10. Rests'
  BY <1>1 DEF Inner, Rests
<1>11. Quiet'
  BY <1>1 DEF Inner, Quiet
<1>12. PICK H : Transcribed(H)
  BY DEF Inner, Story
<1>13. Transcribed(H)'
  <2>1. H \subseteq 1 .. sent'
    <3>1. 1 .. sent \subseteq 1 .. sent'
      BY <1>4
    <3>2. QED
      BY <1>12, <3>1 DEF Transcribed
  <2>2. QED
    BY <1>1, <1>12, <2>1 DEF Transcribed
<1>14. Story'
  BY <1>13 DEF Story
<1>15. QED
  BY <1>2, <1>3, <1>7, <1>9, <1>10, <1>11, <1>14 DEF Inner

LEMMA OthersKeep ==
  ASSUME Inner, (SubmitCompact /\ draft = Nothing) \/ (AskRequest /\ draft = Nothing) \/ AskStatus \/ EscapeCompact
                  \/ ReadCompact \/ ReadRequest,
         Shelved, UNCHANGED work
  PROVE  Inner'
<1>1. ClientStep
  BY DEF ClientStep, ReadStep
<1>2. UNCHANGED fate /\ pending' \in {pending, {}} /\ sent' \in {sent, sent + 1} /\ kind # "prompt" /\ kind' # "prompt"
  BY DEF SubmitCompact, Open, AskRequest, AskStatus, Ask, EscapeCompact, ReadCompact, ReadRequest, FreshLocals
<1>3. kind' = "none" => \A k \in DOMAIN records' : records'[k] = QueueUpdate(<<>>)
  <2>1. SUFFICES ASSUME kind' = "none" PROVE \A k \in DOMAIN records' : records'[k] = QueueUpdate(<<>>)
    OBVIOUS
  <2>2. /\ kind = "request" /\ records # <<>> /\ records' = Tail(records)
        /\ Head(records).type = "response"
    BY <2>1 DEF SubmitCompact, Open, AskRequest, AskStatus, Ask, EscapeCompact, ReadCompact, ReadRequest
  <2>3. records \in Seq(Record)
    BY DEF Inner, Typed, WireTyped
  <2>4. 1 \in Responses(records) /\ \A k \in DOMAIN records' : k + 1 \in DOMAIN records /\ records'[k] = records[k + 1] /\ 1 < k + 1
    BY <2>2, <2>3, TailElements DEF Responses
  <2>5. QED
    BY <2>2, <2>4 DEF Inner, Quiet
<1>4. kind' = "request" => \A k \in Responses(records'), j \in DOMAIN records' :
                             k < j => records'[j] = QueueUpdate(<<>>)
  <2>1. SUFFICES ASSUME kind' = "request" PROVE \A k \in Responses(records'), j \in DOMAIN records' :
                                                  k < j => records'[j] = QueueUpdate(<<>>)
    OBVIOUS
  <2>2. CASE kind \in {"none", "left"} /\ UNCHANGED records
    BY <2>2, AtRest
  <2>3. CASE kind = "request" /\ records # <<>> /\ records' = Tail(records)
    <3>1. records \in Seq(Record)
      BY DEF Inner, Typed, WireTyped
    <3>2. \A k \in DOMAIN records' : k + 1 \in DOMAIN records /\ records'[k] = records[k + 1] /\ k \in Nat
      BY <2>3, <3>1, TailElements
    <3>3. \A k \in Responses(records') : k + 1 \in Responses(records) /\ k \in Nat
      BY <3>2 DEF Responses
    <3>4. \A k \in Responses(records'), j \in DOMAIN records' : k < j => k + 1 < j + 1
      BY <3>2, <3>3
    <3>5. QED
      BY <2>3, <3>2, <3>3, <3>4 DEF Inner, Quiet
  <2>4. QED
    BY <2>1, <2>2, <2>3 DEF SubmitCompact, Open, AskRequest, AskStatus, Ask, EscapeCompact, ReadCompact, ReadRequest
<1>5. QED
  BY <1>1, <1>2, <1>3, <1>4, AsideKeeps

\* What a submission is asked under when the user cancels.
LEMMA EscapeKeeps ==
  ASSUME Inner, Escape, UNCHANGED display, UNCHANGED work
  PROVE  Inner'
<1>1. UNCHANGED <<active, waiting, stage, lead, caller, text, mode, shown, early, initial, transcript, draft, slot, failed>>
  BY DEF work, display
<1>2. /\ kind = "prompt" /\ ~interrupted /\ interrupted'
      /\ UNCHANGED <<records, sent, kind, exchange_id, rejection, pending, fate, settled>>
  BY DEF Escape, ReadsKeys
<1>3. WireTyped' /\ Exchange' /\ Traffic'
  BY WireUser DEF ClientStep
<1>4. Typed'
  BY <1>1, <1>3 DEF Inner, Typed
<1>5. Extra' = Extra /\ Main' = Main
  BY <1>1, <1>2 DEF Extra, Main
<1>6. Steers' = Steers
  BY <1>1, <1>5 DEF Steers
<1>7. Written'
  BY <1>1, <1>2, <1>5 DEF Inner, Written
<1>8. exchange_id \in Nat
  BY DEF Inner, Exchange, Locals
<1>9. PICK l : l = Line("clear_queue", <<exchange_id, "clear">>, "none")
  OBVIOUS
<1>10. PICK m : m = Line("abort", <<exchange_id, "abort">>, "none")
  OBVIOUS
<1>11. /\ l \in Command /\ l.kind # "prompt" /\ l.id[2] # "main" /\ \A p : l.id # <<p, "main">>
       /\ m \in Command /\ m.kind # "prompt" /\ m.id[2] # "main" /\ \A p : m.id # <<p, "main">>
  <2>1. "clear_queue" \in Kinds /\ "abort" \in Kinds /\ "none" \in Modes
    BY DEF Kinds, Modes
  <2>2. l \in Command /\ m \in Command
    BY <1>8, <1>9, <1>10, <2>1, LinesTyped
  <2>3. /\ l.id = <<exchange_id, "clear">> /\ l.kind = "clear_queue"
        /\ m.id = <<exchange_id, "abort">> /\ m.kind = "abort"
    BY <1>9, <1>10, LinesTyped
  <2>4. QED
    BY <2>2, <2>3, IdsDiffer
<1>12. /\ \A p : <<p, "main">> \in Asked(commands') <=> <<p, "main">> \in Asked(commands)
       /\ \A i \in DOMAIN commands' : (i \in DOMAIN commands /\ commands'[i] = commands[i]) \/ commands'[i] \in {l, m}
  <2>1. commands \in Seq(Command)
    BY DEF Inner, Typed, WireTyped
  <2>2. PICK cs : cs = Append(commands, l)
    OBVIOUS
  <2>3. commands' = Append(cs, m) /\ cs \in Seq(Command)
    <3>1. commands' = commands \o <<l, m>>
      BY <1>9, <1>10 DEF Escape, Write
    <3>2. QED
      BY <1>11, <2>1, <2>2, <3>1
  <2>4. Asked(commands') = (Asked(commands) \cup {l.id}) \cup {m.id}
    BY <1>11, <2>1, <2>2, <2>3, AskedMore
  <2>5. \A i \in DOMAIN commands' : (i \in DOMAIN cs /\ commands'[i] = cs[i]) \/ commands'[i] = m
    BY <1>11, <2>3
  <2>6. \A i \in DOMAIN cs : (i \in DOMAIN commands /\ cs[i] = commands[i]) \/ cs[i] = l
    BY <1>11, <2>1, <2>2
  <2>7. QED
    BY <1>11, <2>4, <2>5, <2>6
<1>13. Main \in Asked(commands') <=> Main \in Asked(commands)
  BY <1>12 DEF Main
<1>14. Placed'
  BY <1>1, <1>2, <1>5, <1>6, <1>11, <1>12 DEF Inner, Placed
<1>15. Rests'
  BY <1>1, <1>2, <1>5, <1>13 DEF Inner, Rests, Refused
<1>16. Quiet'
  BY <1>1, <1>2 DEF Inner, Quiet
<1>17. PICK T : Told(T)
  BY <1>2 DEF Inner, Story
<1>18. Course(T, records, exchange_id, Extra, Steers, FALSE)
  BY <1>17, CourseGrows DEF Told
<1>19. PICK c : c = T[1]
  OBVIOUS
<1>20. PICK d : d = T[Len(T)]
  OBVIOUS
<1>21. Begins(c)'
  <2>1. Transcribed(c.heard)'
    BY <1>1, <1>2, <1>17, <1>19 DEF Told, Begins, Transcribed
  <2>2. QED
    BY <1>1, <1>2, <1>17, <1>19, <2>1 DEF Told, Begins
<1>22. Ends(d)'
  BY <1>1, <1>2, <1>5, <1>12, <1>13, <1>17, <1>20 DEF Told, Ends
<1>23. Over(T)'
  BY <1>1, <1>5, <1>13, <1>17 DEF Told, Over, Done
<1>24. (~interrupted)' = FALSE
  BY <1>2
<1>25. Told(T)'
  BY <1>2, <1>5, <1>6, <1>18, <1>19, <1>20, <1>21, <1>22, <1>23, <1>24 DEF Told
<1>26. Story'
  BY <1>2, <1>25 DEF Story
<1>27. QED
  BY <1>3, <1>4, <1>7, <1>14, <1>15, <1>16, <1>26 DEF Inner

\* Only what was sent is heard of.
LEMMA HeardSent ==
  ASSUME Inner, kind = "prompt", NEW T, Told(T), NEW l, l = T[Len(T)]
  PROVE  l.heard \subseteq 1 .. sent
<1>1. PICK n \in Nat : n = Len(records)
  BY DEF Inner, Typed, WireTyped
<1>2. T \in Seq(Point) /\ Len(T) = n + 1 /\ DOMAIN T = 1 .. (n + 1) /\ DOMAIN records = 1 .. n
  BY <1>1 DEF Told, Course, Inner, Typed, WireTyped
<1>3. PICK J : J = {j \in 0 .. n : T[j + 1].heard \subseteq 1 .. sent}
  OBVIOUS
<1>4. 0 \in J
  <2>1. T[1].heard \subseteq 1 .. sent
    BY DEF Told, Begins, Transcribed
  <2>2. QED
    BY <1>3, <2>1
<1>5. ASSUME NEW j \in 1 .. n, j - 1 \in J PROVE j \in J
  <2>1. PICK c : c = T[j]
    OBVIOUS
  <2>2. PICK r : r = records[j]
    OBVIOUS
  <2>3. c.heard \subseteq 1 .. sent
    <3>1. T[(j - 1) + 1].heard \subseteq 1 .. sent /\ (j - 1) + 1 = j
      BY <1>3, <1>5
    <3>2. QED
      BY <2>1, <3>1
  <2>4. Fits(c, r, exchange_id, Extra, Steers, ~interrupted) /\ T[j + 1] = After(c, r, exchange_id)
    BY <1>2, <2>1, <2>2 DEF Told, Course
  <2>5. T[j + 1].heard = IF Delivers(r) THEN c.heard \cup {r.prompt} ELSE c.heard
    BY <2>4 DEF After
  <2>6. Delivers(r) => r.prompt \in 1 .. sent
    BY <2>4 DEF Fits, Extra, Inner, Written
  <2>7. T[j + 1].heard \subseteq 1 .. sent
    BY <2>3, <2>5, <2>6
  <2>8. QED
    BY <1>3, <2>7
<1>6. J \in SUBSET (0 .. n)
  BY <1>3
<1>7. J = 0 .. n
  BY <1>4, <1>5, <1>6, Upwards
<1>8. n \in J /\ T[n + 1] = l
  BY <1>2, <1>7
<1>9. QED
  BY <1>3, <1>8

\* A submission is queued behind the prompt.
LEMMA QueueKeeps ==
  ASSUME Inner, Queue, UNCHANGED work
  PROVE  Inner'
<1>1. PICK p : p = sent + 1
  OBVIOUS
<1>2. /\ kind = "prompt" /\ ~interrupted /\ accepted /\ sent < MaxPrompts /\ sent' = p
      /\ pending' = pending \cup {p} /\ fate' = [fate EXCEPT ![p] = "pending"]
      /\ UNCHANGED <<records, kind, exchange_id, settled, interrupted, rejection, accepted>>
  BY <1>1 DEF Queue, QueueSubmission, ReadsKeys, flags
<1>3. PICK md \in {"steer", "followUp"} : Write(<<Line("prompt", <<p, "main">>, md)>>)
  BY <1>1 DEF Queue, QueueSubmission
<1>4. PICK l : l = Line("prompt", <<p, "main">>, md)
  OBVIOUS
<1>5. /\ sent \in 0 .. MaxPrompts /\ MaxPrompts \in Nat /\ sent \in Nat /\ p \in Nat /\ p \in Prompts /\ p # 0
      /\ p \notin 1 .. sent /\ 1 .. p = (1 .. sent) \cup {p} /\ 1 .. sent \subseteq Prompts
  <2>1. sent \in 0 .. MaxPrompts /\ MaxPrompts \in Nat
    BY WireAssumption DEF Inner, Typed, WireTyped
  <2>2. QED
    BY <1>1, <1>2, <2>1 DEF Prompts
<1>6. l \in Command /\ l.kind = "prompt" /\ l.id = <<p, "main">> /\ l.mode = md /\ l.id[1] = p /\ l.id[2] = "main"
  <2>1. "prompt" \in Kinds /\ md \in Modes
    BY DEF Kinds, Modes
  <2>2. l \in Command
    BY <1>4, <1>5, <2>1, LinesTyped
  <2>3. l.kind = "prompt" /\ l.id = <<p, "main">> /\ l.mode = md
    BY <1>4, LinesTyped
  <2>4. QED
    BY <2>2, <2>3, IdsDiffer
<1>7. /\ Asked(commands') = Asked(commands) \cup {l.id}
      /\ \A i \in DOMAIN commands' : (i \in DOMAIN commands /\ commands'[i] = commands[i]) \/ commands'[i] = l
  BY <1>3, <1>4, <1>6, OneWritten
<1>8. Last(commands') = l
  <2>1. commands \in Seq(Command)
    BY DEF Inner, Typed, WireTyped
  <2>2. commands' = Append(commands, l)
    BY <1>3, <1>4, <2>1 DEF Write
  <2>3. QED
    BY <1>6, <2>1, <2>2 DEF Last
<1>9. /\ draft # Nothing /\ text' = [text EXCEPT ![p] = draft] /\ mode' = [mode EXCEPT ![p] = md]
      /\ draft' = Nothing /\ UNCHANGED <<shown, early, initial, transcript, slot, failed>>
  BY <1>1, <1>6, <1>8 DEF Queue, Sends
<1>10. UNCHANGED <<active, waiting, stage, lead, caller>>
  BY DEF work
<1>11. WireTyped' /\ Exchange' /\ Traffic'
  BY WireUser DEF ClientStep, Queue
<1>12. /\ text \in [Prompts -> Texts \cup {Nothing}] /\ mode \in [Prompts -> Modes] /\ transcript \in [Texts -> Nat]
       /\ draft \in Texts /\ slot \in Texts \cup {Nothing} /\ failed \in Texts \cup {Nothing}
       /\ waiting \in Seq(Queued) /\ lead \in Nat /\ caller \in Ids /\ md \in Modes /\ fate \in [Prompts -> Fates]
  BY <1>9 DEF Inner, Typed, Modes, Exchange, Locals
<1>13. /\ text' \in [Prompts -> Texts \cup {Nothing}] /\ mode' \in [Prompts -> Modes]
       /\ text'[p] = draft /\ mode'[p] = md /\ fate'[p] = "pending"
       /\ \A q \in Prompts : q # p => text'[q] = text[q] /\ mode'[q] = mode[q] /\ fate'[q] = fate[q]
  BY <1>2, <1>5, <1>9, <1>12
<1>14. Typed'
  BY <1>9, <1>10, <1>11, <1>12, <1>13 DEF Typed
<1>15. \A q \in 1 .. sent : q # p /\ q \in Prompts /\ text'[q] = text[q] /\ mode'[q] = mode[q] /\ fate'[q] = fate[q]
  BY <1>5, <1>13
<1>16. Extra' = Extra \cup {p} /\ p \notin Extra /\ Extra \subseteq 1 .. sent
  <2>1. Extra \subseteq 1 .. sent
    BY DEF Extra
  <2>2. Extra' = {q \in (1 .. sent) \cup {p} : mode'[q] \in {"steer", "followUp"} /\ text'[q] \in Texts}
    BY <1>2, <1>5 DEF Extra
  <2>3. QED
    BY <1>5, <1>12, <1>13, <1>15, <2>1, <2>2 DEF Extra
<1>17. \A q \in Extra : q \in Steers <=> q \in Steers'
  BY <1>15, <1>16 DEF Steers
<1>18. /\ exchange_id \in 1 .. sent /\ exchange_id # p /\ mode[exchange_id] = "none" /\ text[exchange_id] \in Texts
       /\ pending \subseteq Extra
  BY <1>2, <1>5 DEF Inner, Written
<1>19. Main' = Main /\ Main # l.id /\ \A q : q # p => <<q, "main">> # l.id
  BY <1>2, <1>6, <1>18, IdsDiffer DEF Main
<1>20. Written'
  <2>1. \A q \in Prompts : q > p => q > sent /\ q # p
    BY <1>5
  <2>2. \A q \in Prompts : q > sent' => text'[q] = Nothing /\ mode'[q] = "none"
    BY <1>2, <1>13, <2>1 DEF Inner, Written
  <2>3. pending' \subseteq Extra'
    BY <1>2, <1>16, <1>18
  <2>4. QED
    BY <1>2, <1>5, <1>15, <1>18, <2>2, <2>3 DEF Written
<1>21. /\ Ordered(waiting, Extra, Steers) /\ IdsIn(waiting) \subseteq Extra
       /\ \A q \in IdsIn(waiting) : <<q, "main">> \notin Asked(commands)
       /\ lead # 0 => /\ lead \in {exchange_id} \cup Extra
                      /\ lead \notin IdsIn(waiting) /\ <<lead, "main">> \notin Asked(commands)
  BY DEF Inner, Placed, Ordered, IdsIn
<1>22. Placed'
  <2>1. ASSUME NEW i \in DOMAIN commands'
        PROVE  /\ commands'[i].kind = "prompt" <=> commands'[i].id[2] = "main"
               /\ commands'[i].kind = "prompt" => commands'[i].mode = mode'[commands'[i].id[1]]
    <3>1. CASE commands'[i] = l
      BY <1>6, <1>13, <3>1
    <3>2. CASE i \in DOMAIN commands /\ commands'[i] = commands[i]
      <4>1. PICK o : o = Owed
        OBVIOUS
      <4>2. OnTheWay(o)
        BY <4>1 DEF Inner, Traffic
      <4>3. PICK id : id = commands[i].id
        OBVIOUS
      <4>4. Expects(id)
        BY <3>2, <4>2, <4>3 DEF OnTheWay, Asked
      <4>5. id[2] = "main" => id[1] \in {exchange_id} \cup pending
        BY <1>2, <4>4, IdsDiffer DEF Expects
      <4>6. /\ commands[i].kind = "prompt" <=> id[2] = "main"
            /\ commands[i].kind = "prompt" => commands[i].mode = mode[id[1]]
        BY <1>2, <3>2, <4>3 DEF Inner, Placed
      <4>7. id[2] = "main" => id[1] \in 1 .. sent
        BY <1>16, <1>18, <4>5
      <4>8. QED
        BY <1>15, <3>2, <4>3, <4>6, <4>7
    <3>3. QED
      BY <1>7, <3>1, <3>2
  <2>2. Ordered(waiting, Extra', Steers')
    BY <1>16, <1>17, <1>21, OrderedGrows
  <2>3. \A q \in IdsIn(waiting) : <<q, "main">> \notin Asked(commands')
    BY <1>7, <1>16, <1>19, <1>21
  <2>4. lead # 0 => /\ lead \in {exchange_id} \cup Extra'
                    /\ lead \notin IdsIn(waiting) /\ <<lead, "main">> \notin Asked(commands')
    BY <1>7, <1>16, <1>18, <1>19, <1>21
  <2>5. QED
    BY <1>2, <1>10, <2>1, <2>2, <2>3, <2>4 DEF Placed
<1>23. Main \in Asked(commands') <=> Main \in Asked(commands)
  BY <1>7, <1>19
<1>24. Rests'
  BY <1>2, <1>10, <1>19, <1>23 DEF Inner, Rests, Refused
<1>25. Quiet'
  BY <1>2 DEF Quiet
<1>26. PICK T : Told(T)
  BY <1>2 DEF Inner, Story
<1>27. PICK c : c = T[1]
  OBVIOUS
<1>28. PICK d : d = T[Len(T)]
  OBVIOUS
<1>29. Course(T, records, exchange_id, Extra, Steers, ~interrupted)
  BY <1>26 DEF Told
<1>30. PICK E : E = Extra'
  OBVIOUS
<1>31. PICK S : S = Steers'
  OBVIOUS
<1>32. Course(T, records, exchange_id, E, S, ~interrupted)
  <2>1. Extra \subseteq E /\ \A q \in Extra : q \in Steers <=> q \in S
    BY <1>16, <1>17, <1>30, <1>31
  <2>2. (~interrupted) \in BOOLEAN
    OBVIOUS
  <2>3. QED
    BY <1>29, <2>1, <2>2, CourseGrows
<1>33. Sound(c, Extra) /\ Sound(d, Extra)
  <2>1. 1 \in DOMAIN T /\ Len(T) \in DOMAIN T
    <3>1. records \in Seq(Record) /\ T \in Seq(Point) /\ Len(T) = Len(records) + 1
      BY <1>29 DEF Inner, Typed, WireTyped, Course
    <3>2. QED
      BY <3>1
  <2>2. QED
    BY <1>2, <1>27, <1>28, <1>29, <2>1 DEF Course
<1>34. Begins(c) /\ Shown(c) /\ Ends(d)
  BY <1>2, <1>26, <1>27, <1>28 DEF Told, Begins
<1>35. Transcribed(c.heard)'
  <2>1. c.heard \subseteq 1 .. sent
    BY <1>34 DEF Begins, Transcribed
  <2>2. ASSUME NEW t \in Texts PROVE transcript'[t] = Cardinality({q \in c.heard : text'[q] = t})
    <3>1. {q \in c.heard : text'[q] = t} = {q \in c.heard : text[q] = t}
      BY <1>15, <2>1
    <3>2. QED
      BY <1>9, <1>34, <3>1 DEF Begins, Transcribed
  <2>3. \A q \in Prompts : text'[q] \in Texts /\ mode'[q] = "none" => q \in c.heard
    BY <1>13, <1>34 DEF Begins, Transcribed
  <2>4. \A q \in Prompts : fate'[q] = "delivered" => q \in c.heard
    BY <1>13, <1>34 DEF Begins, Transcribed
  <2>5. c.heard \subseteq 1 .. sent'
    BY <1>2, <1>5, <2>1
  <2>6. QED
    BY <2>2, <2>3, <2>4, <2>5 DEF Transcribed
<1>36. Shown(c)'
  <2>1. c.here \cup c.gone \subseteq 1 .. sent
    BY <1>16, <1>33 DEF Sound
  <2>2. Entries(c)' = Entries(c)
    <3>1. \A q \in c.here \cup c.gone : text'[q] = text[q] /\ mode'[q] = mode[q]
      BY <1>15, <2>1
    <3>2. QED
      BY <3>1 DEF Entries, EntriesOf, Entry
  <2>3. PICK g : Lists(g, shown, Entries(c))
    BY <1>34 DEF Shown
  <2>4. Lists(g, shown', Entries(c)')
    BY <1>9, <2>2, <2>3
  <2>5. {q \in Prompts : fate'[q] = "waiting"} = c.here \cup c.gone
    <3>1. {q \in Prompts : fate[q] = "waiting"} = c.here \cup c.gone
      BY <1>34 DEF Shown
    <3>2. p \notin c.here \cup c.gone
      BY <1>5, <2>1
    <3>3. QED
      BY <1>13, <3>1, <3>2
  <2>6. \A q \in pending' : fate'[q] = "pending"
    BY <1>2, <1>13, <1>15, <1>16, <1>18, <1>34 DEF Shown
  <2>7. early' = <<>> /\ (c.neat => Neat(shown'))
    BY <1>9, <1>34 DEF Shown
  <2>8. QED
    BY <2>4, <2>5, <2>6, <2>7 DEF Shown
<1>37. Begins(c)'
  BY <1>2, <1>9, <1>15, <1>18, <1>34, <1>35, <1>36 DEF Begins
<1>38. Ends(d)'
  <2>1. \A q \in Extra : <<q, "main">> \in Asked(commands') => <<q, "main">> \in Asked(commands)
    BY <1>7, <1>16, <1>19
  <2>2. d.heard \subseteq 1 .. sent
    BY <1>2, <1>26, <1>28, HeardSent
  <2>3. \A q \in Extra' : q \in IdsIn(waiting) \/ <<q, "main">> \in Asked(commands') \/ q = lead => q \notin d.heard
    BY <1>5, <1>16, <1>34, <2>1, <2>2 DEF Ends
  <2>4. Holds(d)'
    BY <1>2, <1>10, <1>19, <1>23, <1>33, <1>34, <2>1 DEF Ends, Holds, Live, Sound
  <2>5. QED
    BY <1>2, <1>10, <1>19, <1>23, <1>34, <2>3, <2>4 DEF Ends
<1>39. Over(T)'
  BY <1>10, <1>19, <1>23, <1>26 DEF Told, Over, Done
<1>40. Told(T)'
  <2>1. (~interrupted)' = ~interrupted
    BY <1>2
  <2>2. QED
    BY <1>2, <1>27, <1>28, <1>30, <1>31, <1>32, <1>37, <1>38, <1>39, <2>1 DEF Told
<1>41. Story'
  BY <1>2, <1>40 DEF Story
<1>42. QED
  BY <1>11, <1>14, <1>20, <1>22, <1>24, <1>25, <1>41 DEF Inner

-----------------------------------------------------------------------------
(* Reading the records of a prompt.                                        *)

\* What every such step does.
LEMMA PromptRead ==
  ASSUME Inner, ReadPrompt
  PROVE  /\ kind = "prompt" /\ records # <<>> /\ records' = Tail(records)
         /\ UNCHANGED <<commands, sent, exchange_id, interrupted>>
         /\ kind' \in {"prompt", "left"} /\ pending' \subseteq pending
         /\ rejection' => Refused
         /\ kind' = "left" => (settled' \/ rejection') /\ \A p \in Prompts : fate'[p] # "waiting"
<1>1. kind = "prompt" /\ records # <<>> /\ records' = Tail(records) /\ UNCHANGED <<commands, sent, exchange_id, interrupted>>
  BY DEF ReadPrompt, AcknowledgeQueued, AcknowledgeClear, AcknowledgeAbort, AcknowledgePrompt, ObserveStart,
    ObserveSettled, ObserveQueue, ObserveDelivery, ObserveRejected, ObserveOther, Proceed, InPrompt, Read
<1>2. \E f : Proceed(f)
  BY DEF ReadPrompt, AcknowledgeQueued, AcknowledgeClear, AcknowledgeAbort, AcknowledgePrompt, ObserveStart,
    ObserveSettled, ObserveQueue, ObserveDelivery, ObserveRejected, ObserveOther
<1>3. pending' \subseteq pending
  BY DEF ReadPrompt, AcknowledgeQueued, AcknowledgeClear, AcknowledgeAbort, AcknowledgePrompt, ObserveStart,
    ObserveSettled, ObserveQueue, ObserveDelivery, ObserveRejected, ObserveOther
<1>4. rejection' => Refused
  <2>1. CASE AcknowledgePrompt
    <3>1. Head(records).type = "response" /\ Head(records).id = Main /\ rejection' = ~Head(records).ok
      BY <2>1 DEF AcknowledgePrompt, InPrompt, Read, Main
    <3>2. SUFFICES ASSUME rejection' PROVE Refused
      OBVIOUS
    <3>3. ~Head(records).ok
      BY <3>1, <3>2
    <3>4. 1 \in DOMAIN records /\ records[1] = Head(records)
      BY <1>1, TailElements DEF Inner, Typed, WireTyped
    <3>5. 1 \in Responses(records) /\ records[1].id = Main /\ ~records[1].ok
      BY <3>1, <3>3, <3>4 DEF Responses
    <3>6. QED
      BY <3>5 DEF Refused
  <2>2. CASE ~AcknowledgePrompt
    BY <2>2 DEF Refused, ReadPrompt, AcknowledgeQueued, AcknowledgeClear, AcknowledgeAbort, ObserveStart,
      ObserveSettled, ObserveQueue, ObserveDelivery, ObserveRejected, ObserveOther
  <2>3. QED
    BY <2>1, <2>2
<1>5. PICK f : Proceed(f)
  BY <1>2
<1>6. kind' \in {"prompt", "left"}
  BY <1>1, <1>5 DEF Proceed
<1>7. kind' = "left" => (settled' \/ rejection') /\ \A p \in Prompts : fate'[p] # "waiting"
  <2>1. SUFFICES ASSUME kind' = "left" PROVE (settled' \/ rejection') /\ \A p \in Prompts : fate'[p] # "waiting"
    OBVIOUS
  <2>2. Complete \/ RejectionDue
    BY <1>1, <1>5, <2>1 DEF Proceed
  <2>3. fate' = Forget(f)
    BY <1>5, <2>2 DEF Proceed
  <2>4. QED
    BY <2>2, <2>3 DEF Complete, RejectionDue, Forget
<1>8. QED
  BY <1>1, <1>3, <1>4, <1>6, <1>7

\* The display takes the record as the story has it.
LEMMA ReadKeeps ==
  ASSUME Inner, ReadPrompt, UNCHANGED work, UNCHANGED <<text, mode>>, transcript' \in [Texts -> Nat],
         draft' \in Texts \cup {Nothing}, slot' \in Texts \cup {Nothing}, failed' \in Texts \cup {Nothing},
         NEW T, Told(T), NEW d, d = After(T[1], Head(records), exchange_id),
         settled' = d.over, Transcribed(d.heard)',
         kind' = "prompt" => /\ initial' = IF d.led THEN text[exchange_id] ELSE Nothing
                             /\ ~interrupted => Shown(d)',
         kind' = "left" => shown' = <<>> /\ early' = <<>> /\ initial' = Nothing
  PROVE  Inner'
<1>1. /\ kind = "prompt" /\ records # <<>> /\ records' = Tail(records)
      /\ UNCHANGED <<commands, sent, exchange_id, interrupted>>
      /\ kind' \in {"prompt", "left"} /\ pending' \subseteq pending
      /\ rejection' => Refused
      /\ kind' = "left" => (settled' \/ rejection') /\ \A p \in Prompts : fate'[p] # "waiting"
  BY PromptRead
<1>2. UNCHANGED <<active, waiting, stage, lead, caller>>
  BY DEF work
<1>3. WireTyped' /\ Exchange' /\ Traffic'
  BY WireUser DEF ClientStep, ReadStep
<1>4. Typed'
  BY <1>2, <1>3 DEF Inner, Typed
<1>5. Extra' = Extra /\ Main' = Main
  BY <1>1 DEF Extra, Main
<1>6. Steers' = Steers
  BY <1>5 DEF Steers
<1>7. Written'
  BY <1>1, <1>5 DEF Inner, Written
<1>8. Placed'
  BY <1>1, <1>2, <1>5, <1>6 DEF Inner, Placed
<1>9. records \in Seq(Record)
  BY DEF Inner, Typed, WireTyped
<1>10. PICK U : U = Tail(T)
  OBVIOUS
<1>11. Course(T, records, exchange_id, Extra, Steers, ~interrupted)
  BY DEF Told
<1>12. /\ Course(U, records', exchange_id, Extra, Steers, ~interrupted)
       /\ U[1] = d /\ 1 \in DOMAIN U /\ U[Len(U)] = T[Len(T)]
       /\ \A k \in DOMAIN U : k + 1 \in DOMAIN T /\ U[k] = T[k + 1]
  BY <1>1, <1>9, <1>10, <1>11, CourseRead
<1>13. \A k \in DOMAIN U : U[k].over => Done
  BY <1>12 DEF Told, Over
<1>14. Refused' => Refused
  <2>1. \A k \in Responses(records') : k + 1 \in Responses(records) /\ records'[k] = records[k + 1]
    BY <1>1, <1>9, TailElements DEF Responses
  <2>2. QED
    BY <1>1, <1>5, <2>1 DEF Refused
<1>15. settled' => stage = "none"
  BY <1>12, <1>13 DEF Done
<1>16. Rests'
  <2>1. kind' = "left" => stage = "none"
    BY <1>1, <1>15 DEF Inner, Rests
  <2>2. QED
    BY <1>1, <1>2, <1>5, <1>14, <2>1 DEF Inner, Rests
<1>17. Quiet'
  BY <1>1 DEF Quiet
<1>18. CASE kind' = "left"
  <2>1. Story'
    BY <1>18 DEF Story
  <2>2. QED
    BY <1>3, <1>4, <1>7, <1>8, <1>16, <1>17, <2>1 DEF Inner
<1>19. CASE kind' = "prompt"
  <2>1. Begins(d)'
    BY <1>1, <1>19 DEF Begins
  <2>2. PICK l : l = T[Len(T)]
    OBVIOUS
  <2>3. Ends(l)'
    BY <1>1, <1>2, <1>5, <2>2 DEF Told, Ends, Holds, Live
  <2>4. Over(U)'
    BY <1>1, <1>2, <1>5, <1>13 DEF Over, Done
  <2>5. Told(U)'
    BY <1>1, <1>5, <1>6, <1>12, <2>1, <2>2, <2>3, <2>4 DEF Told
  <2>6. Story'
    BY <1>19, <2>5 DEF Story
  <2>7. QED
    BY <1>3, <1>4, <1>7, <1>8, <1>16, <1>17, <2>6 DEF Inner
<1>20. QED
  BY <1>1, <1>18, <1>19

\* The display is at the first point of the story.
LEMMA ReadPoint ==
  ASSUME Inner, ReadPrompt
  PROVE  \E T : \E c \in Point : \E r \in Record :
           /\ Told(T) /\ c = T[1] /\ r = Head(records) /\ Begins(c)
           /\ Fits(c, r, exchange_id, Extra, Steers, ~interrupted)
           /\ ~interrupted => Sound(c, Extra)
           /\ r.type = "response" => Expects(r.id) /\ r.ok \in BOOLEAN
<1>1. kind = "prompt" /\ records # <<>>
  BY PromptRead
<1>2. PICK T : Told(T)
  BY <1>1 DEF Inner, Story
<1>3. records \in Seq(Record) /\ WireTyped
  BY DEF Inner, Typed, WireTyped
<1>4. PICK c : c = T[1]
  OBVIOUS
<1>5. PICK r : r = Head(records)
  OBVIOUS
<1>6. Course(T, records, exchange_id, Extra, Steers, ~interrupted)
  BY <1>2 DEF Told
<1>7. c \in Point /\ Fits(c, r, exchange_id, Extra, Steers, ~interrupted) /\ (~interrupted => Sound(c, Extra))
  BY <1>1, <1>3, <1>4, <1>5, <1>6, CourseRead
<1>8. PICK o : o = Owed
  OBVIOUS
<1>9. OnTheWay(o)
  BY <1>8 DEF Inner, Traffic
<1>10. r \in Record /\ (r.type = "response" => Expects(r.id) /\ r.ok \in BOOLEAN)
  BY <1>1, <1>3, <1>5, <1>9, FirstRecord
<1>11. Begins(c)
  BY <1>2, <1>4 DEF Told
<1>12. QED
  BY <1>2, <1>4, <1>5, <1>7, <1>10, <1>11

\* What Shows leaves.
LEMMA ShowsTyped ==
  ASSUME Inner, ReadPrompt, NEW s, Shows(s), s.draft \in Texts \cup {Nothing}, s.slot \in Texts \cup {Nothing}
  PROVE  /\ draft' \in Texts \cup {Nothing} /\ slot' \in Texts \cup {Nothing} /\ failed' \in Texts \cup {Nothing}
         /\ UNCHANGED <<text, mode>>
         /\ kind' = "left" => shown' = <<>> /\ early' = <<>> /\ initial' = Nothing
         /\ kind' = "prompt" => shown' = s.shown /\ early' = s.early /\ initial' = s.initial
<1>1. kind = "prompt"
  BY PromptRead
<1>2. text[exchange_id] \in Texts /\ failed \in Texts \cup {Nothing}
  BY <1>1 DEF Inner, Typed, Written
<1>3. PICK bad : bad = (rejection' \/ (run_failed' /\ ~interrupted))
  OBVIOUS
<1>4. Outcome(s.slot, bad) \in Texts \cup {Nothing}
  BY <1>2 DEF Outcome
<1>5. failed' = IF kind' = "left" THEN Outcome(s.slot, bad) ELSE failed
  BY <1>3 DEF Shows
<1>6. QED
  BY <1>2, <1>4, <1>5 DEF Shows

\* The same is shown as before.
LEMMA ShownStays ==
  ASSUME NEW c, Shown(c), NEW d, d.here = c.here, d.gone = c.gone, d.neat = c.neat,
         UNCHANGED <<text, mode, shown, early>>, pending' \subseteq pending,
         \A p \in Prompts : fate'[p] = "waiting" <=> fate[p] = "waiting",
         \A p \in pending' : fate'[p] = fate[p]
  PROVE  Shown(d)'
<1>1. Entries(d)' = Entries(c)
  BY DEF Entries, EntriesOf, Entry
<1>2. PICK g : Lists(g, shown, Entries(c))
  BY DEF Shown
<1>3. Lists(g, shown', Entries(d)')
  BY <1>1, <1>2
<1>4. QED
  BY <1>3 DEF Shown, Neat

\* A record that is no delivery.
LEMMA NoDeliveryKeeps ==
  ASSUME Inner, ReadPrompt, UNCHANGED work, UNCHANGED transcript, NEW T, Told(T), NEW c \in Point, c = T[1], NEW r, r = Head(records),
         r.type # "message_start", settled' = (settled \/ r.type = "agent_settled"),
         NEW s, Shows(s), s.draft \in Texts \cup {Nothing}, s.slot \in Texts \cup {Nothing}, s.initial = initial,
         \A p \in Prompts : fate'[p] = "delivered" => fate[p] = "delivered",
         kind' = "prompt" /\ ~interrupted => \A d \in Point : d = After(c, r, exchange_id) => Shown(d)'
  PROVE  Inner'
<1>1. PICK d : d = After(c, r, exchange_id)
  OBVIOUS
<1>2. kind = "prompt" /\ records # <<>> /\ UNCHANGED <<sent, exchange_id>>
  BY PromptRead
<1>3. r \in Record
  BY <1>2, TailElements DEF Inner, Typed, WireTyped
<1>4. d \in Point
  BY <1>1, <1>3, AfterPoint
<1>5. d.led = c.led /\ d.heard = c.heard /\ d.over = (c.over \/ r.type = "agent_settled")
  <2>1. c.led \in BOOLEAN
    BY DEF Point
  <2>2. QED
    BY <1>1, <2>1 DEF After, Delivers
<1>6. Begins(c)
  BY DEF Told
<1>7. settled' = d.over
  BY <1>5, <1>6 DEF Begins
<1>8. /\ draft' \in Texts \cup {Nothing} /\ slot' \in Texts \cup {Nothing} /\ failed' \in Texts \cup {Nothing}
      /\ UNCHANGED <<text, mode>>
      /\ kind' = "left" => shown' = <<>> /\ early' = <<>> /\ initial' = Nothing
      /\ kind' = "prompt" => shown' = s.shown /\ early' = s.early /\ initial' = s.initial
  BY ShowsTyped
<1>9. Transcribed(d.heard)'
  BY <1>2, <1>5, <1>6, <1>8 DEF Begins, Transcribed
<1>10. kind' = "prompt" => initial' = IF d.led THEN text[exchange_id] ELSE Nothing
  BY <1>5, <1>6, <1>8 DEF Begins
<1>11. transcript' \in [Texts -> Nat]
  BY DEF Inner, Typed
<1>12. QED
  BY <1>1, <1>4, <1>7, <1>8, <1>9, <1>10, <1>11, ReadKeeps

\* The text of the screen is of its type.
LEMMA ScreenTyped ==
  ASSUME Inner
  PROVE  /\ screen.draft \in Texts \cup {Nothing} /\ screen.slot \in Texts \cup {Nothing} /\ screen.initial = initial
         /\ screen.shown = shown /\ screen.early = early
  BY DEF Inner, Typed, screen

\* Going on, the fates are as they were to be.
LEMMA ProceedFates ==
  ASSUME Inner, kind = "prompt", NEW f, Proceed(f)
  PROVE  /\ kind' = "prompt" => fate' = f
         /\ \A p \in Prompts : fate'[p] = "delivered" => f[p] = "delivered"
  BY DEF Proceed, Forget

LEMMA ReadClearKeeps ==
  ASSUME Inner, ReadClear, UNCHANGED work
  PROVE  Inner'
<1>1. ReadPrompt /\ UNCHANGED transcript /\ settled' = settled
  BY DEF ReadClear, ReadPrompt, AcknowledgeClear, Unheard
<1>2. PICK T : \E c \in Point : \E r \in Record :
           /\ Told(T) /\ c = T[1] /\ r = Head(records) /\ Begins(c)
           /\ Fits(c, r, exchange_id, Extra, Steers, ~interrupted)
           /\ ~interrupted => Sound(c, Extra)
           /\ r.type = "response" => Expects(r.id) /\ r.ok \in BOOLEAN
  BY <1>1, ReadPoint
<1>3. PICK c \in Point : \E r \in Record :
           /\ Told(T) /\ c = T[1] /\ r = Head(records) /\ Begins(c)
           /\ Fits(c, r, exchange_id, Extra, Steers, ~interrupted)
           /\ ~interrupted => Sound(c, Extra)
           /\ r.type = "response" => Expects(r.id) /\ r.ok \in BOOLEAN
  BY <1>2
<1>4. PICK r \in Record : /\ Told(T) /\ c = T[1] /\ r = Head(records)
                          /\ r.type = "response" => Expects(r.id)
  BY <1>3
<1>5. r.type = "response" /\ r.id = <<exchange_id, "clear">>
  BY <1>4 DEF ReadClear, AcknowledgeClear, InPrompt, Read
<1>6. interrupted
  BY <1>4, <1>5, ExpectedIs DEF Inner
<1>7. PICK s : s = [screen EXCEPT !.shown = <<>>, !.early = <<>>]
  OBVIOUS
<1>8. Shows(s)
  BY <1>7 DEF ReadClear
<1>9. s.draft \in Texts \cup {Nothing} /\ s.slot \in Texts \cup {Nothing} /\ s.initial = initial
  BY <1>7 DEF screen, Inner, Typed
<1>10. PICK f : f = [p \in Prompts |-> IF fate[p] = "waiting" THEN "cleared" ELSE fate[p]]
  OBVIOUS
<1>11. kind = "prompt" /\ Proceed(f)
  BY <1>10 DEF ReadClear, AcknowledgeClear, InPrompt
<1>12. \A p \in Prompts : fate'[p] = "delivered" => fate[p] = "delivered"
  BY <1>10, <1>11, ProceedFates
<1>13. settled' = (settled \/ r.type = "agent_settled")
  BY <1>1, <1>5 DEF Inner, Exchange, Locals
<1>14. QED
  BY <1>1, <1>4, <1>5, <1>6, <1>8, <1>9, <1>12, <1>13, NoDeliveryKeeps

LEMMA ReadOtherKeeps ==
  ASSUME Inner, ReadOther, UNCHANGED work
  PROVE  Inner'
<1>1. ReadPrompt /\ UNCHANGED transcript /\ Shows(screen)
  BY DEF ReadOther, ReadPrompt
<1>2. PICK T : \E c \in Point : \E r \in Record :
           /\ Told(T) /\ c = T[1] /\ r = Head(records) /\ Begins(c)
           /\ Fits(c, r, exchange_id, Extra, Steers, ~interrupted)
           /\ ~interrupted => Sound(c, Extra)
           /\ r.type = "response" => Expects(r.id) /\ r.ok \in BOOLEAN
  BY <1>1, ReadPoint
<1>3. PICK c \in Point : \E r \in Record :
           /\ Told(T) /\ c = T[1] /\ r = Head(records) /\ Begins(c)
           /\ Fits(c, r, exchange_id, Extra, Steers, ~interrupted)
           /\ ~interrupted => Sound(c, Extra)
           /\ r.type = "response" => Expects(r.id) /\ r.ok \in BOOLEAN
  BY <1>2
<1>4. PICK r \in Record :
           /\ Told(T) /\ c = T[1] /\ r = Head(records) /\ Begins(c)
           /\ Fits(c, r, exchange_id, Extra, Steers, ~interrupted)
           /\ r.type = "response" => Expects(r.id)
  BY <1>3
<1>5. kind = "prompt" /\ pending' \subseteq pending /\ settled \in BOOLEAN /\ Exchange
  BY <1>1, PromptRead DEF Inner, Exchange, Locals
<1>6. /\ r.type \notin {"message_start", "queue_update", "queue_rejected"}
      /\ settled' = (settled \/ r.type = "agent_settled")
      /\ r.type = "response" => r.id \in {<<exchange_id, "main">>, <<exchange_id, "abort">>}
      /\ r.id = <<exchange_id, "abort">> /\ r.type = "response" => interrupted
  <2>1. CASE AcknowledgeAbort
    <3>1. r.type = "response" /\ r.id = <<exchange_id, "abort">> /\ settled' = settled
      BY <1>4, <2>1 DEF AcknowledgeAbort, InPrompt, Read
    <3>2. QED
      BY <1>4, <1>5, <3>1, ExpectedIs
  <2>2. CASE AcknowledgePrompt
    <3>1. r.type = "response" /\ r.id = <<exchange_id, "main">> /\ settled' = settled
      BY <1>4, <2>2 DEF AcknowledgePrompt, InPrompt, Read
    <3>2. QED
      BY <1>5, <3>1, IdsDiffer
  <2>3. CASE ObserveStart
    <3>1. r.type = "agent_start" /\ settled' = FALSE
      BY <1>4, <2>3 DEF ObserveStart, InPrompt, Read
    <3>2. settled = FALSE
      BY <1>4, <1>5, <3>1 DEF Fits, Begins
    <3>3. QED
      BY <3>1, <3>2
  <2>4. CASE ObserveSettled
    BY <1>4, <2>4 DEF ObserveSettled, InPrompt, Read
  <2>5. CASE ObserveOther
    <3>1. settled' = settled /\ r.type \in {"failed", "response"}
      BY <1>4, <2>5 DEF ObserveOther
    <3>2. r.type # "response"
      <4>1. SUFFICES ASSUME r.type = "response" PROVE FALSE
        OBVIOUS
      <4>2. /\ r.id \notin {<<exchange_id, part>> : part \in {"main", "clear", "abort"}}
            /\ ~(r.id[2] = "main" /\ r.id[1] \in pending)
        BY <1>4, <2>5, <4>1 DEF ObserveOther
      <4>3. Expects(r.id)
        BY <1>4, <4>1
      <4>4. \E p \in pending : r.id = <<p, "main">>
        BY <1>5, <4>2, <4>3 DEF Expects
      <4>5. QED
        BY <4>2, <4>4, IdsDiffer
    <3>3. QED
      BY <1>5, <3>1, <3>2
  <2>6. QED
    BY <2>1, <2>2, <2>3, <2>4, <2>5 DEF ReadOther
<1>7. PICK f : /\ Proceed(f) /\ \A p \in Prompts : f[p] = "delivered" => fate[p] = "delivered"
               /\ kind' = "prompt" /\ ~interrupted => f = fate
  <2>1. CASE AcknowledgePrompt
    <3>1. PICK f : f = IF Head(records).ok THEN fate ELSE [fate EXCEPT ![exchange_id] = "returned"]
      OBVIOUS
    <3>2. Proceed(f) /\ rejection' = ~Head(records).ok
      BY <2>1, <3>1 DEF AcknowledgePrompt
    <3>3. fate \in [Prompts -> Fates]
      BY DEF Inner, Exchange, Locals
    <3>4. \A p \in Prompts : f[p] = "delivered" => fate[p] = "delivered"
      BY <3>1, <3>3
    <3>5. kind' = "prompt" /\ ~interrupted => f = fate
      <4>1. SUFFICES ASSUME kind' = "prompt", ~interrupted PROVE f = fate
        OBVIOUS
      <4>2. ~RejectionDue
        BY <3>2, <4>1 DEF Proceed
      <4>3. ~rejection'
        BY <4>1, <4>2 DEF RejectionDue
      <4>4. QED
        BY <3>1, <3>2, <4>3
    <3>6. QED
      BY <3>2, <3>4, <3>5
  <2>2. CASE ~AcknowledgePrompt
    <3>1. Proceed(fate)
      BY <2>2 DEF ReadOther, AcknowledgeAbort, ObserveSettled, ObserveOther, ObserveStart
    <3>2. QED
      BY <3>1
  <2>3. QED
    BY <2>1, <2>2
<1>8. kind' = "prompt" => fate' = f
  BY <1>5, <1>7, ProceedFates
<1>9. \A p \in Prompts : fate'[p] = "delivered" => fate[p] = "delivered"
  BY <1>5, <1>7, ProceedFates
<1>10. /\ screen.draft \in Texts \cup {Nothing} /\ screen.slot \in Texts \cup {Nothing} /\ screen.initial = initial
       /\ screen.shown = shown /\ screen.early = early
  BY ScreenTyped
<1>11. PICK s : s = screen
  OBVIOUS
<1>12. ASSUME kind' = "prompt", ~interrupted, NEW d \in Point, d = After(c, r, exchange_id) PROVE Shown(d)'
  <2>1. d.here = c.here /\ d.gone = c.gone /\ d.neat = c.neat
    <3>1. CASE r.type = "agent_settled"
      BY <1>12, <3>1, AfterSettled
    <3>2. CASE r.type # "agent_settled"
      <4>1. ~Accepts(r, exchange_id)
        BY <1>6, <1>12 DEF Accepts
      <4>2. d = c
        BY <1>6, <1>12, <3>2, <4>1, AfterOther
      <4>3. QED
        BY <4>2
    <3>3. QED
      BY <3>1, <3>2
  <2>2. Shown(c)
    BY <1>4, <1>12 DEF Begins
  <2>3. UNCHANGED <<text, mode, shown, early>>
    BY <1>1, <1>10, <1>12, ShowsTyped
  <2>4. UNCHANGED fate
    BY <1>7, <1>8, <1>12
  <2>5. QED
    BY <1>5, <2>1, <2>2, <2>3, <2>4, ShownStays
<1>13. Shows(s) /\ s.draft \in Texts \cup {Nothing} /\ s.slot \in Texts \cup {Nothing} /\ s.initial = initial
  BY <1>1, <1>10, <1>11
<1>14. QED
  BY <1>1, <1>4, <1>6, <1>9, <1>12, <1>13, NoDeliveryKeeps

\* The first point and the first record of the story.
ReadsAt(T, c, r) ==
  /\ Told(T) /\ c = T[1] /\ r = Head(records) /\ Begins(c)
  /\ Fits(c, r, exchange_id, Extra, Steers, ~interrupted)
  /\ ~interrupted => Sound(c, Extra)
  /\ r.type = "response" => Expects(r.id) /\ r.ok \in BOOLEAN

LEMMA PointRead ==
  ASSUME Inner, ReadPrompt
  PROVE  \E T : \E c \in Point : \E r \in Record : ReadsAt(T, c, r)
BY ReadPoint DEF ReadsAt

\* One more item, and one less.
Listed(s, e) == \E g : Lists(g, s, e)
Grown(e, p, item) == [q \in DOMAIN e \cup {p} |-> IF q = p THEN item ELSE e[q]]
Shrunk(e, p) == [q \in DOMAIN e \ {p} |-> e[q]]

LEMMA ItemAdds ==
  ASSUME NEW g, NEW s, NEW e, Lists(g, s, e), NEW item \in Items, NEW p, p \notin DOMAIN e
  PROVE  Listed(Append(s, item), Grown(e, p, item))
<1>1. \E f : Lists(f, Append(s, item), [q \in DOMAIN e \cup {p} |-> IF q = p THEN item ELSE e[q]])
  BY ListAdds
<1>2. QED
  BY <1>1 DEF Listed, Grown

LEMMA ItemLeaves ==
  ASSUME NEW g, NEW s, NEW e, Lists(g, s, e), NEW i \in DOMAIN s, NEW p \in DOMAIN e, s[i] = e[p]
  PROVE  Listed(RemoveAt(s, i), Shrunk(e, p))
<1>1. \E f : Lists(f, RemoveAt(s, i), [q \in DOMAIN e \ {p} |-> e[q]])
  BY ListLoses
<1>2. QED
  BY <1>1 DEF Listed, Shrunk

LEMMA ReadQueuedKeeps ==
  ASSUME Inner, ReadQueued, UNCHANGED work
  PROVE  Inner'
<1>1. ReadPrompt /\ UNCHANGED transcript /\ kind = "prompt" /\ settled' = settled /\ settled \in BOOLEAN
  BY DEF ReadQueued, ReadPrompt, AcknowledgeQueued, InPrompt, Inner, Exchange, Locals
<1>2. PICK T : \E c \in Point : \E r \in Record : ReadsAt(T, c, r)
  BY <1>1, PointRead
<1>3. PICK c \in Point : \E r \in Record : ReadsAt(T, c, r)
  BY <1>2
<1>4. PICK r \in Record : ReadsAt(T, c, r)
  BY <1>3
<1>5. PICK p : p = r.id[1]
  OBVIOUS
<1>6. /\ r.type = "response" /\ r.id[2] = "main" /\ p \in pending /\ pending' = pending \ {p}
      /\ r.ok \in BOOLEAN /\ r = Head(records)
  BY <1>4, <1>5 DEF ReadsAt, ReadQueued, AcknowledgeQueued, InPrompt, Read
<1>7. /\ p \in Extra /\ p \in 1 .. sent /\ p # exchange_id /\ text[p] \in Texts /\ mode[p] \in {"steer", "followUp"}
      /\ pending \subseteq Extra /\ p \in Prompts /\ Extra \subseteq Prompts
  <2>1. pending \subseteq Extra /\ p \in Extra /\ mode[exchange_id] = "none"
    BY <1>1, <1>6 DEF Inner, Written
  <2>2. 1 .. sent \subseteq Prompts
    BY WireAssumption DEF Inner, Typed, WireTyped, Prompts
  <2>3. QED
    BY <2>1, <2>2 DEF Extra
<1>8. r.id # <<exchange_id, "main">>
  BY <1>5, <1>7, IdsDiffer
<1>9. PICK s : s = IF ~r.ok \/ interrupted THEN Rejected(screen, text[p], mode[p])
                   ELSE [screen EXCEPT !.shown = Accept(text[p], mode[p]), !.early = EarlyAfter(text[p])]
  OBVIOUS
<1>10. Shows(s)
  BY <1>5, <1>6, <1>9 DEF ReadQueued
<1>11. /\ s.draft \in Texts \cup {Nothing} /\ s.slot \in Texts \cup {Nothing} /\ s.initial = initial
       /\ r.ok /\ ~interrupted => s.shown = Accept(text[p], mode[p]) /\ s.early = EarlyAfter(text[p])
       /\ ~r.ok => s.shown = Without(shown, text[p], mode[p]) /\ s.early = early
  <2>1. draft \in Texts \cup {Nothing} /\ slot \in Texts \cup {Nothing}
    BY DEF Inner, Typed
  <2>2. CASE ~r.ok \/ interrupted
    <3>1. s = Rejected(screen, text[p], mode[p])
      BY <1>9, <2>2
    <3>2. QED
      BY <1>7, <2>1, <2>2, <3>1 DEF Rejected, screen
  <2>3. CASE r.ok /\ ~interrupted
    <3>1. s = [screen EXCEPT !.shown = Accept(text[p], mode[p]), !.early = EarlyAfter(text[p])]
      BY <1>9, <2>3
    <3>2. QED
      BY <2>1, <2>3, <3>1 DEF screen
  <2>4. QED
    BY <2>2, <2>3
<1>12. PICK f : f = [fate EXCEPT ![p] = CASE ~r.ok -> "returned"
                                          [] r.ok /\ interrupted -> "uncertain"
                                          [] r.ok /\ ~interrupted /\ @ = "delivered" -> @
                                          [] OTHER -> "waiting"]
  OBVIOUS
<1>13. Proceed(f)
  BY <1>5, <1>6, <1>12 DEF ReadQueued, AcknowledgeQueued
<1>14. fate \in [Prompts -> Fates]
  BY DEF Inner, Exchange, Locals
<1>15. /\ \A q \in Prompts : q # p => f[q] = fate[q]
       /\ ~r.ok => f[p] = "returned"
       /\ r.ok /\ ~interrupted /\ fate[p] # "delivered" => f[p] = "waiting"
       /\ f[p] = "delivered" => fate[p] = "delivered"
  BY <1>6, <1>7, <1>12, <1>14
<1>16. \A q \in Prompts : fate'[q] = "delivered" => fate[q] = "delivered"
  BY <1>1, <1>13, <1>15, ProceedFates
<1>17. ASSUME kind' = "prompt", ~interrupted, NEW d \in Point, d = After(c, r, exchange_id) PROVE Shown(d)'
  <2>1. Shown(c) /\ Sound(c, Extra)
    BY <1>4, <1>17 DEF ReadsAt, Begins
  <2>2. fate' = f
    BY <1>1, <1>13, <1>17, ProceedFates
  <2>3. UNCHANGED <<text, mode>> /\ shown' = s.shown /\ early' = s.early
    BY <1>1, <1>10, <1>11, <1>17, ShowsTyped
  <2>4. early = <<>> /\ fate[p] = "pending" /\ \A q \in pending' : fate[q] = "pending" /\ q # p /\ q \in Prompts
    BY <1>6, <1>7, <2>1 DEF Shown
  <2>5. CASE ~r.ok
    <3>1. d = c
      <4>1. ~Accepts(r, exchange_id)
        BY <2>5 DEF Accepts
      <4>2. QED
        BY <1>6, <1>17, <4>1, AfterOther
    <3>2. UNCHANGED <<shown, early>>
      BY <1>11, <2>1, <2>3, <2>5, AllAccepted
    <3>3. \A q \in Prompts : fate'[q] = "waiting" <=> fate[q] = "waiting"
      BY <1>15, <2>2, <2>4, <2>5
    <3>4. \A q \in pending' : fate'[q] = fate[q]
      BY <1>15, <2>2, <2>4
    <3>5. pending' \subseteq pending
      BY <1>6
    <3>6. QED
      BY <2>1, <2>3, <3>1, <3>2, <3>3, <3>4, <3>5, ShownStays
  <2>6. CASE r.ok
    <3>1. Accepts(r, exchange_id)
      BY <1>6, <1>8, <2>6 DEF Accepts
    <3>2. d.here = c.here \cup {p} /\ d.gone = c.gone /\ ~d.neat
      BY <1>5, <1>17, <3>1, AfterAccepted
    <3>3. p \notin c.here \cup c.gone
      BY <1>4, <1>5, <1>17, <3>1 DEF ReadsAt, Fits, Listable
    <3>4. early' = <<>> /\ shown' = Append(shown, Item(text[p], mode[p], TRUE))
      <4>1. EarlyOf(text[p]) = {}
        BY <2>4 DEF EarlyOf
      <4>2. {i \in DOMAIN shown : Matches(shown[i], text[p], mode[p]) /\ ~shown[i].accepted} = {}
        BY <2>1, AllAccepted
      <4>3. EarlyAfter(text[p]) = <<>>
        BY <2>4, <4>1 DEF EarlyAfter
      <4>4. Accept(text[p], mode[p]) = Append(shown, Item(text[p], mode[p], TRUE))
        BY <4>1, <4>2 DEF Accept
      <4>5. QED
        BY <1>11, <1>17, <2>3, <2>6, <4>3, <4>4
    <3>5. PICK item : item = Item(text[p], mode[p], TRUE)
      OBVIOUS
    <3>6. item \in Items /\ item = Entry(p, c.gone)
      <4>1. mode[p] \in Modes
        BY <1>7 DEF Modes
      <4>2. (p \in c.gone) = FALSE
        BY <3>3
      <4>3. QED
        BY <1>7, <3>5, <4>1, <4>2 DEF Item, Items, Entry
    <3>7. PICK e : e = Entries(c)
      OBVIOUS
    <3>8. DOMAIN e = c.here \cup c.gone /\ \A q \in DOMAIN e : e[q] = Entry(q, c.gone)
      BY <3>7 DEF Entries, EntriesOf
    <3>9. PICK g : Lists(g, shown, e)
      BY <2>1, <3>7 DEF Shown
    <3>10. Listed(Append(shown, item), Grown(e, p, item))
      BY <3>3, <3>6, <3>8, <3>9, ItemAdds
    <3>11. Entries(d)' = Grown(e, p, item)
      <4>1. Entries(d)' = [q \in (c.here \cup c.gone) \cup {p} |-> Entry(q, c.gone)]
        <5>1. d.here \cup d.gone = (c.here \cup c.gone) \cup {p}
          BY <3>2
        <5>2. Entries(d)' = [q \in d.here \cup d.gone |-> Entry(q, d.gone)]
          BY <2>3 DEF Entries, EntriesOf, Entry
        <5>3. QED
          BY <3>2, <5>1, <5>2
      <4>2. QED
        BY <3>6, <3>8, <4>1 DEF Grown
    <3>12. \E h : Lists(h, shown', Entries(d)')
      BY <3>4, <3>5, <3>10, <3>11 DEF Listed
    <3>13. {q \in Prompts : fate'[q] = "waiting"} = d.here \cup d.gone
      <4>1. {q \in Prompts : fate[q] = "waiting"} = c.here \cup c.gone
        BY <2>1 DEF Shown
      <4>2. f[p] = "waiting"
        BY <1>15, <1>17, <2>4, <2>6
      <4>3. QED
        BY <1>7, <1>15, <2>2, <3>2, <4>1, <4>2
    <3>14. \A q \in pending' : fate'[q] = "pending"
      BY <1>15, <2>2, <2>4
    <3>15. QED
      BY <3>2, <3>4, <3>12, <3>13, <3>14 DEF Shown
  <2>7. QED
    BY <2>5, <2>6
<1>18. r.type # "message_start" /\ settled' = (settled \/ r.type = "agent_settled")
  BY <1>1, <1>6
<1>19. Told(T) /\ c = T[1] /\ r = Head(records)
  BY <1>4 DEF ReadsAt
<1>20. QED
  BY <1>1, <1>10, <1>11, <1>16, <1>17, <1>18, <1>19, NoDeliveryKeeps

\* Nothing is shown.
LEMMA NothingShown ==
  ASSUME NEW d, d.here = {}, d.gone = {}, shown' = <<>>, early' = <<>>,
         \A q \in Prompts : fate'[q] # "waiting", \A q \in pending' : fate'[q] = "pending"
  PROVE  Shown(d)'
<1>1. PICK e : e = Entries(d)'
  OBVIOUS
<1>2. DOMAIN e = {}
  BY <1>1 DEF Entries, EntriesOf
<1>3. PICK g : g = [q \in {} |-> 1]
  OBVIOUS
<1>4. Lists(g, <<>>, e)
  BY <1>2, <1>3 DEF Lists
<1>5. Lists(g, shown', Entries(d)')
  BY <1>1, <1>4
<1>6. Neat(shown')
  BY DEF Neat
<1>7. {q \in Prompts : fate'[q] = "waiting"} = {}
  OBVIOUS
<1>8. QED
  BY <1>5, <1>6, <1>7 DEF Shown

LEMMA ReadRejectedKeeps ==
  ASSUME Inner, ReadRejected, UNCHANGED work
  PROVE  Inner'
<1>1. ReadPrompt /\ UNCHANGED transcript /\ kind = "prompt" /\ settled' = settled /\ settled \in BOOLEAN /\ UNCHANGED pending
  BY DEF ReadRejected, ReadPrompt, ObserveRejected, InPrompt, Inner, Exchange, Locals
<1>2. PICK T : \E c \in Point : \E r \in Record : ReadsAt(T, c, r)
  BY <1>1, PointRead
<1>3. PICK c \in Point : \E r \in Record : ReadsAt(T, c, r)
  BY <1>2
<1>4. PICK r \in Record : ReadsAt(T, c, r)
  BY <1>3
<1>5. r.type = "queue_rejected" /\ r = Head(records)
  BY <1>4 DEF ReadsAt, ReadRejected, ObserveRejected, InPrompt, Read
<1>6. PICK p : p = r.prompt
  OBVIOUS
<1>7. p \in Prompts /\ text[p] \in Texts \cup {Nothing}
  BY <1>5, <1>6 DEF Record, Inner, Typed
<1>8. PICK s : s = Rejected([screen EXCEPT !.shown = <<>>, !.early = <<>>], text[p], mode[p])
  OBVIOUS
<1>9. Shows(s)
  BY <1>5, <1>6, <1>8 DEF ReadRejected
<1>10. /\ s.draft \in Texts \cup {Nothing} /\ s.slot \in Texts \cup {Nothing} /\ s.initial = initial
       /\ s.shown = Without(<<>>, text[p], mode[p]) /\ s.early = <<>>
  <2>1. draft \in Texts \cup {Nothing} /\ slot \in Texts \cup {Nothing}
    BY DEF Inner, Typed
  <2>2. QED
    BY <1>7, <1>8, <2>1 DEF Rejected, screen
<1>11. PICK f : f = [Forget(fate) EXCEPT ![p] = "returned"]
  OBVIOUS
<1>12. Proceed(f)
  BY <1>5, <1>6, <1>11 DEF ReadRejected, ObserveRejected
<1>13. \A q \in Prompts : f[q] = IF q = p THEN "returned" ELSE IF fate[q] = "waiting" THEN "lost" ELSE fate[q]
  BY <1>7, <1>11 DEF Forget
<1>14. \A q \in Prompts : fate'[q] = "delivered" => fate[q] = "delivered"
  BY <1>1, <1>12, <1>13, ProceedFates
<1>15. ASSUME kind' = "prompt", ~interrupted, NEW d \in Point, d = After(c, r, exchange_id) PROVE Shown(d)'
  <2>1. Shown(c) /\ p \in c.here
    BY <1>4, <1>5, <1>6, <1>15 DEF ReadsAt, Begins, Fits, Listable, Rejects
  <2>2. fate' = f
    BY <1>1, <1>12, <1>15, ProceedFates
  <2>3. shown' = Without(<<>>, text[p], mode[p]) /\ early' = <<>>
    BY <1>1, <1>9, <1>10, <1>15, ShowsTyped
  <2>4. shown' = <<>>
    BY <2>3 DEF Without
  <2>5. d.here = {} /\ d.gone = {}
    BY <1>5, <1>15, AfterRejected
  <2>6. fate[p] = "waiting" /\ \A q \in pending : fate[q] = "pending"
    BY <2>1 DEF Shown
  <2>7. pending \subseteq Prompts
    <3>1. 1 .. sent \subseteq Prompts
      BY WireAssumption DEF Inner, Typed, WireTyped, Prompts
    <3>2. QED
      BY <3>1 DEF Inner, Written, Extra
  <2>8. \A q \in pending' : fate'[q] = "pending"
    BY <1>1, <1>13, <2>2, <2>6, <2>7
  <2>9. \A q \in Prompts : fate'[q] # "waiting"
    BY <1>13, <2>2
  <2>10. QED
    BY <2>3, <2>4, <2>5, <2>8, <2>9, NothingShown
<1>16. r.type # "message_start" /\ settled' = (settled \/ r.type = "agent_settled")
  BY <1>1, <1>5
<1>17. Told(T) /\ c = T[1]
  BY <1>4 DEF ReadsAt
<1>18. QED
  BY <1>1, <1>5, <1>9, <1>10, <1>14, <1>15, <1>16, <1>17, NoDeliveryKeeps

LEMMA ReadQueueUpdateKeeps ==
  ASSUME Inner, ReadQueueUpdate, UNCHANGED work
  PROVE  Inner'
<1>1. ReadPrompt /\ UNCHANGED transcript /\ kind = "prompt" /\ settled' = settled /\ settled \in BOOLEAN /\ UNCHANGED pending
  BY DEF ReadQueueUpdate, ReadPrompt, ObserveQueue, InPrompt, Inner, Exchange, Locals, Unheard
<1>2. PICK T : \E c \in Point : \E r \in Record : ReadsAt(T, c, r)
  BY <1>1, PointRead
<1>3. PICK c \in Point : \E r \in Record : ReadsAt(T, c, r)
  BY <1>2
<1>4. PICK r \in Record : ReadsAt(T, c, r)
  BY <1>3
<1>5. r.type = "queue_update" /\ r = Head(records)
  BY <1>4 DEF ReadsAt, ReadQueueUpdate, ObserveQueue, InPrompt, Read
<1>6. PICK q : q = r.waiting
  OBVIOUS
<1>7. q \in Seq(Queued)
  BY <1>5, <1>6 DEF Record
<1>8. PICK s : s = [screen EXCEPT !.shown = UpdatedQueue(q)]
  OBVIOUS
<1>9. Shows(s)
  BY <1>5, <1>6, <1>8 DEF ReadQueueUpdate
<1>10. /\ s.draft \in Texts \cup {Nothing} /\ s.slot \in Texts \cup {Nothing} /\ s.initial = initial
       /\ s.shown = UpdatedQueue(q) /\ s.early = early
  <2>1. draft \in Texts \cup {Nothing} /\ slot \in Texts \cup {Nothing}
    BY DEF Inner, Typed
  <2>2. QED
    BY <1>8, <2>1 DEF screen
<1>11. Proceed(fate)
  BY DEF ReadQueueUpdate, ObserveQueue
<1>12. \A p \in Prompts : fate'[p] = "delivered" => fate[p] = "delivered"
  BY <1>1, <1>11, ProceedFates
<1>13. ASSUME kind' = "prompt", ~interrupted, NEW d \in Point, d = After(c, r, exchange_id) PROVE Shown(d)'
  <2>1. Shown(c) /\ Sound(c, Extra) /\ Ordered(q, Extra, Steers) /\ IdsIn(q) \subseteq c.here
    BY <1>4, <1>5, <1>6, <1>13 DEF ReadsAt, Begins, Fits, Listable, Updates
  <2>2. fate' = fate
    BY <1>1, <1>11, <1>13, ProceedFates
  <2>3. UNCHANGED <<text, mode>> /\ shown' = UpdatedQueue(q) /\ early' = early
    BY <1>1, <1>9, <1>10, <1>13, ShowsTyped
  <2>4. d.here = IdsIn(q) /\ d.gone = c.gone \cup (c.here \ IdsIn(q)) /\ d.neat
    BY <1>5, <1>6, <1>13, AfterUpdate
  <2>5. PICK g : Lists(g, shown, Entries(c))
    BY <2>1 DEF Shown
  <2>6. (\E f : Lists(f, UpdatedQueue(q), Entries(d))) /\ Neat(UpdatedQueue(q))
    BY <1>7, <2>1, <2>4, <2>5, UpdateLists
  <2>7. Entries(d)' = Entries(d)
    BY <2>3 DEF Entries, EntriesOf, Entry
  <2>8. PICK f : Lists(f, UpdatedQueue(q), Entries(d))
    BY <2>6
  <2>9. PICK u : u = UpdatedQueue(q)
    OBVIOUS
  <2>10. Lists(f, shown', Entries(d)') /\ Neat(shown')
    <3>1. shown' = u /\ Lists(f, u, Entries(d)) /\ Neat(u)
      BY <2>3, <2>6, <2>8, <2>9
    <3>2. QED
      BY <2>7, <3>1
  <2>11. {p \in Prompts : fate'[p] = "waiting"} = d.here \cup d.gone
    <3>1. d.here \cup d.gone = c.here \cup c.gone
      BY <2>1, <2>4
    <3>2. QED
      BY <2>1, <2>2, <3>1 DEF Shown
  <2>12. early' = <<>> /\ \A p \in pending' : fate'[p] = "pending"
    BY <1>1, <2>1, <2>2, <2>3 DEF Shown
  <2>13. QED
    BY <2>10, <2>11, <2>12 DEF Shown
<1>14. r.type # "message_start" /\ settled' = (settled \/ r.type = "agent_settled")
  BY <1>1, <1>5
<1>15. Told(T) /\ c = T[1]
  BY <1>4 DEF ReadsAt
<1>16. QED
  BY <1>1, <1>5, <1>9, <1>10, <1>12, <1>13, <1>14, <1>15, NoDeliveryKeeps

\* The item of a submission.
LEMMA EntryIs ==
  ASSUME NEW p, NEW gone
  PROVE  /\ Entry(p, gone).text = text[p] /\ Entry(p, gone).mode = mode[p] /\ Entry(p, gone).accepted
         /\ Entry(p, gone).sending <=> p \in gone
<1>1. CASE p \in gone
  <2>1. (p \in gone) = TRUE
    BY <1>1
  <2>2. Entry(p, gone) = [text |-> text[p], mode |-> mode[p], accepted |-> TRUE, sending |-> TRUE]
    BY <2>1 DEF Entry
  <2>3. QED
    BY <1>1, <2>2
<1>2. CASE p \notin gone
  <2>1. (p \in gone) = FALSE
    BY <1>2
  <2>2. Entry(p, gone) = [text |-> text[p], mode |-> mode[p], accepted |-> TRUE, sending |-> FALSE]
    BY <2>1 DEF Entry
  <2>3. QED
    BY <1>2, <2>2
<1>3. QED
  BY <1>1, <1>2

\* A delivered text belongs to an item that is like that of its submission.
LEMMA DeliveredItem ==
  ASSUME NEW c, Shown(c), NEW p, \/ c.gone = {p}
                                 \/ c.gone = {} /\ p \in c.here \cap Steers /\ c.neat
  PROVE  \E i \in DOMAIN shown : /\ Delivered(text[p]) = {i} /\ shown[i] = Entry(p, c.gone)
                                 /\ shown[i].accepted /\ i \in Nat
<1>1. PICK g : Lists(g, shown, Entries(c))
  BY DEF Shown
<1>2. PICK e : e = Entries(c)
  OBVIOUS
<1>3. DOMAIN e = c.here \cup c.gone /\ \A q \in DOMAIN e : e[q] = Entry(q, c.gone)
  BY <1>2 DEF Entries, EntriesOf
<1>4. /\ shown \in Seq(Items) /\ \A q \in DOMAIN e : g[q] \in DOMAIN shown /\ shown[g[q]] = e[q]
      /\ \A i \in DOMAIN shown : \E q \in DOMAIN e : g[q] = i
  BY <1>1, <1>2 DEF Lists
<1>5. p \in DOMAIN e /\ DOMAIN shown \subseteq Nat
  BY <1>3, <1>4
<1>6. PICK all : all = {i \in DOMAIN shown : shown[i].text = text[p]}
  OBVIOUS
<1>7. PICK leaving : leaving = {i \in all : shown[i].sending}
  OBVIOUS
<1>8. PICK k : k = g[p]
  OBVIOUS
<1>9. k \in DOMAIN shown /\ shown[k] = Entry(p, c.gone) /\ shown[k].text = text[p] /\ k \in all /\ all \in SUBSET Nat
  BY <1>3, <1>4, <1>5, <1>6, <1>8 DEF Entry
<1>10. Delivered(text[p]) = {Min(IF leaving # {} THEN leaving ELSE all)}
  BY <1>6, <1>7, <1>9 DEF Delivered
<1>11. ASSUME NEW i \in DOMAIN shown
       PROVE  \E q \in c.here \cup c.gone : i = g[q] /\ shown[i] = Entry(q, c.gone)
  BY <1>3, <1>4
<1>12. CASE c.gone = {p}
  <2>1. \A i \in leaving : i = k
    <3> TAKE i \in leaving
    <3>1. i \in DOMAIN shown /\ shown[i].sending
      BY <1>6, <1>7
    <3>2. PICK q \in c.here \cup c.gone : i = g[q] /\ shown[i] = Entry(q, c.gone)
      BY <1>11, <3>1
    <3>3. q \in c.gone
      BY <3>1, <3>2, EntryIs
    <3>4. QED
      BY <1>8, <1>12, <3>2, <3>3
  <2>2. k \in leaving
    <3>1. shown[k].sending
      BY <1>9, <1>12, EntryIs
    <3>2. QED
      BY <1>7, <1>9, <3>1
  <2>3. leaving \in SUBSET Nat /\ leaving # {}
    BY <1>7, <1>9, <2>2
  <2>4. Min(leaving) = k
    BY <2>1, <2>3, SmallestOf
  <2>5. QED
    BY <1>5, <1>9, <1>10, <2>3, <2>4 DEF Entry
<1>13. CASE c.gone = {} /\ p \in c.here \cap Steers /\ c.neat
  <2>1. ASSUME NEW i \in DOMAIN shown PROVE ~shown[i].sending /\ shown[i].accepted
    <3>1. PICK q \in c.here \cup c.gone : shown[i] = Entry(q, c.gone)
      BY <1>11
    <3>2. QED
      BY <1>13, <3>1, EntryIs
  <2>2. leaving = {}
    BY <1>6, <1>7, <2>1
  <2>3. PICK i : i = Min(all)
    OBVIOUS
  <2>4. i \in all /\ i <= k
    BY <1>9, <2>3, SmallestOf
  <2>5. i \in DOMAIN shown /\ shown[i].text = text[p] /\ i \in Nat /\ k \in Nat
    BY <1>5, <1>6, <1>9, <2>4
  <2>6. shown[k].mode = "steer"
    BY <1>9, <1>13 DEF Entry, Steers
  <2>7. shown[i].mode = "steer"
    <3>1. CASE i = k
      BY <2>6, <3>1
    <3>2. CASE i < k
      <4>1. Neat(shown)
        BY <1>13 DEF Shown
      <4>2. QED
        BY <1>9, <2>1, <2>5, <2>6, <3>2, <4>1 DEF Neat
    <3>3. QED
      BY <2>4, <2>5, <3>1, <3>2
  <2>8. PICK q \in c.here \cup c.gone : i = g[q] /\ shown[i] = Entry(q, c.gone)
    BY <1>11, <2>5
  <2>9. text[q] = text[p] /\ mode[q] = "steer" /\ mode[p] = "steer" /\ q \notin c.gone /\ p \notin c.gone
    BY <1>13, <2>5, <2>7, <2>8 DEF Entry, Steers
  <2>10. Entry(q, c.gone) = Entry(p, c.gone)
    <3>1. (q \in c.gone) = FALSE /\ (p \in c.gone) = FALSE
      BY <2>9
    <3>2. QED
      BY <2>9, <3>1 DEF Entry
  <2>11. QED
    BY <1>10, <2>1, <2>2, <2>3, <2>5, <2>8, <2>10
<1>14. QED
  BY <1>12, <1>13

LEMMA NeatLoses ==
  ASSUME NEW s \in Seq(Items), Neat(s), NEW i \in DOMAIN s
  PROVE  Neat(RemoveAt(s, i))
<1>1. PICK u : u = RemoveAt(s, i)
  OBVIOUS
<1>2. PICK n \in Nat : n = Len(s)
  OBVIOUS
<1>3. /\ DOMAIN u = 1 .. (n - 1) /\ \A k \in 1 .. (i - 1) : u[k] = s[k]
      /\ \A k \in i .. (n - 1) : u[k] = s[k + 1]
  BY <1>1, <1>2, RemovedElements
<1>4. i \in 1 .. n /\ DOMAIN s = 1 .. n
  BY <1>2
<1>5. PICK h : h = [k \in DOMAIN u |-> IF k < i THEN k ELSE k + 1]
  OBVIOUS
<1>6. \A k \in DOMAIN u : h[k] \in DOMAIN s /\ u[k] = s[h[k]] /\ h[k] \in Nat
  <2> TAKE k \in DOMAIN u
  <2>1. k \in 1 .. (n - 1)
    BY <1>3
  <2>2. CASE k < i
    <3>1. h[k] = k /\ k \in 1 .. (i - 1) /\ k \in 1 .. n
      BY <1>2, <1>4, <1>5, <2>1, <2>2
    <3>2. QED
      BY <1>3, <1>4, <3>1
  <2>3. CASE ~(k < i)
    <3>1. h[k] = k + 1 /\ k \in i .. (n - 1) /\ k + 1 \in 1 .. n
      BY <1>2, <1>4, <1>5, <2>1, <2>3
    <3>2. QED
      BY <1>3, <1>4, <3>1
  <2>4. QED
    BY <2>2, <2>3
<1>7. \A j, k \in DOMAIN u : j < k => h[j] < h[k]
  BY <1>2, <1>3, <1>4, <1>5
<1>8. Neat(u)
  BY <1>6, <1>7 DEF Neat
<1>9. QED
  BY <1>1, <1>8

\* The submission is shown no more.
LEMMA ShownLess ==
  ASSUME NEW c, Shown(c), NEW p \in c.here \cup c.gone, NEW d,
         d.here = c.here \ {p}, d.gone = c.gone \ {p}, d.neat = c.neat,
         NEW i \in DOMAIN shown, shown[i] = Entry(p, c.gone), shown' = RemoveAt(shown, i), early' = <<>>,
         UNCHANGED <<text, mode>>, pending' = pending,
         \A q \in Prompts : q # p => fate'[q] = fate[q], fate'[p] # "waiting", pending \subseteq Prompts
  PROVE  Shown(d)'
<1>1. PICK g : Lists(g, shown, Entries(c))
  BY DEF Shown
<1>2. PICK e : e = Entries(c)
  OBVIOUS
<1>3. DOMAIN e = c.here \cup c.gone /\ \A q \in DOMAIN e : e[q] = Entry(q, c.gone)
  BY <1>2 DEF Entries, EntriesOf
<1>4. Listed(RemoveAt(shown, i), Shrunk(e, p))
  <2>1. Lists(g, shown, e) /\ p \in DOMAIN e /\ shown[i] = e[p]
    BY <1>1, <1>2, <1>3
  <2>2. QED
    BY <2>1, ItemLeaves
<1>5. Entries(d)' = Shrunk(e, p)
  <2>1. d.here \cup d.gone = (c.here \cup c.gone) \ {p}
    OBVIOUS
  <2>2. Entries(d)' = [q \in (c.here \cup c.gone) \ {p} |-> Entry(q, d.gone)]
    BY <2>1 DEF Entries, EntriesOf, Entry
  <2>3. \A q \in (c.here \cup c.gone) \ {p} : Entry(q, d.gone) = Entry(q, c.gone)
    <3> TAKE q \in (c.here \cup c.gone) \ {p}
    <3>1. (q \in d.gone) = (q \in c.gone)
      OBVIOUS
    <3>2. QED
      BY <3>1 DEF Entry
  <2>4. QED
    BY <1>3, <2>2, <2>3 DEF Shrunk
<1>6. \E f : Lists(f, shown', Entries(d)')
  BY <1>4, <1>5 DEF Listed
<1>7. d.neat => Neat(shown')
  <2>1. shown \in Seq(Items)
    BY <1>1 DEF Lists
  <2>2. QED
    BY <2>1, NeatLoses DEF Shown
<1>8. {q \in Prompts : fate[q] = "waiting"} = c.here \cup c.gone
  BY DEF Shown
<1>9. {q \in Prompts : fate'[q] = "waiting"} = d.here \cup d.gone
  BY <1>8
<1>10. \A q \in pending' : fate'[q] = "pending"
  <2>1. fate[p] = "waiting" /\ \A q \in pending : fate[q] = "pending"
    BY <1>8 DEF Shown
  <2>2. QED
    BY <2>1
<1>11. QED
  BY <1>6, <1>7, <1>9, <1>10 DEF Shown

\* The prompt itself is delivered: it stands in the transcript already.
LEMMA PromptDelivered ==
  ASSUME Inner, ReadDelivery, UNCHANGED work, NEW T, NEW c \in Point, NEW r \in Record, ReadsAt(T, c, r),
         r.prompt = exchange_id, c.led
  PROVE  Inner'
<1>1. ReadPrompt /\ kind = "prompt" /\ settled' = settled /\ UNCHANGED pending
  BY DEF ReadDelivery, ReadPrompt, ObserveDelivery, InPrompt
<1>2. r.type = "message_start" /\ r = Head(records) /\ Told(T) /\ c = T[1] /\ Begins(c)
  BY DEF ReadsAt, ReadDelivery, ObserveDelivery, InPrompt, Read
<1>3. PICK p : p = exchange_id
  OBVIOUS
<1>4. /\ p \in 1 .. sent /\ mode[p] = "none" /\ text[p] \in Texts /\ p \in Prompts /\ pending \subseteq Extra
      /\ p \notin Extra /\ Extra \subseteq Prompts
  <2>1. p \in 1 .. sent /\ mode[p] = "none" /\ text[p] \in Texts /\ pending \subseteq Extra
    BY <1>1, <1>3 DEF Inner, Written
  <2>2. 1 .. sent \subseteq Prompts
    BY WireAssumption DEF Inner, Typed, WireTyped, Prompts
  <2>3. QED
    BY <2>1, <2>2 DEF Extra
<1>5. p \in c.heard
  BY <1>2, <1>4 DEF Begins, Transcribed
<1>6. PICK d : d = After(c, r, p)
  OBVIOUS
<1>7. /\ ~d.led /\ d.led \in BOOLEAN /\ d.over = c.over /\ d.heard = c.heard
      /\ d.here = c.here \ {p} /\ d.gone = c.gone \ {p} /\ d.neat = c.neat
  <2>1. /\ d.led = (c.led /\ r.prompt # p) /\ d.over = c.over /\ d.heard = c.heard \cup {r.prompt}
        /\ d.here = c.here \ {r.prompt} /\ d.gone = c.gone \ {r.prompt} /\ d.neat = c.neat
    BY <1>2, <1>6, AfterDelivery
  <2>2. QED
    BY <1>3, <1>5, <2>1
<1>8. PICK s : s = [screen EXCEPT !.initial = Nothing]
  OBVIOUS
<1>9. Shows(s) /\ UNCHANGED transcript
  <2>1. initial = text[p]
    BY <1>2, <1>3 DEF Begins
  <2>2. QED
    BY <1>2, <1>3, <1>8, <2>1 DEF ReadDelivery
<1>10. /\ s.draft \in Texts \cup {Nothing} /\ s.slot \in Texts \cup {Nothing} /\ s.initial = Nothing
       /\ s.shown = shown /\ s.early = early
  BY <1>8 DEF screen, Inner, Typed
<1>11. PICK f : f = [fate EXCEPT ![p] = IF @ \in {"pending", "waiting"} THEN "delivered" ELSE @]
  OBVIOUS
<1>12. Proceed(f)
  BY <1>2, <1>3, <1>11 DEF ReadDelivery, ObserveDelivery
<1>13. fate \in [Prompts -> Fates]
  BY DEF Inner, Exchange, Locals
<1>14. /\ \A q \in Prompts : q # p => f[q] = fate[q]
       /\ f[p] # "waiting"
  BY <1>4, <1>11, <1>13
<1>15. /\ draft' \in Texts \cup {Nothing} /\ slot' \in Texts \cup {Nothing} /\ failed' \in Texts \cup {Nothing}
       /\ UNCHANGED <<text, mode>>
       /\ kind' = "left" => shown' = <<>> /\ early' = <<>> /\ initial' = Nothing
       /\ kind' = "prompt" => shown' = s.shown /\ early' = s.early /\ initial' = s.initial
  BY <1>1, <1>9, <1>10, ShowsTyped
<1>16. /\ kind' = "prompt" => fate' = f
       /\ \A q \in Prompts : fate'[q] = "delivered" => f[q] = "delivered"
  BY <1>1, <1>12, ProceedFates
<1>17. UNCHANGED sent
  BY <1>1, PromptRead
<1>18. Transcribed(d.heard)'
  <2>1. Transcribed(c.heard)
    BY <1>2 DEF Begins
  <2>2. \A q \in Prompts : fate'[q] = "delivered" => q \in c.heard
    BY <1>5, <1>14, <1>16, <2>1 DEF Transcribed
  <2>3. QED
    BY <1>7, <1>9, <1>15, <1>17, <2>1, <2>2 DEF Transcribed
<1>19. ASSUME kind' = "prompt", ~interrupted PROVE Shown(d)'
  <2>1. Shown(c) /\ Sound(c, Extra)
    BY <1>2, <1>19 DEF ReadsAt, Begins
  <2>2. d.here = c.here /\ d.gone = c.gone
    BY <1>4, <1>7, <2>1 DEF Sound
  <2>3. fate[p] # "waiting"
    BY <1>4, <2>1 DEF Shown, Sound
  <2>4. \A q \in Prompts : fate'[q] = "waiting" <=> fate[q] = "waiting"
    BY <1>14, <1>16, <1>19, <2>3
  <2>5. \A q \in pending' : fate'[q] = fate[q]
    BY <1>1, <1>4, <1>14, <1>16, <1>19
  <2>6. UNCHANGED <<text, mode, shown, early>>
    BY <1>10, <1>15, <1>19
  <2>7. pending' \subseteq pending
    BY <1>1
  <2>8. QED
    BY <1>7, <2>1, <2>2, <2>4, <2>5, <2>6, <2>7, ShownStays
<1>20. kind' = "prompt" => initial' = IF d.led THEN text[exchange_id] ELSE Nothing
  BY <1>7, <1>10, <1>15
<1>21. settled' = d.over
  BY <1>1, <1>2, <1>7 DEF Begins
<1>22. transcript' \in [Texts -> Nat]
  BY <1>9 DEF Inner, Typed
<1>23. d = After(T[1], Head(records), exchange_id)
  BY <1>2, <1>3, <1>6
<1>24. QED
  BY <1>1, <1>2, <1>15, <1>18, <1>19, <1>20, <1>21, <1>22, <1>23, ReadKeeps

\* A queued submission is delivered.
LEMMA SubmissionDelivered ==
  ASSUME Inner, ReadDelivery, UNCHANGED work, NEW T, NEW c \in Point, NEW r \in Record, ReadsAt(T, c, r),
         r.prompt \in Extra \ c.heard, ~c.led
  PROVE  Inner'
<1>1. ReadPrompt /\ kind = "prompt" /\ settled' = settled /\ UNCHANGED pending
  BY DEF ReadDelivery, ReadPrompt, ObserveDelivery, InPrompt
<1>2. r.type = "message_start" /\ r = Head(records) /\ Told(T) /\ c = T[1] /\ Begins(c)
  BY DEF ReadsAt, ReadDelivery, ObserveDelivery, InPrompt, Read
<1>3. PICK p : p = r.prompt
  OBVIOUS
<1>4. /\ p \in 1 .. sent /\ mode[p] \in {"steer", "followUp"} /\ text[p] \in Texts /\ p \in Prompts
      /\ pending \subseteq Prompts /\ p # exchange_id /\ p \in Extra /\ p \notin c.heard
  <2>1. mode[exchange_id] = "none" /\ pending \subseteq Extra
    BY <1>1 DEF Inner, Written
  <2>2. 1 .. sent \subseteq Prompts
    BY WireAssumption DEF Inner, Typed, WireTyped, Prompts
  <2>3. QED
    BY <1>3, <2>1, <2>2 DEF Extra
<1>5. PICK t : t = text[p]
  OBVIOUS
<1>6. initial = Nothing /\ initial # t
  BY <1>2, <1>4, <1>5, ComposerAssumption DEF Begins
<1>7. PICK d : d = After(c, r, exchange_id)
  OBVIOUS
<1>8. /\ d.led = FALSE /\ d.over = c.over /\ d.heard = c.heard \cup {p}
      /\ d.here = c.here \ {p} /\ d.gone = c.gone \ {p} /\ d.neat = c.neat
  <2>1. /\ d.led = (c.led /\ r.prompt # exchange_id) /\ d.over = c.over /\ d.heard = c.heard \cup {r.prompt}
        /\ d.here = c.here \ {r.prompt} /\ d.gone = c.gone \ {r.prompt} /\ d.neat = c.neat
    BY <1>2, <1>7, AfterDelivery
  <2>2. QED
    BY <1>3, <2>1
<1>9. PICK from : from = Delivered(t)
  OBVIOUS
<1>10. PICK told : told = IF \A i \in from : ~shown[i].accepted THEN Append(early, t) ELSE early
  OBVIOUS
<1>11. PICK s : s = [screen EXCEPT
                       !.shown = IF from = {} THEN @ ELSE RemoveAt(@, Min(from)),
                       !.early = IF Len(told) > EarlyLimit THEN Tail(told) ELSE told]
  OBVIOUS
<1>12. Shows(s) /\ transcript' = [transcript EXCEPT ![t] = @ + 1]
  BY <1>2, <1>3, <1>5, <1>6, <1>9, <1>10, <1>11 DEF ReadDelivery
<1>13. /\ s.draft \in Texts \cup {Nothing} /\ s.slot \in Texts \cup {Nothing} /\ s.initial = initial
       /\ s.shown = (IF from = {} THEN shown ELSE RemoveAt(shown, Min(from)))
       /\ s.early = (IF Len(told) > EarlyLimit THEN Tail(told) ELSE told)
  <2>1. draft \in Texts \cup {Nothing} /\ slot \in Texts \cup {Nothing}
    BY DEF Inner, Typed
  <2>2. QED
    BY <1>11, <2>1 DEF screen
<1>14. PICK f : f = [fate EXCEPT ![p] = IF @ \in {"pending", "waiting"} THEN "delivered" ELSE @]
  OBVIOUS
<1>15. Proceed(f)
  BY <1>2, <1>3, <1>14 DEF ReadDelivery, ObserveDelivery
<1>16. fate \in [Prompts -> Fates]
  BY DEF Inner, Exchange, Locals
<1>17. /\ \A q \in Prompts : q # p => f[q] = fate[q]
       /\ f[p] # "waiting"
  BY <1>4, <1>14, <1>16
<1>18. /\ draft' \in Texts \cup {Nothing} /\ slot' \in Texts \cup {Nothing} /\ failed' \in Texts \cup {Nothing}
       /\ UNCHANGED <<text, mode>>
       /\ kind' = "left" => shown' = <<>> /\ early' = <<>> /\ initial' = Nothing
       /\ kind' = "prompt" => shown' = s.shown /\ early' = s.early /\ initial' = s.initial
  BY <1>1, <1>12, <1>13, ShowsTyped
<1>19. /\ kind' = "prompt" => fate' = f
       /\ \A q \in Prompts : fate'[q] = "delivered" => f[q] = "delivered"
  BY <1>1, <1>15, ProceedFates
<1>20. UNCHANGED sent /\ sent \in Nat
  BY <1>1, PromptRead DEF Inner, Typed, WireTyped
<1>21. transcript \in [Texts -> Nat] /\ t \in Texts
  BY <1>4, <1>5 DEF Inner, Typed
<1>22. PICK H : H = c.heard
  OBVIOUS
<1>23. Transcribed(d.heard)'
  <2>1. Transcribed(H) /\ H \subseteq 1 .. sent
    BY <1>2, <1>22 DEF Begins, Transcribed
  <2>2. PICK tx : tx = text
    OBVIOUS
  <2>3. PICK n \in Nat : n = sent
    BY <1>20
  <2>4. ASSUME NEW z \in Texts PROVE transcript'[z] = Cardinality({q \in H \cup {p} : text[q] = z})
    <3>1. transcript[z] = Cardinality({q \in H : text[q] = z})
      BY <2>1 DEF Transcribed
    <3>2. SameOn(H, tx, tx) /\ Upto(H, n) /\ p \notin H
      BY <1>4, <1>22, <2>1, <2>3 DEF SameOn, Upto
    <3>3. OneMore(H, p, tx, tx, z)
      BY <3>2, CountsOneMore
    <3>4. transcript'[z] = IF t = z THEN transcript[z] + 1 ELSE transcript[z]
      BY <1>12, <1>21
    <3>5. QED
      BY <1>5, <2>2, <3>1, <3>3, <3>4 DEF OneMore, Standing
  <2>5. \A q \in Prompts : fate'[q] = "delivered" => q \in H \cup {p}
    BY <1>17, <1>19, <2>1 DEF Transcribed
  <2>6. \A q \in Prompts : text[q] \in Texts /\ mode[q] = "none" => q \in H \cup {p}
    BY <2>1 DEF Transcribed
  <2>7. H \cup {p} \subseteq 1 .. sent
    BY <1>4, <2>1
  <2>8. PICK G : G = H \cup {p}
    OBVIOUS
  <2>9. text' = text /\ mode' = mode /\ sent' = sent
    BY <1>18, <1>20
  <2>10. \A z \in Texts : transcript'[z] = Cardinality({q \in G : text[q] = z})
    BY <2>4, <2>8
  <2>11. Transcribed(G)'
    BY <2>5, <2>6, <2>7, <2>8, <2>9, <2>10 DEF Transcribed
  <2>12. d.heard = G
    BY <1>8, <1>22, <2>8
  <2>13. QED
    BY <2>11, <2>12
<1>24. ASSUME kind' = "prompt", ~interrupted PROVE Shown(d)'
  <2>1. Shown(c)
    BY <1>2, <1>24 DEF Begins
  <2>2. c.gone = {p} \/ (c.gone = {} /\ p \in c.here \cap Steers /\ c.neat)
    <3>1. Listable(c, r, exchange_id, Extra, Steers) /\ Delivers(r)
      BY <1>2, <1>24 DEF ReadsAt, Fits, Delivers
    <3>2. QED
      BY <1>3, <1>4, <3>1 DEF Listable
  <2>3. PICK i \in DOMAIN shown : /\ Delivered(text[p]) = {i} /\ shown[i] = Entry(p, c.gone)
                                  /\ shown[i].accepted /\ i \in Nat
    BY <2>1, <2>2, DeliveredItem
  <2>4. from = {i} /\ Min(from) = i
    <3>1. from = {i}
      BY <1>5, <1>9, <2>3
    <3>2. from \in SUBSET Nat /\ from # {}
      BY <2>3, <3>1
    <3>3. Min(from) \in from
      BY <3>2, SmallestOf
    <3>4. QED
      BY <3>1, <3>3
  <2>5. told = <<>>
    BY <1>10, <2>1, <2>3, <2>4 DEF Shown
  <2>6. shown' = RemoveAt(shown, i) /\ early' = <<>>
    <3>1. shown' = RemoveAt(shown, i)
      BY <1>13, <1>18, <1>24, <2>4
    <3>2. Len(told) = 0 /\ ~(Len(told) > EarlyLimit)
      BY <2>5, ComposerAssumption
    <3>3. QED
      BY <1>13, <1>18, <1>24, <2>5, <3>1, <3>2
  <2>7. p \in c.here \cup c.gone
    BY <2>2
  <2>8. fate' = f
    BY <1>19, <1>24
  <2>9. (\A q \in Prompts : q # p => fate'[q] = fate[q]) /\ fate'[p] # "waiting"
    BY <1>17, <2>8
  <2>10. QED
    BY <1>1, <1>4, <1>8, <1>18, <2>1, <2>3, <2>6, <2>7, <2>9, ShownLess
<1>25. kind' = "prompt" => initial' = IF d.led THEN text[exchange_id] ELSE Nothing
  BY <1>6, <1>8, <1>13, <1>18
<1>26. settled' = d.over
  BY <1>1, <1>2, <1>8 DEF Begins
<1>27. transcript' \in [Texts -> Nat]
  BY <1>12, <1>21
<1>28. d = After(T[1], Head(records), exchange_id)
  BY <1>2, <1>7
<1>29. QED
  BY <1>1, <1>2, <1>18, <1>23, <1>24, <1>25, <1>26, <1>27, <1>28, ReadKeeps

LEMMA ReadDeliveryKeeps ==
  ASSUME Inner, ReadDelivery, UNCHANGED work
  PROVE  Inner'
<1>1. ReadPrompt
  BY DEF ReadDelivery, ReadPrompt
<1>2. PICK T : \E c \in Point : \E r \in Record : ReadsAt(T, c, r)
  BY <1>1, PointRead
<1>3. PICK c \in Point : \E r \in Record : ReadsAt(T, c, r)
  BY <1>2
<1>4. PICK r \in Record : ReadsAt(T, c, r)
  BY <1>3
<1>5. r.type = "message_start"
  BY <1>4 DEF ReadsAt, ReadDelivery, ObserveDelivery, InPrompt, Read
<1>6. (r.prompt = exchange_id /\ c.led) \/ (r.prompt \in Extra \ c.heard /\ ~c.led)
  BY <1>4, <1>5 DEF ReadsAt, Fits, Delivers
<1>7. QED
  BY <1>4, <1>6, PromptDelivered, SubmissionDelivered

-----------------------------------------------------------------------------
(* The connection fails.                                                   *)

LEMMA DisconnectKeeps ==
  ASSUME Inner, Disconnect
  PROVE  Inner'
<1>1. /\ commands' = <<>> /\ records' = <<>> /\ active' = FALSE /\ waiting' = <<>> /\ stage' = "none" /\ lead' = 0
      /\ caller' = <<0, "main">>
      /\ kind' = "none" /\ accepted' = FALSE /\ settled' = FALSE /\ interrupted' = FALSE
      /\ clear_done' = FALSE /\ abort_done' = FALSE /\ rejection' = FALSE /\ pending' = {}
      /\ fate' = [p \in Prompts |-> IF fate[p] \in {"pending", "waiting"} THEN "uncertain" ELSE fate[p]]
      /\ UNCHANGED exchange_id
      /\ shown' = <<>> /\ early' = <<>> /\ initial' = Nothing /\ slot' = Nothing
      /\ UNCHANGED <<sent, text, mode, transcript>>
  BY DEF Disconnect, Lose, ForgetExchange, FreshLocals
<1>2. /\ text \in [Prompts -> Texts \cup {Nothing}] /\ mode \in [Prompts -> Modes] /\ transcript \in [Texts -> Nat]
      /\ draft \in Texts \cup {Nothing} /\ slot \in Texts \cup {Nothing} /\ failed \in Texts \cup {Nothing}
      /\ sent \in 0 .. MaxPrompts /\ sent \in Nat /\ 1 .. sent \subseteq Prompts
      /\ fate \in [Prompts -> Fates] /\ exchange_id \in 0 .. sent
  <2>1. sent \in 0 .. MaxPrompts /\ MaxPrompts \in Nat
    BY WireAssumption DEF Inner, Typed, WireTyped
  <2>2. sent \in Nat /\ 1 .. sent \subseteq Prompts
    BY <2>1 DEF Prompts
  <2>3. QED
    BY <2>1, <2>2 DEF Inner, Typed, Exchange, Locals
<1>3. PICK s : s = IF pending # {} THEN text[Max(pending)] ELSE slot
  OBVIOUS
<1>4. s \in Texts \cup {Nothing}
  <2>1. CASE pending = {}
    BY <1>2, <1>3, <2>1
  <2>2. CASE pending # {}
    <3>1. pending \in SUBSET (1 .. sent)
      BY DEF Inner, Written, Extra
    <3>2. Max(pending) \in pending
      BY <1>2, <2>2, <3>1, LargestOf
    <3>3. QED
      BY <1>2, <1>3, <2>2, <3>1, <3>2
  <2>3. QED
    BY <2>1, <2>2
<1>5. PICK kept \in IF interrupted THEN {s, slot} ELSE {s} :
        /\ failed' = IF kind = "prompt" THEN Outcome(kept, TRUE) ELSE failed
        /\ draft' = IF draft = Nothing /\ kept # slot THEN kept ELSE draft
  BY <1>3 DEF Disconnect
<1>6. kept \in Texts \cup {Nothing}
  BY <1>2, <1>4
<1>7. draft' \in Texts \cup {Nothing} /\ failed' \in Texts \cup {Nothing}
  <2>1. kind = "prompt" => text[exchange_id] \in Texts
    BY DEF Inner, Written
  <2>2. kind = "prompt" => Outcome(kept, TRUE) \in Texts \cup {Nothing}
    BY <1>6, <2>1 DEF Outcome
  <2>3. QED
    BY <1>2, <1>5, <1>6, <2>2
<1>8. WireTyped'
  BY <1>1, <1>2 DEF WireTyped
<1>9. Typed'
  <2>1. caller' \in Ids
    BY <1>1 DEF Ids
  <2>2. QED
    BY <1>1, <1>2, <1>7, <1>8, <2>1 DEF Typed
<1>10. fate' \in [Prompts -> Fates] /\ \A p \in Prompts : fate'[p] # "waiting" /\ (fate'[p] = "delivered" => fate[p] = "delivered")
  BY <1>1, <1>2 DEF Fates
<1>11. Exchange'
  <2>1. Locals'
    BY <1>1, <1>2, <1>10 DEF Locals
  <2>2. Commanded'
    BY <1>1 DEF Commanded
  <2>3. QED
    BY <2>1, <2>2 DEF Exchange
<1>12. Traffic'
  <2>1. Owed' = {} /\ Asked(commands') = {} /\ Answered(records') = {} /\ DOMAIN commands' = {} /\ Responses(records') = {}
    BY <1>1 DEF Owed, Asked, Answered, Responses
  <2>2. QED
    BY <2>1 DEF Traffic, OnTheWay, AskedOnce, AnsweredOnce
<1>13. Written'
  BY <1>1 DEF Inner, Written
<1>14. Placed' /\ Rests' /\ Quiet'
  <2>1. Placed'
    BY <1>1 DEF Placed, Ordered, IdsIn
  <2>2. Rests'
    BY <1>1 DEF Rests
  <2>3. Quiet'
    BY <1>1, <1>10 DEF Quiet
  <2>4. QED
    BY <2>1, <2>2, <2>3
<1>15. PICK H : Transcribed(H)
  BY DEF Inner, Story, Told, Begins
<1>16. Transcribed(H)'
  BY <1>1, <1>10, <1>15 DEF Transcribed
<1>17. Story'
  BY <1>1, <1>16 DEF Story
<1>18. QED
  BY <1>9, <1>11, <1>12, <1>13, <1>14, <1>17 DEF Inner

-----------------------------------------------------------------------------
(* The whole.                                                              *)

LEMMA ComposerStarts ==
  ASSUME ComposerInit
  PROVE  IInv
<1>1. /\ commands = <<>> /\ records = <<>> /\ sent = 0 /\ active = FALSE /\ waiting = <<>> /\ stage = "none" /\ lead = 0
      /\ caller = <<0, "main">> /\ kind = "none" /\ exchange_id = 0 /\ accepted = FALSE /\ settled = FALSE
      /\ interrupted = FALSE /\ clear_done = FALSE /\ abort_done = FALSE /\ rejection = FALSE /\ pending = {}
      /\ fate = [p \in Prompts |-> "none"] /\ shown = <<>> /\ early = <<>> /\ initial = Nothing
      /\ text = [p \in Prompts |-> Nothing] /\ mode = [p \in Prompts |-> "none"]
      /\ transcript = [t \in Texts |-> 0] /\ draft = Nothing /\ slot = Nothing /\ failed = Nothing
  BY DEF ComposerInit, WireInit, ClientInit, SubmissionsInit
<1>2. WireTyped
  BY <1>1, WireAssumption DEF WireTyped
<1>3. Typed
  <2>1. caller \in Ids
    BY <1>1 DEF Ids
  <2>2. mode \in [Prompts -> Modes]
    BY <1>1 DEF Modes
  <2>3. transcript \in [Texts -> Nat] /\ text \in [Prompts -> Texts \cup {Nothing}]
    BY <1>1
  <2>4. waiting \in Seq(Queued) /\ lead \in Nat /\ draft \in Texts \cup {Nothing} /\ slot \in Texts \cup {Nothing}
        /\ failed \in Texts \cup {Nothing}
    BY <1>1
  <2>5. QED
    BY <1>2, <2>1, <2>2, <2>3, <2>4 DEF Typed
<1>4. fate \in [Prompts -> Fates] /\ \A p \in Prompts : fate[p] = "none"
  BY <1>1 DEF Fates
<1>5. Exchange
  <2>1. Locals
    <3>1. exchange_id \in 0 .. sent /\ pending \subseteq (exchange_id + 1) .. sent
      BY <1>1
    <3>2. QED
      BY <1>1, <1>4, <3>1, Zenon DEF Locals
  <2>2. Commanded
    BY <1>1 DEF Commanded
  <2>3. QED
    BY <2>1, <2>2 DEF Exchange
<1>6. Traffic
  <2>1. Owed = {} /\ Asked(commands) = {} /\ Answered(records) = {} /\ DOMAIN commands = {} /\ Responses(records) = {}
    BY <1>1 DEF Owed, Asked, Answered, Responses
  <2>2. QED
    BY <2>1 DEF Traffic, OnTheWay, AskedOnce, AnsweredOnce
<1>7. Written
  BY <1>1 DEF Written
<1>8. Placed /\ Rests /\ Quiet
  <2>1. Placed
    BY <1>1 DEF Placed, Ordered, IdsIn
  <2>2. Rests
    BY <1>1 DEF Rests
  <2>3. Quiet
    BY <1>1, <1>4 DEF Quiet
  <2>4. QED
    BY <2>1, <2>2, <2>3
<1>9. PICK H : H = {}
  OBVIOUS
<1>10. Transcribed(H)
  <2>1. ASSUME NEW t \in Texts PROVE transcript[t] = Cardinality({p \in H : text[p] = t})
    <3>1. {p \in H : text[p] = t} = {}
      BY <1>9
    <3>2. QED
      BY <1>1, <3>1, FS_EmptySet
  <2>2. \A p \in Prompts : text[p] \notin Texts
    BY <1>1, ComposerAssumption
  <2>3. QED
    BY <1>4, <1>9, <2>1, <2>2 DEF Transcribed
<1>11. Story
  BY <1>1, <1>10 DEF Story
<1>12. QED
  BY <1>3, <1>5, <1>6, <1>7, <1>8, <1>11 DEF Inner, IInv

\* The client's and the user's steps.
LEMMA UserKeeps ==
  ASSUME Inner, UserActs \/ ReadsRecord, UNCHANGED work
  PROVE  Inner'
<1>1. CASE Types /\ UNCHANGED <<wire, sent, client, link>>
  BY <1>1, TypingKeeps
<1>2. CASE Submit
  BY <1>2, SubmitKeeps
<1>3. CASE Queue
  BY <1>3, QueueKeeps
<1>4. draft \in Texts \cup {Nothing} /\ slot \in Texts \cup {Nothing} /\ failed \in Texts \cup {Nothing}
  BY DEF Inner, Typed
<1>5. CASE Elsewhere
  <2>1. UNCHANGED display
    BY <1>5 DEF Elsewhere
  <2>2. CASE Escape
    BY <2>1, <2>2, EscapeKeeps
  <2>3. CASE (SubmitCompact /\ draft = Nothing) \/ (AskRequest /\ draft = Nothing) \/ AskStatus \/ EscapeCompact
               \/ ReadCompact \/ ReadRequest
    <3>1. Shelved
      BY <1>4, <2>1 DEF Shelved, display
    <3>2. QED
      BY <2>3, <3>1, OthersKeep
  <2>4. QED
    BY <1>5, <2>2, <2>3 DEF Elsewhere
<1>6. CASE NewSession
  <2>1. kind # "prompt" /\ ReadRequest
    BY <1>6 DEF NewSession, ReadRequest
  <2>2. shown = <<>> /\ early = <<>> /\ initial = Nothing
    BY <2>1 DEF Inner, Quiet
  <2>3. Shelved
    BY <1>6, <2>2 DEF NewSession, Shelved
  <2>4. QED
    BY <2>1, <2>3, OthersKeep
<1>7. CASE Reconnect /\ UNCHANGED <<wire, sent, client>>
  BY <1>4, <1>7, DraftKeeps DEF Reconnect, display
<1>8. CASE ReadsRecord
  BY <1>8, ReadQueuedKeeps, ReadClearKeeps, ReadDeliveryKeeps, ReadQueueUpdateKeeps, ReadRejectedKeeps, ReadOtherKeeps
    DEF ReadsRecord
<1>9. QED
  BY <1>1, <1>2, <1>3, <1>5, <1>6, <1>7, <1>8 DEF UserActs

LEMMA ComposerKeeps ==
  ASSUME KeepRecords, IInv, [ComposerNext]_svars
  PROVE  IInv'
<1>1. SUFFICES ASSUME ~stray' PROVE Inner'
  BY DEF IInv
<1>2. CASE (UserActs \/ ReadsRecord) /\ UNCHANGED work /\ UNCHANGED stray
  <2>1. Inner
    BY <1>1, <1>2 DEF IInv
  <2>2. QED
    BY <1>2, <2>1, UserKeeps
<1>3. CASE /\ Serve /\ UNCHANGED <<sent, client, display, link>>
           /\ stray' = (stray \/ (stage = "none" /\ stage' = "begins" /\ Head(commands).mode # "none"))
  <2>1. ~stray /\ ~(stage = "none" /\ stage' = "begins" /\ Head(commands).mode # "none")
    BY <1>1, <1>3
  <2>2. Inner
    BY <2>1 DEF IInv
  <2>3. Served
    BY <1>3 DEF Served
  <2>4. QED
    BY <1>3, <2>1, <2>2, <2>3, EngineKeeps
<1>4. CASE Disconnect
  <2>1. ~stray
    BY <1>1, <1>4 DEF Disconnect
  <2>2. QED
    BY <1>4, <2>1, DisconnectKeeps DEF IInv
<1>5. CASE UNCHANGED svars
  <2>1. /\ UNCHANGED <<wire, sent, client, work, text, mode, shown, early, initial, transcript>>
        /\ UNCHANGED <<draft, slot, failed, stray>>
    BY <1>5 DEF svars, display
  <2>2. Inner
    BY <1>1, <2>1 DEF IInv
  <2>3. draft' \in Texts \cup {Nothing} /\ slot' \in Texts \cup {Nothing} /\ failed' \in Texts \cup {Nothing}
    BY <2>1, <2>2 DEF Inner, Typed
  <2>4. QED
    BY <2>1, <2>2, <2>3, DraftKeeps
<1>6. QED
  BY <1>2, <1>3, <1>4, <1>5 DEF ComposerNext

-----------------------------------------------------------------------------
(* What the user sees.                                                     *)

\* As many items are shown of a text and a mode as submissions of them wait.
LEMMA ShownCounts ==
  ASSUME NEW c, Shown(c), NEW t, NEW m
  PROVE  Cardinality({i \in DOMAIN shown : Matches(shown[i], t, m)})
           = Cardinality({p \in Prompts : fate[p] = "waiting" /\ text[p] = t /\ mode[p] = m})
<1>1. PICK g : Lists(g, shown, Entries(c))
  BY DEF Shown
<1>2. PICK e : e = Entries(c)
  OBVIOUS
<1>3. PICK P : P = c.here \cup c.gone
  OBVIOUS
<1>4. DOMAIN e = P /\ \A q \in P : e[q] = Entry(q, c.gone)
  BY <1>2, <1>3 DEF Entries, EntriesOf
<1>5. /\ shown \in Seq(Items) /\ g \in [P -> DOMAIN shown] /\ \A p, q \in P : g[p] = g[q] => p = q
      /\ \A i \in DOMAIN shown : \E p \in P : g[p] = i
      /\ \A p \in P : shown[g[p]] = e[p]
  BY <1>1, <1>2, <1>4 DEF Lists
<1>6. PICK I : I = {i \in DOMAIN shown : Matches(shown[i], t, m)}
  OBVIOUS
<1>7. PICK W : W = {p \in P : text[p] = t /\ mode[p] = m}
  OBVIOUS
<1>8. {p \in Prompts : fate[p] = "waiting" /\ text[p] = t /\ mode[p] = m} = W
  <2>1. {p \in Prompts : fate[p] = "waiting"} = P
    BY <1>3 DEF Shown
  <2>2. QED
    BY <1>7, <2>1
<1>9. ASSUME NEW p \in P PROVE g[p] \in I <=> p \in W
  <2>1. shown[g[p]] = Entry(p, c.gone) /\ g[p] \in DOMAIN shown
    BY <1>4, <1>5
  <2>2. Matches(shown[g[p]], t, m) <=> text[p] = t /\ mode[p] = m
    BY <2>1, EntryIs DEF Matches
  <2>3. QED
    BY <1>6, <1>7, <2>1, <2>2
<1>10. IsFiniteSet(I)
  <2>1. IsFiniteSet(1 .. Len(shown)) /\ DOMAIN shown = 1 .. Len(shown)
    BY <1>5, FS_Interval
  <2>2. I \in SUBSET (1 .. Len(shown))
    BY <1>6, <2>1
  <2>3. QED
    BY <2>1, <2>2, FS_Subset
<1>11. PICK f : f = [p \in W |-> g[p]]
  OBVIOUS
<1>12. f \in [W -> I]
  BY <1>7, <1>9, <1>11
<1>13. \A p, q \in W : f[p] = f[q] => p = q
  BY <1>5, <1>7, <1>11
<1>14. \A i \in I : \E p \in W : f[p] = i
  <2> TAKE i \in I
  <2>1. PICK p \in P : g[p] = i
    BY <1>5, <1>6
  <2>2. p \in W
    BY <1>9, <2>1
  <2>3. QED
    BY <1>11, <2>1, <2>2
<1>15. f \in Injection(W, I) /\ f \in Surjection(W, I)
  BY <1>12, <1>13, <1>14 DEF Injection, Surjection, IsInjective
<1>16. Cardinality(W) = Cardinality(I)
  BY <1>10, <1>15, FS_Injection
<1>17. QED
  BY <1>6, <1>8, <1>16

LEMMA WhatIsShown ==
  ASSUME Inner
  PROVE  DisplayExact
<1>1. ShownIsWaiting
  <2>1. SUFFICES ASSUME kind = "prompt", ~interrupted, NEW t \in Texts, NEW m \in Modes
                 PROVE  Cardinality({i \in DOMAIN shown : Matches(shown[i], t, m)})
                          = Cardinality({p \in Prompts : fate[p] = "waiting" /\ text[p] = t /\ mode[p] = m})
    BY DEF ShownIsWaiting
  <2>2. PICK T : Told(T)
    BY <2>1 DEF Inner, Story
  <2>3. PICK c : c = T[1]
    OBVIOUS
  <2>4. Shown(c)
    BY <2>1, <2>2, <2>3 DEF Told, Begins
  <2>5. QED
    BY <2>4, ShownCounts
<1>2. TranscriptExact
  <2>1. PICK H : Transcribed(H)
    BY DEF Inner, Story, Told, Begins
  <2>2. Prompts = 1 .. MaxPrompts /\ MaxPrompts \in Nat /\ sent \in 0 .. MaxPrompts
    BY WireAssumption DEF Prompts, Inner, Typed, WireTyped
  <2>3. H \subseteq Prompts /\ IsFiniteSet(Prompts)
    <3>1. 1 .. sent \subseteq Prompts
      BY <2>2
    <3>2. IsFiniteSet(Prompts)
      BY <2>2, FS_Interval
    <3>3. QED
      BY <2>1, <3>1, <3>2 DEF Transcribed
  <2>4. ASSUME NEW t \in Texts
        PROVE  LET mine == {p \in Prompts : text[p] = t}
                   prompts == {p \in mine : mode[p] = "none"}
               IN  /\ transcript[t] <= Cardinality(mine)
                   /\ transcript[t] >= Cardinality(prompts \cup {p \in mine : fate[p] = "delivered"})
    <3> DEFINE mine == {p \in Prompts : text[p] = t}
               prompts == {p \in mine : mode[p] = "none"}
               least == prompts \cup {p \in mine : fate[p] = "delivered"}
               real == {p \in H : text[p] = t}
    <3>1. mine \in SUBSET Prompts /\ real \in SUBSET mine
      BY <2>3
    <3>2. least \in SUBSET real
      BY <2>1 DEF Transcribed
    <3>3. transcript[t] = Cardinality(real)
      BY <2>1 DEF Transcribed
    <3> HIDE DEF mine, least, real
    <3>4. IsFiniteSet(mine)
      BY <2>3, <3>1, FS_Subset
    <3>5. IsFiniteSet(real) /\ Cardinality(real) <= Cardinality(mine)
      BY <3>1, <3>4, FS_Subset
    <3>6. Cardinality(least) <= Cardinality(real) /\ IsFiniteSet(least)
      BY <3>2, <3>5, FS_Subset
    <3>7. Cardinality(least) \in Nat /\ Cardinality(real) \in Nat /\ Cardinality(mine) \in Nat
      BY <3>4, <3>5, <3>6, FS_CardinalityType
    <3>8. transcript[t] <= Cardinality(mine) /\ transcript[t] >= Cardinality(least)
      BY <3>3, <3>5, <3>6, <3>7
    <3>9. QED
      BY <3>8 DEF mine, least
  <2>5. QED
    BY <2>4 DEF TranscriptExact
<1>3. QED
  BY <1>1, <1>2 DEF DisplayExact

\* What the user sees of the submissions is exact, of however many submissions
\* of whichever texts, as long as the client reads what the engine wrote.
THEOREM AlwaysDisplayExact ==
  ASSUME KeepRecords
  PROVE  ComposerSpec => []DisplayExact
<1>1. ComposerInit => IInv
  BY ComposerStarts
<1>2. IInv /\ [ComposerNext]_svars => IInv'
  BY ComposerKeeps
<1>3. IInv => DisplayExact
  <2>1. CASE stray
    BY <2>1 DEF DisplayExact, ShownIsWaiting, TranscriptExact
  <2>2. CASE ~stray
    BY <2>2, WhatIsShown DEF IInv
  <2>3. QED
    BY <2>1, <2>2
<1>4. QED
  BY <1>1, <1>2, <1>3, PTL DEF ComposerSpec

-----------------------------------------------------------------------------
(* What comes back is kept.                                                *)

\* Outside of a prompt's exchange nothing waits in Screen.rejected_queued, and
\* during one it has what came back last.
Kept ==
  /\ kind # "prompt" => slot = Nothing
  /\ kind = "prompt" => back = Nothing \/ back = slot
KInv == LatestKept /\ Kept

LEMMA KeptStarts ==
  ASSUME ComposerInit
  PROVE  KInv
BY DEF ComposerInit, ClientInit, KInv, LatestKept, Kept

\* A record is read and the screen becomes s.
LEMMA ShowsKept ==
  ASSUME kind = "prompt", kind' \in {"prompt", "left"}, NEW s, Shows(s), back' = Nothing \/ back' = s.slot
  PROVE  KInv'
<1>1. PICK bad : bad = (rejection' \/ (run_failed' /\ ~interrupted))
  OBVIOUS
<1>2. s.slot # Nothing => Outcome(s.slot, bad) = s.slot
  BY DEF Outcome
<1>3. CASE kind' = "left"
  <2>1. slot' = Nothing /\ failed' = Outcome(s.slot, bad)
    BY <1>1, <1>3 DEF Shows
  <2>2. QED
    BY <1>2, <1>3, <2>1 DEF KInv, LatestKept, Kept
<1>4. CASE kind' = "prompt"
  <2>1. slot' = s.slot
    BY <1>4 DEF Shows
  <2>2. QED
    BY <1>4, <2>1 DEF KInv, LatestKept, Kept
<1>5. QED
  BY <1>3, <1>4

LEMMA ReadsKept ==
  ASSUME KInv, ReadsRecord
  PROVE  KInv'
<1>1. kind = "prompt" /\ kind' \in {"prompt", "left"}
  BY DEF ReadsRecord, ReadQueued, ReadClear, ReadDelivery, ReadQueueUpdate, ReadRejected, ReadOther,
    AcknowledgeQueued, AcknowledgeClear, AcknowledgeAbort, AcknowledgePrompt, ObserveStart,
    ObserveSettled, ObserveQueue, ObserveDelivery, ObserveRejected, ObserveOther, Proceed, InPrompt
<1>2. back = Nothing \/ back = slot
  BY <1>1 DEF KInv, Kept
<1>3. CASE ReadQueued
  <2>1. PICK p : p = Head(records).id[1]
    OBVIOUS
  <2>2. PICK comes_back \in BOOLEAN : comes_back = (~Head(records).ok \/ interrupted)
    OBVIOUS
  <2>3. PICK s : s = IF comes_back THEN Rejected(screen, text[p], mode[p])
                     ELSE [screen EXCEPT !.shown = Accept(text[p], mode[p]), !.early = EarlyAfter(text[p])]
    OBVIOUS
  <2>4. Shows(s) /\ back' = IF comes_back THEN text[p] ELSE back
    BY <1>3, <2>1, <2>2, <2>3 DEF ReadQueued
  <2>5. s.slot = IF comes_back THEN text[p] ELSE slot
    BY <2>3 DEF Rejected, screen
  <2>6. QED
    BY <1>1, <1>2, <2>4, <2>5, ShowsKept
<1>4. CASE ReadClear
  <2>1. PICK s : s = [screen EXCEPT !.shown = <<>>, !.early = <<>>]
    OBVIOUS
  <2>2. Shows(s) /\ back' = back /\ s.slot = slot
    BY <1>4, <2>1 DEF ReadClear, Unheard, screen
  <2>3. QED
    BY <1>1, <1>2, <2>2, ShowsKept
<1>5. CASE ReadDelivery
  <2>1. \E s : Shows(s) /\ s.slot = slot
    <3>1. PICK t : t = text[Head(records).prompt]
      OBVIOUS
    <3>2. PICK from : from = Delivered(t)
      OBVIOUS
    <3>3. PICK told : told = IF \A i \in from : ~shown[i].accepted THEN Append(early, t) ELSE early
      OBVIOUS
    <3>4. PICK s : s = [screen EXCEPT !.initial = Nothing]
      OBVIOUS
    <3>5. PICK u : u = [screen EXCEPT
                          !.shown = IF from = {} THEN @ ELSE RemoveAt(@, Min(from)),
                          !.early = IF Len(told) > EarlyLimit THEN Tail(told) ELSE told]
      OBVIOUS
    <3>6. Shows(s) \/ Shows(u)
      BY <1>5, <3>1, <3>2, <3>3, <3>4, <3>5 DEF ReadDelivery
    <3>7. s.slot = slot /\ u.slot = slot
      BY <3>4, <3>5 DEF screen
    <3>8. QED
      BY <3>6, <3>7
  <2>2. PICK s : Shows(s) /\ s.slot = slot
    BY <2>1
  <2>3. back' = back
    BY <1>5 DEF ReadDelivery
  <2>4. QED
    BY <1>1, <1>2, <2>2, <2>3, ShowsKept
<1>6. CASE ReadQueueUpdate
  <2>1. PICK s : s = [screen EXCEPT !.shown = UpdatedQueue(Head(records).waiting)]
    OBVIOUS
  <2>2. Shows(s) /\ back' = back /\ s.slot = slot
    BY <1>6, <2>1 DEF ReadQueueUpdate, Unheard, screen
  <2>3. QED
    BY <1>1, <1>2, <2>2, ShowsKept
<1>7. CASE ReadRejected
  <2>1. PICK p : p = Head(records).prompt
    OBVIOUS
  <2>2. PICK s : s = Rejected([screen EXCEPT !.shown = <<>>, !.early = <<>>], text[p], mode[p])
    OBVIOUS
  <2>3. Shows(s) /\ back' = text[p] /\ s.slot = text[p]
    BY <1>7, <2>1, <2>2 DEF ReadRejected, Rejected, screen
  <2>4. QED
    BY <1>1, <2>3, ShowsKept
<1>8. CASE ReadOther
  <2>1. PICK s : s = screen
    OBVIOUS
  <2>2. Shows(s) /\ back' = back /\ s.slot = slot
    BY <1>8, <2>1 DEF ReadOther, screen
  <2>3. QED
    BY <1>1, <1>2, <2>2, ShowsKept
<1>9. QED
  BY <1>3, <1>4, <1>5, <1>6, <1>7, <1>8 DEF ReadsRecord

\* The client's exchange is another, or what the user typed.
LEMMA UserKept ==
  ASSUME KInv, UserActs
  PROVE  KInv'
<1>1. CASE Types /\ UNCHANGED <<wire, sent, client, link>>
  <2>1. UNCHANGED kind
    BY <1>1 DEF client
  <2>2. QED
    BY <1>1, <2>1 DEF Types, Type, Discard, Restore, RefuseQueue, SubmitOffline, ReadsKeys, KInv, LatestKept, Kept
<1>2. CASE Submit
  BY <1>2 DEF Submit, Sends, SubmitPrompt, Open, KInv, LatestKept, Kept
<1>3. CASE Queue
  <2>1. UNCHANGED <<kind, slot, failed, back>> /\ kind = "prompt"
    BY <1>3 DEF Queue, QueueSubmission, ReadsKeys
  <2>2. QED
    BY <2>1 DEF KInv, LatestKept, Kept
<1>4. CASE Elsewhere
  <2>1. UNCHANGED <<slot, failed, back, draft>>
    BY <1>4 DEF Elsewhere, display
  <2>2. kind' = "prompt" <=> kind = "prompt"
    BY <1>4 DEF Elsewhere, SubmitCompact, Open, AskRequest, AskStatus, Ask, Escape, ReadsKeys, EscapeCompact, ReadCompact,
      ReadRequest
  <2>3. QED
    BY <2>1, <2>2 DEF KInv, LatestKept, Kept
\* /new is confirmed: nothing is left to restore, and nothing is promised.
<1>5. CASE NewSession
  BY <1>5 DEF NewSession, Confirmed, ReadRequest, KInv, LatestKept, Kept
<1>6. CASE Reconnect /\ UNCHANGED <<wire, sent, client>>
  BY <1>6 DEF Reconnect, display, client, KInv, LatestKept, Kept
<1>7. QED
  BY <1>1, <1>2, <1>3, <1>4, <1>5, <1>6 DEF UserActs

LEMMA ComposerKept ==
  ASSUME KInv, [ComposerNext]_svars
  PROVE  KInv'
<1>1. CASE UNCHANGED <<client, display>>
  BY <1>1 DEF client, display, KInv, LatestKept, Kept
<1>2. CASE Disconnect
  <2>1. kind' = "none" /\ slot' = Nothing /\ back' = (IF kind = "prompt" THEN failed' ELSE back)
        /\ (kind # "prompt" => failed' = failed)
    BY <1>2 DEF Disconnect, ForgetExchange
  <2>2. kind # "prompt" /\ back # Nothing => draft' = draft \/ draft = Nothing
    BY <1>2 DEF Disconnect
  <2>3. QED
    BY <2>1, <2>2 DEF KInv, LatestKept, Kept
<1>3. CASE UserActs \/ ReadsRecord
  BY <1>3, UserKept, ReadsKept
<1>4. QED
  BY <1>1, <1>2, <1>3 DEF ComposerNext, svars

\* What came back last, or was typed while disconnected, is in the draft or can be
\* restored, until the user sends or discards it or has opened a new session.
THEOREM AlwaysLatestKept ==
  ComposerSpec => []LatestKept
<1>1. ComposerInit => KInv
  BY KeptStarts
<1>2. KInv /\ [ComposerNext]_svars => KInv'
  BY ComposerKept
<1>3. KInv => LatestKept
  BY DEF KInv
<1>4. QED
  BY <1>1, <1>2, <1>3, PTL DEF ComposerSpec
=============================================================================
