------------------------------- MODULE Display -------------------------------
(***************************************************************************)
(* The transcript of the fullscreen view (src/tui/screen/mod.rs,           *)
(* events.rs, render.rs) and the timeline of the tool calls in it          *)
(* (src/tui/activity.rs).  The transcript is a sequence of rows; the mark  *)
(* of the open timeline stands for the timeline's rows.                    *)
(***************************************************************************)
EXTENDS Integers, SequencesExt, FiniteSetsExt

CONSTANTS
  Kind,           \* kinds of tools: "read", "bash", and "edit" for those with an entry
  Height,         \* rows of the terminal for the transcript
  MaxTranscript,  \* rows that are kept (256 KiB in the code)
  MaxEvents       \* bound: events of runs

VARIABLES
  transcript,
  timeline,   \* the open timeline, or Closed
  activity,   \* a run is in progress
  call,       \* the kind of the tool that runs, or NoTool
  scroll,     \* rows between the end of the transcript and the last one shown
  anchor,     \* rows of the layout from which scroll counts, or NoAnchor
  layout,     \* rows of the layout
  dirty,      \* the layout is out of date
  drawn,      \* what the terminal shows: [bottom, scroll, total, height], and who moved it
  past,       \* history: calls that succeeded and failed, and whether rows were cut off
  events

pane == <<scroll, anchor, layout, dirty, drawn>>
dvars == <<transcript, timeline, activity, call, pane, past, events>>

NoTool == "none"
NoAnchor == -1
Text == <<"text", "">>
Mark == <<"mark", "">>
Closed == [open |-> FALSE]

\* Timeline::default
Opened == [open |-> TRUE, marked |-> FALSE, entries |-> <<>>, reads |-> 0, commands |-> 0,
           latest |-> FALSE, active |-> 0, interrupted |-> FALSE, exploring |-> FALSE,
           ended |-> FALSE]

-----------------------------------------------------------------------------
(* The timeline.                                                           *)

\* What the start of a call, or an end that had none, enters.
Entered(t, kind) ==
  CASE kind = "read" -> [t EXCEPT !.exploring = TRUE, !.ended = FALSE, !.latest = TRUE]
    [] kind = "bash" -> t
    [] OTHER -> [t EXCEPT !.ended = TRUE, !.entries = Append(@, "running")]

\* Timeline::tool_start
Started(t, kind) ==
  LET s == Entered(t, kind) IN IF kind = "read" THEN [s EXCEPT !.active = @ + 1] ELSE s

\* Timeline::tool_end: of the call that runs, whose entry is the last that was
\* entered, or of one whose start was not seen
Ended(t, kind, matched, failed) ==
  LET s == IF matched THEN t ELSE Entered(t, kind)
      over == IF matched /\ kind = "read" THEN [s EXCEPT !.active = Max({@ - 1, 0})] ELSE s
  IN CASE kind \in {"read", "bash"} /\ failed -> [over EXCEPT !.entries = Append(@, "failed")]
       [] kind = "read" /\ ~failed -> [over EXCEPT !.reads = @ + 1]
       [] kind = "bash" /\ ~failed -> [over EXCEPT !.commands = @ + 1]
       [] OTHER -> [over EXCEPT !.entries[Len(over.entries)] = IF failed THEN "failed" ELSE "done"]

IsExploring(t) == t.latest /\ t.exploring /\ ~t.interrupted /\ (~t.ended \/ t.active > 0)

\* Mutant: what is unfinished stays as it is.
Finished_AsItIs(t) == t

\* Timeline::finish
Finished(t) == [t EXCEPT !.ended = TRUE, !.interrupted = @ \/ t.active > 0, !.active = 0]

\* Timeline::lines
Lines(t) ==
  (IF t.latest THEN <<<<"explore", IF t.interrupted THEN "stopped"
                                   ELSE IF IsExploring(t) THEN "running" ELSE "done">>>>
   ELSE <<>>)
  \o (IF t.reads > 0 THEN <<<<"reads", t.reads>>>> ELSE <<>>)
  \o (IF t.commands > 0 THEN <<<<"commands", t.commands>>>> ELSE <<>>)
  \o [i \in DOMAIN t.entries |-> <<"entry", t.entries[i]>>]

-----------------------------------------------------------------------------
(* The layout.                                                             *)

\* rendered_transcript
Rendered(rows, t) ==
  IF t = Closed THEN rows
  ELSE FlattenSeq([i \in DOMAIN rows |-> IF rows[i] = Mark THEN Lines(t) ELSE <<rows[i]>>])

\* transcript_viewport
Clamped(requested, total, height) == Min({requested, Max({0, total - height})})

\* Mutant: the distance from the end is kept.
Anchored_ToEnd(requested, from, total) == requested

\* The rows that came since the anchor are below the ones shown.
Anchored(requested, from, total) ==
  IF from # NoAnchor /\ requested > 0 THEN requested + Max({0, total - from}) ELSE requested

\* transcript_layout and render: scroll and anchor as the step left them
Render(requested, from, stale, by) ==
  \E height \in Height :
    LET total == IF stale THEN Len(Rendered(transcript', timeline')) ELSE layout
        scroll_ == Clamped(IF stale THEN Anchored(requested, from, total) ELSE requested, total, height)
    IN /\ scroll' = scroll_ /\ layout' = total /\ dirty' = FALSE
       /\ anchor' = IF stale THEN NoAnchor ELSE from
       /\ drawn' = [bottom |-> total - scroll_, scroll |-> scroll_, height |-> height,
                    total |-> total, by |-> by]

\* dirty_transcript: the anchor, if the rows that are shown are not the last
Dirtied == IF scroll > 0 /\ anchor = NoAnchor THEN layout ELSE anchor

DisplayInit ==
  /\ transcript = <<>> /\ timeline = Closed /\ activity = FALSE /\ call = NoTool
  /\ scroll = 0 /\ anchor = NoAnchor /\ layout = 0 /\ dirty = FALSE
  /\ drawn = [bottom |-> 0, scroll |-> 0, height |-> 1, total |-> 0, by |-> "screen"]
  /\ past = [ok |-> 0, bad |-> 0, cut |-> FALSE] /\ events = 0

-----------------------------------------------------------------------------
(* Events of a run.                                                        *)

Event == events < MaxEvents /\ events' = events + 1
Excess(rows) == Max({0, Len(rows) - MaxTranscript})
Cut(rows) == SubSeq(rows, Excess(rows) + 1, Len(rows))

\* Screen::user, expect_initial_user, start_work: a prompt is shown and its run starts.
Prompts ==
  /\ ~activity /\ Event /\ activity' = TRUE
  /\ transcript' = Append(transcript, Text) /\ UNCHANGED <<timeline, call, past>>
  /\ Render(0, Dirtied, TRUE, "user")

\* Write::write: rows are bounded as they come; a later flush or tick draws them.
Write(rows, t) ==
  /\ transcript' = Cut(Append(rows, Text)) /\ timeline' = t
  /\ dirty' = TRUE /\ anchor' = Dirtied
  /\ scroll' = IF Excess(Append(rows, Text)) > 0 THEN 0 ELSE scroll
  /\ past' = [past EXCEPT !.cut = @ \/ Excess(Append(rows, Text)) > 0]
  /\ UNCHANGED <<layout, drawn>>

\* freeze_timeline
Frozen == IF timeline = Closed THEN transcript ELSE Rendered(transcript, Finished(timeline))

\* Text of the model: the first of a message closes the timeline.
Says == /\ activity /\ call = NoTool /\ Event /\ Write(Frozen, Closed) /\ UNCHANGED <<activity, call>>

\* delivered_user: a message that waited is shown; the timeline stays open.
Delivers ==
  /\ activity /\ call = NoTool /\ Event /\ Write(transcript, timeline) /\ UNCHANGED <<activity, call>>

\* update_timeline
Update(t) ==
  LET first == ~t.marked /\ Lines(t) # <<>> IN
  /\ timeline' = [t EXCEPT !.marked = @ \/ first]
  /\ transcript' = IF first THEN Append(transcript, Mark) ELSE transcript
  /\ Render(scroll, Dirtied, TRUE, "screen")

Current == IF timeline = Closed THEN Opened ELSE timeline

ToolStarts(kind) ==
  /\ activity /\ call = NoTool /\ Event /\ call' = kind
  /\ Update(Started(Current, kind)) /\ UNCHANGED <<activity, past>>

ToolEnds(kind, failed) ==
  /\ activity /\ call \in {NoTool, kind} /\ Event /\ call' = NoTool
  /\ Update(Ended(Current, kind, call = kind, failed))
  /\ past' = IF failed THEN [past EXCEPT !.bad = @ + 1] ELSE [past EXCEPT !.ok = @ + 1]
  /\ UNCHANGED activity

\* stop_work: the run ended, was stopped or was lost, with a tool or without.
Stops ==
  /\ activity /\ activity' = FALSE /\ call' = NoTool /\ timeline' = Closed
  /\ transcript' = Cut(Frozen)
  /\ past' = [past EXCEPT !.cut = @ \/ Excess(Frozen) > 0]
  /\ LET changed == timeline # Closed \/ Excess(Frozen) > 0
     IN Render(IF Excess(Frozen) > 0 THEN 0 ELSE scroll,
               IF changed THEN Dirtied ELSE anchor, dirty \/ changed, "screen")
  /\ UNCHANGED events

\* A flush or a tick draws, at the size that the terminal has then.
Draws == /\ UNCHANGED <<transcript, timeline, activity, call, past, events>>
         /\ Render(scroll, anchor, dirty, "screen")

\* The user scrolls by a page, or a line.
Scrolls ==
  /\ UNCHANGED <<transcript, timeline, activity, call, past, events>>
  /\ \E by \in {1, drawn.height} :
       \/ Render(scroll + by, anchor, dirty, "user")
       \/ Render(Max({0, scroll - by}), anchor, dirty, "user")

\* clear_session
Clears ==
  /\ ~activity /\ Event /\ transcript' = <<>> /\ timeline' = Closed
  /\ past' = [ok |-> 0, bad |-> 0, cut |-> FALSE]
  /\ Render(0, Dirtied, TRUE, "user") /\ UNCHANGED <<activity, call>>

DisplayNext ==
  \/ Prompts \/ Says \/ Delivers \/ Stops \/ Draws \/ Scrolls \/ Clears
  \/ \E kind \in Kind : ToolStarts(kind) \/ \E failed \in BOOLEAN : ToolEnds(kind, failed)

-----------------------------------------------------------------------------
(* Properties.                                                             *)

Sum(rows, kind) == FoldLeft(LAMBDA n, row : n + IF row[1] = kind THEN row[2] ELSE 0, 0, rows)
Count(rows, row) == Len(SelectSeq(rows, LAMBDA r : r = row))

\* Every call that ended is shown once, with its own outcome, unless rows were cut
\* off; one that did not end is not among them; nothing explores in a run that is
\* over; and a page of rows is shown while there is one.
TimelineTrue ==
  LET rows == Rendered(transcript, timeline) IN
  /\ ~past.cut => /\ Sum(rows, "reads") + Sum(rows, "commands") + Count(rows, <<"entry", "done">>)
                       = past.ok
                  /\ Count(rows, <<"entry", "failed">>) = past.bad
  /\ ~activity => Count(rows, <<"explore", "running">>) = 0
  /\ drawn.bottom >= Min({drawn.height, drawn.total}) /\ drawn.bottom <= drawn.total

\* While the user has scrolled up, rows that arrive leave the view at its row, unless
\* a higher view has to show a page.
RowsStayPut ==
  drawn'.by = "screen" /\ drawn.scroll > 0 /\ drawn'.scroll > 0 =>
    drawn'.bottom = Max({drawn.bottom, Min({drawn'.height, drawn'.total})})
=============================================================================
