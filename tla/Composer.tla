------------------------------ MODULE Composer ------------------------------
(***************************************************************************)
(* The full-screen composer of src/tui/screen during conversations: the    *)
(* draft, the submissions it shows as waiting, what the transcript shows,  *)
(* and the places a submission that comes back is kept in until the user   *)
(* asks for it (/restore, src/chat/mod.rs).  Records of the engine carry   *)
(* texts and no numbers, so the display matches them by text and mode;     *)
(* Client keeps the fate of each numbered submission beside it.            *)
(***************************************************************************)
EXTENDS Client, Submissions

CONSTANTS
  Texts,       \* texts the user types; equal texts are the point
  Nothing,     \* no text
  EarlyLimit   \* texts kept in delivered_before_ack (16 in the code)

ASSUME ComposerAssumption == Nothing \notin Texts /\ EarlyLimit \in Nat \ {0}

VARIABLES
  text,        \* what was submitted under each number
  mode,        \* and how
  shown,       \* Screen.pending_queue
  early,       \* Screen.delivered_before_ack
  initial,     \* Screen.initial_user_pending
  transcript,  \* how often each text was put in the transcript as sent or delivered
  draft,       \* Screen.draft
  slot,        \* Screen.rejected_queued
  failed,      \* the chat loop's last_failed
  run_failed,  \* RunState.assistant_error
  offline,     \* there is no runtime (Client.is_connected)
  renewing,    \* the request in progress is /new
  back,        \* history: the newest text handed back since the last submission
  stray        \* history: a queued submission has begun a run of its own

display == <<text, mode, shown, early, initial, transcript, draft, slot, failed, run_failed,
             back>>
link == <<offline, renewing>>

ComposerInit ==
  /\ WireInit /\ ClientInit /\ SubmissionsInit
  /\ text = [p \in Prompts |-> Nothing] /\ mode = [p \in Prompts |-> "none"]
  /\ shown = <<>> /\ early = <<>> /\ initial = Nothing
  /\ transcript = [t \in Texts |-> 0]
  /\ draft = Nothing /\ slot = Nothing /\ failed = Nothing
  /\ run_failed = FALSE /\ back = Nothing /\ stray = FALSE
  /\ offline = FALSE /\ renewing = FALSE

-----------------------------------------------------------------------------
(* The display's own operations.                                           *)

Item(t, m, is_accepted) == [text |-> t, mode |-> m, accepted |-> is_accepted, sending |-> FALSE]

Matches(item, t, m) == item.text = t /\ item.mode = m

\* queued(): a submission was accepted.
EarlyOf(t) == {i \in DOMAIN early : early[i] = t}
Accept(t, m) ==
  LET unaccepted == {i \in DOMAIN shown : Matches(shown[i], t, m) /\ ~shown[i].accepted}
  IN  CASE EarlyOf(t) # {} -> shown
        [] EarlyOf(t) = {} /\ unaccepted # {} -> [shown EXCEPT ![Min(unaccepted)].accepted = TRUE]
        [] OTHER -> Append(shown, Item(t, m, TRUE))
EarlyAfter(t) == IF EarlyOf(t) = {} THEN early ELSE RemoveAt(early, Min(EarlyOf(t)))

\* rejected_queue(): q without the first unaccepted item of that text and mode.
Without(q, t, m) ==
  LET unaccepted == {i \in DOMAIN q : Matches(q[i], t, m) /\ ~q[i].accepted}
  IN  IF unaccepted = {} THEN q ELSE RemoveAt(q, Min(unaccepted))

\* Mutant: the first item of that text, on its way or not.
Delivered_First(t) ==
  LET all == {i \in DOMAIN shown : shown[i].text = t}
  IN  IF all = {} THEN {} ELSE {Min(all)}

\* delivered_user(): the item a delivered text belongs to, an item the queue
\* has let go of before any other.
Delivered(t) ==
  LET all == {i \in DOMAIN shown : shown[i].text = t}
      leaving == {i \in all : shown[i].sending}
  IN  IF all = {} THEN {} ELSE {Min(IF leaving # {} THEN leaving ELSE all)}

\* queue_update(): the listed submissions in their order, each with the newest
\* item of its text and mode, and behind them what the queue has let go of.
ModeOf(entry) == IF entry.steer THEN "steer" ELSE "followUp"
Match(entry, sofar) ==
  LET t == text[entry.id]
      m == ModeOf(entry)
      same == {i \in DOMAIN sofar.old : Matches(sofar.old[i], t, m) /\ ~sofar.old[i].sending}
  IN  IF same = {}
      THEN [sofar EXCEPT !.kept = <<Item(t, m, FALSE)>> \o @]
      ELSE [old |-> RemoveAt(sofar.old, Max(same)), kept |-> <<sofar.old[Max(same)]>> \o sofar.kept]
UpdatedQueue(list) ==
  LET matched == FoldRight(Match, list, [old |-> shown, kept |-> <<>>])
  IN  matched.kept \o [i \in DOMAIN matched.old |-> [matched.old[i] EXCEPT !.sending = TRUE]]

-----------------------------------------------------------------------------
(* The user.                                                               *)

AtComposer == kind = "none" \/ ReadsKeys

Type ==
  /\ AtComposer /\ draft = Nothing
  /\ draft' \in Texts
  /\ UNCHANGED <<text, mode, shown, early, initial, transcript, slot, failed, run_failed, back>>

\* Ctrl+C.
Discard ==
  /\ AtComposer /\ draft # Nothing
  /\ draft' = Nothing
  /\ back' = IF back \in {slot, failed} THEN back ELSE Nothing
  /\ UNCHANGED <<text, mode, shown, early, initial, transcript, slot, failed, run_failed>>

\* /restore; typing the command takes an empty draft.
Restore ==
  /\ kind = "none" /\ draft = Nothing /\ failed # Nothing
  /\ draft' = failed /\ failed' = Nothing
  /\ UNCHANGED <<text, mode, shown, early, initial, transcript, slot, run_failed, back>>

\* Enter sends the draft under the next number.
Sends(m) ==
  /\ draft # Nothing
  /\ text' = [text EXCEPT ![sent + 1] = draft]
  /\ mode' = [mode EXCEPT ![sent + 1] = m]
  /\ draft' = Nothing

Submit ==
  /\ ~offline /\ SubmitPrompt /\ Sends("none")
  /\ initial' = draft
  /\ transcript' = [transcript EXCEPT ![draft] = @ + 1]
  /\ run_failed' = FALSE
  /\ back' = Nothing
  /\ UNCHANGED <<shown, early, slot, failed>>

\* A prompt typed without a runtime is not sent: it takes the place of what could be
\* restored, as the newest text that came back.  (It stands in the transcript too,
\* above the notice that nothing was sent.)
SubmitOffline ==
  /\ offline /\ kind = "none" /\ draft # Nothing
  /\ failed' = draft /\ back' = draft /\ draft' = Nothing
  /\ UNCHANGED <<text, mode, shown, early, initial, transcript, slot, run_failed>>

Queue ==
  /\ QueueSubmission /\ Sends(Last(commands').mode)
  /\ UNCHANGED <<shown, early, initial, transcript, slot, failed, run_failed, back>>

\* The client itself refuses when too many wait; the draft is taken and restored.
RefuseQueue ==
  /\ ReadsKeys /\ accepted /\ draft # Nothing
  /\ Cardinality(pending) + queued_count >= QueueLimit
  /\ \E m \in {"steer", "followUp"} : shown' = Without(shown, draft, m)
  /\ slot' = draft /\ back' = draft
  /\ UNCHANGED <<text, mode, early, initial, transcript, draft, failed, run_failed>>

-----------------------------------------------------------------------------
(* Records.                                                                *)

\* Mutant: the rejected submission is looked at first.
Outcome_Prompt(s, bad) ==
  CASE bad -> text[exchange_id] [] s # Nothing /\ ~bad -> s [] OTHER -> Nothing

\* What /restore has after a prompt: the rejected submission s, or the prompt.
Outcome(s, bad) ==
  CASE s # Nothing -> s [] s = Nothing /\ bad -> text[exchange_id] [] OTHER -> Nothing

\* Ends every reading step of a prompt: the screen becomes s, and leaving the
\* exchange clears it (stop_work) and settles what can be restored.
screen == [shown |-> shown, early |-> early, initial |-> initial, draft |-> draft, slot |-> slot]
Shows(s) ==
  LET leaves == kind' = "left"
      bad == rejection' \/ (run_failed' /\ ~interrupted)
  IN  /\ shown' = IF leaves THEN <<>> ELSE s.shown
      /\ early' = IF leaves THEN <<>> ELSE s.early
      /\ initial' = IF leaves THEN Nothing ELSE s.initial
      /\ draft' = s.draft
      /\ slot' = IF leaves THEN Nothing ELSE s.slot
      /\ failed' = IF leaves THEN Outcome(s.slot, bad) ELSE failed
      /\ UNCHANGED <<text, mode>>

\* rejected_queue() on a screen s: restored to an empty draft, and kept.
Rejected(s, t, m) ==
  [s EXCEPT !.shown = Without(@, t, m), !.draft = IF @ = Nothing THEN t ELSE @, !.slot = t]

Unheard == UNCHANGED <<transcript, run_failed, back>>

ReadQueued ==
  LET p == Head(records).id[1]
      comes_back == ~Head(records).ok \/ interrupted
  IN  /\ AcknowledgeQueued
      /\ UNCHANGED <<transcript, run_failed>>
      /\ Shows(IF comes_back THEN Rejected(screen, text[p], mode[p])
                             ELSE [screen EXCEPT !.shown = Accept(text[p], mode[p]),
                                                 !.early = EarlyAfter(text[p])])
      /\ back' = IF comes_back THEN text[p] ELSE back

ReadClear ==
  /\ AcknowledgeClear
  /\ Unheard
  /\ Shows([screen EXCEPT !.shown = <<>>, !.early = <<>>])

ReadDelivery ==
  LET t == text[Head(records).prompt]
      from == Delivered(t)
      unacknowledged == \A i \in from : ~shown[i].accepted
      heard == IF unacknowledged THEN Append(early, t) ELSE early
  IN  /\ ObserveDelivery
      /\ UNCHANGED <<run_failed, back>>
      /\ IF initial = t
         THEN Shows([screen EXCEPT !.initial = Nothing]) /\ UNCHANGED transcript
         ELSE /\ Shows([screen EXCEPT
                          !.shown = IF from = {} THEN @ ELSE RemoveAt(@, Min(from)),
                          !.early = IF Len(heard) > EarlyLimit THEN Tail(heard) ELSE heard])
              /\ transcript' = [transcript EXCEPT ![t] = @ + 1]

ReadQueueUpdate ==
  /\ ObserveQueue
  /\ Unheard
  /\ Shows([screen EXCEPT !.shown = UpdatedQueue(Head(records).waiting)])

ReadRejected ==
  LET p == Head(records).prompt
  IN  /\ ObserveRejected
      /\ UNCHANGED <<transcript, run_failed>>
      /\ Shows(Rejected([screen EXCEPT !.shown = <<>>, !.early = <<>>], text[p], mode[p]))
      /\ back' = text[p]

\* A failure is forgotten when a later run replies.
ReadOther ==
  /\ \/ /\ AcknowledgeAbort \/ AcknowledgePrompt \/ ObserveSettled
        /\ UNCHANGED run_failed
     \/ ObserveOther /\ run_failed' = (run_failed \/ Head(records).type = "failed")
     \/ ObserveStart /\ run_failed' \in {run_failed, FALSE}
  /\ Shows(screen)
  /\ UNCHANGED <<transcript, back>>

\* /new: once the runtime has confirmed it, the screen is cleared (clear_session)
\* and with it what could be restored.
Confirmed == renewing /\ kind' = "none" /\ Head(records).ok

NewSession ==
  /\ ReadRequest /\ Confirmed
  /\ shown' = <<>> /\ early' = <<>> /\ initial' = Nothing
  /\ draft' = Nothing /\ slot' = Nothing /\ failed' = Nothing
  /\ back' = IF Head(records).ok THEN Nothing ELSE back
  /\ renewing' = FALSE /\ UNCHANGED <<text, mode, transcript, run_failed, offline>>

\* The other commands of the composer leave the display alone, a refused /new too.
Elsewhere ==
  /\ \/ SubmitCompact /\ draft = Nothing /\ ~offline /\ UNCHANGED renewing
     \/ /\ AskRequest /\ draft = Nothing /\ ~offline
        /\ renewing' = (Last(commands').kind = "new_session")
     \/ (AskStatus \/ Escape \/ EscapeCompact \/ ReadCompact) /\ UNCHANGED renewing
     \/ ReadRequest /\ ~Confirmed /\ renewing' = (renewing /\ kind' = "request")
  /\ UNCHANGED <<display, offline>>

\* /reconnect; the status that it asks for changes nothing here.
Reconnect ==
  /\ offline /\ kind = "none" /\ draft = Nothing
  /\ offline' = FALSE
  /\ UNCHANGED <<display, renewing>>

\* The connection fails: the newest submission without an answer is kept, the
\* prompt if there is none.  A cancellation that takes too long keeps neither
\* the one nor the other submissions.
Disconnect ==
  LET s == IF pending # {} THEN text[Max(pending)] ELSE slot
  IN  /\ ~offline /\ Lose /\ ForgetExchange
      /\ \E kept \in IF interrupted THEN {s, slot} ELSE {s} :
           /\ failed' = IF kind = "prompt" THEN Outcome(kept, TRUE) ELSE failed
           /\ draft' = IF draft = Nothing /\ kept # slot THEN kept ELSE draft
           /\ back' = IF kind = "prompt" THEN failed' ELSE back
      /\ shown' = <<>> /\ early' = <<>> /\ initial' = Nothing /\ slot' = Nothing
      /\ run_failed' = FALSE
      /\ offline' = TRUE /\ renewing' = FALSE
      /\ UNCHANGED <<sent, text, mode, transcript, stray>>

-----------------------------------------------------------------------------
ReadsRecord == \/ ReadQueued \/ ReadClear \/ ReadDelivery \/ ReadQueueUpdate \/ ReadRejected
               \/ ReadOther

Types == Type \/ Discard \/ Restore \/ RefuseQueue \/ SubmitOffline

UserActs == \/ Types /\ UNCHANGED <<wire, sent, client, link>>
            \/ (Submit \/ Queue) /\ UNCHANGED link
            \/ Reconnect /\ UNCHANGED <<wire, sent, client>>
            \/ Elsewhere \/ NewSession

ComposerNext ==
  \/ UserActs /\ UNCHANGED <<work, stray>>
  \/ ReadsRecord /\ UNCHANGED <<work, stray, link>>
  \/ /\ Serve /\ UNCHANGED <<sent, client, display, link>>
     /\ stray' = (stray \/ (stage = "none" /\ stage' = "begins" /\ Head(commands).mode # "none"))
  \/ Disconnect

svars == <<wire, sent, client, work, display, link, stray>>
ComposerSpec == ComposerInit /\ [][ComposerNext]_svars

-----------------------------------------------------------------------------
(* Properties.                                                             *)

\* What waits beside the composer is what the client knows to wait, text by
\* text and mode by mode, although records have no numbers (README.md:79), until
\* a submission that came too late begins a run of its own.
ShownIsWaiting ==
  kind = "prompt" /\ ~interrupted /\ ~stray =>
    \A t \in Texts, m \in Modes :
      Cardinality({i \in DOMAIN shown : Matches(shown[i], t, m)})
        = Cardinality({p \in Prompts : fate[p] = "waiting" /\ text[p] = t /\ mode[p] = m})

\* Every prompt was put in the transcript once, and so was every submission that
\* was delivered while the client listened.
TranscriptExact ==
  ~stray => \A t \in Texts :
    LET mine == {p \in Prompts : text[p] = t}
        prompts == {p \in mine : mode[p] = "none"}
    IN  /\ transcript[t] <= Cardinality(mine)
        /\ transcript[t] >= Cardinality(prompts \cup {p \in mine : fate[p] = "delivered"})

\* What the user sees of the submissions is exact: nothing that waits is missing
\* beside the composer or shown twice, and nothing that was delivered is missing
\* in the transcript.
DisplayExact == ShownIsWaiting /\ TranscriptExact

\* What came back last is in the draft or can be restored (docs/error-handling.md:7),
\* until the user sends or discards it or has opened a new session.  A prompt typed
\* while disconnected came back at once, in the place of what came back before it.
LatestKept == back # Nothing => back \in {draft, slot, failed}
=============================================================================
