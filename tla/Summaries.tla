----------------------------- MODULE Summaries -----------------------------
(***************************************************************************)
(* The summary of a long history for the Rooxcode provider (summarize in   *)
(* src/runtime/context.rs): the transcript is sent in chunks that fit the  *)
(* request's budget, each behind the summary of those before.  A character *)
(* is its number of bytes.                                                 *)
(***************************************************************************)
EXTENDS Naturals, SequencesExt, FiniteSetsExt

CONSTANTS
  Widths,        \* bytes of a character, within 1 .. 4
  MaxText,       \* bound: characters of a transcript
  Budget,        \* budget(m): a request must stay below it
  Fixed,         \* bytes of a request without summary and text
  SummaryBytes,  \* bytes a summary may have; 0: an empty one
  MaxRequests    \* chunks of a transcript (1024 in the code)

VARIABLES
  transcript,  \* the text of the messages that are summarized
  remaining,   \* the part not yet sent
  len,         \* bytes of the next chunk
  summary,     \* bytes of the summary so far
  requested,       \* history: the chunks that were sent
  progress     \* where the compaction is

suvars == <<transcript, remaining, len, summary, requested, progress>>

BytesOf(s) == LET upTo[i \in 0 .. Len(s)] == IF i = 0 THEN 0 ELSE upTo[i - 1] + s[i]
              IN  upTo[Len(s)]

\* prefix_len(): the characters of s that fit into max bytes, whole ones.
Fitting(s, max) == Max({i \in 0 .. Len(s) : BytesOf(SubSeq(s, 1, i)) <= max})
PrefixLen(s, max) == BytesOf(SubSeq(s, 1, Fitting(s, max)))

\* pressure(): the request would reach the budget.
Pressure(bytes) == Fixed + summary + bytes >= Budget

SummariesInit ==
  /\ transcript \in UNION {[1 .. n -> Widths] : n \in 1 .. MaxText}
  /\ remaining = transcript
  /\ len = 0 /\ summary = 0 /\ requested = <<>> /\ progress = "next"

NextChunk ==
  /\ progress = "next" /\ remaining # <<>>
  /\ Len(requested) < MaxRequests
  /\ len' = PrefixLen(remaining, Budget \div 2)
  /\ progress' = "fit"
  /\ UNCHANGED <<transcript, remaining, summary, requested>>

\* "Conversation exceeds bounded compaction capacity"
TooMany ==
  /\ progress = "next" /\ remaining # <<>> /\ Len(requested) = MaxRequests
  /\ progress' = "failed"
  /\ UNCHANGED <<transcript, remaining, len, summary, requested>>

Fits ==
  /\ progress = "fit" /\ ~Pressure(len)
  /\ progress' = "ask"
  /\ UNCHANGED <<transcript, remaining, len, summary, requested>>

Halve ==
  /\ progress = "fit" /\ Pressure(len) /\ len > 4
  /\ len' = PrefixLen(remaining, len \div 2)
  /\ UNCHANGED <<transcript, remaining, summary, requested, progress>>

\* "Compaction instructions or summary exceed the model/request budget"
TooLarge ==
  /\ progress = "fit" /\ Pressure(len) /\ len <= 4
  /\ progress' = "failed"
  /\ UNCHANGED <<transcript, remaining, len, summary, requested>>

\* Mutant: goes on behind the chunk as it was before it was halved.
Advance_Unhalved == Fitting(remaining, Budget \div 2)
\* The characters a request with a chunk of len bytes takes.
Advance == Fitting(remaining, len)

Summarized ==
  /\ progress = "ask"
  /\ summary' \in SummaryBytes
  /\ IF summary' = 0
     THEN progress' = "failed" /\ UNCHANGED <<remaining, requested>>
     ELSE /\ requested' = Append(requested, SubSeq(remaining, 1, Fitting(remaining, len)))
          /\ remaining' = SubSeq(remaining, Advance + 1, Len(remaining))
          /\ progress' = "next"
  /\ UNCHANGED <<transcript, len>>

\* A cancellation or an error of the provider.
SummaryBreaks ==
  /\ progress \in {"next", "ask"} /\ remaining # <<>>
  /\ progress' = "failed"
  /\ UNCHANGED <<transcript, remaining, len, summary, requested>>

SummaryDone ==
  /\ progress = "next" /\ remaining = <<>>
  /\ progress' = "done"
  /\ UNCHANGED <<transcript, remaining, len, summary, requested>>

SummariesNext == \/ NextChunk \/ TooMany \/ Fits \/ Halve \/ TooLarge \/ Summarized
                 \/ SummaryBreaks \/ SummaryDone

-----------------------------------------------------------------------------
(* Properties.                                                             *)

\* A summary that is used has been made from the whole transcript: the chunks
\* follow each other without a gap or an overlap, and no request that was
\* sent reached the budget.  There are only so many, whatever the text and the
\* summaries are.
SummaryCoversAll ==
  /\ FlattenSeq(requested) \o remaining = transcript
  /\ progress = "done" => remaining = <<>>
  /\ progress = "ask" => ~Pressure(len)
  /\ Len(requested) <= MaxRequests
=============================================================================
