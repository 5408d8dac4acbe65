------------------------------ MODULE Decoder ------------------------------
(***************************************************************************)
(* The frames of a provider's stream (Decoder in src/runtime/provider.rs): *)
(* bytes arrive in chunks that end anywhere, a frame ends at the first     *)
(* blank line of either kind, and the bytes that wait are bounded.         *)
(***************************************************************************)
EXTENDS Naturals, SequencesExt, FiniteSetsExt

CONSTANTS
  MaxBuffer,   \* bytes a buffer may hold (2 MiB in the code)
  MaxStream    \* bound: bytes of a stream

VARIABLES
  arrived,   \* history: the bytes received
  buffer,    \* Decoder.buffer
  frames,    \* the frames handed on
  broken     \* the stream failed

dvars == <<arrived, buffer, frames, broken>>

\* A line's text is one byte here: data, a comment, or anything else.
Bytes == {"data", "comment", "other", "n", "r"}

DecoderInit == arrived = <<>> /\ buffer = <<>> /\ frames = <<>> /\ broken = FALSE

HasAt(b, i, marker) == i + Len(marker) - 1 <= Len(b) /\ SubSeq(b, i, i + Len(marker) - 1) = marker

\* Mutant: a line feed and a carriage return are looked for one after another.
MarkersAt_ByKind(b, i) ==
  LET plain == {j \in DOMAIN b : HasAt(b, j, <<"n", "n">>)}
  IN  IF plain # {} THEN (IF i = Min(plain) THEN {2} ELSE {})
      ELSE IF HasAt(b, i, <<"r", "n", "r", "n">>) THEN {4} ELSE {}

\* The length of the blank line that ends a frame at byte i.
MarkersAt(b, i) == (IF HasAt(b, i, <<"n", "n">>) THEN {2} ELSE {})
                     \cup (IF HasAt(b, i, <<"r", "n", "r", "n">>) THEN {4} ELSE {})
BlankLines(b) == {i \in DOMAIN b : MarkersAt(b, i) # {}}

\* str::lines: without the carriage return before a line feed.
Lines(b) ==
  LET feeds == SetToSortSeq({i \in DOMAIN b : b[i] = "n"} \cup {0, Len(b) + 1}, <)
      line(k) == SubSeq(b, feeds[k] + 1, feeds[k + 1] - 1)
      ended(k) == feeds[k + 1] <= Len(b)
      bare(k) == IF ended(k) /\ line(k) # <<>> /\ Last(line(k)) = "r" THEN Front(line(k)) ELSE line(k)
  IN  [k \in 1 .. (Len(feeds) - 1) |-> bare(k)]

\* The comments of a frame, one by one, and then its data, joined, if there is any.
BeginsWith(line, byte) == line # <<>> /\ Head(line) = byte
Frames(b) ==
  LET comments == SelectSeq(Lines(b), LAMBDA line : BeginsWith(line, "comment"))
      data == SelectSeq(Lines(b), LAMBDA line : BeginsWith(line, "data"))
      nothing == data \in {<<>>, <<<<"data">>>>}
  IN  [i \in DOMAIN comments |-> [comment |-> Tail(comments[i])]]
        \o (IF nothing THEN <<>> ELSE <<[data |-> [i \in DOMAIN data |-> Tail(data[i])]]>>)

\* push_frames: every frame that is complete, and the bytes behind them.
Pushed(b) ==
  LET step[n \in 0 .. Len(b)] ==
        IF n = 0 THEN [rest |-> b, frames |-> <<>>]
        ELSE LET was == step[n - 1]
                 at == Min(BlankLines(was.rest))
             IN  IF BlankLines(was.rest) = {} THEN was
                 ELSE [rest |-> SubSeq(was.rest, at + Max(MarkersAt(was.rest, at)), Len(was.rest)),
                       frames |-> was.frames \o Frames(SubSeq(was.rest, 1, at - 1))]
  IN  step[Len(b)]

Push ==
  /\ ~broken
  /\ \E n \in 1 .. (MaxStream - Len(arrived)) : \E chunk \in [1 .. n -> Bytes] :
       IF n > MaxBuffer - Len(buffer)
       THEN broken' = TRUE /\ UNCHANGED <<arrived, buffer, frames>>
       ELSE /\ arrived' = arrived \o chunk
            /\ buffer' = Pushed(buffer \o chunk).rest
            /\ frames' = frames \o Pushed(buffer \o chunk).frames
            /\ UNCHANGED broken

DecoderNext == Push

-----------------------------------------------------------------------------
(* Properties.                                                             *)

\* Where the bytes were cut into chunks makes no difference: the frames are those
\* of all bytes at once, none is held back, and what waits fits the buffer.
ChunksDoNotMatter ==
  /\ frames = Pushed(arrived).frames /\ buffer = Pushed(arrived).rest
  /\ BlankLines(buffer) = {}
  /\ Len(buffer) <= MaxBuffer
=============================================================================
