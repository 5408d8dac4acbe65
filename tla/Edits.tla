------------------------------- MODULE Edits -------------------------------
(***************************************************************************)
(* The edit tool on the text of a file and the diff it reports             *)
(* (src/runtime/tools.rs): one occurrence is replaced, and the diff shows  *)
(* the one region that changed, in lines, with a line of context on either *)
(* side.  A text is a sequence of bytes; "n" ends a line.                  *)
(***************************************************************************)
EXTENDS Naturals, SequencesExt, FiniteSetsExt

CONSTANTS
  Byte,      \* bytes of a text, "n" among them
  MaxContent,   \* bound: bytes of a file
  MaxPart    \* bound: bytes of oldText and newText

VARIABLES
  content,   \* the file
  before,    \* the file as it was read
  edit       \* the last edit: its texts and the diff that was reported

edvars == <<content, before, edit>>

Texts(n) == UNION {[1 .. k -> Byte] : k \in 0 .. n}

-----------------------------------------------------------------------------
(* str::matches, str::replacen.                                            *)

StandsAt(part, text, i) == /\ i + Len(part) - 1 <= Len(text)
                           /\ SubSeq(text, i, i + Len(part) - 1) = part

\* Matches are counted from the left and do not overlap.
CountFrom(part, text) ==
  LET count[i \in 1 .. (Len(text) + Len(part))] ==
        IF i > Len(text) THEN 0
        ELSE IF StandsAt(part, text, i) THEN 1 + count[i + Len(part)]
        ELSE count[i + 1]
  IN  count[1]

Spliced(text, i, len, new) == SubSeq(text, 1, i - 1) \o new \o SubSeq(text, i + len, Len(text))
ReplaceFirst(text, old, new) ==
  Spliced(text, Min({i \in DOMAIN text : StandsAt(old, text, i)}), Len(old), new)

-----------------------------------------------------------------------------
(* edit_diff().                                                            *)

\* split_inclusive('\n'): the last line may lack its end.
LinesOf(text) ==
  LET ends == SetToSortSeq({i \in DOMAIN text : text[i] = "n" \/ i = Len(text)}, <)
  IN  [k \in DOMAIN ends |-> SubSeq(text, IF k = 1 THEN 1 ELSE ends[k - 1] + 1, ends[k])]

Common(s, t) == Max({n \in 0 .. (IF Len(s) < Len(t) THEN Len(s) ELSE Len(t)) :
                       \A i \in 1 .. n : s[i] = t[i]})
Behind(s, n) == SubSeq(s, n + 1, Len(s))

\* Mutant: the equal lines at the end are counted in the whole texts.
Suffix_Whole(old, new) == Common(Reverse(old), Reverse(new))
\* Equal lines at the end, behind those at the start.
Suffix(old, new) == LET prefix == Common(old, new)
                    IN  Common(Reverse(Behind(old, prefix)), Reverse(Behind(new, prefix)))

Signed(sign, lines) == [i \in DOMAIN lines |-> [sign |-> sign, line |-> lines[i]]]

\* The hunk: where it starts and how many lines it takes in both files.
Diff(from, to) ==
  LET old == LinesOf(from)
      new == LinesOf(to)
      prefix == Common(old, new)
      suffix == Suffix(old, new)
      start == IF prefix = 0 THEN 0 ELSE prefix - 1
      context == IF suffix > 0 THEN 1 ELSE 0
      oldEnd == Len(old) - suffix
      newEnd == Len(new) - suffix
  IN  IF old = new
      THEN [start |-> 1, old |-> 0, new |-> 0, lines |-> <<>>]
      ELSE [start |-> start + 1, old |-> oldEnd + context - start, new |-> newEnd + context - start,
            lines |-> Signed(" ", SubSeq(old, start + 1, prefix))
                        \o Signed("-", SubSeq(old, prefix + 1, oldEnd))
                        \o Signed("+", SubSeq(new, prefix + 1, newEnd))
                        \o Signed(" ", SubSeq(new, newEnd + 1, newEnd + context))]

-----------------------------------------------------------------------------
NoEdit == [old |-> <<>>, new |-> <<>>, diff |-> Diff(<<>>, <<>>)]

EditsInit == content \in Texts(MaxContent) /\ before = content /\ edit = NoEdit

\* A call with one match; any other leaves the file as it is.
EditFile ==
  \E old \in Texts(MaxPart) \ {<<>>}, new \in Texts(MaxPart) :
    /\ edit = NoEdit /\ CountFrom(old, content) = 1
    /\ content' = ReplaceFirst(content, old, new)
    /\ before' = content
    /\ edit' = [old |-> old, new |-> new, diff |-> Diff(content, content')]

EditsNext == EditFile

-----------------------------------------------------------------------------
(* Properties.                                                             *)

Sides(diff, sign) == LET kept == SelectSeq(diff.lines, LAMBDA l : l.sign \in {" ", sign})
                     IN  FlattenSeq([i \in DOMAIN kept |-> kept[i].line])

\* The diff is a patch: the lines it keeps and removes stand in the file as it was,
\* at the line and in the number the header says, and with the lines it adds in
\* their place the file is as it is now.
DiffIsPatch ==
  LET diff == edit.diff
      old == LinesOf(before)
      head == FlattenSeq(SubSeq(old, 1, diff.start - 1))
      tail == FlattenSeq(Behind(old, diff.start - 1 + diff.old))
  IN  edit # NoEdit =>
        /\ head \o Sides(diff, "-") \o tail = before
        /\ head \o Sides(diff, "+") \o tail = content
        /\ Len(LinesOf(Sides(diff, "+"))) = diff.new

\* Every other byte of the file is as it was.
EditIsLocal ==
  edit # NoEdit =>
    \E i \in DOMAIN before : /\ StandsAt(edit.old, before, i)
                             /\ content = Spliced(before, i, Len(edit.old), edit.new)

\* What an edit does and what the user is shown of it.
EditsPromise == DiffIsPatch /\ EditIsLocal
=============================================================================
