------------------------------- MODULE Editor -------------------------------
(***************************************************************************)
(* The editor of the command line (src/cli/editor.rs): a draft of several  *)
(* lines, painted into the last rows of a terminal that scrolls, from what *)
(* the editor remembers to have painted there.                             *)
(*                                                                         *)
(* The terminal is modelled by what its control sequences do: rows from    *)
(* the first that the editor owns, and the place of the cursor.  A row is  *)
(* its mark and its characters; "w" stands for a wide character, which     *)
(* comes as two bytes.                                                     *)
(***************************************************************************)
EXTENDS Naturals, Sequences, SequencesExt, FiniteSetsExt

CONSTANTS
  Size,        \* sizes of the terminal: columns, rows of text that are shown at most
  DraftLimit,  \* characters of a draft (64 KiB in the code)
  Pasted       \* texts that may be pasted

VARIABLES
  text, at,    \* Draft: text, cursor
  preferred,   \* Draft: preferred_column
  pending,     \* the first byte of a wide character has come
  pasting, notice, size,
  frame,       \* what the editor remembers: its rows and the cursor
  terminal,    \* what the terminal shows: the same
  outcome      \* "reading", "sent" or "left"

draft_vars == <<text, at, preferred>>
painted == <<frame, terminal>>
evars == <<draft_vars, pending, pasting, notice, size, painted, outcome>>

NoColumn == 99
Prompt == [rows |-> <<<<"first", <<>>>>>>, cursor |-> <<0, 2>>]   \* Frame::initial
Blank == <<"blank", <<>>>>

WidthOf(ch) == IF ch = "w" THEN 2 ELSE 1
Width(chars) == Len(SelectSeq(chars, LAMBDA ch : ch # "\n"))
                + Len(SelectSeq(chars, LAMBDA ch : ch = "w"))

-----------------------------------------------------------------------------
(* Layout and Frame.                                                       *)

\* Layout::new: the rows as <<characters before, characters up to the end>>
Layout(chars, columns) ==
  LET available == Max({columns - 3, 2})
      l[i \in 0..Len(chars)] ==
        IF i = 0 THEN [rows |-> <<>>, start |-> 0, used |-> 0]
        ELSE LET so == l[i - 1]
                 ch == chars[i]
             IN CASE ch = "\n" ->
                       [rows |-> Append(so.rows, <<so.start, i - 1>>), start |-> i, used |-> 0]
                  [] ch # "\n" /\ so.used + WidthOf(ch) > available ->
                       [rows |-> Append(so.rows, <<so.start, i - 1>>), start |-> i - 1,
                        used |-> WidthOf(ch)]
                  [] OTHER -> [so EXCEPT !.used = @ + WidthOf(ch)]
      all == l[Len(chars)]
  IN Append(all.rows, <<all.start, Len(chars)>>)

Of(range, chars) == SubSeq(chars, range[1] + 1, range[2])

\* Layout::cursor, the row from 0
Place(rows, chars, cursor) ==
  LET row == Max({r \in DOMAIN rows : rows[r][1] <= cursor})
  IN <<row - 1, 2 + Width(SubSeq(chars, rows[row][1] + 1, Min({cursor, rows[row][2]})))>>

Drawn(rows, chars) ==
  [i \in DOMAIN rows |-> <<IF i = 1 THEN "first" ELSE "next", Of(rows[i], chars)>>]

\* Frame::new
FrameOf(chars, cursor, in, noticed) ==
  LET rows == Layout(chars, in[1])
      place == Place(rows, chars, cursor)
      start == IF place[1] < in[2] THEN 0 ELSE place[1] - (in[2] - 1)
      end == Min({start + in[2], Len(rows)})
      footer == noticed \/ start > 0 \/ end < Len(rows)
  IN [rows |-> SubSeq(Drawn(rows, chars), start + 1, end)
               \o IF footer THEN <<<<"footer", IF noticed THEN <<>> ELSE <<start, Len(rows) - end>>>>>>
                  ELSE <<>>,
      cursor |-> <<place[1] - start, place[2]>>]

-----------------------------------------------------------------------------
(* The terminal.                                                           *)

\* repaint: up to the row that the previous frame began in, every row anew, and up
\* from the last one to the cursor's
Repaint(shown, previous, next) ==
  LET top == shown.cursor[1] - previous.cursor[1]
      height == Max({Len(previous.rows), Len(next.rows)})
      up == height - 1 - next.cursor[1]
  IN [rows |-> [i \in 1..Max({Len(shown.rows), top + height}) |->
                  CASE i \in top + 1..top + Len(next.rows) -> next.rows[i - top]
                    [] i \in top + Len(next.rows) + 1..top + height -> Blank
                    [] OTHER -> shown.rows[i]],
      cursor |-> <<top + height - 1 - up, next.cursor[2]>>]

\* A character at the cursor, over what is there.
Put(shown, ch) ==
  LET row == shown.rows[shown.cursor[1] + 1]
      n == Len(row[2])
      column(i) == 2 + Width(SubSeq(row[2], 1, i))
      left == Max({i \in 0..n : column(i) <= shown.cursor[2]})
      over == Min({n} \cup {i \in 0..n : column(i) >= shown.cursor[2] + WidthOf(ch)})
  IN [rows |-> [shown.rows EXCEPT ![shown.cursor[1] + 1] = <<row[1],
                 SubSeq(row[2], 1, left) \o <<ch>> \o SubSeq(row[2], over + 1, n)>>],
      cursor |-> <<shown.cursor[1], shown.cursor[2] + WidthOf(ch)>>]

\* Another size: a region of its own, below the rows of the old one.
Fresh == [rows |-> <<Blank>>, cursor |-> <<0, 0>>]

\* The frame and the terminal after a look at the size.
Resized(in) ==
  IF in = size THEN [frame |-> frame, terminal |-> terminal]
  ELSE LET next == FrameOf(text, at, in, FALSE)
       IN [frame |-> next, terminal |-> Repaint(Fresh, Prompt, next)]

\* Mutant: what is typed is only written, wherever the cursor is.
Appends_Anywhere(before, next) == Len(before.rows) = 1 /\ Len(next.rows) = 1

\* Typing at the end of a draft of one row needs no repaint.
Appends(before, next) ==
  at = Len(text) /\ ~notice /\ Len(before.rows) = 1 /\ Len(next.rows) = 1

-----------------------------------------------------------------------------
(* read_draft.                                                             *)

EditorInit ==
  /\ text = <<>> /\ at = 0 /\ preferred = NoColumn
  /\ pending = FALSE /\ pasting = FALSE /\ notice = FALSE /\ size \in Size
  /\ frame = Prompt /\ terminal = Prompt /\ outcome = "reading"

\* The end of the loop: what the key left, drawn.  typed is what was inserted at the
\* end of it, if anything.
Draws(typed) ==
  \E now \in {Resized(size')}, next \in {FrameOf(text', at', size', notice')} :
    /\ frame' = next
    /\ terminal' =
         IF typed # <<>> /\ Appends(now.frame, next) THEN Put(now.terminal, typed[1])
         ELSE IF \/ at # at' \/ Len(text) # Len(text') \/ notice \/ notice'
                 \/ now.frame.rows # next.rows
         THEN Repaint(now.terminal, now.frame, next)
         ELSE now.terminal

\* A key that finds another size draws the frame for it and is then handled: the same
\* as a key that does nothing, which finds it, and that key after it.
Reads == outcome = "reading" /\ ~pasting
Edits == Reads /\ UNCHANGED <<size, pasting, outcome>>

\* continue: the key changes nothing yet and nothing is drawn.
Skips == notice' = FALSE /\ UNCHANGED <<draft_vars, painted>>

\* A key that does nothing, in a terminal of any size.
Ignored == /\ Reads /\ size' \in Size /\ notice' = FALSE
           /\ UNCHANGED <<draft_vars, pending, pasting, outcome>> /\ Draws(<<>>)

\* Draft::insert
Fits(chars) == Len(text) + Len(chars) <= DraftLimit
Inserts(chars) ==
  IF Fits(chars) THEN /\ text' = SubSeq(text, 1, at) \o chars \o SubSeq(text, at + 1, Len(text))
                      /\ at' = at + Len(chars) /\ preferred' = NoColumn
  ELSE UNCHANGED draft_vars

\* A key that inserts: a limit that is met is told.
Insert(chars, typed) ==
  /\ Inserts(chars) /\ notice' = ~Fits(chars)
  /\ Draws(IF typed /\ Fits(chars) THEN chars ELSE <<>>)

\* A character of one byte; after the first byte of another it is no character.
Character ==
  /\ Edits /\ pending' = FALSE
  /\ IF pending THEN Skips ELSE Insert(<<"x">>, TRUE)

\* The two bytes of a wide character.
FirstByte == Edits /\ pending' = ~pending /\ Skips
LastByte == Edits /\ pending /\ pending' = FALSE /\ Insert(<<"w">>, TRUE)

\* Ctrl+J leaves a byte that waits, Alt+Enter drops it.
Newline == Edits /\ pending' \in {pending, FALSE} /\ Insert(<<"\n">>, FALSE)

\* A key that moves the cursor or deletes.
Moves(text_, to, column) ==
  /\ text' = text_ /\ at' = to /\ preferred' = column /\ notice' = FALSE /\ Draws(<<>>)

Without(i) == SubSeq(text, 1, i - 1) \o SubSeq(text, i + 1, Len(text))
Breaks == {i \in DOMAIN text : text[i] = "\n"}

Left == Edits /\ pending' = FALSE /\ Moves(text, IF at = 0 THEN 0 ELSE at - 1, NoColumn)
Right == Edits /\ pending' = FALSE /\ Moves(text, Min({at + 1, Len(text)}), NoColumn)
Home == /\ Edits /\ pending' \in {pending, FALSE}
        /\ Moves(text, Max({0} \cup {i \in Breaks : i <= at}), NoColumn)
End == /\ Edits /\ pending' \in {pending, FALSE}
       /\ Moves(text, Min({Len(text)} \cup {i - 1 : i \in {j \in Breaks : j > at}}), NoColumn)
Backspace == /\ Edits /\ pending' = FALSE
             /\ IF at = 0 THEN Moves(text, 0, NoColumn) ELSE Moves(Without(at), at - 1, NoColumn)
Delete == /\ Edits /\ pending' \in {pending, FALSE}
          /\ Moves(IF at = Len(text) THEN text ELSE Without(at + 1), at, NoColumn)

\* Draft::vertical
Vertical(up) ==
  LET rows == Layout(text, size[1])
      place == Place(rows, text, at)
      desired == IF preferred = NoColumn THEN place[2] - 2 ELSE preferred
      row == IF up THEN Max({place[1], 1}) - 1 ELSE Min({place[1] + 1, Len(rows) - 1})
      target == rows[row + 1]
      within == {k \in 0..target[2] - target[1] : Width(SubSeq(text, target[1] + 1, target[1] + k)) <= desired}
  IN Moves(text, target[1] + Max(within), desired)

Up == Edits /\ pending' = FALSE /\ Vertical(TRUE)
Down == Edits /\ pending' = FALSE /\ Vertical(FALSE)

\* Ctrl+C drops a draft, or leaves; so does Ctrl+D without a draft.
Interrupt ==
  IF text = <<>> THEN /\ Reads /\ outcome' = "left" /\ Skips /\ UNCHANGED <<pending, pasting, size>>
  ELSE Edits /\ pending' = FALSE /\ Moves(<<>>, 0, NoColumn)

\* A bracketed paste: its end repaints whatever came of it, and looks at no size.
PasteStart == /\ Reads /\ pasting' = TRUE /\ pending' = FALSE /\ Skips
              /\ UNCHANGED <<size, outcome>>
PasteEnd ==
  /\ pasting /\ pasting' = FALSE
  /\ \/ \E chars \in Pasted : Inserts(chars) /\ notice' = ~Fits(chars)
     \/ UNCHANGED draft_vars /\ notice' = TRUE
  /\ frame' = FrameOf(text', at', size, notice') /\ terminal' = Repaint(terminal, frame, frame')
  /\ UNCHANGED <<pending, size, outcome>>

\* commit: the whole draft in the place of the frame, and the cursor below it
Enter ==
  /\ Reads /\ outcome' = "sent" /\ notice' = FALSE
  /\ terminal' =
       IF Len(frame.rows) = 1 /\ at = Len(text)
       THEN [terminal EXCEPT !.cursor = <<@[1] + 1, 0>>]
       ELSE LET top == terminal.cursor[1] - frame.cursor[1]
                rows == Drawn(Layout(text, size[1]), text)
            IN [rows |-> SubSeq(terminal.rows, 1, top) \o rows, cursor |-> <<top + Len(rows), 0>>]
  /\ UNCHANGED <<draft_vars, pending, pasting, size, frame>>

EditorNext ==
  \/ Ignored \/ Character \/ FirstByte \/ LastByte \/ Newline
  \/ Left \/ Right \/ Home \/ End \/ Up \/ Down \/ Backspace \/ Delete
  \/ Interrupt \/ PasteStart \/ PasteEnd \/ Enter

-----------------------------------------------------------------------------
(* The terminal shows what the editor remembers, with the cursor in its    *)
(* place; that is the draft as it is, a window of it when it is long; and  *)
(* what was sent stands there in full, with the cursor below.              *)
EditorTrue ==
  LET shown == SelectSeq(terminal.rows, LAMBDA row : row # Blank) IN
  /\ outcome = "reading" =>
       /\ terminal.rows = frame.rows \o [i \in 1..Len(terminal.rows) - Len(frame.rows) |-> Blank]
       /\ terminal.cursor = frame.cursor
       /\ \E noticed \in BOOLEAN : frame = FrameOf(text, at, size, noticed)
       /\ frame.cursor[1] < size[2] /\ frame.cursor[2] < size[1]
  /\ outcome = "sent" =>
       /\ shown = Drawn(Layout(text, size[1]), text)
       /\ terminal.cursor = <<Len(shown), 0>>
=============================================================================
