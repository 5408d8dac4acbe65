------------------------------- MODULE Picker -------------------------------
(***************************************************************************)
(* A list to choose from, with a query that filters it and a window that   *)
(* scrolls (src/tui/picker.rs), and the keys that drive it                 *)
(* (src/tui/screen/input.rs).  A label is the set of the terms that it     *)
(* contains; a query is a sequence of such terms.                          *)
(***************************************************************************)
EXTENDS Naturals, Sequences, SequencesExt, FiniteSetsExt

CONSTANTS
  Labels,     \* the lists that are offered: sequences of labels
  Term,       \* what can be typed
  MaxQuery,   \* bound: terms of a query (256 bytes in the code)
  MaxVisible  \* rows of a window at most (5 in the code)

VARIABLES
  source,     \* the list as it was given
  searchable,
  query,
  indices,    \* where the items that are shown are in the source
  selected, first,
  current,    \* which item of the source is in use: the chosen model
  rows,       \* rows of the terminal for the window, as last drawn
  marked,     \* history: the item that the caret marked before the query changed
  answer      \* what the caller gets: <<>> until then, <<None>> for nothing, or <<item>>

pvars == <<source, searchable, query, indices, selected, first, current, rows, marked, answer>>

None == 0
Open == <<>>

\* Picker::visible
Visible(n, height) == Min({n, Max({1, Min({height, MaxVisible})})})

\* Picker::ensure_visible: the row before the window's first
EnsureVisible(first_, selected_, n, height) ==
  LET visible == Visible(n, height)
      moved == CASE selected_ <= first_ -> selected_ - 1
                 [] selected_ > first_ + visible -> selected_ - visible
                 [] OTHER -> first_
  IN Min({moved, n - visible})

\* Where an item of the source is among those that are shown; None if it is not.
Shown(item, in) == IF \E i \in DOMAIN in : in[i] = item
                   THEN CHOOSE i \in DOMAIN in : in[i] = item ELSE None

\* Picker::selected_index
Selected == IF selected \in DOMAIN indices THEN indices[selected] ELSE None

\* Picker::new, enable_search
PickerInit ==
  /\ source \in Labels /\ searchable \in BOOLEAN
  /\ query = <<>> /\ indices = [i \in DOMAIN source |-> i]
  /\ current \in 0..Len(source) /\ rows \in 1..MaxVisible
  /\ selected = Max({1, current})
  /\ first = EnsureVisible(0, selected, Len(source), rows)
  /\ marked = None /\ answer = Open

-----------------------------------------------------------------------------
(* Keys.  Each is followed by a redraw.                                    *)

\* Mutant: the caret keeps its row.
Kept_Row(item, in) == Min({selected, Len(in)})

\* The row of the item that was marked, or the first.
Kept(item, in) == IF Shown(item, in) = None THEN 1 ELSE Shown(item, in)

\* Picker::search
Search(typed) ==
  /\ answer = Open /\ searchable /\ query' = typed
  /\ LET found == SelectSeq([i \in DOMAIN source |-> i],
                            LAMBDA i : ToSet(typed) \subseteq source[i])
         selected_ == Kept(Selected, found)
     IN /\ indices' = found /\ selected' = selected_
        /\ first' = EnsureVisible(0, selected_, Len(found), rows)
  /\ marked' = Selected
  /\ UNCHANGED <<source, searchable, current, rows, answer>>

Type(term) == Len(query) < MaxQuery /\ Search(Append(query, term))
Backspace == Search(IF query = <<>> THEN query ELSE Front(query))

\* Picker::move_by: a step, a page or the whole list
Move(to) ==
  /\ answer = Open /\ indices # <<>>
  /\ selected' = to
  /\ first' = EnsureVisible(first, to, Len(indices), rows)
  /\ marked' = None /\ UNCHANGED <<source, searchable, query, indices, current, rows, answer>>

Up(by) == Move(IF selected > by THEN selected - by ELSE 1)
Down(by) == Move(Min({selected + by, Len(indices)}))

Moves == \E by \in {1, Max({1, Visible(Len(indices), rows)}), Len(indices)} : Up(by) \/ Down(by)

\* The terminal gets another height: the redraw moves by nothing.
Resize ==
  /\ answer = Open /\ rows' \in 1..MaxVisible \ {rows}
  /\ first' = IF indices = <<>> THEN first
              ELSE EnsureVisible(first, selected, Len(indices), rows')
  /\ marked' = None /\ UNCHANGED <<source, searchable, query, indices, selected, current, answer>>

\* Enter
Choose == /\ answer = Open /\ Selected # None /\ answer' = <<Selected>>
          /\ marked' = None /\ UNCHANGED <<source, searchable, query, indices, selected, first, current, rows>>

\* Esc, Ctrl+C or Ctrl+D
Cancel == /\ answer = Open /\ answer' = <<None>>
          /\ marked' = None /\ UNCHANGED <<source, searchable, query, indices, selected, first, current, rows>>

PickerNext == (\E term \in Term : Type(term)) \/ Backspace \/ Moves \/ Resize \/ Choose \/ Cancel

-----------------------------------------------------------------------------
(* What is drawn.                                                          *)

\* Picker::thumb: the row of the scroll bar's thumb, from 0
Thumb == LET visible == Visible(Len(indices), rows)
         IN IF Len(indices) <= visible THEN 0
            ELSE (first * (visible - 1)) \div (Len(indices) - visible)

Matches(item) == ToSet(query) \subseteq source[item]

\* The caret is on a row of the window, which is full, and stays with its item while
\* the item matches; the thumb is at the end exactly if the window is; and Enter takes
\* the item under the caret.
PickerTrue ==
  LET visible == Visible(Len(indices), rows) IN
  /\ indices # <<>> =>
       /\ selected \in first + 1..first + visible
       /\ first + visible <= Len(indices)
       /\ visible > 1 => (Thumb = visible - 1 <=>
            (first + visible = Len(indices) /\ first > 0))
  /\ marked # None /\ Matches(marked) => Selected = marked
  /\ answer \notin {Open, <<None>>} => answer = <<Selected>> /\ Matches(answer[1])
=============================================================================
