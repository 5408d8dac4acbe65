------------------------------- MODULE Typing -------------------------------
(***************************************************************************)
(* The text in the fullscreen composer (src/tui/screen/input.rs,           *)
(* events.rs; src/tui/file_mentions.rs, src/ui/paste.rs): keys, pastes,    *)
(* clipboard images and the lists of commands and files that complete what *)
(* is typed, while the chat waits for a prompt, while a run is in progress *)
(* and while a compaction is.  A draft is a sequence of characters.        *)
(***************************************************************************)
EXTENDS Naturals, SequencesExt, FiniteSetsExt

CONSTANTS
  Command,     \* names of commands, as drafts
  Submitted,   \* messages that were sent to the run in progress, as drafts
  Entry,       \* what a search may find, as the text that names it
  MaxImages,   \* staged images (4 in the code)
  PasteLimit,  \* characters of a paste (8192 in the code)
  MaxDraft     \* bound: characters of a draft

VARIABLES
  mode,         \* "idle", "active" (a run), "compacting" (manual_compaction)
  draft, cursor,
  images,       \* staged images
  clipboard,    \* an image is being read from the clipboard
  suggestions,  \* the list that is shown: "none", "commands" or "files"
  dismissed,    \* suggestions_dismissed
  file_prefix,  \* the @token the file list is for
  file_search,  \* the query of the search in progress
  file_matches, \* [query, found]: the entries found, for which query
  paste,        \* the bracketed paste in progress
  exit_armed,   \* Ctrl+C within the last two seconds
  message,      \* what this step sends
  joined        \* history: images came back while one was being read

text_vars == <<draft, cursor>>
lists == <<suggestions, dismissed, file_prefix, file_search, file_matches>>
attached == <<images, clipboard, joined>>
tyvars == <<mode, text_vars, attached, lists, paste, exit_armed, message>>

Characters == {"/", "@", "x", "\n"}
Space == {" ", "\n"}
NoPrefix == [start |-> 0, query |-> <<>>]
NoQuery == <<"none">>
NoMatches == [query |-> NoQuery, found |-> {}]
NoPaste == <<"none">>
TooMuch == <<"too much">>
NoMessage == [mode |-> "none", text |-> <<>>, images |-> 0]

TypingInit ==
  /\ mode = "idle" /\ draft = <<>> /\ cursor = 0
  /\ images = 0 /\ clipboard = FALSE /\ joined = FALSE
  /\ suggestions = "none" /\ dismissed = FALSE
  /\ file_prefix = NoPrefix /\ file_search = NoQuery /\ file_matches = NoMatches
  /\ paste = NoPaste /\ exit_armed = FALSE /\ message = NoMessage

-----------------------------------------------------------------------------
(* The lists.                                                              *)

\* prefix(): the token in front of the cursor, if it begins with "@".
Prefix(text, at) ==
  LET start == Max({0} \cup {i \in 1 .. at : text[i] \in Space}) + 1
  IN  IF start <= at /\ text[start] = "@"
      THEN [start |-> start, query |-> SubSeq(text, start + 1, at)]
      ELSE NoPrefix

CommandMatches(text) == {c \in Command : text # <<>> /\ IsPrefix(text, c)}

ClearFiles == file_search' = NoQuery /\ file_prefix' = NoPrefix /\ file_matches' = NoMatches

\* Mutant: the matches of the token before stay.
SearchFor_Keeping(prefix) ==
  /\ file_prefix' = prefix
  /\ IF file_prefix = prefix
     THEN UNCHANGED <<file_search, file_matches, suggestions>>
     ELSE file_search' = prefix.query /\ UNCHANGED <<file_matches, suggestions>>

\* A token that changed is searched for anew.
SearchFor(prefix) ==
  /\ file_prefix' = prefix
  /\ IF file_prefix = prefix
     THEN UNCHANGED <<file_search, file_matches, suggestions>>
     ELSE file_search' = prefix.query /\ file_matches' = NoMatches /\ suggestions' = "none"

\* refresh_suggestions(), for the new draft, images and dismissal.
Refresh ==
  LET prefix == Prefix(draft', cursor')
      commands == mode = "idle" /\ images' = 0 /\ CommandMatches(draft') # {}
  IN  IF prefix # NoPrefix
      THEN IF dismissed'
           THEN /\ file_search' = NoQuery /\ suggestions' = "none" /\ file_matches' = NoMatches
                /\ UNCHANGED file_prefix
           ELSE SearchFor(prefix)
      ELSE /\ ClearFiles
           /\ suggestions' = IF commands /\ ~dismissed' THEN "commands" ELSE "none"

\* poll_file_suggestions().
FilesFound ==
  /\ file_search # NoQuery /\ file_search' = NoQuery
  /\ IF dismissed \/ file_prefix = NoPrefix
     THEN UNCHANGED <<file_matches, suggestions>>
     ELSE \E found \in SUBSET Entry :
            /\ file_matches' = [query |-> file_search, found |-> found]
            /\ suggestions' = IF found = {} THEN "none" ELSE "files"
  /\ UNCHANGED <<mode, text_vars, attached, dismissed, file_prefix, paste, exit_armed>>

-----------------------------------------------------------------------------
(* Editing.                                                                *)

\* A key that is not part of a paste; any but Ctrl+C disarms the exit.
Key == paste = NoPaste /\ exit_armed' = (exit_armed /\ mode # "idle")

Inserted(text) == /\ draft' = SubSeq(draft, 1, cursor) \o text \o SubSeq(draft, cursor + 1, Len(draft))
                  /\ cursor' = cursor + Len(text)

Type(c) ==
  /\ Key /\ Len(draft) < MaxDraft
  /\ Inserted(<<c>>)
  /\ dismissed' = (dismissed /\ c = "\n")
  /\ UNCHANGED attached /\ Refresh
  /\ UNCHANGED <<mode, paste>>

Backspace ==
  /\ Key
  /\ IF cursor = 0 THEN UNCHANGED text_vars
     ELSE draft' = RemoveAt(draft, cursor) /\ cursor' = cursor - 1
  /\ dismissed' = FALSE
  /\ UNCHANGED attached /\ Refresh
  /\ UNCHANGED <<mode, paste>>

\* What move_draft() does about the lists.
Moved(deleted) ==
  IF file_prefix # NoPrefix THEN dismissed' = FALSE /\ Refresh
  ELSE IF deleted \/ suggestions # "none" THEN dismissed' = TRUE /\ Refresh
  ELSE UNCHANGED lists

\* Left, Right, Home, End; Up and Down unless a list takes them.
Move ==
  /\ Key
  /\ cursor' \in 0 .. Len(draft) /\ UNCHANGED <<draft, attached>>
  /\ Moved(FALSE)
  /\ UNCHANGED <<mode, paste>>

Delete ==
  /\ Key /\ ~(mode = "idle" /\ draft = <<>> /\ images = 0 /\ ~clipboard)
  /\ draft' = IF cursor < Len(draft) THEN RemoveAt(draft, cursor + 1) ELSE draft
  /\ UNCHANGED <<cursor, attached>>
  /\ Moved(TRUE)
  /\ UNCHANGED <<mode, paste>>

\* complete_file(): only the token in front of the cursor is replaced.
CanComplete == file_prefix # NoPrefix /\ suggestions = "files" /\ file_matches.found # {}
CompleteFile ==
  /\ CanComplete
  /\ \E entry \in file_matches.found :
       LET rest == SubSeq(draft, cursor + 1, Len(draft))
           folder == Last(entry) = "/"
           gap == IF folder \/ (rest # <<>> /\ Head(rest) \in Space) THEN <<>> ELSE <<" ">>
           new == <<"@">> \o entry \o gap
       IN  /\ draft' = SubSeq(draft, 1, file_prefix.start - 1) \o new \o rest
           /\ cursor' = file_prefix.start - 1 + Len(new)
           /\ Len(draft') <= MaxDraft
  /\ dismissed' = FALSE /\ UNCHANGED attached
  \* The lists are emptied first, so that a token that is left is searched for.
  /\ LET prefix == Prefix(draft', cursor')
     IN  IF prefix = NoPrefix
         THEN /\ ClearFiles
              /\ suggestions' = IF mode = "idle" /\ images = 0 /\ CommandMatches(draft') # {}
                                THEN "commands" ELSE "none"
         ELSE /\ file_prefix' = prefix /\ file_search' = prefix.query
              /\ file_matches' = NoMatches /\ suggestions' = "none"

-----------------------------------------------------------------------------
(* Keys that send or stop.                                                 *)

Cleared == draft' = <<>> /\ cursor' = 0
Sends(text, with) == message' = [mode |-> mode, text |-> text, images |-> with]
Blank(text) == \A i \in DOMAIN text : text[i] \in Space
Slash(text) == \E i \in DOMAIN text : text[i] = "/" /\ Blank(SubSeq(text, 1, i - 1))

EnterCompletes ==
  /\ Key /\ CompleteFile /\ UNCHANGED <<mode, paste>>

\* read_prompt(): Enter hands the draft, or the command that is selected, to the
\* chat, which takes the images with a prompt and starts a run or a compaction.
EnterIdle ==
  /\ Key /\ mode = "idle" /\ ~CanComplete
  /\ ~clipboard /\ ~(images > 0 /\ Slash(draft))
  /\ \E text \in (IF suggestions = "commands" /\ CommandMatches(draft) # {}
                  THEN CommandMatches(draft) ELSE {draft}) : Sends(text, images)
  /\ Cleared /\ images' = 0 /\ UNCHANGED <<clipboard, joined>>
  /\ suggestions' = "none" /\ ClearFiles /\ UNCHANGED dismissed
  /\ mode' \in {"idle", "active", "compacting"}
  /\ UNCHANGED paste

\* send_active_draft(): steering or a follow-up, and never a command.
EnterActive ==
  /\ Key /\ mode = "active" /\ ~CanComplete
  /\ ~clipboard /\ ~Slash(draft) /\ (~Blank(draft) \/ images > 0)
  /\ Sends(draft, images)
  /\ Cleared /\ images' = 0 /\ UNCHANGED <<clipboard, joined>>
  /\ suggestions' = "none" /\ ClearFiles /\ UNCHANGED dismissed
  /\ UNCHANGED <<mode, paste>>

Tab ==
  /\ Key /\ UNCHANGED <<mode, paste>>
  /\ \/ CompleteFile
     \/ /\ ~CanComplete /\ mode = "idle" /\ suggestions = "commands"
        /\ draft' \in CommandMatches(draft) /\ cursor' = Len(draft')
        /\ suggestions' = "none" /\ dismissed' = TRUE
        /\ UNCHANGED <<attached, file_prefix, file_search, file_matches>>

\* Esc closes a list.  In a run it stops the run instead, unless files were found.
Escape ==
  /\ Key
  /\ mode = "idle" \/ file_matches.found # {}
  /\ IF suggestions # "none"
     THEN dismissed' = TRUE /\ suggestions' = "none" /\ UNCHANGED <<file_prefix, file_search, file_matches>>
     ELSE UNCHANGED lists
  /\ UNCHANGED <<mode, text_vars, attached, paste>>

\* Ctrl+C: idle_ctrl_c(), and its case in active_key().
Interrupt ==
  /\ paste = NoPaste /\ ~(mode = "idle" /\ exit_armed)
  /\ Cleared /\ images' = 0 /\ clipboard' = FALSE /\ UNCHANGED joined
  /\ IF mode = "idle"
     THEN exit_armed' = TRUE /\ dismissed' = FALSE /\ Refresh
     ELSE UNCHANGED <<exit_armed, dismissed>> /\ suggestions' = "none" /\ ClearFiles
  /\ UNCHANGED <<mode, paste>>

Disarm == /\ mode = "idle" /\ exit_armed /\ exit_armed' = FALSE
          /\ UNCHANGED <<mode, text_vars, attached, lists, paste>>

-----------------------------------------------------------------------------
(* Pastes and images.                                                      *)

PasteStart == /\ Key /\ paste' = <<>>
              /\ UNCHANGED <<mode, text_vars, attached, lists>>

\* Every byte is the paste's, whatever key it would be.
PasteChar(c) ==
  /\ paste # NoPaste
  /\ paste' = IF paste # TooMuch /\ Len(paste) < PasteLimit THEN Append(paste, c) ELSE TooMuch
  /\ UNCHANGED <<mode, text_vars, attached, lists, exit_armed>>

\* feed_paste(): a carriage return becomes a line feed; too much is refused.
PasteEnd ==
  /\ paste # NoPaste /\ paste' = NoPaste
  /\ IF paste # TooMuch /\ Len(draft) + Len(paste) <= MaxDraft
     THEN /\ Inserted([i \in DOMAIN paste |-> IF paste[i] = "\r" THEN "\n" ELSE paste[i]])
          /\ UNCHANGED <<attached, dismissed>> /\ Refresh
     ELSE UNCHANGED <<text_vars, attached, lists>>
  /\ UNCHANGED <<mode, exit_armed>>

PasteImage ==
  /\ Key /\ ~clipboard /\ images < MaxImages
  /\ clipboard' = TRUE
  /\ UNCHANGED <<mode, text_vars, images, joined, lists, paste>>

\* poll_clipboard(): the helper has an image, or none.
ImageRead ==
  /\ clipboard /\ clipboard' = FALSE
  /\ \/ images' = images + 1 /\ suggestions' = "none"
     \/ UNCHANGED <<images, suggestions>>
  /\ UNCHANGED <<mode, text_vars, joined, dismissed, file_prefix, file_search, file_matches,
                 paste, exit_armed>>

\* Ctrl+X
ClearImages ==
  /\ Key /\ images' = 0 /\ clipboard' = FALSE /\ UNCHANGED <<joined, text_vars, dismissed>>
  /\ IF mode = "idle" THEN Refresh ELSE UNCHANGED <<suggestions, file_prefix, file_search, file_matches>>
  /\ UNCHANGED <<mode, paste>>

-----------------------------------------------------------------------------
(* The runtime.                                                            *)

\* rejected_queue(), hold_queue(): what the engine refused comes back into an
\* empty composer.
ComesBack ==
  /\ mode = "active" /\ draft = <<>> /\ images = 0
  /\ draft' \in Submitted /\ cursor' = Len(draft') /\ images' \in 0 .. MaxImages
  /\ joined' = (joined \/ clipboard)
  /\ UNCHANGED <<mode, clipboard, lists, paste, exit_armed>>

\* The run or the compaction is over; prompt_with_update() takes what was typed
\* in the meantime.
Settles ==
  /\ mode # "idle" /\ mode' = "idle"
  /\ UNCHANGED <<text_vars, attached>> /\ dismissed' = FALSE
  /\ LET prefix == Prefix(draft, cursor)
         commands == images = 0 /\ CommandMatches(draft) # {}
     IN  IF prefix # NoPrefix THEN SearchFor(prefix)
         ELSE ClearFiles /\ suggestions' = IF commands THEN "commands" ELSE "none"
  /\ UNCHANGED <<paste, exit_armed>>

TypingNext ==
  \/ EnterIdle \/ EnterActive
  \/ /\ message' = NoMessage
     /\ \/ \E c \in Characters : Type(c)
        \/ \E c \in {"@", "\r"} : PasteChar(c)
        \/ Backspace \/ Delete \/ Move \/ Escape \/ Tab \/ EnterCompletes \/ Interrupt \/ Disarm
        \/ PasteStart \/ PasteEnd \/ PasteImage \/ ImageRead \/ ClearImages
        \/ FilesFound \/ ComesBack \/ Settles

-----------------------------------------------------------------------------
(* Properties.                                                             *)

CursorInDraft == cursor \in 0 .. Len(draft)

\* The files that Tab or Enter would insert were searched for the token that
\* stands in front of the cursor, and it is that token they replace.
FilesFit ==
  CanComplete => /\ file_prefix = Prefix(draft, cursor)
                 /\ file_matches.query = file_prefix.query

\* The list of commands is for the draft that is shown.
CommandsFit == suggestions = "commands" => mode = "idle" /\ images = 0 /\ CommandMatches(draft) # {}

\* No more images are staged than a prompt may have, except for the one that was
\* being read when a message came back with its own (docs/terminal.md:87 says four).
ImagesFit == images <= MaxImages + (IF joined THEN 1 ELSE 0)

TypedPromise == CursorInDraft /\ FilesFit /\ CommandsFit /\ ImagesFit

\* What is sent was the draft, whole, or a command of the list; nothing is sent in the
\* middle of a paste, while an image is read, or, as a command, to a running engine.
SendsWhatIsShown ==
  message' # message /\ message' # NoMessage =>
    /\ paste = NoPaste /\ ~clipboard /\ message'.images = images
    /\ message'.text = draft \/ (suggestions = "commands" /\ IsPrefix(draft, message'.text))
    /\ mode = "active" => ~Slash(message'.text)

=============================================================================
