-------------------------------- MODULE Chat --------------------------------
(***************************************************************************)
(* The chat loop (src/chat/mod.rs, models.rs) between the composer and the *)
(* runtime: which session is open, which one a reconnection would open,    *)
(* and what the status line and the transcript say of it.  A command is    *)
(* the sequence of requests it makes, any of which may be refused or lose  *)
(* the connection.  The terminal is interactive.  A setting is a model     *)
(* with its thinking level.                                                *)
(***************************************************************************)
EXTENDS Sequences

CONSTANTS
  Saved,     \* sessions, by their files
  Setting,   \* what a session is set to
  Configured \* the setting of a new session

VARIABLES
  connected, open, setting, \* the runtime: its session and that session's setting
  files,                    \* [Saved -> the setting in its file, or Unsaved]
  resume,                   \* Client.resume
  flagged,                  \* the screen says that it is disconnected
  status_line,              \* the session and the setting that the status line names
  screen,                   \* the session whose history is on the screen
  todo,                     \* what the command still does
  target,                   \* the session that the command opens
  failed,                   \* the command failed, or was a prompt
  recovered                 \* history: a runtime was started since the transcript was

session_vars == <<connected, open, setting>>
view == <<flagged, status_line, screen, recovered>>
chvars == <<session_vars, files, resume, view, todo, target, failed>>

Unsaved == "unsaved"
New == "new"
Nothing == "nothing"

Confirmed == IF files[open] = Unsaved THEN New ELSE open
Waits == todo = <<>>

ChatInit ==
  /\ connected = TRUE /\ flagged = FALSE /\ failed = FALSE /\ recovered = FALSE
  /\ files \in [Saved -> {Unsaved, Configured}]
  /\ open \in Saved /\ setting = Configured
  /\ resume = Confirmed /\ target = open /\ screen = Nothing
  /\ status_line = [session |-> Nothing, setting |-> Configured]
  /\ todo = IF resume = New THEN <<"status">> ELSE <<"status", "history">>

-----------------------------------------------------------------------------
(* One step of a command.                                                  *)

Now(what) == todo # <<>> /\ Head(todo) = what
Done == todo' = Tail(todo) /\ UNCHANGED failed

\* handle_chat_error() when the runtime still answers: its status is asked for.
Refused == todo' = <<"status">> /\ failed' = TRUE

\* A request that is not answered: handle_chat_error() gives the connection up.
Lose == /\ connected' = FALSE /\ flagged' = TRUE
        /\ todo' = <<>> /\ failed' = TRUE
        /\ UNCHANGED <<resume, status_line, screen, target, recovered>>

Fresh(s) == files[s] = Unsaved /\ s # open

\* show_session_status(): get_state tells the client which session it would resume.
State == /\ Now("state") /\ connected
         /\ resume' = Confirmed /\ Done
         /\ UNCHANGED <<session_vars, files, view, target>>

Status ==
  /\ Now("status") /\ connected
  /\ resume' = Confirmed /\ status_line' = [session |-> open, setting |-> setting]
  /\ Done
  /\ UNCHANGED <<session_vars, files, flagged, screen, target, recovered>>

\* show_history_for()
ShowHistory ==
  /\ Now("history") /\ connected
  /\ screen' = open /\ recovered' = FALSE /\ Done
  /\ UNCHANGED <<session_vars, files, resume, flagged, status_line, target>>

\* command() notes a new session for a reconnection once it is confirmed.
Renewed(s) == Fresh(s) /\ open' = s /\ setting' = Configured /\ resume' = New

\* new_session; the view is cleared only when the runtime confirmed it.
StartNew ==
  /\ Now("new") /\ connected
  /\ \/ /\ \E s \in Saved : Renewed(s)
        /\ screen' = Nothing /\ recovered' = FALSE /\ Done
     \/ Refused /\ UNCHANGED <<open, setting, resume, screen, recovered>>
  /\ UNCHANGED <<connected, files, flagged, status_line, target>>

\* open_session(): the session that is open already is only shown again.
Compare ==
  /\ Now("open") /\ connected
  /\ resume' = Confirmed
  /\ todo' = (IF Confirmed = target THEN <<"history">> ELSE <<"switch", "history">>) \o Tail(todo)
  /\ UNCHANGED <<session_vars, files, view, target, failed>>

\* Mutant: the session to resume is noted only by get_state.
Opened_Unnoted(s) == open' = s /\ setting' = files[s] /\ UNCHANGED resume

Opened(s) == open' = s /\ setting' = files[s] /\ resume' = s

Switch ==
  /\ Now("switch") /\ connected
  /\ \/ Opened(target) /\ Done
     \/ Refused /\ UNCHANGED <<open, setting, resume>>
  /\ UNCHANGED <<connected, files, view, target>>

\* set_model, set_thinking_level: a change that cannot be saved is taken back.
Set ==
  /\ Now("set") /\ connected
  /\ \/ /\ setting' \in Setting /\ files' = [files EXCEPT ![open] = setting'] /\ Done
     \/ Refused /\ UNCHANGED <<setting, files>>
  /\ UNCHANGED <<connected, open, resume, view, target>>

\* get_available_models: a new catalogue may select a model, which is not saved, or
\* drop a level that the model no longer has, which is.
Catalogue ==
  /\ Now("catalogue") /\ connected
  /\ setting' \in Setting
  /\ files' \in {files, [files EXCEPT ![open] = setting']} /\ Done
  /\ UNCHANGED <<connected, open, resume, view, target>>

\* A prompt saves its session, whether or not it fails then.
Prompt ==
  /\ Now("prompt") /\ connected
  /\ files' \in {files, [files EXCEPT ![open] = setting]}
  /\ Done
  /\ UNCHANGED <<session_vars, resume, view, target>>

\* Requests that leave the session as it is: /compact, /output, an extension's command.
Plain ==
  /\ Now("ask") /\ connected
  /\ Done \/ Refused
  /\ UNCHANGED <<session_vars, files, resume, view, target>>

\* Client::start: the session is read from its file.  A runtime that cannot be
\* started leaves the client disconnected.
Opens(from, then) ==
  \/ /\ connected' = TRUE /\ recovered' = TRUE /\ resume' = from /\ todo' = then
     /\ IF from = New
        THEN (\E s \in Saved : Fresh(s) /\ open' = s) /\ setting' = Configured
        ELSE open' = from /\ setting' = files[from]
     /\ UNCHANGED <<flagged, status_line, screen, target>>
  \/ connected' = FALSE /\ flagged' = TRUE /\ todo' = <<>>
     /\ UNCHANGED <<open, setting, resume, status_line, screen, target, recovered>>

\* inline_login() and inline_logout() end the runtime, whose credentials changed, and
\* start another on the session that get_state named; or they are cancelled, or fail
\* before that.  What comes next depends on it.
SignIn ==
  /\ Now("sign in") /\ connected
  /\ \/ Opens(resume, <<"set", "status">>) \/ Opens(resume, <<"status">>)
     \/ todo' = <<>> /\ UNCHANGED <<session_vars, resume, view, target>>
  /\ UNCHANGED <<files, failed>>

SignOut ==
  /\ Now("sign out") /\ connected
  /\ \/ Opens(resume, <<"status">>)
     \/ todo' \in {<<>>, <<"status">>} /\ UNCHANGED <<session_vars, resume, view, target>>
  /\ UNCHANGED <<files, failed>>

Flag == /\ Now("connected") /\ flagged' = FALSE /\ Done
        /\ UNCHANGED <<session_vars, files, resume, status_line, screen, target, recovered>>

\* The runtime may have done what it was asked before the connection went; a session
\* that it opened without saying so is not the open one.
Lost ==
  /\ todo # <<>> /\ connected /\ Head(todo) # "connected"
  /\ Lose
  /\ \/ UNCHANGED <<open, setting, files>>
     \/ /\ Head(todo) \in {"prompt", "set"}
        /\ setting' \in (IF Head(todo) = "set" THEN Setting ELSE {setting})
        /\ files' = [files EXCEPT ![open] = setting'] /\ UNCHANGED open

-----------------------------------------------------------------------------
(* Commands.                                                               *)

Start(requests) == /\ Waits /\ todo' = requests /\ failed' = FALSE
                   /\ UNCHANGED <<session_vars, files, resume>>

\* Only these do not need the runtime.
CommandOf(requests) == connected /\ Start(requests) /\ UNCHANGED <<view, target>>

NewSession == CommandOf(<<"new", "status">>)
Models == CommandOf(<<"catalogue", "state", "status">>) \/ CommandOf(<<"catalogue", "state", "set", "status">>)
Thinking == CommandOf(<<"state", "ask", "status">>) \/ CommandOf(<<"state", "ask", "set", "state", "status">>)
Asks == CommandOf(<<"ask", "status">>) \/ CommandOf(<<"ask">>)
Login == CommandOf(<<"state", "sign in">>)
Logout == CommandOf(<<"state", "sign out">>)
SendPrompt == CommandOf(<<"prompt", "status">>)

\* /continue, /sessions
OpenSaved ==
  /\ connected /\ Start(<<"open", "status">>)
  /\ \E s \in Saved : files[s] # Unsaved /\ target' = s
  /\ UNCHANGED view

\* /cli, /tui: a new view, which the runtime fills if there is one.
SwitchView ==
  /\ Start(IF connected THEN <<"status", "history">> ELSE <<>>)
  /\ screen' = Nothing /\ UNCHANGED <<flagged, status_line, recovered, target>>

\* /reconnect
Reconnect ==
  /\ Waits /\ ~connected
  /\ Opens(resume, <<"status", "connected">>)
  /\ failed' = FALSE /\ UNCHANGED files

ChatNext ==
  \/ State \/ Status \/ ShowHistory \/ StartNew \/ Compare \/ Switch \/ Set \/ Catalogue
  \/ Prompt \/ Plain \/ SignIn \/ SignOut \/ Flag \/ Lost
  \/ NewSession \/ Models \/ Thinking \/ Asks \/ Login \/ Logout \/ SendPrompt
  \/ OpenSaved \/ SwitchView \/ Reconnect

-----------------------------------------------------------------------------
(* Properties: while the composer waits,                                   *)

\* the status line names the session that the next prompt goes to, with its model;
StatusTrue == connected => status_line = [session |-> open, setting |-> setting]

\* the screen says whether there is a runtime;
FlagTrue == flagged = ~connected

\* /reconnect would open the session that is open, or a new one if that is not on
\* disk; and when the connection went, at worst a new one;
ResumesOpen == /\ resume \in {open, New}
               /\ connected => resume = Confirmed

\* the transcript is the open session's, unless a runtime was started in between.
ShownTrue == connected /\ ~recovered => screen \in {open, Nothing}

ChatPromise == Waits => StatusTrue /\ FlagTrue /\ ResumesOpen /\ ShownTrue
=============================================================================
