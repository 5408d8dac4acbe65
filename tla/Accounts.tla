------------------------------ MODULE Accounts ------------------------------
(***************************************************************************)
(* The token of the Codex subscription, which several Hibiscus processes   *)
(* share (src/runtime/oauth.rs, oauth/): refreshed under a file lock by    *)
(* their runtimes, replaced and removed by sign-in and sign-out.  A        *)
(* process has a runtime that asks for the token and a chat loop.          *)
(***************************************************************************)
EXTENDS Naturals, FiniteSets

CONSTANTS
  Process, Account,
  Nobody,      \* no process, no token
  MaxTokens    \* bound: tokens the server issues

VARIABLES
  file,       \* codex-auth.json: a token or Nobody
  lock,       \* the process whose runtime holds codex-auth.lock
  runtime,    \* where each runtime is
  chat,       \* where each chat loop is
  token,      \* what a runtime has read, or got as its answer
  refreshed,  \* the refresh token it sent
  login,      \* the token of a sign-in that is complete
  port,       \* the process that listens on the loopback port 1455
  issued,     \* server: tokens issued
  spent,      \* server: refresh tokens that were used
  once,       \* history: refresh tokens that were sent
  twice,      \* history: refresh tokens that were sent again
  unheard     \* history: refresh tokens whose answer was not stored

oauth == <<file, lock, runtime, token, refreshed, issued, spent, once, twice, unheard>>
avars == <<oauth, chat, login, port>>

Token == [n : 1 .. MaxTokens, account : Account, old : BOOLEAN]
Places == {"idle", "waiting", "locked", "refreshing", "answered", "closed"}
ChatPlaces == {"idle", "browser", "complete", "stored", "confirming", "removing", "reopening"}

AccountsInit ==
  /\ \E a \in Account : file = [n |-> 1, account |-> a, old |-> TRUE]
  /\ lock = Nobody /\ runtime = [p \in Process |-> "idle"] /\ chat = [p \in Process |-> "idle"]
  /\ token = [p \in Process |-> Nobody] /\ refreshed = [p \in Process |-> 1]
  /\ login = [p \in Process |-> Nobody] /\ port = Nobody
  /\ issued = 1 /\ spent = {} /\ once = {} /\ twice = {} /\ unheard = {}

-----------------------------------------------------------------------------
(* credential(): a runtime needs the token.                                *)

\* lock(): every 40 ms, for twenty seconds.
Ask(p) ==
  /\ runtime[p] = "idle"
  /\ runtime' = [runtime EXCEPT ![p] = "waiting"]
  /\ UNCHANGED <<refreshed, file, lock, token, issued, spent, once, twice, unheard, chat, login, port>>

Lock(p) ==
  /\ runtime[p] = "waiting" /\ lock = Nobody
  /\ lock' = p /\ runtime' = [runtime EXCEPT ![p] = "locked"]
  /\ UNCHANGED <<refreshed, file, token, issued, spent, once, twice, unheard, chat, login, port>>

GiveUp(p) ==
  /\ runtime[p] = "waiting" /\ lock # Nobody
  /\ runtime' = [runtime EXCEPT ![p] = "idle"]
  /\ UNCHANGED <<refreshed, file, lock, token, issued, spent, once, twice, unheard, chat, login, port>>

\* The lock goes with the descriptor, whatever ends the call.
Unlock(p) ==
  /\ lock' = Nobody
  /\ runtime' = [runtime EXCEPT ![p] = "idle"] /\ token' = [token EXCEPT ![p] = Nobody]

\* No token, or one that is valid for more than a minute.
UseToken(p) ==
  /\ runtime[p] = "locked"
  /\ IF file = Nobody THEN TRUE ELSE ~file.old
  /\ Unlock(p)
  /\ UNCHANGED <<refreshed, file, issued, spent, once, twice, unheard, chat, login, port>>

BeginRefresh(p) ==
  /\ runtime[p] = "locked"
  /\ IF file = Nobody THEN FALSE ELSE file.old
  /\ token' = [token EXCEPT ![p] = file] /\ refreshed' = [refreshed EXCEPT ![p] = file.n]
  /\ runtime' = [runtime EXCEPT ![p] = "refreshing"]
  /\ once' = once \cup {file.n} /\ twice' = twice \cup (once \cap {file.n})
  /\ UNCHANGED <<file, lock, issued, spent, unheard, chat, login, port>>

\* The server takes a refresh token once and answers with the next.
Rotate(p) ==
  /\ runtime[p] = "refreshing" /\ token[p].n \notin spent /\ issued < MaxTokens
  /\ spent' = spent \cup {token[p].n} /\ issued' = issued + 1
  /\ \E a \in Account : token' = [token EXCEPT ![p] = [n |-> issued + 1, account |-> a, old |-> FALSE]]
  /\ runtime' = [runtime EXCEPT ![p] = "answered"]
  /\ UNCHANGED <<refreshed, file, lock, once, twice, unheard, chat, login, port>>

\* refresh(), and write() while the lock is still held.
StoreRefreshed(p) ==
  /\ runtime[p] = "answered" /\ token[p].account = file.account
  /\ file' = token[p]
  /\ Unlock(p)
  /\ UNCHANGED <<refreshed, issued, spent, once, twice, unheard, chat, login, port>>

\* The request fails, is refused, takes more than thirty seconds or is
\* cancelled with its run; the answer does not decode or names another account.
RefreshFails(p) ==
  /\ runtime[p] \in {"refreshing", "answered"}
  /\ unheard' = unheard \cup {refreshed[p]}
  /\ Unlock(p)
  /\ UNCHANGED <<refreshed, file, issued, spent, once, twice, chat, login, port>>

RuntimeSteps(p) == \/ Ask(p) \/ Lock(p) \/ GiveUp(p) \/ UseToken(p) \/ BeginRefresh(p) \/ Rotate(p)
                   \/ StoreRefreshed(p) \/ RefreshFails(p)

-----------------------------------------------------------------------------
(* Codex sign-in and sign-out: /login, /logout.                            *)

AtChat(p, from, next) == chat[p] = from /\ chat' = [chat EXCEPT ![p] = next]

\* Pending::bind(): one sign-in at a time on this machine.
OpenBrowser(p) ==
  /\ AtChat(p, "idle", "browser") /\ port = Nobody
  /\ port' = p
  /\ UNCHANGED <<oauth, login>>

\* complete(): the callback or the pasted redirect carries a code for this
\* attempt, and the code is exchanged.  The worker's answer waits for the prompt.
Authorize(p) ==
  /\ chat[p] = "browser" /\ login[p] = Nobody /\ issued < MaxTokens
  /\ issued' = issued + 1
  /\ \E a \in Account : login' = [login EXCEPT ![p] = [n |-> issued + 1, account |-> a, old |-> FALSE]]
  /\ UNCHANGED <<refreshed, file, lock, runtime, token, spent, once, twice, unheard, chat, port>>

\* The prompt sees the worker's answer.
Completes(p) ==
  /\ AtChat(p, "browser", "complete") /\ login[p] # Nobody
  /\ port' = Nobody
  /\ UNCHANGED <<oauth, login>>

\* Esc, also while an answer waits; ten minutes; a denial, a failed exchange.
CancelLogin(p) ==
  /\ AtChat(p, "browser", "idle")
  /\ port' = Nobody /\ login' = [login EXCEPT ![p] = Nobody]
  /\ UNCHANGED <<oauth>>

\* Mutant: the lock is not tried.
MayStore_Anyway == TRUE
\* try_lock(): fails at once while a runtime holds the lock.
MayStore == lock = Nobody

StoreLogin(p) ==
  /\ chat[p] = "complete"
  /\ chat' = [chat EXCEPT ![p] = IF MayStore THEN "stored" ELSE "idle"]
  /\ login' = [login EXCEPT ![p] = Nobody]
  /\ file' = IF MayStore THEN login[p] ELSE file
  /\ UNCHANGED <<refreshed, lock, runtime, token, issued, spent, once, twice, unheard, port>>

\* sign_out(): the credential is chosen and confirmed.
Confirm(p) ==
  /\ AtChat(p, "idle", "confirming") /\ file # Nobody
  /\ UNCHANGED <<oauth, login, port>>

\* The process's own runtime is closed, with whatever it was doing: before a login
\* is removed, and after one was stored.
CloseRuntime(p) ==
  /\ AtChat(p, "confirming", "removing") \/ AtChat(p, "stored", "reopening")
  /\ runtime' = [runtime EXCEPT ![p] = "closed"]
  /\ token' = [token EXCEPT ![p] = Nobody]
  /\ lock' = IF lock = p THEN Nobody ELSE lock
  /\ unheard' = IF runtime[p] \in {"refreshing", "answered"} THEN unheard \cup {refreshed[p]} ELSE unheard
  /\ UNCHANGED <<refreshed, file, issued, spent, once, twice, login, port>>

RemoveLogin(p) ==
  /\ AtChat(p, "removing", "reopening")
  /\ file' = IF MayStore THEN Nobody ELSE file
  /\ UNCHANGED <<refreshed, lock, runtime, token, issued, spent, once, twice, unheard, login, port>>

\* Whatever came of a removal, the runtime is opened again.
Reopen(p) ==
  /\ AtChat(p, "reopening", "idle")
  /\ runtime' = [runtime EXCEPT ![p] = "idle"]
  /\ UNCHANGED <<refreshed, file, lock, token, issued, spent, once, twice, unheard, login, port>>

ChatSteps(p) == \/ OpenBrowser(p) \/ Authorize(p) \/ Completes(p) \/ CancelLogin(p) \/ StoreLogin(p)
                \/ Confirm(p) \/ CloseRuntime(p) \/ RemoveLogin(p) \/ Reopen(p)

\* Time passes: the token in the file is about to expire.
Expire ==
  /\ IF file = Nobody THEN FALSE ELSE ~file.old
  /\ file' = [file EXCEPT !.old = TRUE]
  /\ UNCHANGED <<refreshed, lock, runtime, token, issued, spent, once, twice, unheard, chat, login, port>>

AccountsNext == Expire \/ \E p \in Process : RuntimeSteps(p) \/ ChatSteps(p)

AccountsSpec == AccountsInit /\ [][AccountsNext]_avars

-----------------------------------------------------------------------------
(* Properties.                                                             *)

AccountsTypeOK ==
  /\ file \in Token \cup {Nobody} /\ lock \in Process \cup {Nobody}
  /\ runtime \in [Process -> Places] /\ chat \in [Process -> ChatPlaces]
  /\ \A p \in Process : lock = p <=> runtime[p] \in {"locked", "refreshing", "answered"}
  /\ token \in [Process -> Token \cup {Nobody}] /\ login \in [Process -> Token \cup {Nobody}]
  /\ port \in Process \cup {Nobody} /\ issued \in 1 .. MaxTokens
  /\ spent \subseteq 1 .. MaxTokens /\ unheard \subseteq 1 .. MaxTokens

\* A refresh token is not sent twice, by any processes, unless the first answer
\* to it was not heard.
SentOnce == twice \subseteq unheard

\* While a runtime refreshes a token nobody replaces or removes it: what it then
\* writes takes the place of the token it refreshed, and of no newer login.
RefreshedIsCurrent ==
  \A p \in Process : runtime[p] \in {"refreshing", "answered"} =>
    IF file = Nobody THEN FALSE ELSE file.n = refreshed[p]

\* Only a sign-in changes the account ("Codex refresh changed account identity").
AccountStays ==
  file # Nobody /\ file' # Nobody => file'.account = file.account \/ login' # login

\* A process removes its login with its own runtime out of the way.
RemovalUnhindered == \A p \in Process : chat[p] = "removing" => lock # p

\* What processes that share these files can rely on.
AccountsSafe == AccountsTypeOK /\ SentOnce /\ RefreshedIsCurrent /\ RemovalUnhindered
=============================================================================
