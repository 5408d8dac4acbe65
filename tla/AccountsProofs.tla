---------------------------- MODULE AccountsProofs ---------------------------
(***************************************************************************)
(* What Accounts promises, for any processes, accounts and number of       *)
(* tokens.                                                                 *)
(***************************************************************************)
EXTENDS Accounts, TLAPS

AccountsAssumption ==
  MaxTokens \in Nat \ {0} /\ Nobody \notin Process /\ Nobody \notin Token

Refreshes(p) == runtime[p] \in {"refreshing", "answered"}

HistoryOK ==
  /\ refreshed \in [Process -> 1 .. MaxTokens]
  /\ once \subseteq 1 .. issued /\ twice \subseteq once

\* Where a token is that nobody has used.
PlacesOK ==
  /\ \A p \in Process : runtime[p] \in {"refreshing", "answered"} => token[p] \in Token
  /\ \A p \in Process : runtime[p] = "refreshing" => token[p].n = refreshed[p]
  /\ \A p \in Process : chat[p] = "complete" => login[p] \in Token
  /\ \A p \in Process : chat[p] \in {"removing", "reopening"} => runtime[p] = "closed"

\* A login that is not stored and an answer that is not stored have refresh
\* tokens of their own, which were never sent.
FreshOK ==
  /\ file \in Token => file.n <= issued
  /\ \A p \in Process : login[p] \in Token =>
       /\ login[p].n <= issued /\ login[p].n \notin once
       /\ file \in Token => file.n # login[p].n
       /\ \A q \in Process : /\ login[q] \in Token /\ q # p => login[q].n # login[p].n
                             /\ runtime[q] = "answered" => token[q].n # login[p].n
  /\ \A p \in Process : runtime[p] = "answered" => token[p].n <= issued /\ token[p].n \notin once

\* The stored token was sent only if its answer was lost, or is awaited.
SentOK ==
  file \in Token /\ file.n \in once =>
    file.n \in unheard \/ \E p \in Process : Refreshes(p)

IInv ==
  /\ AccountsTypeOK /\ SentOnce /\ RefreshedIsCurrent
  /\ HistoryOK /\ PlacesOK /\ FreshOK /\ SentOK
-----------------------------------------------------------------------------
\* At first nobody has sent a token.
LEMMA InitInductive == ASSUME AccountsAssumption PROVE AccountsInit => IInv
  BY DEF AccountsAssumption, AccountsInit, IInv, AccountsTypeOK, SentOnce, RefreshedIsCurrent,
     HistoryOK, PlacesOK, FreshOK, SentOK, Token, Places, ChatPlaces

\* A process that needs a token asks for it.
LEMMA AskInductive ==
  ASSUME AccountsAssumption, IInv, NEW p \in Process, Ask(p)
  PROVE  IInv'
<1>1. AccountsTypeOK'
  BY DEF IInv, AccountsTypeOK, Places, Ask
<1>2. SentOnce'
  BY DEF IInv, SentOnce, Ask
<1>3. RefreshedIsCurrent'
  BY DEF IInv, RefreshedIsCurrent, Ask
<1>4. HistoryOK'
  BY DEF IInv, HistoryOK, Ask
<1>5. PlacesOK'
  BY DEF IInv, PlacesOK, Ask
<1>6. FreshOK'
  BY DEF IInv, FreshOK, Ask
<1>7. SentOK'
  BY DEF IInv, SentOK, Refreshes, Ask
<1>8. QED
  BY <1>1, <1>2, <1>3, <1>4, <1>5, <1>6, <1>7 DEF IInv

\* It takes the lock of the file.
LEMMA LockInductive ==
  ASSUME AccountsAssumption, IInv, NEW p \in Process, Lock(p)
  PROVE  IInv'
<1>1. AccountsTypeOK'
  BY DEF AccountsAssumption, IInv, AccountsTypeOK, Places, Lock
<1>2. SentOnce'
  BY DEF IInv, SentOnce, Lock
<1>3. RefreshedIsCurrent'
  BY DEF IInv, RefreshedIsCurrent, Lock
<1>4. HistoryOK'
  BY DEF IInv, HistoryOK, Lock
<1>5. PlacesOK'
  BY DEF IInv, PlacesOK, Lock
<1>6. FreshOK'
  BY DEF IInv, FreshOK, Lock
<1>7. SentOK'
  BY DEF IInv, SentOK, Refreshes, Lock
<1>8. QED
  BY <1>1, <1>2, <1>3, <1>4, <1>5, <1>6, <1>7 DEF IInv

\* It does not get the lock, or what it finds is of no use.
LEMMA GiveUpInductive ==
  ASSUME AccountsAssumption, IInv, NEW p \in Process, GiveUp(p)
  PROVE  IInv'
<1>1. AccountsTypeOK'
  BY DEF IInv, AccountsTypeOK, Places, GiveUp
<1>2. SentOnce'
  BY DEF IInv, SentOnce, GiveUp
<1>3. RefreshedIsCurrent'
  BY DEF IInv, RefreshedIsCurrent, GiveUp
<1>4. HistoryOK'
  BY DEF IInv, HistoryOK, GiveUp
<1>5. PlacesOK'
  BY DEF IInv, PlacesOK, GiveUp
<1>6. FreshOK'
  BY DEF IInv, FreshOK, GiveUp
<1>7. SentOK'
  BY DEF IInv, SentOK, Refreshes, GiveUp
<1>8. QED
  BY <1>1, <1>2, <1>3, <1>4, <1>5, <1>6, <1>7 DEF IInv

\* It finds a token that it can use.
LEMMA UseTokenInductive ==
  ASSUME AccountsAssumption, IInv, NEW p \in Process, UseToken(p)
  PROVE  IInv'
<1>1. AccountsTypeOK'
  BY DEF AccountsAssumption, IInv, AccountsTypeOK, Places, Unlock, UseToken
<1>2. SentOnce'
  BY DEF IInv, SentOnce, UseToken
<1>3. RefreshedIsCurrent'
  BY DEF IInv, RefreshedIsCurrent, Unlock, UseToken
<1>4. HistoryOK'
  BY DEF IInv, HistoryOK, UseToken
<1>5. PlacesOK'
  BY DEF IInv, PlacesOK, Unlock, UseToken
<1>6. FreshOK'
  BY DEF IInv, FreshOK, Unlock, UseToken
<1>7. SentOK'
  BY DEF IInv, SentOK, Refreshes, Unlock, UseToken
<1>8. QED
  BY <1>1, <1>2, <1>3, <1>4, <1>5, <1>6, <1>7 DEF IInv

\* The refresh token is sent.
LEMMA BeginRefreshInductive ==
  ASSUME AccountsAssumption, IInv, NEW p \in Process, BeginRefresh(p)
  PROVE  IInv'
<1>1. AccountsTypeOK'
  BY DEF IInv, AccountsTypeOK, Places, BeginRefresh
<1>2. SentOnce'
  BY DEF AccountsAssumption, IInv, AccountsTypeOK, SentOnce, SentOK, Refreshes, BeginRefresh
<1>3. RefreshedIsCurrent'
  BY DEF IInv, RefreshedIsCurrent, HistoryOK, BeginRefresh
<1>4. HistoryOK'
  <2>1. refreshed' \in [Process -> 1 .. MaxTokens]
    BY DEF IInv, AccountsTypeOK, HistoryOK, Token, BeginRefresh
  <2>2. once' \subseteq 1 .. issued'
    <3>1. file \in Token
      BY DEF BeginRefresh, IInv, AccountsTypeOK
    <3>2. file.n \in 1 .. MaxTokens /\ file.n <= issued
      BY <3>1 DEF Token, IInv, FreshOK
    <3>3. /\ once' = once \cup {file.n} /\ UNCHANGED issued
          /\ once \subseteq 1 .. issued /\ issued \in 1 .. MaxTokens
      BY DEF BeginRefresh, IInv, HistoryOK, AccountsTypeOK
    <3>4. MaxTokens \in Nat
      BY DEF AccountsAssumption
    <3>5. file.n \in Nat /\ issued \in Nat /\ 1 <= file.n
      BY <3>2, <3>3, <3>4
    <3>6. file.n \in 1 .. issued
      BY <3>2, <3>5
    <3>7. once' \subseteq 1 .. issued
      BY <3>3, <3>6
    <3>8. QED
      BY <3>3, <3>7
  <2>3. twice' \subseteq once'
    BY DEF IInv, HistoryOK, BeginRefresh
  <2>4. QED
    BY <2>1, <2>2, <2>3 DEF HistoryOK, IInv, BeginRefresh
<1>5. PlacesOK'
  BY DEF IInv, AccountsTypeOK, HistoryOK, PlacesOK, BeginRefresh
<1>6. FreshOK'
  BY DEF IInv, AccountsTypeOK, FreshOK, BeginRefresh
<1>7. SentOK'
  BY DEF IInv, AccountsTypeOK, SentOK, Refreshes, BeginRefresh
<1>8. QED
  BY <1>1, <1>2, <1>3, <1>4, <1>5, <1>6, <1>7 DEF IInv

\* The server answers with a token that nobody has.
LEMMA RotateInductive ==
  ASSUME AccountsAssumption, IInv, NEW p \in Process, Rotate(p)
  PROVE  IInv'
<1>1. AccountsTypeOK'
  <2>1. file' \in Token \cup {Nobody} /\ lock' \in Process \cup {Nobody}
    BY DEF IInv, AccountsTypeOK, Rotate
  <2>2. runtime' \in [Process -> Places] /\ chat' \in [Process -> ChatPlaces]
    BY DEF IInv, AccountsTypeOK, Places, Rotate
  <2>3. \A q \in Process : lock' = q <=> runtime'[q] \in {"locked", "refreshing", "answered"}
    BY DEF IInv, AccountsTypeOK, Rotate
  <2>4. token' \in [Process -> Token \cup {Nobody}] /\ login' \in [Process -> Token \cup {Nobody}]
    BY DEF AccountsAssumption, IInv, AccountsTypeOK, Token, Rotate
  <2>5. port' \in Process \cup {Nobody} /\ issued' \in 1 .. MaxTokens
    BY DEF AccountsAssumption, IInv, AccountsTypeOK, Rotate
  <2>6. spent' \subseteq 1 .. MaxTokens /\ unheard' \subseteq 1 .. MaxTokens
    <3>1. token[p] \in Token /\ runtime[p] = "refreshing"
      BY DEF IInv, PlacesOK, Rotate
    <3>2. token[p].n \in 1 .. MaxTokens
      BY <3>1 DEF Token
    <3>3. QED
      BY <3>2 DEF IInv, AccountsTypeOK, Rotate
  <2>7. QED
    BY <2>1, <2>2, <2>3, <2>4, <2>5, <2>6 DEF AccountsTypeOK, IInv, Rotate
<1>2. SentOnce'
  BY DEF IInv, SentOnce, Rotate
<1>3. RefreshedIsCurrent'
  BY DEF IInv, RefreshedIsCurrent, Rotate
<1>4. HistoryOK'
  BY DEF IInv, AccountsTypeOK, HistoryOK, Rotate
<1>5. PlacesOK'
  BY DEF AccountsAssumption, IInv, AccountsTypeOK, PlacesOK, Token, Rotate
<1>6. FreshOK'
  BY DEF IInv, AccountsTypeOK, HistoryOK, FreshOK, Token, Rotate
<1>7. SentOK'
  BY DEF SentOK, Refreshes, Rotate
<1>8. QED
  BY <1>1, <1>2, <1>3, <1>4, <1>5, <1>6, <1>7 DEF IInv

\* The answer replaces the token it was asked for with.
LEMMA StoreRefreshedInductive ==
  ASSUME AccountsAssumption, IInv, NEW p \in Process, StoreRefreshed(p)
  PROVE  IInv'
<1>1. AccountsTypeOK'
  BY DEF AccountsAssumption, IInv, AccountsTypeOK, Places, Unlock, StoreRefreshed
<1>2. SentOnce'
  BY DEF IInv, SentOnce, StoreRefreshed
<1>3. RefreshedIsCurrent'
  BY DEF IInv, AccountsTypeOK, RefreshedIsCurrent, Unlock, StoreRefreshed
<1>4. HistoryOK'
  BY DEF IInv, HistoryOK, StoreRefreshed
<1>5. PlacesOK'
  BY DEF IInv, AccountsTypeOK, PlacesOK, Unlock, StoreRefreshed
<1>6. FreshOK'
  BY DEF IInv, AccountsTypeOK, FreshOK, Unlock, StoreRefreshed
<1>7. SentOK'
  BY DEF IInv, FreshOK, SentOK, StoreRefreshed
<1>8. QED
  BY <1>1, <1>2, <1>3, <1>4, <1>5, <1>6, <1>7 DEF IInv

\* The answer is lost, or the server refuses.
LEMMA RefreshFailsInductive ==
  ASSUME AccountsAssumption, IInv, NEW p \in Process, RefreshFails(p)
  PROVE  IInv'
<1>1. AccountsTypeOK'
  <2>1. file' \in Token \cup {Nobody} /\ lock' \in Process \cup {Nobody}
    BY DEF IInv, AccountsTypeOK, Unlock, RefreshFails
  <2>2. runtime' \in [Process -> Places] /\ chat' \in [Process -> ChatPlaces]
    BY DEF IInv, AccountsTypeOK, Places, Unlock, RefreshFails
  <2>3. \A q \in Process : lock' = q <=> runtime'[q] \in {"locked", "refreshing", "answered"}
    BY DEF AccountsAssumption, IInv, AccountsTypeOK, Unlock, RefreshFails
  <2>4. token' \in [Process -> Token \cup {Nobody}] /\ login' \in [Process -> Token \cup {Nobody}]
    BY DEF IInv, AccountsTypeOK, Unlock, RefreshFails
  <2>5. port' \in Process \cup {Nobody} /\ issued' \in 1 .. MaxTokens
    BY DEF IInv, AccountsTypeOK, RefreshFails
  <2>6. spent' \subseteq 1 .. MaxTokens /\ unheard' \subseteq 1 .. MaxTokens
    <3>1. /\ refreshed[p] \in 1 .. MaxTokens
          /\ unheard \subseteq 1 .. MaxTokens /\ spent \subseteq 1 .. MaxTokens
      BY DEF IInv, HistoryOK, AccountsTypeOK
    <3>2. UNCHANGED spent /\ unheard' \subseteq unheard \cup {refreshed[p]}
      BY DEF RefreshFails
    <3>3. QED
      BY <3>1, <3>2
  <2>7. QED
    BY <2>1, <2>2, <2>3, <2>4, <2>5, <2>6 DEF AccountsTypeOK, IInv, RefreshFails
<1>2. SentOnce'
  BY DEF IInv, SentOnce, RefreshFails
<1>3. RefreshedIsCurrent'
  BY DEF IInv, RefreshedIsCurrent, Unlock, RefreshFails
<1>4. HistoryOK'
  BY DEF IInv, HistoryOK, RefreshFails
<1>5. PlacesOK'
  BY DEF IInv, AccountsTypeOK, PlacesOK, Unlock, RefreshFails
<1>6. FreshOK'
  BY DEF IInv, AccountsTypeOK, FreshOK, Unlock, RefreshFails
<1>7. SentOK'
  BY DEF IInv, RefreshedIsCurrent, SentOK, RefreshFails
<1>8. QED
  BY <1>1, <1>2, <1>3, <1>4, <1>5, <1>6, <1>7 DEF IInv

\* A sign-in begins.
LEMMA OpenBrowserInductive ==
  ASSUME AccountsAssumption, IInv, NEW p \in Process, OpenBrowser(p)
  PROVE  IInv'
<1>1. AccountsTypeOK'
  BY DEF IInv, AccountsTypeOK, ChatPlaces, oauth, AtChat, OpenBrowser
<1>2. SentOnce'
  BY DEF IInv, SentOnce, oauth, OpenBrowser
<1>3. RefreshedIsCurrent'
  BY DEF IInv, RefreshedIsCurrent, oauth, OpenBrowser
<1>4. HistoryOK'
  BY DEF IInv, HistoryOK, oauth, OpenBrowser
<1>5. PlacesOK'
  BY DEF IInv, PlacesOK, oauth, AtChat, OpenBrowser
<1>6. FreshOK'
  BY DEF IInv, FreshOK, oauth, OpenBrowser
<1>7. SentOK'
  BY DEF IInv, SentOK, Refreshes, oauth, OpenBrowser
<1>8. QED
  BY <1>1, <1>2, <1>3, <1>4, <1>5, <1>6, <1>7 DEF IInv

\* The server gives a sign-in a token that nobody has.
LEMMA AuthorizeInductive ==
  ASSUME AccountsAssumption, IInv, NEW p \in Process, Authorize(p)
  PROVE  IInv'
<1>1. AccountsTypeOK'
  BY DEF AccountsAssumption, IInv, AccountsTypeOK, Token, Authorize
<1>2. SentOnce'
  BY DEF IInv, SentOnce, Authorize
<1>3. RefreshedIsCurrent'
  BY DEF IInv, RefreshedIsCurrent, Authorize
<1>4. HistoryOK'
  BY DEF IInv, AccountsTypeOK, HistoryOK, Authorize
<1>5. PlacesOK'
  BY DEF IInv, PlacesOK, Authorize
<1>6. FreshOK'
  BY DEF IInv, AccountsTypeOK, HistoryOK, PlacesOK, FreshOK, Token, Authorize
<1>7. SentOK'
  BY DEF IInv, SentOK, Refreshes, Authorize
<1>8. QED
  BY <1>1, <1>2, <1>3, <1>4, <1>5, <1>6, <1>7 DEF IInv

\* The sign-in comes back.
LEMMA CompletesInductive ==
  ASSUME AccountsAssumption, IInv, NEW p \in Process, Completes(p)
  PROVE  IInv'
<1>1. AccountsTypeOK'
  BY DEF IInv, AccountsTypeOK, ChatPlaces, oauth, AtChat, Completes
<1>2. SentOnce'
  BY DEF IInv, SentOnce, oauth, Completes
<1>3. RefreshedIsCurrent'
  BY DEF IInv, RefreshedIsCurrent, oauth, Completes
<1>4. HistoryOK'
  BY DEF IInv, HistoryOK, oauth, Completes
<1>5. PlacesOK'
  BY DEF IInv, AccountsTypeOK, PlacesOK, oauth, AtChat, Completes
<1>6. FreshOK'
  BY DEF IInv, FreshOK, oauth, Completes
<1>7. SentOK'
  BY DEF IInv, SentOK, Refreshes, oauth, Completes
<1>8. QED
  BY <1>1, <1>2, <1>3, <1>4, <1>5, <1>6, <1>7 DEF IInv

\* A sign-in is given up.
LEMMA CancelLoginInductive ==
  ASSUME AccountsAssumption, IInv, NEW p \in Process, CancelLogin(p)
  PROVE  IInv'
<1>1. AccountsTypeOK'
  BY DEF IInv, AccountsTypeOK, ChatPlaces, oauth, AtChat, CancelLogin
<1>2. SentOnce'
  BY DEF IInv, SentOnce, oauth, CancelLogin
<1>3. RefreshedIsCurrent'
  BY DEF IInv, RefreshedIsCurrent, oauth, CancelLogin
<1>4. HistoryOK'
  BY DEF IInv, HistoryOK, oauth, CancelLogin
<1>5. PlacesOK'
  BY DEF IInv, PlacesOK, oauth, AtChat, CancelLogin
<1>6. FreshOK'
  BY DEF AccountsAssumption, IInv, FreshOK, oauth, CancelLogin
<1>7. SentOK'
  BY DEF IInv, SentOK, Refreshes, oauth, CancelLogin
<1>8. QED
  BY <1>1, <1>2, <1>3, <1>4, <1>5, <1>6, <1>7 DEF IInv

\* The new sign-in replaces the token, whatever that is.
LEMMA StoreLoginInductive ==
  ASSUME AccountsAssumption, IInv, NEW p \in Process, StoreLogin(p)
  PROVE  IInv'
<1>1. AccountsTypeOK'
  BY DEF IInv, AccountsTypeOK, ChatPlaces, StoreLogin
<1>2. SentOnce'
  BY DEF IInv, SentOnce, StoreLogin
<1>3. RefreshedIsCurrent'
  BY DEF AccountsAssumption, IInv, AccountsTypeOK, RefreshedIsCurrent, MayStore, StoreLogin
<1>4. HistoryOK'
  BY DEF IInv, HistoryOK, StoreLogin
<1>5. PlacesOK'
  BY DEF IInv, AccountsTypeOK, PlacesOK, StoreLogin
<1>6. FreshOK'
  BY DEF AccountsAssumption, IInv, AccountsTypeOK, FreshOK, StoreLogin
<1>7. SentOK'
  BY DEF IInv, FreshOK, SentOK, Refreshes, StoreLogin
<1>8. QED
  BY <1>1, <1>2, <1>3, <1>4, <1>5, <1>6, <1>7 DEF IInv

\* A removal is confirmed.
LEMMA ConfirmInductive ==
  ASSUME AccountsAssumption, IInv, NEW p \in Process, Confirm(p)
  PROVE  IInv'
<1>1. AccountsTypeOK'
  BY DEF IInv, AccountsTypeOK, ChatPlaces, oauth, AtChat, Confirm
<1>2. SentOnce'
  BY DEF IInv, SentOnce, oauth, Confirm
<1>3. RefreshedIsCurrent'
  BY DEF IInv, RefreshedIsCurrent, oauth, Confirm
<1>4. HistoryOK'
  BY DEF IInv, HistoryOK, oauth, Confirm
<1>5. PlacesOK'
  BY DEF IInv, PlacesOK, oauth, AtChat, Confirm
<1>6. FreshOK'
  BY DEF IInv, FreshOK, oauth, Confirm
<1>7. SentOK'
  BY DEF IInv, SentOK, Refreshes, oauth, Confirm
<1>8. QED
  BY <1>1, <1>2, <1>3, <1>4, <1>5, <1>6, <1>7 DEF IInv

\* The runtime is closed before a removal.
LEMMA CloseRuntimeInductive ==
  ASSUME AccountsAssumption, IInv, NEW p \in Process, CloseRuntime(p)
  PROVE  IInv'
<1>1. AccountsTypeOK'
  <2>1. file' \in Token \cup {Nobody} /\ lock' \in Process \cup {Nobody}
    BY DEF IInv, AccountsTypeOK, CloseRuntime
  <2>2. runtime' \in [Process -> Places] /\ chat' \in [Process -> ChatPlaces]
    BY DEF IInv, AccountsTypeOK, Places, ChatPlaces, AtChat, CloseRuntime
  <2>3. \A q \in Process : lock' = q <=> runtime'[q] \in {"locked", "refreshing", "answered"}
    BY DEF AccountsAssumption, IInv, AccountsTypeOK, CloseRuntime
  <2>4. token' \in [Process -> Token \cup {Nobody}] /\ login' \in [Process -> Token \cup {Nobody}]
    BY DEF IInv, AccountsTypeOK, CloseRuntime
  <2>5. port' \in Process \cup {Nobody} /\ issued' \in 1 .. MaxTokens
    BY DEF IInv, AccountsTypeOK, CloseRuntime
  <2>6. spent' \subseteq 1 .. MaxTokens /\ unheard' \subseteq 1 .. MaxTokens
    <3>1. /\ refreshed[p] \in 1 .. MaxTokens
          /\ unheard \subseteq 1 .. MaxTokens /\ spent \subseteq 1 .. MaxTokens
      BY DEF IInv, HistoryOK, AccountsTypeOK
    <3>2. UNCHANGED spent /\ unheard' \subseteq unheard \cup {refreshed[p]}
      BY DEF CloseRuntime
    <3>3. QED
      BY <3>1, <3>2
  <2>7. QED
    BY <2>1, <2>2, <2>3, <2>4, <2>5, <2>6 DEF AccountsTypeOK, IInv, CloseRuntime
<1>2. SentOnce'
  BY DEF IInv, SentOnce, CloseRuntime
<1>3. RefreshedIsCurrent'
  BY DEF IInv, RefreshedIsCurrent, CloseRuntime
<1>4. HistoryOK'
  BY DEF IInv, HistoryOK, CloseRuntime
<1>5. PlacesOK'
  BY DEF IInv, AccountsTypeOK, PlacesOK, AtChat, CloseRuntime
<1>6. FreshOK'
  BY DEF IInv, AccountsTypeOK, FreshOK, CloseRuntime
<1>7. SentOK'
  BY DEF IInv, RefreshedIsCurrent, SentOK, Refreshes, CloseRuntime
<1>8. QED
  BY <1>1, <1>2, <1>3, <1>4, <1>5, <1>6, <1>7 DEF IInv

\* The file goes.
LEMMA RemoveLoginInductive ==
  ASSUME AccountsAssumption, IInv, NEW p \in Process, RemoveLogin(p)
  PROVE  IInv'
<1>1. AccountsTypeOK'
  BY DEF IInv, AccountsTypeOK, ChatPlaces, AtChat, RemoveLogin
<1>2. SentOnce'
  BY DEF IInv, SentOnce, RemoveLogin
<1>3. RefreshedIsCurrent'
  BY DEF AccountsAssumption, IInv, AccountsTypeOK, RefreshedIsCurrent, MayStore, RemoveLogin
<1>4. HistoryOK'
  BY DEF IInv, HistoryOK, RemoveLogin
<1>5. PlacesOK'
  BY DEF IInv, PlacesOK, AtChat, RemoveLogin
<1>6. FreshOK'
  BY DEF AccountsAssumption, IInv, FreshOK, RemoveLogin
<1>7. SentOK'
  BY DEF AccountsAssumption, IInv, SentOK, Refreshes, RemoveLogin
<1>8. QED
  BY <1>1, <1>2, <1>3, <1>4, <1>5, <1>6, <1>7 DEF IInv

\* The runtime is back.
LEMMA ReopenInductive ==
  ASSUME AccountsAssumption, IInv, NEW p \in Process, Reopen(p)
  PROVE  IInv'
<1>1. AccountsTypeOK'
  BY DEF IInv, AccountsTypeOK, PlacesOK, Places, ChatPlaces, AtChat, Reopen
<1>2. SentOnce'
  BY DEF IInv, SentOnce, Reopen
<1>3. RefreshedIsCurrent'
  BY DEF IInv, RefreshedIsCurrent, Reopen
<1>4. HistoryOK'
  BY DEF IInv, HistoryOK, Reopen
<1>5. PlacesOK'
  BY DEF IInv, AccountsTypeOK, PlacesOK, AtChat, Reopen
<1>6. FreshOK'
  BY DEF IInv, FreshOK, Reopen
<1>7. SentOK'
  BY DEF IInv, PlacesOK, SentOK, Refreshes, AtChat, Reopen
<1>8. QED
  BY <1>1, <1>2, <1>3, <1>4, <1>5, <1>6, <1>7 DEF IInv

\* An access token expires.
LEMMA ExpireInductive ==
  ASSUME AccountsAssumption, IInv, Expire
  PROVE  IInv'
<1>1. AccountsTypeOK'
  BY DEF IInv, AccountsTypeOK, Token, Expire
<1>2. SentOnce'
  BY DEF IInv, SentOnce, Expire
<1>3. RefreshedIsCurrent'
  <2>1. file \in Token
    BY DEF Expire, IInv, AccountsTypeOK
  <2>2. file'.n = file.n /\ file' \in Token
    BY <2>1 DEF Expire, Token
  <2>3. file # Nobody /\ file' # Nobody
    BY <2>1, <2>2 DEF AccountsAssumption
  <2>4. QED
    BY <2>2, <2>3 DEF Expire, IInv, RefreshedIsCurrent
<1>4. HistoryOK'
  BY DEF IInv, HistoryOK, Expire
<1>5. PlacesOK'
  BY DEF IInv, PlacesOK, Expire
<1>6. FreshOK'
  BY DEF IInv, AccountsTypeOK, FreshOK, Expire
<1>7. SentOK'
  BY DEF IInv, AccountsTypeOK, SentOK, Refreshes, Expire
<1>8. QED
  BY <1>1, <1>2, <1>3, <1>4, <1>5, <1>6, <1>7 DEF IInv

\* No step breaks the invariant.
LEMMA StepInductive ==
  ASSUME AccountsAssumption, IInv, [AccountsNext]_avars
  PROVE  IInv'
<1>1. CASE Expire
  BY <1>1, ExpireInductive
<1>2. ASSUME NEW p \in Process, RuntimeSteps(p)
      PROVE  IInv'
  BY <1>2, AskInductive, LockInductive, GiveUpInductive, UseTokenInductive,
     BeginRefreshInductive, RotateInductive, StoreRefreshedInductive, RefreshFailsInductive DEF
     RuntimeSteps
<1>3. ASSUME NEW p \in Process, ChatSteps(p)
      PROVE  IInv'
  BY <1>3, OpenBrowserInductive, AuthorizeInductive, CompletesInductive, CancelLoginInductive,
     StoreLoginInductive, ConfirmInductive, CloseRuntimeInductive, RemoveLoginInductive,
     ReopenInductive DEF ChatSteps
<1>4. CASE UNCHANGED avars
  BY <1>4 DEF IInv, AccountsTypeOK, SentOnce, RefreshedIsCurrent, HistoryOK, PlacesOK, FreshOK,
     SentOK, Refreshes, oauth, avars
<1>5. QED
  BY <1>1, <1>2, <1>3, <1>4 DEF AccountsNext

\* The invariant always holds.
THEOREM AlwaysInductive ==
  ASSUME AccountsAssumption
  PROVE  AccountsSpec => []IInv
<1>1. AccountsInit => IInv
  BY InitInductive
<1>2. IInv /\ [AccountsNext]_avars => IInv'
  BY StepInductive
<1>3. QED
  BY <1>1, <1>2, PTL DEF AccountsSpec

\* AccountsSafe: no refresh token is sent twice unless its first answer was lost, a
\* refreshed token replaces only the token it refreshed, and a login is removed with
\* the own runtime out of the way, whatever processes share the files (oauth.rs).
THEOREM AccountsAlwaysSafe ==
  ASSUME AccountsAssumption
  PROVE  AccountsSpec => []AccountsSafe
<1>1. ASSUME IInv PROVE AccountsSafe
  <2>1. RemovalUnhindered
    BY <1>1 DEF IInv, AccountsTypeOK, PlacesOK, RemovalUnhindered
  <2>2. QED
    BY <1>1, <2>1 DEF IInv, AccountsSafe
<1>2. QED
  BY <1>1, AlwaysInductive, PTL

\* AccountStays: only a sign-in changes the account ("Codex refresh changed account
\* identity", oauth.rs).
THEOREM AccountAlwaysStays ==
  ASSUME AccountsAssumption
  PROVE  AccountsSpec => [][AccountStays]_avars
<1>1. ASSUME IInv, AccountsNext
      PROVE  AccountStays
  <2>1. CASE Expire
    <3>1. file \in Token
      BY <1>1, <2>1 DEF Expire, IInv, AccountsTypeOK
    <3>2. file'.account = file.account
      BY <2>1, <3>1 DEF Expire, Token
    <3>3. QED
      BY <3>2 DEF AccountStays
  <2>2. ASSUME NEW p \in Process, RuntimeSteps(p)
        PROVE  UNCHANGED file \/ file'.account = file.account
    BY <2>2 DEF RuntimeSteps, Ask, Lock, GiveUp, UseToken, BeginRefresh, Rotate, StoreRefreshed,
       RefreshFails
  <2>3. ASSUME NEW p \in Process, StoreLogin(p)
        PROVE  UNCHANGED file \/ login' # login
    <3>1. login[p] \in Token /\ login \in [Process -> Token \cup {Nobody}]
      BY <1>1, <2>3 DEF StoreLogin, IInv, PlacesOK, AccountsTypeOK
    <3>2. login'[p] = Nobody
      BY <2>3, <3>1 DEF StoreLogin
    <3>3. QED
      BY <3>1, <3>2 DEF AccountsAssumption
  <2>4. ASSUME NEW p \in Process, ChatSteps(p), ~StoreLogin(p)
        PROVE  UNCHANGED file \/ file' = Nobody
    BY <2>4 DEF ChatSteps, oauth, OpenBrowser, Authorize, Completes, CancelLogin, Confirm,
       CloseRuntime, RemoveLogin, Reopen
  <2>5. QED
    BY <1>1, <2>1, <2>2, <2>3, <2>4 DEF AccountsNext, AccountStays
<1>2. IInv /\ [AccountsNext]_avars => [AccountStays]_avars
  BY <1>1
<1>3. QED
  BY <1>2, AlwaysInductive, PTL DEF AccountsSpec
=============================================================================
